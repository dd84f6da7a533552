------------------------------ MODULE Discovery ------------------------------
(***************************************************************************)
(* process_find_by_module: src/src/process/service.rs, with the matcher    *)
(* and the enumeration of src/src/platform/windows.                        *)
(*                                                                         *)
(* The call takes one snapshot of the process table and then looks into    *)
(* one process after the other, while processes start, exit, load modules  *)
(* and take over pids that became free.  A process is looked into with     *)
(* toolhelp first and, if that fails, with psapi.                          *)
(*                                                                         *)
(* A pattern is the set of modules whose name or path contains it; the     *)
(* empty set stands for one that trims to nothing, which from_raw drops.   *)
(***************************************************************************)
EXTENDS Naturals, Sequences, FiniteSets

CONSTANTS
  Pids,        \* process ids
  SystemPids,  \* 0 and 4
  Modules,     \* what a process may load
  Requests,    \* the lists of patterns a caller may give
  MaxStarts,   \* bound: processes started during the call
  ApiErrors    \* may a Windows call fail for no reason

ASSUME PidsAssumption == IsFiniteSet(Pids) /\ SystemPids \subseteq Pids
ASSUME RequestsAssumption == Requests \subseteq Seq(SUBSET Modules)
ASSUME BoundAssumption == MaxStarts \in Nat /\ ApiErrors \in BOOLEAN

VARIABLES
  table,    \* for each pid the process that has it, if any
  starts,   \* how many processes were started
  patterns, \* the patterns of the call, in order
  scan,     \* where find_processes_by_module is
  listed,   \* enum_processes: the process it saw under each pid
  rest,     \* the pids it still has to look into
  current,  \* the pid it looks into
  found,    \* the modules of that process that matched
  matches,  \* FindResult.matches
  skipped,  \* FindResult.skipped_processes
  due       \* ghost: the listed pids whose process is still there, had a module
            \* that matches all the time, and was not enumerated in part

system == <<table, starts>>
answer == <<matches, skipped>>
vars == <<system, patterns, scan, listed, rest, current, found, answer, due>>

-----------------------------------------------------------------------------
NoProcess == [id |-> 0, modules |-> {}, protected |-> FALSE]

Alive(pid) == table[pid].id > 0

\* ModuleMatcher::from_raw.
Usable == {i \in DOMAIN patterns : patterns[i] # {}}

\* first_match, which does not ask for more than one pattern.
FirstMatch(m) ==
  LET hits == {i \in Usable : m \in patterns[i]}
  IN IF hits = {} THEN 0 ELSE CHOOSE i \in hits : \A j \in hits : i <= j

Matching(modules) == {m \in modules : FirstMatch(m) > 0}

Init ==
  /\ \E running \in SUBSET Pids, protected \in SUBSET Pids :
       \E modules \in [Pids -> SUBSET Modules] :
         table = [p \in Pids |->
                    IF p \in running
                      THEN [id |-> 1, modules |-> modules[p],
                            protected |-> p \in protected]
                      ELSE NoProcess]
  /\ starts = 1
  /\ patterns \in Requests
  /\ scan = "called" /\ listed = [p \in Pids |-> 0]
  /\ rest = {} /\ current = 0 /\ found = {}
  /\ matches = {} /\ skipped = {} /\ due = {}

-----------------------------------------------------------------------------
(* The system, external to the program.                                    *)

Start(pid, modules) ==
  /\ ~Alive(pid) /\ starts <= MaxStarts
  /\ starts' = starts + 1
  /\ table' = [table EXCEPT ![pid] = [id |-> starts + 1, modules |-> modules,
                                      protected |-> FALSE]]

Exit(pid) ==
  /\ Alive(pid)
  /\ table' = [table EXCEPT ![pid] = NoProcess]
  /\ UNCHANGED starts

LoadOrUnload(pid, m) ==
  /\ Alive(pid)
  /\ table' = [table EXCEPT ![pid].modules =
                 IF m \in @ THEN @ \ {m} ELSE @ \cup {m}]
  /\ UNCHANGED starts

\* Only what happens during the call matters.
SystemMoves ==
  /\ scan \notin {"called", "failed", "done"}
  /\ \E pid \in Pids :
       \/ \E modules \in SUBSET Modules : Start(pid, modules)
       \/ Exit(pid)
       \/ \E m \in Modules : LoadOrUnload(pid, m)
  /\ due' = {p \in due : table'[p].id = listed[p] /\ Matching(table'[p].modules) # {}}
  /\ UNCHANGED <<patterns, scan, listed, rest, current, found, answer>>

-----------------------------------------------------------------------------
\* enum_processes; without patterns that is all.  Process32FirstW and
\* Process32NextW end the list when they fail.
Snapshot ==
  /\ scan = "called"
  /\ \E seen \in SUBSET {p \in Pids : Alive(p)} :
       /\ ApiErrors \/ \A p \in Pids : Alive(p) => p \in seen
       /\ listed' = [p \in Pids |-> IF p \in seen THEN table[p].id ELSE 0]
       /\ IF Usable = {}
            THEN scan' = "done" /\ rest' = {} /\ due' = {}
            ELSE /\ scan' = "next"
                 /\ rest' = seen \ SystemPids
                 /\ due' = {p \in seen : Matching(table[p].modules) # {}}
  /\ UNCHANGED <<system, patterns, current, found, answer>>

\* The toolhelp snapshot fails.
EnumProcessesFails ==
  /\ scan = "called" /\ ApiErrors
  /\ scan' = "failed"
  /\ UNCHANGED <<system, patterns, listed, rest, current, found, answer, due>>

NextProcess(pid) ==
  /\ scan = "next" /\ pid \in rest
  /\ scan' = "toolhelp" /\ current' = pid
  /\ rest' = rest \ {pid}
  /\ UNCHANGED <<system, patterns, listed, found, answer, due>>

\* The three outcomes of an enumeration of the current process.
EnumWorks(from) == scan = from /\ Alive(current) /\ ~table[current].protected
EnumDenied(from) == scan = from /\ Alive(current) /\ table[current].protected
EnumFails(from) == scan = from /\ (~Alive(current) \/ ApiErrors)

Advance(to) ==
  /\ scan' = to
  /\ UNCHANGED <<system, patterns, listed, rest, current, matches>>

Skip(kind) ==
  /\ Advance("next")
  /\ skipped' = skipped \cup {[pid |-> current, kind |-> kind]}
  /\ UNCHANGED <<found, due>>

\* The modules are matched; a process without a match is passed over.
Match(modules) ==
  /\ found' = Matching(modules)
  /\ Advance(IF found' = {} THEN "next" ELSE "matched")
  /\ UNCHANGED skipped

\* Module32FirstW and Module32NextW end the list when they fail; psapi leaves
\* out a module whose file name it cannot read.
ListModules(from) ==
  /\ EnumWorks(from)
  /\ \/ Match(table[current].modules) /\ UNCHANGED due
     \/ /\ ApiErrors /\ due' = due \ {current}
        /\ \E part \in SUBSET table[current].modules : Match(part)

ToolhelpWorks == ListModules("toolhelp")

ToolhelpDenied == EnumDenied("toolhelp") /\ Skip("access_denied")

\* Mutant of ToolhelpFails: psapi is not tried, and there are no modules.
ToolhelpFailsForGood == EnumFails("toolhelp") /\ Match({}) /\ UNCHANGED due

ToolhelpFails ==
  EnumFails("toolhelp") /\ Advance("psapi") /\ UNCHANGED <<found, skipped, due>>

PsapiWorks == ListModules("psapi")

PsapiDenied == EnumDenied("psapi") /\ Skip("access_denied")

\* Mutant of PsapiFails: any error counts as a lack of permission.
PsapiFailsDenied == EnumFails("psapi") /\ Skip("access_denied")

PsapiFails == EnumFails("psapi") /\ Skip("enumeration_failed")

\* The match has the name from the snapshot; the path of the image is looked up
\* now, under the pid.
ReportMatch ==
  /\ scan = "matched" /\ scan' = "next"
  /\ \E path \in {table[current].id} \cup (IF ApiErrors THEN {0} ELSE {}) :
       matches' = matches \cup
         {[pid |-> current, name |-> listed[current], path |-> path,
           modules |-> {[module |-> m, pattern |-> FirstMatch(m)] : m \in found}]}
  /\ found' = {}
  /\ UNCHANGED <<system, patterns, listed, rest, current, skipped, due>>

Finish ==
  /\ scan = "next" /\ rest = {}
  /\ scan' = "done"
  /\ UNCHANGED <<system, patterns, listed, rest, current, found, answer, due>>

Find ==
  \/ Snapshot \/ EnumProcessesFails \/ \E pid \in Pids : NextProcess(pid)
  \/ ToolhelpWorks \/ ToolhelpDenied \/ ToolhelpFails
  \/ PsapiWorks \/ PsapiDenied \/ PsapiFails
  \/ ReportMatch \/ Finish

Next == Find \/ SystemMoves

Spec == Init /\ [][Next]_vars

-----------------------------------------------------------------------------
\* Types of all variables; the kinds of skip are the two that SkipReason has.
TypeOK ==
  /\ table \in [Pids -> [id : Nat, modules : SUBSET Modules, protected : BOOLEAN]]
  /\ starts \in Nat /\ patterns \in Requests
  /\ scan \in {"called", "failed", "next", "toolhelp", "psapi", "matched", "done"}
  /\ listed \in [Pids -> Nat] /\ rest \subseteq Pids
  /\ current \in Pids \cup {0} /\ found \subseteq Modules
  /\ \A m \in matches : m.pid \in Pids /\ m.modules # {}
  /\ \A s \in skipped : s.pid \in Pids
                       /\ s.kind \in {"access_denied", "enumeration_failed"}
  /\ due \subseteq Pids

\* A process that was there all the time with a module that matches is in the
\* answer, as a match or as skipped, whatever failed while others came and went
\* (unless Windows cut the list of processes or of its modules short).
NoMatchMissed ==
  scan = "done" =>
    due \ SystemPids \subseteq {m.pid : m \in matches} \cup {s.pid : s \in skipped}

\* What the answer says of a pid fits the process that was listed under it, if
\* that is still there: only a protected one was denied, only another one
\* matched, with the path of its own image, and not both.
VerdictFitsProcess ==
  \A pid \in Pids : (Alive(pid) /\ table[pid].id = listed[pid]) =>
    /\ \A s \in skipped :
         s = [pid |-> pid, kind |-> "access_denied"] => table[pid].protected
    /\ \A m \in matches : m.pid = pid =>
         /\ ~table[pid].protected /\ m.path \in {0, m.name}
         /\ pid \notin {s.pid : s \in skipped}
=============================================================================
