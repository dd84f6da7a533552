--------------------------- MODULE Discovery_proofs ---------------------------
(***************************************************************************)
(* Proofs about Discovery, for any table of processes, any patterns and any*)
(* number of processes that start during the call: no match is missed, and *)
(* what is said of a pid fits the process that was listed under it.        *)
(*                                                                         *)
(* A process is told from a later one under the same pid by its id: ids    *)
(* only grow, so that a pid that still has the id it was listed with was   *)
(* never given away.                                                       *)
(***************************************************************************)
EXTENDS Discovery, TLAPS

Processes == [id : Nat, modules : SUBSET Modules, protected : BOOLEAN]

Scanning == scan \in {"toolhelp", "psapi", "matched"}

\* Is there a verdict on p.
Told(p) == (\E m \in matches : m.pid = p) \/ (\E s \in skipped : s.pid = p)

Same(p) == Alive(p) /\ table[p].id = listed[p]

IdInv == \A p \in Pids : table[p].id <= starts /\ listed[p] <= starts

\* Each listed pid waits, is looked into, or has one verdict.
ScanInv ==
  /\ scan \in {"called", "failed"} => matches = {} /\ skipped = {}
  /\ Scanning => current \in Pids /\ current \notin rest /\ ~Told(current)
  /\ \A p \in rest : ~Told(p)
  /\ scan \in {"called", "done"} => rest = {}
  /\ scan = "matched" => found # {}

\* A pid that is due is not forgotten on the way.
DueInv ==
  /\ \A p \in due : Matching(table[p].modules) # {}
  /\ scan \notin {"called", "failed"} =>
       \A p \in due \ SystemPids : p \in rest \/ Told(p) \/ (Scanning /\ p = current)

VerdictInv ==
  /\ VerdictFitsProcess
  /\ scan = "matched" /\ Same(current) => ~table[current].protected

Inv == TypeOK /\ IdInv /\ ScanInv /\ DueInv /\ VerdictInv

LEMMA MatchingIsPart == ASSUME NEW modules PROVE Matching(modules) \subseteq modules
BY DEF Matching

LEMMA InitInv == Init => Inv
<1> SUFFICES ASSUME Init PROVE Inv
  OBVIOUS
<1>1. PICK running \in SUBSET Pids, protected \in SUBSET Pids :
        \E modules \in [Pids -> SUBSET Modules] :
          table = [p \in Pids |->
                     IF p \in running
                       THEN [id |-> 1, modules |-> modules[p],
                             protected |-> p \in protected]
                       ELSE NoProcess]
  BY DEF Init
<1>2. PICK modules \in [Pids -> SUBSET Modules] :
        table = [p \in Pids |->
                   IF p \in running
                     THEN [id |-> 1, modules |-> modules[p],
                           protected |-> p \in protected]
                     ELSE NoProcess]
  BY <1>1
<1>3. \A p \in Pids : table[p] \in Processes /\ table[p].id \in {0, 1}
  BY <1>2 DEF NoProcess, Processes
<1>4. table \in [Pids -> Processes]
  BY <1>2, <1>3
<1>5. TypeOK
  BY <1>4 DEF Init, TypeOK, Processes
<1>6. IdInv
  <2>1. starts = 1 /\ \A p \in Pids : listed[p] = 0
    BY DEF Init
  <2> QED
    BY <1>3, <2>1 DEF IdInv
<1>7. ScanInv /\ DueInv /\ VerdictInv
  BY DEF Init, ScanInv, DueInv, VerdictInv, VerdictFitsProcess, Scanning, Told
<1> QED
  BY <1>5, <1>6, <1>7 DEF Inv

\* What the system does under a pid: the process stays what it is, or has gone.
LEMMA SystemOfPids ==
  ASSUME Inv, SystemMoves
  PROVE  /\ table' \in [Pids -> Processes] /\ starts' \in Nat /\ starts <= starts'
         /\ \A p \in Pids : table'[p].id <= starts'
         /\ \A p \in Pids :
              (table'[p].id > 0 /\ table'[p].id = listed[p])
              => table'[p].id = table[p].id /\ table'[p].protected = table[p].protected
<1>0. /\ table \in [Pids -> Processes] /\ starts \in Nat /\ listed \in [Pids -> Nat]
      /\ \A p \in Pids : table[p].id <= starts /\ listed[p] <= starts
  BY DEF Inv, TypeOK, IdInv, Processes
<1>1. PICK pid \in Pids :
        \/ \E modules \in SUBSET Modules : Start(pid, modules)
        \/ Exit(pid)
        \/ \E m \in Modules : LoadOrUnload(pid, m)
  BY DEF SystemMoves
<1>2. CASE \E modules \in SUBSET Modules : Start(pid, modules)
  <2>1. PICK new \in SUBSET Modules : Start(pid, new)
    BY <1>2
  <2>2. /\ starts' = starts + 1
        /\ table' = [table EXCEPT ![pid] = [id |-> starts + 1, modules |-> new,
                                           protected |-> FALSE]]
    BY <2>1 DEF Start
  <2>3. [id |-> starts + 1, modules |-> new, protected |-> FALSE] \in Processes
    BY <1>0 DEF Processes
  <2>4. /\ table'[pid].id = starts + 1
        /\ \A p \in Pids \ {pid} : table'[p] = table[p]
    BY <1>0, <2>2
  <2>5. table' \in [Pids -> Processes]
    BY <1>0, <2>2, <2>3
  <2>6. \A p \in Pids : table[p].id \in Nat
    BY <1>0 DEF Processes
  <2>7. /\ starts' \in Nat /\ starts <= starts'
        /\ \A p \in Pids : table'[p].id <= starts' /\ listed[p] # starts + 1
    BY <1>0, <2>2, <2>4, <2>6
  <2> QED
    BY <2>4, <2>5, <2>7
<1>3. CASE Exit(pid)
  <2>1. starts' = starts /\ table' = [table EXCEPT ![pid] = NoProcess]
    BY <1>3 DEF Exit
  <2>2. NoProcess \in Processes /\ NoProcess.id = 0
    BY DEF Processes, NoProcess
  <2> QED
    BY <1>0, <2>1, <2>2
<1>4. CASE \E m \in Modules : LoadOrUnload(pid, m)
  <2>1. PICK m \in Modules : LoadOrUnload(pid, m)
    BY <1>4
  <2>2. PICK new \in SUBSET Modules : table' = [table EXCEPT ![pid].modules = new]
    <3>1. table[pid].modules \in SUBSET Modules
      BY <1>0 DEF Processes
    <3> QED
      BY <2>1, <3>1 DEF LoadOrUnload
  <2>3. starts' = starts
    BY <2>1 DEF LoadOrUnload
  <2> QED
    BY <1>0, <2>2, <2>3 DEF Processes
<1> QED
  BY <1>1, <1>2, <1>3, <1>4

LEMMA SystemKeepsInv == ASSUME Inv, SystemMoves PROVE Inv'
<1>1. /\ UNCHANGED <<patterns, scan, listed, rest, current, found, matches, skipped>>
      /\ due' = {p \in due : table'[p].id = listed[p] /\ Matching(table'[p].modules) # {}}
      /\ scan \notin {"called", "failed", "done"}
  BY DEF SystemMoves, answer
<1>2. TypeOK'
  BY <1>1, SystemOfPids DEF Inv, TypeOK, Processes
<1>3. IdInv'
  BY <1>1, SystemOfPids DEF Inv, TypeOK, IdInv
<1>4. ScanInv'
  BY <1>1 DEF Inv, ScanInv, Scanning, Told
<1>5. DueInv'
  <2>1. \A modules : Matching(modules)' = {m \in modules' : FirstMatch(m)' > 0}
    BY DEF Matching
  <2>2. \A m : FirstMatch(m)' = FirstMatch(m)
    BY <1>1 DEF FirstMatch, Usable
  <2>3. \A p \in due' : Matching(table[p].modules)' # {}
    BY <1>1, <2>1, <2>2 DEF Matching
  <2> QED
    BY <1>1, <2>3 DEF Inv, DueInv, Scanning, Told
<1>6. VerdictInv'
  BY <1>1, SystemOfPids
     DEF Inv, ScanInv, Scanning, VerdictInv, VerdictFitsProcess, Same, Alive
<1> QED
  BY <1>2, <1>3, <1>4, <1>5, <1>6 DEF Inv

LEMMA FindKeepsIds == ASSUME Inv, Find PROVE IdInv' /\ UNCHANGED system
<1>1. UNCHANGED system
  BY DEF Find, Snapshot, EnumProcessesFails, NextProcess, ToolhelpWorks, ToolhelpDenied,
         ToolhelpFails, PsapiWorks, PsapiDenied, PsapiFails, ListModules, Skip, Match,
         Advance, ReportMatch, Finish
<1>2. listed' = listed \/ \A p \in Pids : listed'[p] \in {0, table[p].id}
  BY DEF Find, Snapshot, EnumProcessesFails, NextProcess, ToolhelpWorks, ToolhelpDenied,
         ToolhelpFails, PsapiWorks, PsapiDenied, PsapiFails, ListModules, Skip, Match,
         Advance, ReportMatch, Finish
<1> QED
  BY <1>1, <1>2 DEF Inv, TypeOK, IdInv, system

\* What stays during the scan keeps what is due matching.
LEMMA DueStays ==
  ASSUME Inv, UNCHANGED <<table, patterns>>, due' \subseteq due
  PROVE  \A p \in due' : Matching(table[p].modules)' # {}
BY DEF Inv, DueInv, Matching, FirstMatch, Usable

LEMMA SnapshotKeepsInv ==
  ASSUME Inv, Snapshot \/ EnumProcessesFails PROVE Inv'
<1>1. CASE EnumProcessesFails
  <2>1. /\ UNCHANGED <<table, starts, patterns, listed, rest, current, found, due>>
        /\ UNCHANGED <<matches, skipped>> /\ matches = {} /\ skipped = {}
        /\ scan' = "failed" /\ scan = "called"
    BY <1>1 DEF EnumProcessesFails, Inv, ScanInv, system, answer
  <2>2. TypeOK' /\ IdInv'
    BY <2>1 DEF Inv, TypeOK, IdInv
  <2>3. ScanInv'
    BY <2>1 DEF Inv, ScanInv, Scanning, Told
  <2>4. DueInv'
    BY <2>1, DueStays DEF Inv, DueInv
  <2>5. VerdictInv'
    BY <2>1 DEF VerdictInv, VerdictFitsProcess
  <2> QED
    BY <2>2, <2>3, <2>4, <2>5 DEF Inv
<1>2. CASE Snapshot
  <2>1. PICK seen \in SUBSET {p \in Pids : Alive(p)} :
          /\ listed' = [p \in Pids |-> IF p \in seen THEN table[p].id ELSE 0]
          /\ \/ scan' = "done" /\ rest' = {} /\ due' = {}
             \/ /\ scan' = "next" /\ rest' = seen \ SystemPids
                /\ due' = {p \in seen : Matching(table[p].modules) # {}}
    BY <1>2 DEF Snapshot
  <2>2. /\ UNCHANGED <<table, starts, patterns, current, found, matches, skipped>>
        /\ matches = {} /\ skipped = {}
    BY <1>2 DEF Snapshot, Inv, ScanInv, system, answer
  <2>3. TypeOK'
    <3>1. listed' \in [Pids -> Nat]
      BY <2>1 DEF Inv, TypeOK
    <3> QED
      BY <2>1, <2>2, <3>1 DEF Inv, TypeOK
  <2>4. ScanInv'
    BY <2>1, <2>2 DEF ScanInv, Scanning, Told
  <2>5. DueInv'
    BY <2>1, <2>2 DEF DueInv, Scanning, Told, Matching, FirstMatch, Usable
  <2>6. VerdictInv'
    BY <2>1, <2>2 DEF VerdictInv, VerdictFitsProcess
  <2> QED
    BY <1>2, <2>3, <2>4, <2>5, <2>6, FindKeepsIds DEF Inv, Find
<1> QED
  BY <1>1, <1>2

LEMMA NextKeepsInv ==
  ASSUME Inv, (\E pid \in Pids : NextProcess(pid)) \/ Finish PROVE Inv'
<1>1. /\ UNCHANGED <<table, starts, patterns, listed, found, matches, skipped, due>>
      /\ scan = "next"
      /\ \/ scan' = "done" /\ rest = {} /\ UNCHANGED <<rest, current>>
         \/ scan' = "toolhelp" /\ current' \in rest /\ rest' = rest \ {current'}
  BY DEF NextProcess, Finish, system, answer
<1>2. TypeOK' /\ IdInv'
  BY <1>1 DEF Inv, TypeOK, IdInv
<1>3. ScanInv'
  BY <1>1 DEF Inv, TypeOK, ScanInv, Scanning, Told
<1>4. DueInv'
  BY <1>1, DueStays DEF Inv, DueInv, Scanning, Told
<1>5. VerdictInv'
  BY <1>1 DEF Inv, VerdictInv, VerdictFitsProcess, Same, Alive
<1> QED
  BY <1>2, <1>3, <1>4, <1>5 DEF Inv

\* A process that is denied is protected; one that fails says nothing.
LEMMA SkipKeepsInv ==
  ASSUME Inv, NEW kind \in {"access_denied", "enumeration_failed"}, Skip(kind),
         scan \in {"toolhelp", "psapi"},
         kind = "access_denied" => table[current].protected
  PROVE  Inv'
<1>1. /\ UNCHANGED <<table, starts, patterns, listed, rest, current, matches, found, due>>
      /\ scan' = "next"
      /\ skipped' = skipped \cup {[pid |-> current, kind |-> kind]}
      /\ current \in Pids /\ current \notin rest /\ ~Told(current)
  BY DEF Skip, Advance, system, Inv, ScanInv, Scanning
<1>2. \A p : Told(p)' <=> Told(p) \/ p = current
  <2> DEFINE new == [pid |-> current, kind |-> kind]
  <2>1. skipped' = skipped \cup {new} /\ new.pid = current /\ matches' = matches
    BY <1>1
  <2> HIDE DEF new
  <2> QED
    BY <2>1 DEF Told
<1>3. TypeOK' /\ IdInv'
  BY <1>1 DEF Inv, TypeOK, IdInv
<1>4. ScanInv'
  BY <1>1, <1>2 DEF Inv, ScanInv, Scanning
<1>5. DueInv'
  BY <1>1, <1>2, DueStays DEF Inv, DueInv, Scanning
<1>6. VerdictInv'
  BY <1>1 DEF Inv, VerdictInv, VerdictFitsProcess, Told, Alive
<1> QED
  BY <1>3, <1>4, <1>5, <1>6 DEF Inv

\* Modules are only listed of a process that is not protected; what is due has
\* one that matches.
LEMMA MatchKeepsInv ==
  ASSUME Inv, NEW modules \in SUBSET Modules, Match(modules),
         scan \in {"toolhelp", "psapi"}, ~table[current].protected,
         due' \subseteq due,
         current \in due' => modules = table[current].modules
  PROVE  Inv'
<1>1. /\ UNCHANGED <<table, starts, patterns, listed, rest, current, matches, skipped>>
      /\ found' = Matching(modules) /\ found' \subseteq modules
      /\ scan' = IF found' = {} THEN "next" ELSE "matched"
      /\ current \in Pids /\ current \notin rest /\ ~Told(current)
  BY MatchingIsPart DEF Match, Advance, system, Inv, ScanInv, Scanning
<1>2. TypeOK' /\ IdInv'
  BY <1>1 DEF Inv, TypeOK, IdInv
<1>3. ScanInv'
  BY <1>1 DEF Inv, ScanInv, Scanning, Told
<1>4. DueInv'
  <2>1. current \in due' => scan' = "matched"
    BY <1>1 DEF Inv, DueInv
  <2> QED
    BY <1>1, <2>1, DueStays DEF Inv, DueInv, Scanning, Told
<1>5. VerdictInv'
  BY <1>1 DEF Inv, VerdictInv, VerdictFitsProcess, Same, Alive
<1> QED
  BY <1>2, <1>3, <1>4, <1>5 DEF Inv

LEMMA ListKeepsInv ==
  ASSUME Inv, NEW from \in {"toolhelp", "psapi"}, ListModules(from) PROVE Inv'
<1>1. scan = from /\ ~table[current].protected /\ current \in Pids
  BY DEF ListModules, EnumWorks, Inv, ScanInv, Scanning
<1>2. table[current].modules \subseteq Modules
  BY <1>1 DEF Inv, TypeOK
<1>3. CASE Match(table[current].modules) /\ UNCHANGED due
  BY <1>1, <1>2, <1>3, MatchKeepsInv
<1>4. CASE /\ due' = due \ {current}
           /\ \E part \in SUBSET table[current].modules : Match(part)
  BY <1>1, <1>2, <1>4, MatchKeepsInv
<1> QED
  BY <1>3, <1>4 DEF ListModules

LEMMA FailsKeepsInv == ASSUME Inv, ToolhelpFails PROVE Inv'
<1>1. /\ UNCHANGED <<table, starts, patterns, listed, rest, current, matches, skipped,
                      found, due>>
      /\ scan = "toolhelp" /\ scan' = "psapi"
  BY DEF ToolhelpFails, EnumFails, Advance, system
<1>2. TypeOK' /\ IdInv'
  BY <1>1 DEF Inv, TypeOK, IdInv
<1>3. ScanInv'
  BY <1>1 DEF Inv, ScanInv, Scanning, Told
<1>4. DueInv'
  BY <1>1, DueStays DEF Inv, DueInv, Scanning, Told
<1>5. VerdictInv'
  BY <1>1 DEF Inv, VerdictInv, VerdictFitsProcess, Same, Alive
<1> QED
  BY <1>2, <1>3, <1>4, <1>5 DEF Inv

LEMMA ReportKeepsInv == ASSUME Inv, ReportMatch PROVE Inv'
<1>1. PICK path \in {table[current].id, 0} :
        matches' = matches \cup
          {[pid |-> current, name |-> listed[current], path |-> path,
            modules |-> {[module |-> m, pattern |-> FirstMatch(m)] : m \in found}]}
  BY DEF ReportMatch
<1> DEFINE new == [pid |-> current, name |-> listed[current], path |-> path,
                   modules |-> {[module |-> m, pattern |-> FirstMatch(m)] : m \in found}]
<1>2. /\ UNCHANGED <<table, starts, patterns, listed, rest, current, skipped, due>>
      /\ scan = "matched" /\ scan' = "next" /\ found' = {} /\ found # {}
      /\ current \in Pids /\ current \notin rest /\ ~Told(current)
  BY DEF ReportMatch, system, Inv, ScanInv, Scanning
<1>3. /\ matches' = matches \cup {new} /\ new.pid = current /\ new.name = listed[current]
      /\ new.path = path /\ new.modules # {}
  BY <1>1, <1>2
<1> HIDE DEF new
<1>4. \A p : Told(p)' <=> Told(p) \/ p = current
  BY <1>2, <1>3 DEF Told
<1>5. TypeOK' /\ IdInv'
  BY <1>2, <1>3 DEF Inv, TypeOK, IdInv
<1>6. ScanInv'
  BY <1>2, <1>4 DEF Inv, ScanInv, Scanning
<1>7. DueInv'
  BY <1>2, <1>4, DueStays DEF Inv, DueInv, Scanning
<1>8. VerdictInv'
  BY <1>2, <1>3 DEF Inv, VerdictInv, VerdictFitsProcess, Told, Same, Alive
<1> QED
  BY <1>5, <1>6, <1>7, <1>8 DEF Inv

LEMMA Invariant == Spec => []Inv
<1>1. Inv /\ [Next]_vars => Inv'
  <2> SUFFICES ASSUME Inv, [Next]_vars PROVE Inv'
    OBVIOUS
  <2>1. CASE ToolhelpDenied \/ PsapiDenied \/ PsapiFails
    BY <2>1, SkipKeepsInv
       DEF ToolhelpDenied, PsapiDenied, PsapiFails, EnumDenied, EnumFails
  <2>2. CASE ToolhelpWorks \/ PsapiWorks
    BY <2>2, ListKeepsInv DEF ToolhelpWorks, PsapiWorks
  <2>3. CASE UNCHANGED vars
    <3>1. /\ UNCHANGED <<table, starts, patterns, scan, listed, rest, current, found>>
          /\ UNCHANGED <<matches, skipped, due>>
      BY <2>3 DEF vars, system, answer
    <3>2. TypeOK' /\ IdInv' /\ ScanInv'
      BY <3>1 DEF Inv, TypeOK, IdInv, ScanInv, Scanning, Told
    <3>3. DueInv' /\ VerdictInv'
      BY <3>1, DueStays
         DEF Inv, DueInv, VerdictInv, VerdictFitsProcess, Same, Alive, Scanning, Told
    <3> QED
      BY <3>2, <3>3 DEF Inv
  <2> QED
    BY <2>1, <2>2, <2>3, SnapshotKeepsInv, NextKeepsInv, FailsKeepsInv, ReportKeepsInv,
       SystemKeepsInv
       DEF Next, Find
<1> QED
  BY <1>1, InitInv, PTL DEF Spec

\* Every variable keeps its type, and only the two kinds of skip are given.
THEOREM DiscoveryTypes == Spec => []TypeOK
<1>1. Inv => TypeOK
  BY DEF Inv
<1> QED
  BY <1>1, Invariant, PTL

\* No process that was there all the time with a module that matches is left out
\* of the answer, whatever else fails or happens.
THEOREM NoneIsMissed == Spec => []NoMatchMissed
<1>1. Inv => NoMatchMissed
  BY DEF Inv, ScanInv, DueInv, Scanning, Told, NoMatchMissed
<1> QED
  BY <1>1, Invariant, PTL

\* What the answer says of a pid fits the process that was listed under it.
THEOREM VerdictsFit == Spec => []VerdictFitsProcess
<1>1. Inv => VerdictFitsProcess
  BY DEF Inv, VerdictInv
<1> QED
  BY <1>1, Invariant, PTL
===============================================================================
