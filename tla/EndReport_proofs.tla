--------------------------- MODULE EndReport_proofs ---------------------------
(***************************************************************************)
(* Proofs about EndReport, for any number of readers: what a reader is told*)
(* about the end of a session, although the fields are written and read    *)
(* one by one.                                                             *)
(***************************************************************************)
EXTENDS EndReport, TLAPS

AfterState == {"error", "status", "listed"}

\* Who is told Stopped has read it after the actor wrote it.
StoppedInv ==
  /\ state = "Stopped" => actor \in {"quoting", "gone"}
  /\ \A r \in Readers : /\ reader[r] # "new" => spawner = "ok"
                        /\ reader[r] \in AfterState /\ report[r].state = "Stopped"
                           => actor \in {"quoting", "gone"}

\* What the actor writes before it writes Stopped stays, whatever comes after.
ReasonInv ==
  /\ how \in {"exit", "stop"} => exitStatus
  /\ how = "wait error" =>
       lastError = "wait" \/ (lastError = "spawn" /\ spawner = "failed")
  /\ actor \in {"exited", "quoting"} => how \in {"exit", "wait error", "streams closed"}
  /\ actor = "stopped" => how \in {"stop", "stop failed"}
  /\ state = "Executing" => spawner = "ok"

\* What has been read by a reader that was told Stopped.
ReadInv ==
  \A r \in Readers :
    (reader[r] \in {"status", "listed"} /\ report[r].state = "Stopped")
    => /\ how = "wait error" => report[r].lastError = "wait"
       /\ reader[r] = "listed" /\ how \in {"exit", "stop"} => report[r].exitStatus

Inv == TypeOK /\ StoppedInv /\ ReasonInv /\ ReadInv /\ SpawnFailureIsKept /\ EndHasReason

LEMMA InitInv == Init => Inv
<1> SUFFICES ASSUME Init PROVE Inv
  OBVIOUS
<1>1. TypeOK
  BY DEF Init, TypeOK, Errors
<1>2. StoppedInv /\ ReasonInv /\ ReadInv /\ SpawnFailureIsKept /\ EndHasReason
  BY DEF Init, StoppedInv, ReasonInv, ReadInv, SpawnFailureIsKept, EndHasReason, AfterState
<1> QED
  BY <1>1, <1>2 DEF Inv

LEMMA ActorTypes == ASSUME TypeOK, Actor PROVE TypeOK'
<1>1. CASE Prompt \/ Command \/ InterruptFails
  BY <1>1 DEF TypeOK, Errors, Prompt, Command, InterruptFails
<1>2. CASE EndBegins
  <2>1. exitStatus' \in BOOLEAN
    <3>1. exitStatus' = (how' \in {"exit", "stop"})
      BY <1>2, Zenon DEF EndBegins
    <3>2. (how' \in {"exit", "stop"}) \in BOOLEAN
      OBVIOUS
    <3> QED
      BY <3>1, <3>2, Zenon
  <2>2. how' # "no" /\ actor' # "select"
    BY <1>2 DEF EndBegins
  <2>3. /\ how' \in {"exit", "wait error", "streams closed", "stop", "stop failed"}
        /\ lastError' \in Errors /\ actor' \in {"exited", "stopped"}
        /\ UNCHANGED <<state, hasTail, spawner, reader, report>>
    BY <1>2 DEF EndBegins, TypeOK, Errors
  <2> QED
    BY <2>1, <2>2, <2>3 DEF TypeOK
<1>3. CASE MarkStopped \/ QuoteOutput
  BY <1>3 DEF TypeOK, Errors, MarkStopped, QuoteOutput, Quote
<1> QED
  BY <1>1, <1>2, <1>3 DEF Actor

LEMMA ActorKeepsInv == ASSUME Inv, Actor PROVE Inv'
<1>1. StoppedInv' /\ ReasonInv'
  BY DEF Inv, TypeOK, StoppedInv, ReasonInv, Actor, Prompt, Command, InterruptFails,
         EndBegins, MarkStopped, QuoteOutput, Quote
<1>2. SpawnFailureIsKept'
  BY DEF Inv, ReasonInv, SpawnFailureIsKept, Actor, Prompt, Command, InterruptFails,
         EndBegins, MarkStopped, QuoteOutput, Quote
<1>3. EndHasReason'
  <2>1. CASE actor = "select"
    BY <2>1 DEF Inv, StoppedInv, EndHasReason, Actor, Prompt, Command, InterruptFails,
       EndBegins, MarkStopped, QuoteOutput, Quote
  <2>2. CASE actor # "select"
    BY <2>2 DEF Inv, ReasonInv, EndHasReason, Actor, Prompt, Command, InterruptFails,
       EndBegins, MarkStopped, QuoteOutput, Quote
  <2> QED
    BY <2>1, <2>2
<1>4. ReadInv'
  <2> SUFFICES ASSUME NEW r \in Readers, reader[r] \in {"status", "listed"},
                      report[r].state = "Stopped"
               PROVE  UNCHANGED how
    BY DEF Actor, Prompt, Command, InterruptFails, EndBegins, MarkStopped,
           QuoteOutput, Quote, Inv, ReadInv
  <2>1. actor # "select"
    BY DEF Inv, StoppedInv, AfterState
  <2> QED
    BY <2>1 DEF Actor, Prompt, Command, InterruptFails, EndBegins, MarkStopped,
       QuoteOutput, Quote
<1> QED
  BY <1>1, <1>2, <1>3, <1>4, ActorTypes DEF Inv

LEMMA SpawnerKeepsInv == ASSUME Inv, Spawner PROVE Inv'
<1>1. TypeOK'
  BY DEF Inv, TypeOK, Errors, Spawner, SpawnReady, SpawnGivesUp, MarkFailed,
         RecordFailure, shared
<1>2. SpawnFailureIsKept' /\ EndHasReason'
  <2>1. /\ UNCHANGED <<hasTail, actor, how>>
        /\ state' = state \/ state' = "Failed"
        /\ \/ lastError' = lastError /\ spawner' # "failed"
           \/ lastError' = "spawn"
    BY DEF Spawner, SpawnReady, SpawnGivesUp, MarkFailed, RecordFailure, shared
  <2> QED
    BY <2>1 DEF Inv, SpawnFailureIsKept, EndHasReason
<1>3. StoppedInv' /\ ReadInv'
  BY DEF Inv, StoppedInv, ReadInv, Spawner, SpawnReady, SpawnGivesUp, MarkFailed,
         RecordFailure, shared
<1>4. ReasonInv'
  <2>1. CASE SpawnReady \/ SpawnGivesUp
    BY <2>1 DEF Inv, ReasonInv, SpawnReady, SpawnGivesUp, shared
  <2>2. CASE MarkFailed \/ RecordFailure
    BY <2>2 DEF Inv, ReasonInv, MarkFailed, RecordFailure, shared
  <2> QED
    BY <2>1, <2>2 DEF Spawner
<1> QED
  BY <1>1, <1>2, <1>3, <1>4 DEF Inv

LEMMA ReaderKeepsInv == ASSUME Inv, NEW r \in Readers, Reader(r) PROVE Inv'
<1>1. /\ UNCHANGED <<state, lastError, exitStatus, hasTail, actor, how, spawner>>
      /\ \A o \in Readers \ {r} : reader'[o] = reader[o] /\ report'[o] = report[o]
  BY DEF Reader, List, ReadState, ReadError, ReadStatus, WaitSeesEnd, ReadReason, shared,
         Inv, TypeOK
<1>2. TypeOK'
  <2>1. \/ report' = report
        \/ report' = [report EXCEPT ![r].state = state]
        \/ \E e \in Errors \cup {"cdb exited before ready"} :
             report' = [report EXCEPT ![r].lastError = e]
        \/ report' = [report EXCEPT ![r].exitStatus = exitStatus]
    BY DEF Reader, List, ReadState, ReadError, ReadStatus, WaitSeesEnd, ReadReason, Inv,
           TypeOK
  <2>2. report' \in [Readers ->
          [state : {"none", "Starting", "Idle", "Executing", "Stopped", "Failed"},
           lastError : Errors \cup {"cdb exited before ready"}, exitStatus : BOOLEAN]]
    <3> DEFINE Report ==
          [state : {"none", "Starting", "Idle", "Executing", "Stopped", "Failed"},
           lastError : Errors \cup {"cdb exited before ready"}, exitStatus : BOOLEAN]
    <3>1. report \in [Readers -> Report] /\ report[r] \in Report
      BY DEF Inv, TypeOK
    <3>2. [report[r] EXCEPT !.state = state] \in Report
      BY <3>1 DEF Inv, TypeOK
    <3>3. \A e \in Errors \cup {"cdb exited before ready"} :
            [report[r] EXCEPT !.lastError = e] \in Report
      BY <3>1
    <3>4. [report[r] EXCEPT !.exitStatus = exitStatus] \in Report
      BY <3>1 DEF Inv, TypeOK
    <3> HIDE DEF Report
    <3>5. report' \in [Readers -> Report]
      BY <2>1, <3>1, <3>2, <3>3, <3>4
    <3> QED
      BY <3>5 DEF Report
  <2>3. reader' \in [Readers -> {"new", "state", "error", "status", "listed", "reason",
                                 "told"}]
    BY DEF Reader, List, ReadState, ReadError, ReadStatus, WaitSeesEnd, ReadReason, Inv,
           TypeOK
  <2> QED
    BY <1>1, <2>2, <2>3 DEF Inv, TypeOK
<1>3. ReasonInv' /\ SpawnFailureIsKept' /\ EndHasReason'
  BY <1>1 DEF Inv, ReasonInv, SpawnFailureIsKept, EndHasReason
<1>4. ASSUME reader'[r] \in AfterState, report'[r].state = "Stopped"
      PROVE  \/ reader[r] = "state" /\ reader'[r] = "error" /\ state = "Stopped"
             \/ reader[r] \in AfterState /\ report[r].state = "Stopped"
  <2>1. r \in DOMAIN reader /\ r \in DOMAIN report /\ DOMAIN report[r] =
          {"state", "lastError", "exitStatus"}
    BY DEF Inv, TypeOK
  <2>2. CASE List(r)
    BY <1>4, <2>1, <2>2 DEF List, AfterState
  <2>3. CASE ReadState(r)
    BY <1>4, <2>1, <2>3 DEF ReadState, AfterState
  <2>4. CASE ReadError(r)
    BY <1>4, <2>1, <2>4 DEF ReadError, AfterState
  <2>5. CASE ReadStatus(r)
    BY <1>4, <2>1, <2>5 DEF ReadStatus, AfterState
  <2>6. CASE WaitSeesEnd(r)
    BY <1>4, <2>1, <2>6 DEF WaitSeesEnd, AfterState
  <2>7. CASE ReadReason(r)
    BY <1>4, <2>1, <2>7 DEF ReadReason, AfterState
  <2> QED
    BY <2>2, <2>3, <2>4, <2>5, <2>6, <2>7 DEF Reader
<1>5. StoppedInv'
  <2>1. reader'[r] # "new" => spawner = "ok"
    BY DEF Reader, List, ReadState, ReadError, ReadStatus, WaitSeesEnd, ReadReason, Inv,
           TypeOK, StoppedInv
  <2>2. reader'[r] \in AfterState /\ report'[r].state = "Stopped"
        => actor \in {"quoting", "gone"}
    BY <1>4 DEF Inv, StoppedInv
  <2> QED
    BY <1>1, <2>1, <2>2 DEF Inv, StoppedInv
<1>6. ReadInv'
  <2>1. ASSUME reader'[r] \in {"status", "listed"}, report'[r].state = "Stopped",
               how = "wait error"
        PROVE  report'[r].lastError = "wait"
    <3>1. reader[r] \in AfterState /\ report[r].state = "Stopped" /\ reader[r] # "new"
      BY <1>4, <2>1 DEF AfterState
    <3>2. lastError = "wait"
      BY <2>1, <3>1 DEF Inv, StoppedInv, ReasonInv
    <3>3. CASE ReadError(r)
      BY <3>2, <3>3 DEF ReadError, Inv, TypeOK
    <3>4. CASE ReadStatus(r)
      BY <2>1, <3>1, <3>4 DEF ReadStatus, Inv, TypeOK, ReadInv
    <3> QED
      BY <2>1, <3>1, <3>3, <3>4
         DEF Reader, List, ReadState, WaitSeesEnd, ReadReason, Inv, TypeOK, AfterState
  <2>2. ASSUME reader'[r] = "listed", how \in {"exit", "stop"} PROVE report'[r].exitStatus
    <3>1. CASE ReadStatus(r)
      <4>1. exitStatus /\ report'[r].exitStatus = exitStatus
        BY <2>2, <3>1 DEF ReadStatus, Inv, TypeOK, ReasonInv
      <4> QED
        BY <4>1
    <3> QED
      BY <2>2, <3>1 DEF Reader, List, ReadState, ReadError, WaitSeesEnd, ReadReason, Inv,
                        TypeOK
  <2> QED
    BY <1>1, <2>1, <2>2 DEF Inv, ReadInv
<1> QED
  BY <1>2, <1>3, <1>5, <1>6 DEF Inv

LEMMA EndInvariant == Spec => []Inv
<1>1. Inv /\ [Next]_vars => Inv'
  <2>1. ASSUME Inv, UNCHANGED vars PROVE Inv'
    <3>1. /\ UNCHANGED <<state, lastError, exitStatus, hasTail, actor, how, spawner>>
          /\ UNCHANGED <<reader, report>>
      BY <2>1 DEF vars, shared
    <3>2. TypeOK'
      BY <2>1, <3>1 DEF Inv, TypeOK
    <3>3. StoppedInv' /\ ReasonInv' /\ ReadInv'
      BY <2>1, <3>1 DEF Inv, StoppedInv, ReasonInv, ReadInv
    <3> QED
      BY <2>1, <3>1, <3>2, <3>3 DEF Inv, SpawnFailureIsKept, EndHasReason
  <2> QED
    BY <2>1, ActorKeepsInv, SpawnerKeepsInv, ReaderKeepsInv DEF Next
<1> QED
  BY <1>1, InitInv, PTL DEF Spec

\* Every variable keeps its type, and the actor is in its end for one reason.
THEOREM EndTypes == Spec => []TypeOK
<1>1. Inv => TypeOK
  BY DEF Inv
<1> QED
  BY <1>1, EndInvariant, PTL

\* A list entry that says Stopped says how the process ended, however many
\* readers read while the actor writes.
THEOREM EntriesAreComplete == Spec => []StoppedEntryIsComplete
<1>1. Inv => StoppedEntryIsComplete
  BY DEF Inv, ReadInv, StoppedEntryIsComplete
<1> QED
  BY <1>1, EndInvariant, PTL

\* The reason of a failed spawn is kept.
THEOREM FailureIsKept == Spec => []SpawnFailureIsKept
<1>1. Inv => SpawnFailureIsKept
  BY DEF Inv
<1> QED
  BY <1>1, EndInvariant, PTL

\* A session that ended by itself after cdb printed something has a reason.
THEOREM ReasonIsThere == Spec => []EndHasReason
<1>1. Inv => EndHasReason
  BY DEF Inv
<1> QED
  BY <1>1, EndInvariant, PTL
-----------------------------------------------------------------------------
(* The life of the session.                                                *)

LEMMA LifeUntouched ==
  ASSUME LifeOf(state)' = LifeOf(state), SpawnPhase' = SpawnPhase,
         (actor' \in {"select", "exited", "stopped"})
           = (actor \in {"select", "exited", "stopped"})
  PROVE  [Life!Next]_(Life!vars)
BY DEF Life!vars

\* The first prompt makes the session ready, and the write of Stopped ends it; the
\* steps before and after that write change nothing of its life.
LEMMA LifeOfActor == ASSUME Actor PROVE [Life!Next]_(Life!vars)
<1>1. SpawnPhase' = SpawnPhase
  BY DEF Actor, Prompt, Command, InterruptFails, EndBegins, MarkStopped, QuoteOutput,
         Quote, SpawnPhase
<1>2. CASE Prompt
  <2>1. CASE state = "Starting"
    <3>1. Life!FirstPrompt
      BY <1>1, <1>2, <2>1 DEF Prompt, Life!FirstPrompt, LifeOf
    <3> QED
      BY <3>1 DEF Life!Next
  <2>2. CASE state = "Executing"
    BY <1>1, <1>2, <2>2, LifeUntouched DEF Prompt, LifeOf
  <2> QED
    BY <1>2, <2>1, <2>2 DEF Prompt
<1>3. CASE Command
  BY <1>1, <1>3, LifeUntouched DEF Command, LifeOf
<1>4. CASE InterruptFails
  BY <1>1, <1>4, LifeUntouched DEF InterruptFails, LifeOf
<1>5. CASE EndBegins
  <2>1. actor = "select" /\ actor' \in {"exited", "stopped"} /\ state' = state
    BY <1>5 DEF EndBegins
  <2> QED
    BY <1>1, <2>1, LifeUntouched DEF LifeOf
<1>6. CASE MarkStopped
  <2>1. Life!End
    BY <1>1, <1>6 DEF MarkStopped, Life!End, LifeOf
  <2> QED
    BY <2>1 DEF Life!Next
<1>7. CASE QuoteOutput
  BY <1>1, <1>7, LifeUntouched DEF QuoteOutput, Quote, LifeOf
<1> QED
  BY <1>2, <1>3, <1>4, <1>5, <1>6, <1>7 DEF Actor

\* The spawn is over once it has written Failed, before the reason is there.
LEMMA LifeOfSpawner == ASSUME Spawner PROVE [Life!Next]_(Life!vars)
<1>1. CASE SpawnReady
  <2>1. Life!SpawnReturns
    BY <1>1 DEF SpawnReady, Life!SpawnReturns, LifeOf, SpawnPhase, shared
  <2> QED
    BY <2>1 DEF Life!Next
<1>2. CASE SpawnGivesUp
  BY <1>2, LifeUntouched DEF SpawnGivesUp, LifeOf, SpawnPhase, shared
<1>3. CASE MarkFailed
  <2>1. Life!SpawnFails
    BY <1>3 DEF MarkFailed, Life!SpawnFails, LifeOf, SpawnPhase
  <2> QED
    BY <2>1 DEF Life!Next
<1>4. CASE RecordFailure
  BY <1>4, LifeUntouched DEF RecordFailure, LifeOf, SpawnPhase
<1> QED
  BY <1>1, <1>2, <1>3, <1>4 DEF Spawner

\* Although its end is written in pieces and a failed spawn writes next to it, the
\* session lives as the registry assumes: EndReport refines SessionLife.
THEOREM EndIsALife == Spec => LivesAsRegistered
<1>1. Init => Life!Init
  BY DEF Init, Life!Init, Life!Started, LifeOf, SpawnPhase
<1>2. [Next]_vars => [Life!Next]_(Life!vars)
  <2> SUFFICES ASSUME [Next]_vars PROVE [Life!Next]_(Life!vars)
    OBVIOUS
  <2>1. CASE (\E r \in Readers : Reader(r)) \/ UNCHANGED vars
    <3>1. UNCHANGED <<state, actor, spawner>>
      BY <2>1 DEF Reader, List, ReadState, ReadError, ReadStatus, WaitSeesEnd, ReadReason,
                  shared, vars
    <3> QED
      BY <3>1, LifeUntouched DEF LifeOf, SpawnPhase
  <2> QED
    BY <2>1, LifeOfActor, LifeOfSpawner DEF Next
<1> QED
  BY <1>1, <1>2, PTL DEF Spec, LivesAsRegistered, Life!Spec
===============================================================================
