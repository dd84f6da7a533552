------------------------------ MODULE EndReport ------------------------------
(***************************************************************************)
(* What the end of a session leaves behind, and who sees how much of it:   *)
(* state, last_error and exit_status of src/src/cdb/session.rs are behind  *)
(* three mutexes, and every reader and writer takes them one after the     *)
(* other.                                                                  *)
(*                                                                         *)
(* Writers are the actor and, until it has returned the session,           *)
(* spawn_common; readers are debug_list_sessions (summary) and             *)
(* debug_wait_break (wait_ready).  One acquisition of a mutex is one step. *)
(* CdbSession has each arm of the actor as one step and no last_error, and *)
(* has the races of on_output, which is one step here.                     *)
(***************************************************************************)
EXTENDS Naturals

CONSTANT Readers  \* the calls that read

VARIABLES
  state,       \* SessionShared.state
  lastError,   \* SessionShared.last_error, by who wrote it
  exitStatus,  \* is SessionShared.exit_status known
  hasTail,     \* did cdb write anything that on_child_exit can quote
  actor,       \* where SessionActor::run is in its end
  how,         \* ghost: what made it end
  spawner,     \* where spawn_common is
  reader,      \* where each reader is
  report       \* what it has read

shared == <<state, lastError, exitStatus>>
vars == <<shared, hasTail, actor, how, spawner, reader, report>>

Active(s) == s \notin {"Stopped", "Failed"}

Init ==
  /\ state = "Starting" /\ lastError = "none" /\ exitStatus = FALSE
  /\ hasTail \in BOOLEAN
  /\ actor = "select" /\ how = "no"
  /\ spawner = "waiting"
  /\ reader = [r \in Readers |-> "new"]
  /\ report = [r \in Readers |->
                [state |-> "none", lastError |-> "none", exitStatus |-> FALSE]]

-----------------------------------------------------------------------------
(* The actor.                                                              *)

\* on_output, at a prompt.
Prompt ==
  /\ actor = "select" /\ state \in {"Starting", "Executing"}
  /\ state' = "Idle"
  /\ UNCHANGED <<lastError, exitStatus, hasTail, actor, how, spawner, reader,
                 report>>

Command ==
  /\ actor = "select" /\ state = "Idle" /\ spawner = "ok"
  /\ state' = "Executing"
  /\ UNCHANGED <<lastError, exitStatus, hasTail, actor, how, spawner, reader,
                 report>>

\* interrupt_cdb_command when CTRL+BREAK fails.
InterruptFails ==
  /\ actor = "select" /\ state = "Executing"
  /\ lastError' = "interrupt"
  /\ UNCHANGED <<state, exitStatus, hasTail, actor, how, spawner, reader,
                 report>>

\* Mutant of EndBegins: the state is written before the exit status.
EndBeginsEarly ==
  /\ actor = "select"
  /\ how' \in {"exit", "stop"}
  /\ state' = "Stopped"
  /\ actor' = IF how' = "stop" THEN "stopped" ELSE "exited"
  /\ UNCHANGED <<lastError, exitStatus, hasTail, spawner, reader, report>>

\* The arms of run that end the loop, up to on_child_exit; and the wait of a
\* stop, with its three results.
EndBegins ==
  /\ actor = "select"
  /\ how' \in {"exit", "wait error", "streams closed", "stop", "stop failed"}
  /\ exitStatus' = (how' \in {"exit", "stop"})
  /\ lastError' = IF how' = "wait error" THEN "wait" ELSE lastError
  /\ actor' = IF how' \in {"stop", "stop failed"} THEN "stopped" ELSE "exited"
  /\ UNCHANGED <<state, hasTail, spawner, reader, report>>

\* on_child_exit, its first statement; or the end of a stop.
MarkStopped ==
  /\ actor \in {"exited", "stopped"}
  /\ state' = "Stopped"
  /\ actor' = IF actor = "exited" THEN "quoting" ELSE "gone"
  /\ UNCHANGED <<lastError, exitStatus, hasTail, how, spawner, reader, report>>

Quote(wanted) ==
  /\ actor = "quoting"
  /\ lastError' = IF hasTail /\ wanted THEN "output" ELSE lastError
  /\ actor' = "gone"
  /\ UNCHANGED <<state, exitStatus, hasTail, how, spawner, reader, report>>

\* Mutant of QuoteOutput: the output is not quoted.
QuoteOutputNever == Quote(FALSE)

\* The rest of on_child_exit.
QuoteOutput == Quote(lastError = "none")

-----------------------------------------------------------------------------
(* spawn_common.                                                           *)

SpawnReady ==
  /\ spawner = "waiting" /\ state = "Idle"
  /\ spawner' = "ok"
  /\ UNCHANGED <<shared, hasTail, actor, how, reader, report>>

\* wait_ready returns an error: it timed out, or it saw the end.
SpawnGivesUp ==
  /\ spawner = "waiting" /\ state # "Idle"
  /\ spawner' = "failing"
  /\ UNCHANGED <<shared, hasTail, actor, how, reader, report>>

MarkFailed ==
  /\ spawner = "failing"
  /\ state' = "Failed" /\ spawner' = "marked"
  /\ UNCHANGED <<lastError, exitStatus, hasTail, actor, how, reader, report>>

RecordFailure ==
  /\ spawner = "marked"
  /\ lastError' = "spawn" /\ spawner' = "failed"
  /\ UNCHANGED <<state, exitStatus, hasTail, actor, how, reader, report>>

-----------------------------------------------------------------------------
(* The readers, once the session is returned.                              *)

\* list_active: the session survives the prune, then its summary is made.
List(r) ==
  /\ spawner = "ok" /\ reader[r] = "new" /\ Active(state)
  /\ reader' = [reader EXCEPT ![r] = "state"]
  /\ UNCHANGED <<shared, hasTail, actor, how, spawner, report>>

ReadState(r) ==
  /\ reader[r] = "state"
  /\ report' = [report EXCEPT ![r].state = state]
  /\ reader' = [reader EXCEPT ![r] = "error"]
  /\ UNCHANGED <<shared, hasTail, actor, how, spawner>>

ReadError(r) ==
  /\ reader[r] = "error"
  /\ report' = [report EXCEPT ![r].lastError = lastError]
  /\ reader' = [reader EXCEPT ![r] = "status"]
  /\ UNCHANGED <<shared, hasTail, actor, how, spawner>>

ReadStatus(r) ==
  /\ reader[r] = "status"
  /\ report' = [report EXCEPT ![r].exitStatus = exitStatus]
  /\ reader' = [reader EXCEPT ![r] = "listed"]
  /\ UNCHANGED <<shared, hasTail, actor, how, spawner>>

\* wait_ready sees the end, and reads the reason after it.
WaitSeesEnd(r) ==
  /\ spawner = "ok" /\ reader[r] = "new" /\ ~Active(state)
  /\ report' = [report EXCEPT ![r].state = state]
  /\ reader' = [reader EXCEPT ![r] = "reason"]
  /\ UNCHANGED <<shared, hasTail, actor, how, spawner>>

ReadReason(r) ==
  /\ reader[r] = "reason"
  /\ report' = [report EXCEPT ![r].lastError =
                  IF lastError = "none" THEN "cdb exited before ready"
                                        ELSE lastError]
  /\ reader' = [reader EXCEPT ![r] = "told"]
  /\ UNCHANGED <<shared, hasTail, actor, how, spawner>>

-----------------------------------------------------------------------------
Actor ==
  \/ Prompt \/ Command \/ InterruptFails
  \/ EndBegins \/ MarkStopped \/ QuoteOutput

Spawner == SpawnReady \/ SpawnGivesUp \/ MarkFailed \/ RecordFailure

Reader(r) ==
  \/ List(r) \/ ReadState(r) \/ ReadError(r) \/ ReadStatus(r)
  \/ WaitSeesEnd(r) \/ ReadReason(r)

Next == Actor \/ Spawner \/ \E r \in Readers : Reader(r)

Spec == Init /\ [][Next]_vars

-----------------------------------------------------------------------------
Errors == {"none", "interrupt", "wait", "output", "spawn"}

\* Types of all variables; the actor is in its end for one of its reasons.
TypeOK ==
  /\ how = "no" <=> actor = "select"
  /\ state \in {"Starting", "Idle", "Executing", "Stopped", "Failed"}
  /\ lastError \in Errors /\ exitStatus \in BOOLEAN /\ hasTail \in BOOLEAN
  /\ actor \in {"select", "exited", "stopped", "quoting", "gone"}
  /\ how \in {"no", "exit", "wait error", "streams closed", "stop",
              "stop failed"}
  /\ spawner \in {"waiting", "ok", "failing", "marked", "failed"}
  /\ reader \in [Readers -> {"new", "state", "error", "status", "listed",
                             "reason", "told"}]
  /\ report \in [Readers ->
       [state : {"none", "Starting", "Idle", "Executing", "Stopped", "Failed"},
        lastError : Errors \cup {"cdb exited before ready"},
        exitStatus : BOOLEAN]]

\* A list entry that says Stopped says how the process ended, although its
\* fields are read one by one while they are written: the exit status is there
\* if the child was reaped, and the error if its wait failed.
StoppedEntryIsComplete ==
  \A r \in Readers :
    (reader[r] = "listed" /\ report[r].state = "Stopped")
    => /\ how \in {"exit", "stop"} => report[r].exitStatus
       /\ how = "wait error" => report[r].lastError = "wait"

\* The reason of a failed spawn is what last_error keeps, however its write
\* falls between those of the actor: what cdb printed at its end never replaces
\* it.  Only an error of the wait itself may.
SpawnFailureIsKept == spawner = "failed" => lastError \in {"spawn", "wait"}

\* A session that ended by itself after cdb printed something has a reason once
\* its actor is gone, and nobody is told Stopped without one except between the
\* two writes of on_child_exit.
EndHasReason ==
  (state = "Stopped" /\ hasTail /\ how \in {"exit", "wait error", "streams closed"})
  => lastError # "none" \/ actor = "quoting"

\* With its end in pieces the session still lives as the registry assumes: its
\* actor is there until the write of Stopped, what follows changes nothing of it.
LifeOf(s) == CASE s = "Starting" -> "starting"
               [] s = "Stopped" -> "stopped"
               [] s = "Failed" -> "failed"
               [] OTHER -> "ready"

SpawnPhase == CASE spawner \in {"waiting", "failing"} -> "waiting"
                [] spawner = "ok" -> "returned"
                [] OTHER -> "failed"

Life == INSTANCE SessionLife
          WITH life <- LifeOf(state), tended <- actor \in {"select", "exited", "stopped"},
               spawn <- SpawnPhase

LivesAsRegistered == Life!Spec

\* "callers do not see ids that the debugger child already exited on": a list
\* entry names an active session.
ListedAreActive ==
  \A r \in Readers : reader[r] \in {"error", "status", "listed"}
                     => Active(report[r].state)
=============================================================================
