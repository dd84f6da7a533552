------------------------------ MODULE ToolCalls ------------------------------
(***************************************************************************)
(* The tool calls of src/src/mcp/server.rs on one session: call_tool, its  *)
(* dispatch, and the record that src/src/audit.rs keeps of every call.     *)
(*                                                                         *)
(* A call is dispatched, recorded and answered.  The calls of all clients  *)
(* run concurrently, and interleave wherever dispatch awaits the session:  *)
(* between the lookup and the request, between wait_ready and the status   *)
(* of debug_wait_break, between the stop and the removal of debug_stop.    *)
(* Of the session (CdbSession) it matters here whether it is at a prompt,  *)
(* at work or ended.                                                       *)
(***************************************************************************)
EXTENDS Naturals, Sequences, FiniteSets

CONSTANT Calls  \* the tool calls

ASSUME CallsAssumption == IsFiniteSet(Calls)

VARIABLES
  registered,  \* is the session in the manager's map
  session,     \* what its state amounts to
  tool,        \* what each call is for
  at,          \* where it is
  result,      \* what dispatch returned
  audit,       \* the records, in order
  after,       \* ghost: did it begin after a debug_stop was answered with ok
  sawPrompt    \* ghost: was the session at a prompt since the call began

call == <<tool, at, result>>
vars == <<registered, session, call, audit, after, sawPrompt>>

-----------------------------------------------------------------------------
\* `status` is debug_output too: a request the session answers as it is.
SessionTools == {"command", "control", "status", "wait_break", "stop"}
Tools == SessionTools \cup {"list", "unknown"}

Places == {"new", "begun", "found", "waiting", "ready", "stopped", "done",
           "recorded", "answered", "dropped"}
Errors == {"not_found", "invalid", "exited", "timeout", "bad_call"}

Init ==
  /\ registered = TRUE /\ session = "prompt"
  /\ tool = [c \in Calls |-> "unknown"]
  /\ at = [c \in Calls |-> "new"]
  /\ result = [c \in Calls |-> "none"]
  /\ audit = <<>>
  /\ after = {} /\ sawPrompt = {}

StopAnswered == \E d \in Calls : tool[d] = "stop" /\ at[d] = "answered" /\ result[d] = "ok"

Begin(c, t) ==
  /\ at[c] = "new"
  /\ tool' = [tool EXCEPT ![c] = t] /\ at' = [at EXCEPT ![c] = "begun"]
  /\ after' = IF StopAnswered THEN after \cup {c} ELSE after
  /\ UNCHANGED <<registered, session, result, audit>>

\* A step of dispatch, from one place to the next.
Move(c, tools, from, to) ==
  /\ tool[c] \in tools /\ at[c] = from
  /\ at' = [at EXCEPT ![c] = to]
  /\ UNCHANGED <<tool, audit, after>>

\* The last step of dispatch.
Return(c, tools, from, r) ==
  /\ Move(c, tools, from, "done")
  /\ result' = [result EXCEPT ![c] = r]

\* The arguments do not parse, or there is no such tool.
Reject(c) ==
  /\ Return(c, Tools, "begun", "bad_call")
  /\ UNCHANGED <<registered, session>>

\* debug_list_sessions, which prunes.
List(c) ==
  /\ Return(c, {"list"}, "begun", "ok")
  /\ registered' = (registered /\ session # "ended")
  /\ UNCHANGED session

\* SessionManager::get.
Get(c) ==
  /\ \/ registered /\ Move(c, SessionTools, "begun", "found") /\ UNCHANGED result
     \/ ~registered /\ Return(c, SessionTools, "begun", "not_found")
  /\ UNCHANGED <<registered, session>>

-----------------------------------------------------------------------------
(* What the session does with a request, while the call awaits it.         *)

\* The actor is gone.
Ended(c, tools, from) ==
  /\ session = "ended"
  /\ Return(c, tools, from, "exited")
  /\ UNCHANGED <<registered, session>>

Busy(c) ==
  /\ session = "work"
  /\ Return(c, {"command", "control"}, "found", "invalid")
  /\ UNCHANGED <<registered, session>>

StartCommand(c) ==
  /\ session = "prompt" /\ session' = "work"
  /\ Move(c, {"command"}, "found", "waiting")
  /\ UNCHANGED <<registered, result>>

\* Its prompt answers it; or its deadline passes, and cdb works on or is taken
\* to be at its prompt.
EndCommand(c) ==
  /\ session = "work"
  /\ \/ session' = "prompt" /\ Return(c, {"command"}, "waiting", "ok")
     \/ session' \in {"work", "prompt"} /\ Return(c, {"command"}, "waiting", "timeout")
  /\ UNCHANGED registered

\* debug_control: continue, from a prompt, and break.
Control(c) ==
  /\ \/ session = "prompt" /\ session' = "work"
     \/ session # "ended" /\ UNCHANGED session
  /\ Return(c, {"control"}, "found", "ok")
  /\ UNCHANGED registered

WaitTimesOut(c) ==
  /\ session = "work"
  /\ Return(c, {"wait_break"}, "found", "timeout")
  /\ UNCHANGED <<registered, session>>

Wait(c, enough) ==
  /\ enough
  /\ Move(c, {"wait_break"}, "found", "ready")
  /\ UNCHANGED <<registered, session, result>>

\* Mutant of WaitReady: any session that lives is ready.
WaitActive(c) == Wait(c, session # "ended")

\* wait_ready polls the state, from outside the actor.
WaitReady(c) == Wait(c, session = "prompt")

Status(c) ==
  /\ session # "ended"
  /\ \/ Return(c, {"status"}, "found", "ok")
     \/ Return(c, {"wait_break"}, "ready", "ok")
  /\ UNCHANGED <<registered, session>>

StopSession(c) ==
  /\ session' = "ended"
  /\ Move(c, {"stop"}, "found", "stopped")
  /\ UNCHANGED <<registered, result>>

\* Mutant of Stop: a session that has ended is stopped once more.
StopAgain(c) == StopSession(c)

Stop(c) == session # "ended" /\ StopSession(c)

Remove(c, left) ==
  /\ Return(c, {"stop"}, "stopped", "ok")
  /\ registered' = left
  /\ UNCHANGED session

\* Mutant of RemoveStopped: the session stays in the map.
KeepStopped(c) == Remove(c, registered)

RemoveStopped(c) == Remove(c, FALSE)

-----------------------------------------------------------------------------
\* The record has the status of the answer.  The event goes to the log first;
\* a failure to write the file is logged and forgotten.
Recording(c, r) ==
  /\ at[c] = "done"
  /\ at' = [at EXCEPT ![c] = "recorded"]
  /\ audit' = Append(audit, [call |-> c, status |-> r])
  /\ UNCHANGED <<registered, session, tool, result, after>>

\* Mutant of Record: the record says that the call was taken.
RecordTaken(c) == Recording(c, "ok")

Record(c) == Recording(c, IF result[c] = "ok" THEN "ok" ELSE "error")

AnswerCall(c) ==
  /\ at[c] = "recorded"
  /\ at' = [at EXCEPT ![c] = "answered"]
  /\ UNCHANGED <<registered, session, tool, result, audit, after>>

\* The future of the call is dropped while it awaits the session.  A stop that
\* was sent is carried out all the same.
Drop(c) ==
  /\ at[c] \in {"found", "waiting", "ready"}
  /\ at' = [at EXCEPT ![c] = "dropped"]
  /\ session' \in IF tool[c] = "stop" THEN {session, "ended"} ELSE {session}
  /\ UNCHANGED <<registered, tool, result, audit, after>>

\* cdb exits, or reaches a prompt (which ends a command, if one waits).
SessionMoves ==
  /\ session # "ended"
  /\ \/ session' = "ended"
     \/ /\ session = "work" /\ session' = "prompt"
        /\ \A c \in Calls : at[c] # "waiting"
  /\ UNCHANGED <<registered, call, audit, after>>

Dispatch(c) ==
  \/ Reject(c) \/ List(c) \/ Get(c)
  \/ Ended(c, SessionTools, "found") \/ Ended(c, {"command"}, "waiting")
  \/ Ended(c, {"wait_break"}, "ready")
  \/ Busy(c) \/ StartCommand(c) \/ EndCommand(c) \/ Control(c)
  \/ WaitTimesOut(c) \/ WaitReady(c) \/ Status(c)
  \/ Stop(c) \/ RemoveStopped(c)

CallTool(c) ==
  \/ \E t \in Tools : Begin(c, t)
  \/ Dispatch(c) \/ Record(c) \/ AnswerCall(c) \/ Drop(c)

Next ==
  /\ (\E c \in Calls : CallTool(c)) \/ SessionMoves
  /\ sawPrompt' = sawPrompt \cup
       {c \in Calls : at'[c] # "new" /\ "prompt" \in {session, session'}}

Spec == Init /\ [][Next]_vars

-----------------------------------------------------------------------------
\* Types of all variables.
TypeOK ==
  /\ registered \in BOOLEAN /\ session \in {"prompt", "work", "ended"}
  /\ tool \in [Calls -> Tools] /\ at \in [Calls -> Places]
  /\ result \in [Calls -> {"none", "ok"} \cup Errors]
  /\ audit \in Seq([call : Calls, status : {"ok", "error"}])
  /\ after \subseteq Calls /\ sawPrompt \subseteq Calls

\* Once a debug_stop was answered with ok the session is unknown: whatever was
\* under way then, a call that begins later on is told "not found".
StoppedSessionIsForgotten ==
  \A c \in after :
    (at[c] = "answered" /\ tool[c] \in SessionTools)
    => result[c] \in {"not_found", "bad_call"}

\* Of several debug_stop calls for the session at most one is told it stopped it.
OneStopSucceeds ==
  \A c, d \in Calls :
    (tool[c] = "stop" /\ tool[d] = "stop" /\ result[c] = "ok" /\ result[d] = "ok")
    => c = d

\* debug_wait_break returns without error only if the session was at its prompt
\* while it waited (and may have left it by the time of the status it reports).
WaitBreakSawPrompt ==
  \A c \in Calls : (tool[c] = "wait_break" /\ result[c] = "ok") => c \in sawPrompt

\* The client knows of no outcome the audit trail lacks: an answered call has
\* one record, with the status of its answer.
AnswerIsAudited ==
  \A c \in Calls : at[c] = "answered" =>
    \E i \in DOMAIN audit :
      /\ audit[i] = [call |-> c,
                     status |-> IF result[c] = "ok" THEN "ok" ELSE "error"]
      /\ \A j \in DOMAIN audit : audit[j].call = c => j = i
=============================================================================
