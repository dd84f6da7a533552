-------------------------- MODULE ToolCalls_proofs --------------------------
(***************************************************************************)
(* Theorems about ToolCalls, for any number of concurrent calls.           *)
(***************************************************************************)
EXTENDS ToolCalls, SequenceTheorems, TLAPS

\* Every step keeps the types.
LEMMA TypeStep == TypeOK /\ [Next]_vars => TypeOK'
<1> SUFFICES ASSUME TypeOK, [Next]_vars PROVE TypeOK'
  OBVIOUS
<1> USE DEF TypeOK
<1>1. CASE UNCHANGED vars
  BY <1>1 DEF vars, call
<1>2. CASE Next
  <2>1. sawPrompt' \subseteq Calls
    BY <1>2 DEF Next
  <2>2. ASSUME NEW c \in Calls, CallTool(c)
        PROVE  /\ registered' \in BOOLEAN /\ session' \in {"prompt", "work", "ended"}
               /\ tool' \in [Calls -> Tools] /\ at' \in [Calls -> Places]
               /\ result' \in [Calls -> {"none", "ok"} \cup Errors]
               /\ audit' \in Seq([call : Calls, status : {"ok", "error"}])
               /\ after' \subseteq Calls
    <3>1. CASE \E t \in Tools : Begin(c, t)
      BY <3>1 DEF Begin, Places
    <3>2. CASE Dispatch(c)
      BY <3>2 DEF Dispatch, Reject, List, Get, Ended, Busy, StartCommand, EndCommand,
            Control, WaitTimesOut, WaitReady, Wait, Status, Stop, StopSession,
            RemoveStopped, Remove, Return, Move, Places, Errors
    <3>3. CASE Record(c)
      <4>1. PICK r \in {"ok", "error"} : Recording(c, r)
        BY <3>3 DEF Record
      <4>2. [call |-> c, status |-> r] \in [call : Calls, status : {"ok", "error"}]
        BY <4>1
      <4>3. audit' \in Seq([call : Calls, status : {"ok", "error"}])
        BY <4>1, <4>2, AppendProperties DEF Recording
      <4> QED
        BY <4>1, <4>3 DEF Recording, Places
    <3>4. CASE AnswerCall(c)
      BY <3>4 DEF AnswerCall, Places
    <3>5. CASE Drop(c)
      BY <3>5 DEF Drop, Places
    <3> QED
      BY <2>2, <3>1, <3>2, <3>3, <3>4, <3>5 DEF CallTool
  <2>3. CASE SessionMoves
    BY <2>1, <2>3 DEF SessionMoves, call
  <2> QED
    BY <1>2, <2>1, <2>2, <2>3 DEF Next
<1> QED
  BY <1>1, <1>2

\* Type correctness of the calls and of the audit trail.
THEOREM CallTypes == Spec => []TypeOK
<1>1. Init => TypeOK
  BY EmptySeq DEF Init, TypeOK, Tools, Places
<1> QED
  BY <1>1, TypeStep, PTL DEF Spec

-----------------------------------------------------------------------------
(* Stops.                                                                  *)

\* A call that dispatch has not returned from has no result.
NoResultYet ==
  \A c \in Calls : at[c] \in {"new", "begun", "found", "waiting", "ready", "stopped"}
                     => result[c] = "none"

\* The debug_stop calls that the session carried out.
DidStop(c) == tool[c] = "stop" /\ (at[c] = "stopped" \/ result[c] = "ok")

\* There is one at most, and it ended the session; once it was answered, the
\* session is out of the map.
StopIsFinal ==
  /\ \A c \in Calls : DidStop(c) => session = "ended"
  /\ \A c, d \in Calls : DidStop(c) /\ DidStop(d) => c = d
  /\ \A c \in Calls : DidStop(c) /\ at[c] # "stopped" => ~registered

\* A call that began after that finds no session.
LateCallsFail ==
  \A c \in after :
    /\ ~registered /\ at[c] # "new"
    /\ tool[c] \in SessionTools =>
         at[c] = "begun" \/ result[c] \in {"not_found", "bad_call"}

\* debug_wait_break gets past its wait only when the session was at a prompt.
WaitedForPrompt ==
  \A c \in Calls :
    (tool[c] = "wait_break" /\ (at[c] = "ready" \/ result[c] = "ok"))
      => c \in sawPrompt /\ at[c] # "new"

\* The inductive invariant.
StopInv ==
  /\ NoResultYet
  /\ StopIsFinal
  /\ LateCallsFail
  /\ WaitedForPrompt

LEMMA StopInit == Init => StopInv
BY DEF Init, StopInv, NoResultYet, StopIsFinal, DidStop, LateCallsFail,
       WaitedForPrompt

\* What a step of Next does to sawPrompt.
LEMMA SawPromptStep ==
  ASSUME TypeOK, Next
  PROVE  sawPrompt \subseteq sawPrompt'
         /\ (session = "prompt" => \A c \in Calls : at'[c] # "new" => c \in sawPrompt')
BY DEF Next

LEMMA StopStep == TypeOK /\ StopInv /\ [Next]_vars => StopInv'
<1> SUFFICES ASSUME TypeOK, StopInv, [Next]_vars PROVE StopInv'
  OBVIOUS
<1> USE DEF StopInv, NoResultYet, StopIsFinal, DidStop, LateCallsFail,
            WaitedForPrompt, TypeOK
<1>1. CASE UNCHANGED vars
  BY <1>1 DEF vars, call
<1>2. ASSUME Next, NEW c \in Calls, CallTool(c) PROVE StopInv'
  <2>1. /\ sawPrompt \subseteq sawPrompt'
        /\ (session = "prompt" => \A d \in Calls : at'[d] # "new" => d \in sawPrompt')
    BY <1>2, SawPromptStep
  <2>2. CASE \E t \in Tools : Begin(c, t)
    BY <2>1, <2>2 DEF Begin, StopAnswered
  <2>3. CASE Reject(c)
    BY <2>1, <2>3 DEF Reject, Return, Move
  <2>4. CASE List(c)
    BY <2>1, <2>4 DEF List, Return, Move, SessionTools
  <2>5. CASE Get(c)
    BY <2>1, <2>5 DEF Get, Return, Move, SessionTools
  <2>6. CASE \E from \in {"found", "waiting", "ready"} : \E tools : Ended(c, tools, from)
    BY <2>1, <2>6 DEF Ended, Return, Move
  <2>7. CASE Busy(c) \/ WaitTimesOut(c)
    BY <2>1, <2>7 DEF Busy, WaitTimesOut, Return, Move
  <2>8. CASE StartCommand(c)
    BY <2>1, <2>8 DEF StartCommand, Move
  <2>9. CASE EndCommand(c)
    BY <2>1, <2>9 DEF EndCommand, Return, Move
  <2>10. CASE Control(c)
    BY <2>1, <2>10 DEF Control, Return, Move
  <2>11. CASE WaitReady(c)
    BY <2>1, <2>11 DEF WaitReady, Wait, Move
  <2>12. CASE Status(c)
    BY <2>1, <2>12 DEF Status, Return, Move
  <2>13. CASE Stop(c)
    BY <2>1, <2>13 DEF Stop, StopSession, Move
  <2>14. CASE RemoveStopped(c)
    BY <2>1, <2>14 DEF RemoveStopped, Remove, Return, Move
  <2>15. CASE Record(c) \/ AnswerCall(c)
    BY <2>1, <2>15 DEF Record, Recording, AnswerCall
  <2>16. CASE Drop(c)
    BY <2>1, <2>16 DEF Drop
  <2> QED
    BY <1>2, <2>2, <2>3, <2>4, <2>5, <2>6, <2>7, <2>8, <2>9, <2>10, <2>11, <2>12,
       <2>13, <2>14, <2>15, <2>16 DEF CallTool, Dispatch
<1>3. ASSUME Next, SessionMoves PROVE StopInv'
  BY <1>3, SawPromptStep DEF SessionMoves, call
<1> QED
  BY <1>1, <1>2, <1>3 DEF Next

LEMMA StopInvariant == Spec => []StopInv
BY StopInit, StopStep, CallTypes, PTL DEF Spec

\* A stop that was answered is final for every call that begins later.
THEOREM StopsAreFinal == Spec => []StoppedSessionIsForgotten
<1>1. TypeOK /\ StopInv => StoppedSessionIsForgotten
  BY DEF TypeOK, StopInv, LateCallsFail, StoppedSessionIsForgotten
<1> QED
  BY <1>1, CallTypes, StopInvariant, PTL

\* One caller at most is told that it stopped the session.
THEOREM StopsAreGrantedOnce == Spec => []OneStopSucceeds
<1>1. StopInv => OneStopSucceeds
  BY DEF StopInv, StopIsFinal, DidStop, OneStopSucceeds
<1> QED
  BY <1>1, StopInvariant, PTL

\* debug_wait_break does not return on a session that never stopped working.
THEOREM WaitsSawPrompt == Spec => []WaitBreakSawPrompt
<1>1. StopInv => WaitBreakSawPrompt
  BY DEF StopInv, WaitedForPrompt, WaitBreakSawPrompt
<1> QED
  BY <1>1, StopInvariant, PTL

-----------------------------------------------------------------------------
(* The audit trail.                                                        *)

StatusOf(c) == IF result[c] = "ok" THEN "ok" ELSE "error"

\* A call has one record, with its status, once it is recorded, and none before.
AuditInv ==
  \A c \in Calls :
    /\ at[c] \notin {"recorded", "answered"}
         => \A i \in DOMAIN audit : audit[i].call # c
    /\ at[c] \in {"recorded", "answered"} =>
         \E i \in DOMAIN audit :
           /\ audit[i] = [call |-> c, status |-> StatusOf(c)]
           /\ \A j \in DOMAIN audit : audit[j].call = c => j = i

\* A step that records nothing and takes no call back leaves the trail in order.
LEMMA AuditUnchanged ==
  ASSUME TypeOK, AuditInv, audit' = audit,
         \A c \in Calls : /\ at'[c] \in {"recorded", "answered"}
                               <=> at[c] \in {"recorded", "answered"}
                          /\ at[c] \in {"recorded", "answered"}
                               => result'[c] = result[c]
  PROVE  AuditInv'
BY DEF AuditInv, StatusOf

LEMMA AuditStep == TypeOK /\ AuditInv /\ [Next]_vars => AuditInv'
<1> SUFFICES ASSUME TypeOK, AuditInv, [Next]_vars PROVE AuditInv'
  OBVIOUS
<1>1. CASE UNCHANGED vars
  BY <1>1 DEF vars, call, AuditInv, StatusOf
<1>2. ASSUME NEW c \in Calls, (\E t \in Tools : Begin(c, t)) \/ Dispatch(c)
      PROVE  AuditInv'
  <2>1. /\ audit' = audit
        /\ at' = [at EXCEPT ![c] = at'[c]] /\ result' = [result EXCEPT ![c] = result'[c]]
        /\ at[c] \notin {"recorded", "answered"}
        /\ at'[c] \notin {"recorded", "answered"}
    BY <1>2 DEF TypeOK, Begin, Dispatch, Reject, List, Get, Ended, Busy, StartCommand,
          EndCommand, Control, WaitTimesOut, WaitReady, Wait, Status, Stop,
          StopSession, RemoveStopped, Remove, Return, Move
  <2> QED
    BY <2>1, AuditUnchanged DEF TypeOK
<1>3. ASSUME NEW c \in Calls, AnswerCall(c) \/ Drop(c) PROVE AuditInv'
  BY <1>3, AuditUnchanged DEF AnswerCall, Drop, TypeOK
<1>4. CASE SessionMoves
  BY <1>4, AuditUnchanged DEF SessionMoves, call
<1>5. ASSUME NEW c \in Calls, Record(c) PROVE AuditInv'
  <2> DEFINE r == [call |-> c, status |-> StatusOf(c)]
             n == Len(audit)
  <2>1. /\ at[c] = "done" /\ at' = [at EXCEPT ![c] = "recorded"]
        /\ audit' = Append(audit, r) /\ result' = result
    BY <1>5 DEF Record, Recording, StatusOf
  <2>2. /\ n \in Nat /\ DOMAIN audit = 1..n
        /\ r \in [call : Calls, status : {"ok", "error"}]
    BY LenProperties DEF TypeOK, StatusOf
  <2>3. /\ DOMAIN audit' = 1..n + 1 /\ audit'[n + 1] = r
        /\ \A i \in 1..n : audit'[i] = audit[i]
    BY <2>1, <2>2, AppendProperties DEF TypeOK
  <2>4. r.call = c
    OBVIOUS
  <2> HIDE DEF r, n
  <2>5. \A i \in DOMAIN audit : audit[i].call # c
    BY <2>1 DEF AuditInv
  <2>6. ASSUME NEW d \in Calls, d # c
        PROVE  /\ at'[d] \notin {"recorded", "answered"}
                    => \A i \in DOMAIN audit' : audit'[i].call # d
               /\ at'[d] \in {"recorded", "answered"} =>
                    \E i \in DOMAIN audit' :
                      /\ audit'[i] = [call |-> d, status |-> StatusOf(d)']
                      /\ \A j \in DOMAIN audit' : audit'[j].call = d => j = i
    <3>1. at'[d] = at[d] /\ StatusOf(d)' = StatusOf(d)
      BY <2>1, <2>6 DEF StatusOf, TypeOK
    <3>2. \A i \in 1..n + 1 : i \in 1..n \/ i = n + 1
      BY <2>2
    <3> QED
      BY <2>2, <2>3, <2>4, <2>6, <3>1, <3>2 DEF AuditInv
  <2>7. /\ at'[c] = "recorded"
        /\ \E i \in DOMAIN audit' :
             /\ audit'[i] = [call |-> c, status |-> StatusOf(c)']
             /\ \A j \in DOMAIN audit' : audit'[j].call = c => j = i
    <3>1. at'[c] = "recorded" /\ StatusOf(c)' = StatusOf(c)
      BY <2>1 DEF StatusOf, TypeOK
    <3>2. n + 1 \in DOMAIN audit' /\ \A j \in 1..n + 1 : j \in 1..n \/ j = n + 1
      BY <2>2, <2>3
    <3>3. audit'[n + 1] = [call |-> c, status |-> StatusOf(c)']
      BY <2>3, <3>1 DEF r
    <3>4. \A j \in DOMAIN audit' : audit'[j].call = c => j = n + 1
      BY <2>2, <2>3, <2>5, <3>2
    <3> QED
      BY <3>1, <3>2, <3>3, <3>4
  <2> QED
    BY <2>6, <2>7 DEF AuditInv
<1> QED
  BY <1>1, <1>2, <1>3, <1>4, <1>5 DEF Next, CallTool

\* An answered call has exactly one record, and that has its status.
THEOREM AnswersAreAudited == Spec => []AnswerIsAudited
<1>1. Init => AuditInv
  BY DEF Init, AuditInv
<1>2. AuditInv => AnswerIsAudited
  BY DEF AuditInv, AnswerIsAudited, StatusOf
<1> QED
  BY <1>1, <1>2, AuditStep, CallTypes, PTL DEF Spec
=============================================================================
