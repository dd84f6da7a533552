------------------------- MODULE CdbSession_proofs -------------------------
(***************************************************************************)
(* Theorems about CdbSession, for every set of calls, every choice of      *)
(* operations and of noise, and every bound.                               *)
(***************************************************************************)
EXTENDS CdbSession, SequenceTheorems, TLAPS

-----------------------------------------------------------------------------
(* Lemmas about the operators the session is built from.                   *)

\* A call that is answered gets the answer, or keeps the reply it had.
LEMMA AnswerType ==
  ASSUME NEW c \in Calls, NEW r \in Answers,
         reply \in [Calls -> Replies]
  PROVE  Answer(c, r) \in [Calls -> Replies]
BY DEF Answer, Replies

\* The same of calls whose sender is dropped.
LEMMA DroppingType ==
  ASSUME NEW cs, NEW r \in [Calls -> Replies]
  PROVE  Dropping(cs, r) \in [Calls -> Replies]
BY DEF Dropping, Answers, Replies

\* What read_since returns is a sequence of chunks.
LEMMA ReadSinceType ==
  ASSUME log \in Seq(Chunk), startOffset \in Nat
  PROVE  ReadSince(startOffset) \in Seq(Chunk)
<1>1. \A i \in startOffset + 1 .. Len(log) : log[i] \in Chunk
  OBVIOUS
<1> QED
  BY <1>1, SubSeqProperties DEF ReadSince

\* The cancel arm is on or off, whatever a turn ends with.
LEMMA TickType == NextTurn \/ LeaveSelect => tick' \in BOOLEAN
BY DEF NextTurn, LeaveSelect, Cancelled

-----------------------------------------------------------------------------
(* Type correctness.                                                       *)

LEMMA InitType == Init => TypeOK
<1> SUFFICES ASSUME Init PROVE TypeOK
  OBVIOUS
<1>1. <<>> \in Seq(Chunk) /\ <<>> \in Seq(Calls)
  BY EmptySeq
<1>2. /\ output \in [Calls -> Seq(Chunk)]
      /\ pipe \in [Streams -> Seq(Chunk)]
      /\ op \in [Calls -> Ops \cup {"none"}]
      /\ reply \in [Calls -> Replies]
  BY <1>1 DEF Init, Replies
<1> QED
  BY <1>1, <1>2 DEF Init, TypeOK, States

LEMMA SpawnerType == TypeOK /\ Spawner => TypeOK'
BY DEF TypeOK, Spawner, SpawnReady, SpawnGivesUp, MarkFailed, GiveUp, SpawnDropped, shared,
       actorVars, loop, slot, callVars, wire, child, States

LEMMA CallerType == ASSUME TypeOK, NEW c \in Calls, Caller(c) PROVE TypeOK'
<1>1. CASE \E o \in Ops : Submit(c, o)
  BY <1>1 DEF TypeOK, Submit, Ask, shared, actorVars, loop, slot, wire, child, Replies
<1>2. CASE \E o \in Ops : SubmitGone(c, o)
  BY <1>2 DEF TypeOK, SubmitGone, Ask, shared, actorVars, loop, slot, wire, child, Answers, Replies
<1>3. CASE StartWait(c)
  BY <1>3 DEF TypeOK, StartWait, Ask, shared, actorVars, loop, slot, wire, child,
                Replies
<1>4. CASE WaitReturns(c)
  <2>1. {"ok", "exited", "timeout"} \subseteq Answers
    BY DEF Answers
  <2>2. reply' \in [Calls -> Replies]
    BY <1>4, <2>1, AnswerType DEF TypeOK, WaitReturns
  <2> QED
    BY <1>4, <2>2 DEF TypeOK, WaitReturns, shared, actorVars, loop, slot, wire, child
<1>5. CASE Abandon(c)
  BY <1>5 DEF TypeOK, Abandon, shared, actorVars, loop, slot, wire, child, Replies
<1> QED
  BY <1>1, <1>2, <1>3, <1>4, <1>5 DEF Caller

\* What the end of the actor leaves behind has its type.
LEMMA ActorEndsType ==
  ASSUME TypeOK, NEW c \in Calls \cup {None}, NEW r \in Answers, ActorEnds(c, r)
  PROVE  /\ state' \in States /\ spawner' = spawner /\ seen' = seen
         /\ actor' = "gone" /\ stopper' = None /\ executing' = None
         /\ startOffset' \in Nat /\ log' \in Seq(Chunk) /\ recovered' = recovered
         /\ requests' \in Seq(Calls) /\ op' = op /\ output' = output
         /\ reply' \in [Calls -> Replies]
         /\ pipe' \in [Streams -> Seq(Chunk)] /\ closed' \subseteq Streams
         /\ tick' \in BOOLEAN
<1>1. <<>> \in Seq(Chunk) /\ <<>> \in Seq(Calls)
  BY EmptySeq
<1>2. (IF c = None THEN reply ELSE Answer(c, r))
        \in [Calls -> Replies]
  BY AnswerType DEF TypeOK
<1>3. reply' \in [Calls -> Replies]
  BY <1>2, DroppingType DEF ActorEnds
<1>4. pipe' \in [Streams -> Seq(Chunk)]
  BY <1>1 DEF ActorEnds
<1> QED
  BY <1>1, <1>3, <1>4, TickType DEF ActorEnds, States

LEMMA ActorType == ASSUME TypeOK, Actor PROVE TypeOK'
<1>1. CASE \E s \in Streams : RecvOutput(s)
  <2>1. PICK s \in Streams : RecvOutput(s)
    BY <1>1
  <2>2. pipe[s] \in Seq(Chunk) /\ pipe[s] # <<>>
    BY <2>1 DEF TypeOK, RecvOutput
  <2>3. Head(pipe[s]) \in Chunk /\ Tail(pipe[s]) \in Seq(Chunk)
    BY <2>2, HeadTailProperties
  <2>4. log' \in Seq(Chunk)
    BY <2>1, <2>3, AppendProperties DEF TypeOK, RecvOutput
  <2>5. pipe' \in [Streams -> Seq(Chunk)]
    BY <2>1, <2>3 DEF TypeOK, RecvOutput
  <2> QED
    BY <2>1, <2>4, <2>5, TickType DEF TypeOK, RecvOutput, shared, slot, callVars, child
<1>2. CASE OnOutput
  <2>1. /\ reply' \in [Calls -> Replies]
        /\ output' \in [Calls -> Seq(Chunk)]
        /\ executing' \in Calls \cup {None} /\ startOffset' \in Nat
    <3>1. CASE Complete
      <4>1. "ok" \in Answers
        BY DEF Answers
      <4>2. CASE executing = None
        BY <3>1, <4>2 DEF Complete, TypeOK, slot
      <4>3. CASE executing # None
        <5>1. reply' = Answer(executing, "ok")
          BY <3>1, <4>3 DEF Complete
        <5>2. reply' \in [Calls -> Replies]
          BY <4>1, <4>3, <5>1, AnswerType DEF TypeOK
        <5>3. output' \in [Calls -> Seq(Chunk)]
          BY <3>1, <4>3, ReadSinceType DEF Complete, TypeOK
        <5> QED
          BY <3>1, <4>3, <5>2, <5>3 DEF Complete, TypeOK
      <4> QED
        BY <4>2, <4>3
    <3>2. CASE UNCHANGED <<reply, output, slot>>
      BY <3>2 DEF TypeOK, slot
    <3> QED
      BY <1>2, <3>1, <3>2 DEF OnOutput, ActOnPrompt
  <2>2. state' \in States
    BY <1>2 DEF OnOutput, ActOnPrompt, TypeOK, States
  <2> QED
    BY <1>2, <2>1, <2>2, TickType DEF OnOutput, ActOnPrompt, TypeOK, wire, child, States
<1>3. CASE ChildExit
  <2>1. ActorEnds(executing, "exited") /\ exitStatus' \in BOOLEAN /\ UNCHANGED child
    BY <1>3 DEF ChildExit, TypeOK
  <2> QED
    BY <2>1, ActorEndsType DEF TypeOK, child, Answers
<1>4. CASE StreamsClosed
  <2>1. ActorEnds(executing, "exited") /\ UNCHANGED <<exitStatus, child>>
    BY <1>4 DEF StreamsClosed
  <2> QED
    BY <2>1, ActorEndsType DEF TypeOK, child, Answers
<1>5. CASE StopReturns
  <2>1. /\ ActorEnds(stopper, "ok") /\ exitStatus' \in BOOLEAN
        /\ killed' \in BOOLEAN /\ UNCHANGED <<stdin, cdb, job, ctrl, noise>>
    BY <1>5 DEF StopReturns, StopEnds, Reaped, WaitFails, WaitTimesOut, TypeOK
  <2> QED
    BY <2>1, ActorEndsType DEF TypeOK, Answers
<1>6. CASE DeadlinePasses \/ CancelTick
  <2>1. executing \in Calls /\ TakeSlot
    BY <1>6 DEF DeadlinePasses, CancelTick, TakeSlot, TypeOK
  <2>2. reply' \in [Calls -> Replies]
    <3>1. reply' = reply \/ reply' = Answer(executing, "timeout")
      BY <1>6 DEF DeadlinePasses, CancelTick
    <3>2. "timeout" \in Answers
      BY DEF Answers
    <3>3. Answer(executing, "timeout") \in [Calls -> Replies]
      BY <2>1, <3>2, AnswerType DEF TypeOK
    <3> QED
      BY <3>1, <3>3 DEF TypeOK
  <2>3. state' \in States /\ ctrl' \in BOOLEAN /\ recovered' \in BOOLEAN
    BY <2>1 DEF TakeSlot, InterruptCommand, CtrlBreak, TypeOK, States
  <2> QED
    BY <2>1, <2>2, <2>3, TickType DEF TakeSlot, TypeOK, wire
<1>7. CASE \E c \in Calls : HandleRequest(c)
  <2>1. PICK c \in Calls : HandleRequest(c)
    BY <1>7
  <2>2. /\ \A r \in Answers :
            Answer(c, r) \in [Calls -> Replies]
        /\ {"ok", "io", "invalid"} \subseteq Answers
    BY AnswerType DEF TypeOK, Answers
  <2>3. ASSUME NEW ops, Take(c, ops)
        PROVE  requests' \in Seq(Calls)
    BY <2>3, HeadTailProperties DEF Take, TypeOK
  <2>4. stdin' = Append(stdin, c) => stdin' \in Seq(Calls)
    BY AppendProperties DEF TypeOK
  <2>5. ASSUME NEW ops, NEW guard, NEW r \in {"ok", "io", "invalid"},
               Refuse(c, ops, guard, r)
        PROVE  TypeOK'
    BY <2>2, <2>3, <2>5, TickType DEF Refuse, TypeOK, shared, actorVars, loop, slot, wire, child
  <2>6. CASE AcceptCommand(c)
    <3>1. reply' \in [Calls -> Replies]
      BY <2>6, DroppingType DEF AcceptCommand, BeginCommand, TypeOK
    <3>2. startOffset' \in Nat
      BY <2>6, LenProperties DEF AcceptCommand, BeginCommand, TypeOK
    <3>3. requests' \in Seq(Calls) /\ stdin' \in Seq(Calls)
      BY <2>3, <2>4, <2>6 DEF AcceptCommand, BeginCommand
    <3>4. /\ state' \in States /\ executing' \in Calls \cup {None}
          /\ UNCHANGED <<exitStatus, spawner, actor, seen, stopper, log, recovered,
                         op, output, pipe, closed, cdb, job, ctrl, killed, noise>>
          /\ tick' \in BOOLEAN
      BY <2>6, TickType DEF AcceptCommand, BeginCommand, wire, States
    <3> QED
      BY <3>1, <3>2, <3>3, <3>4 DEF TypeOK
  <2>7. CASE SendGo(c)
    BY <2>2, <2>3, <2>4, <2>7, TickType DEF SendGo, TypeOK, actorVars, loop, slot, wire, States
  <2>8. CASE SendBreak(c)
    BY <2>2, <2>3, <2>8, TickType
       DEF SendBreak, Interrupt, CtrlBreak, TypeOK, actorVars, loop, slot, wire, States
  <2>9. CASE HandleStop(c)
    <3>1. requests' \in Seq(Calls) /\ stdin' \in Seq(Calls)
      BY <2>3, <2>4, <2>9 DEF HandleStop, TypeOK
    <3>2. killed' \in BOOLEAN
      BY <2>9 DEF HandleStop, TypeOK
    <3> QED
      BY <2>9, <3>1, <3>2, TickType DEF HandleStop, TypeOK, shared, slot, wire
  <2> QED
    BY <2>1, <2>5, <2>6, <2>7, <2>8, <2>9
       DEF HandleRequest, HandleCommand, HandleContinue, HandleBreak, HandleStatus
<1> QED
  BY <1>1, <1>2, <1>3, <1>4, <1>5, <1>6, <1>7 DEF Actor

LEMMA CdbType == ASSUME TypeOK, Cdb PROVE TypeOK'
<1>1. ASSUME NEW s \in Streams, NEW k \in NoiseKinds \cup {"prompt"}, Emit(s, k)
      PROVE  pipe' \in [Streams -> Seq(Chunk)]
  <2>1. [kind |-> k, by |-> job] \in Chunk
    BY <1>1 DEF Chunk, TypeOK
  <2>2. Append(pipe[s], [kind |-> k, by |-> job]) \in Seq(Chunk)
    BY <2>1, AppendProperties DEF TypeOK
  <2> QED
    BY <1>1, <2>2 DEF Emit, TypeOK
<1>2. CASE CdbReadLine
  BY <1>2, HeadTailProperties
     DEF CdbReadLine, TypeOK, shared, actorVars, loop, slot, callVars, wire
<1>3. CASE CdbPrompt
  <2>1. pipe' \in [Streams -> Seq(Chunk)]
    BY <1>1, <1>3 DEF CdbPrompt, Streams
  <2> QED
    BY <1>3, <2>1 DEF CdbPrompt, TypeOK, shared, actorVars, loop, slot, callVars
<1>4. CASE CdbExit
  BY <1>4 DEF CdbExit, TypeOK, shared, actorVars, loop, slot, callVars, wire
<1>5. CASE \E s \in Streams : ReaderFails(s)
  <2>1. PICK s \in Streams : ReaderFails(s)
    BY <1>5
  <2>2. PICK n \in 0..Len(pipe[s]) : pipe' = [pipe EXCEPT ![s] = SubSeq(@, 1, n)]
    BY <2>1 DEF ReaderFails
  <2>3. pipe[s] \in Seq(Chunk)
    BY DEF TypeOK
  <2>4. SubSeq(pipe[s], 1, n) \in Seq(Chunk)
    BY <2>3, SubSeqProperties
  <2>5. pipe' \in [Streams -> Seq(Chunk)]
    BY <2>2, <2>4 DEF TypeOK
  <2> QED
    BY <2>1, <2>5 DEF ReaderFails, TypeOK, shared, actorVars, loop, slot, callVars, child
<1>6. CASE \E s \in Streams : \E k \in NoiseKinds : CdbWrite(s, k)
  <2>1. pipe' \in [Streams -> Seq(Chunk)]
    BY <1>1, <1>6 DEF CdbWrite
  <2> QED
    BY <1>6, <2>1 DEF CdbWrite, TypeOK, shared, actorVars, loop, slot, callVars
<1> QED
  BY <1>2, <1>3, <1>4, <1>5, <1>6 DEF Cdb

LEMMA StutterType == TypeOK /\ UNCHANGED vars => TypeOK'
BY DEF TypeOK, vars, shared, actorVars, loop, slot, callVars, wire, child

LEMMA NextType == TypeOK /\ [Next]_vars => TypeOK'
BY SpawnerType, CallerType, ActorType, CdbType, StutterType DEF Next

\* Type correctness of the session, its channels and its child.
THEOREM TypeCorrect == Spec => []TypeOK
<1>1. Init => TypeOK
  BY InitType
<1>2. TypeOK /\ [Next]_vars => TypeOK'
  BY NextType
<1> QED
  BY <1>1, <1>2, PTL DEF Spec

-----------------------------------------------------------------------------
(* The slot of the actor.                                                  *)

LEMMA SlotInit == Init => SlotInv
BY DEF Init, SlotInv, CallsNeedSession, SeenIsCurrent, SlotMatchesState,
       PromptInBufferIsStale

\* The steps of the spawner, the callers and cdb do not touch the slot.
LEMMA SlotOthers ==
  ASSUME SlotInv, Spawner \/ (\E c \in Calls : Caller(c)) \/ Cdb
  PROVE  SlotInv'
<1>1. CASE Spawner
  BY <1>1 DEF Spawner, SpawnReady, SpawnGivesUp, MarkFailed, GiveUp, SpawnDropped, shared,
              actorVars, loop, slot, callVars, SlotInv, CallsNeedSession, SeenIsCurrent,
              SlotMatchesState, PromptInBufferIsStale
<1>2. CASE \E c \in Calls : Caller(c)
  <2>1. PICK c \in Calls : Caller(c)
    BY <1>2
  <2>2. UNCHANGED <<shared, spawner, actorVars>>
    BY <2>1 DEF Caller, Submit, SubmitGone, StartWait, WaitReturns, Abandon
  <2>3. CallsNeedSession'
    BY <2>1, <2>2 DEF Caller, Submit, SubmitGone, StartWait, WaitReturns, Abandon, Ask,
                      SlotInv, CallsNeedSession, actorVars, loop, slot
  <2> QED
    BY <2>2, <2>3 DEF shared, actorVars, loop, slot, SlotInv, SeenIsCurrent,
                      SlotMatchesState, PromptInBufferIsStale
<1>3. CASE Cdb
  <2>1. UNCHANGED <<shared, spawner, actorVars, callVars>>
    BY <1>3 DEF Cdb, CdbReadLine, CdbPrompt, CdbExit, ReaderFails, CdbWrite
  <2> QED
    BY <2>1 DEF shared, actorVars, loop, slot, callVars, SlotInv, CallsNeedSession,
                SeenIsCurrent, SlotMatchesState, PromptInBufferIsStale
<1> QED
  BY <1>1, <1>2, <1>3

LEMMA SlotActor == ASSUME TypeOK, SlotInv, Actor PROVE SlotInv'
<1> USE DEF SlotInv, CallsNeedSession, SeenIsCurrent, SlotMatchesState,
            PromptInBufferIsStale
<1>1. CASE \E s \in Streams : RecvOutput(s)
  BY <1>1 DEF RecvOutput, shared, slot, callVars
<1>2. CASE OnOutput
  <2>1. CASE EndsAtPrompt(log) /\ seen \in {"Executing", "Breaking"} /\ Complete
    BY <1>2, <2>1 DEF OnOutput, ActOnPrompt, Complete, slot
  <2>2. CASE EndsAtPrompt(log) /\ seen \in {"Starting", "Running"}
    BY <1>2, <2>2 DEF OnOutput, ActOnPrompt, slot
  <2>3. CASE ~EndsAtPrompt(log) /\ UNCHANGED <<state, slot>>
    BY <1>2, <2>3 DEF OnOutput, ActOnPrompt, slot
  <2>4. CASE seen \notin {"Starting", "Executing", "Running", "Breaking"} /\ UNCHANGED <<state, slot>>
    BY <1>2, <2>4 DEF OnOutput, ActOnPrompt, slot
  <2> QED
    BY <1>2, <2>1, <2>2, <2>3, <2>4 DEF OnOutput, ActOnPrompt
<1>3. CASE ChildExit \/ StreamsClosed \/ StopReturns
  <2>1. \E c, r : ActorEnds(c, r)
    BY <1>3 DEF ChildExit, StreamsClosed, StopReturns, StopEnds, Reaped, WaitFails, WaitTimesOut
  <2> QED
    BY <2>1 DEF ActorEnds
<1>4. CASE DeadlinePasses \/ CancelTick
  BY <1>4 DEF DeadlinePasses, CancelTick, TakeSlot, InterruptCommand
<1>5. CASE \E c \in Calls : HandleRequest(c)
  <2>1. PICK c \in Calls : HandleRequest(c)
    BY <1>5
  <2>2. ASSUME NEW ops, Take(c, ops)
        PROVE  spawner = "ok" /\ actor = "select"
    BY <2>2 DEF Take
  <2>3. ASSUME NEW ops, NEW guard, NEW r, Refuse(c, ops, guard, r)
        PROVE  SlotInv'
    BY <2>2, <2>3 DEF Refuse, shared, actorVars, loop, slot
  <2>4. CASE AcceptCommand(c)
    BY <2>2, <2>4 DEF AcceptCommand, BeginCommand
  <2>5. CASE SendGo(c)
    BY <2>2, <2>5 DEF SendGo, actorVars, loop, slot
  <2>6. CASE SendBreak(c)
    BY <2>2, <2>6 DEF SendBreak, Interrupt, actorVars, loop, slot
  <2>7. CASE HandleStop(c)
    BY <2>2, <2>7 DEF HandleStop, shared, slot
  <2> QED
    BY <2>1, <2>3, <2>4, <2>5, <2>6, <2>7
       DEF HandleRequest, HandleCommand, HandleContinue, HandleBreak, HandleStatus
<1> QED
  BY <1>1, <1>2, <1>3, <1>4, <1>5 DEF Actor

LEMMA SlotStep == TypeOK /\ SlotInv /\ [Next]_vars => SlotInv'
<1>1. SlotInv /\ UNCHANGED vars => SlotInv'
  BY DEF vars, shared, actorVars, loop, slot, callVars, SlotInv, CallsNeedSession,
         SeenIsCurrent, SlotMatchesState, PromptInBufferIsStale
<1> QED
  BY <1>1, SlotOthers, SlotActor DEF Next

LEMMA SlotInvariant == Spec => []SlotInv
<1>1. Init => SlotInv
  BY SlotInit
<1>2. TypeOK /\ SlotInv /\ [Next]_vars => SlotInv'
  BY SlotStep
<1> QED
  BY <1>1, <1>2, TypeCorrect, PTL DEF Spec

\* The slot is taken only while Executing or Breaking: no command, timed out,
\* cancelled or interrupted, ever loses its slot to the next one.
THEOREM SlotSafe == Spec => []SlotMatchesState
BY SlotInvariant, PTL DEF SlotInv

\* The prompt that interrupt_cdb_command finds in the buffer is never the one of
\* the command it interrupts.
THEOREM BufferCheckIsStale == Spec => []PromptInBufferIsStale
BY SlotInvariant, PTL DEF SlotInv

-----------------------------------------------------------------------------
(* Nothing wedges.                                                         *)

\* Without unterminated text in the buffer, a prompt that arrives is seen.
LEMMA PromptIsSeen ==
  ASSUME "frag" \notin NoiseKinds, NEW l \in Seq(Chunk), NEW chunk \in Chunk,
         chunk.kind = "prompt"
  PROVE  EndsAtPrompt(Append(l, chunk))
<1> DEFINE m == Append(l, chunk)
           n == Len(l) + 1
<1>1. m \in Seq(Chunk) /\ Len(m) = n /\ n \in DOMAIN m /\ m[n] = chunk
  BY AppendProperties
<1>2. \A i \in DOMAIN m : m[i] \in Chunk
  BY <1>1
<1>3. n > 1 => m[n-1].kind # "frag"
  <2>1. n > 1 => n - 1 \in DOMAIN m
    BY <1>1
  <2> QED
    BY <2>1, <1>2 DEF Chunk
<1>4. \A j \in DOMAIN m : ~(j > n)
  BY <1>1
<1> HIDE DEF m, n
<1> QED
  BY <1>1, <1>3, <1>4 DEF EndsAtPrompt, m

LEMMA WedgeInit == Init => NoWedge
BY DEF Init, NoWedge

LEMMA WedgeOthers ==
  ASSUME TypeOK, NoWedge, Spawner \/ (\E c \in Calls : Caller(c)) \/ Cdb
  PROVE  NoWedge'
<1> USE DEF NoWedge, PromptOnItsWay
<1>1. CASE Spawner
  BY <1>1 DEF Spawner, SpawnReady, SpawnGivesUp, MarkFailed, GiveUp, SpawnDropped, shared,
              actorVars, loop, slot, wire, child
<1>2. CASE \E c \in Calls : Caller(c)
  BY <1>2 DEF Caller, Submit, SubmitGone, StartWait, WaitReturns, Abandon, shared,
              actorVars, loop, slot, wire, child
<1>3. CASE CdbReadLine \/ CdbExit
  BY <1>3 DEF CdbReadLine, CdbExit, TypeOK
<1>4. CASE CdbPrompt
  <2>1. CASE "stdout" \in closed
    BY <1>4, <2>1 DEF CdbPrompt
  <2>2. CASE "stdout" \notin closed
    <3> DEFINE chunk == [kind |-> "prompt", by |-> job]
               q == pipe["stdout"]
    <3>1. pipe'["stdout"] = Append(q, chunk) /\ q \in Seq(Chunk) /\ chunk \in Chunk
      BY <1>4, <2>2 DEF CdbPrompt, Emit, TypeOK, Chunk, Streams
    <3>2. /\ Len(q) + 1 \in DOMAIN pipe'["stdout"]
          /\ pipe'["stdout"][Len(q) + 1] = chunk
      BY <3>1, AppendProperties
    <3> QED
      BY <3>2
  <2> QED
    BY <2>1, <2>2
<1>5. CASE \E s \in Streams : ReaderFails(s)
  BY <1>5 DEF ReaderFails, TypeOK, Streams, shared, actorVars, loop, slot, child
<1>6. CASE \E s \in Streams : \E k \in NoiseKinds : CdbWrite(s, k)
  BY <1>6 DEF CdbWrite
<1> QED
  BY <1>1, <1>2, <1>3, <1>4, <1>5, <1>6 DEF Cdb

LEMMA WedgeActor ==
  ASSUME TypeOK, SlotInv, NoWedge, Actor, "frag" \notin NoiseKinds
  PROVE  NoWedge'
<1> USE DEF NoWedge, PromptOnItsWay
<1>1. CASE RecvOutput("stderr")
  BY <1>1 DEF RecvOutput, TypeOK, Streams, shared, child
<1>2. CASE RecvOutput("stdout")
  <2> DEFINE q == pipe["stdout"]
  <2>1. q \in Seq(Chunk) /\ q # <<>> /\ pipe'["stdout"] = Tail(q)
    BY <1>2 DEF RecvOutput, TypeOK, Streams
  <2>2. ASSUME NEW i \in DOMAIN q, q[i].kind = "prompt"
        PROVE  PromptOnItsWay'
    <3>1. CASE i = 1
      <4>1. Head(q) \in Chunk /\ Head(q).kind = "prompt"
        BY <2>1, <2>2, <3>1
      <4>2. EndsAtPrompt(log')
        BY <1>2, <4>1, PromptIsSeen DEF RecvOutput, TypeOK
      <4> QED
        BY <1>2, <4>2 DEF RecvOutput
    <3>2. CASE i > 1
      <4>1. i - 1 \in DOMAIN Tail(q) /\ Tail(q)[i-1] = q[i]
        BY <2>1, <3>2
      <4> QED
        BY <2>1, <2>2, <4>1
    <3> QED
      BY <2>1, <3>1, <3>2
  <2> QED
    BY <1>2, <2>2 DEF RecvOutput, shared, child
<1>3. CASE OnOutput
  BY <1>3 DEF OnOutput, ActOnPrompt, SlotInv, SeenIsCurrent, TypeOK, States, wire, child
<1>4. CASE ChildExit \/ StreamsClosed \/ StopReturns
  BY <1>4 DEF ChildExit, StreamsClosed, StopReturns, StopEnds, Reaped, WaitFails, WaitTimesOut, ActorEnds
<1>5. CASE DeadlinePasses \/ CancelTick
  BY <1>5 DEF DeadlinePasses, CancelTick, TakeSlot, InterruptCommand, wire
<1>6. CASE \E c \in Calls : HandleRequest(c)
  <2>1. PICK c \in Calls : HandleRequest(c)
    BY <1>6
  <2>2. ASSUME NEW ops, NEW guard, NEW r, Refuse(c, ops, guard, r)
        PROVE  NoWedge'
    BY <2>2 DEF Refuse, shared, actorVars, loop, wire, child
  <2>3. CASE AcceptCommand(c) \/ SendGo(c)
    <3>1. stdin' # <<>>
      BY <2>3, AppendProperties DEF AcceptCommand, BeginCommand, SendGo, TypeOK
    <3> QED
      BY <3>1
  <2>4. CASE SendBreak(c)
    BY <2>4 DEF SendBreak, Interrupt, Inactive, TypeOK, States, actorVars, loop, wire
  <2>5. CASE HandleStop(c)
    BY <2>5 DEF HandleStop
  <2> QED
    BY <2>1, <2>2, <2>3, <2>4, <2>5
       DEF HandleRequest, HandleCommand, HandleContinue, HandleBreak, HandleStatus
<1> QED
  BY <1>1, <1>2, <1>3, <1>4, <1>5, <1>6 DEF Actor, Streams

\* Where cdb terminates the lines it writes, a session that waits for a prompt is
\* never left waiting by a cdb that has already given it.
THEOREM NeverWedged == ASSUME "frag" \notin NoiseKinds PROVE Spec => []NoWedge
<1>1. Init => NoWedge
  BY WedgeInit
<1>2. TypeOK /\ SlotInv /\ NoWedge /\ [Next]_vars => NoWedge'
  <2>1. NoWedge /\ UNCHANGED vars => NoWedge'
    BY DEF NoWedge, PromptOnItsWay, vars, shared, actorVars, loop, wire, child
  <2> QED
    BY <2>1, WedgeOthers, WedgeActor DEF Next
<1> QED
  BY <1>1, <1>2, TypeCorrect, SlotInvariant, PTL DEF Spec

-----------------------------------------------------------------------------
(* Every call is accounted for.                                            *)

\* Taking the head of a queue without repetitions takes it out of the queue.
LEMMA TakeHead ==
  ASSUME NEW q \in Seq(Calls), q # <<>>, IsInjective(q)
  PROVE  /\ Range(Tail(q)) = Range(q) \ {Head(q)}
         /\ Head(q) \in Range(q)
         /\ IsInjective(Tail(q))
<1>1. /\ Len(q) \in Nat \ {0} /\ DOMAIN q = 1..Len(q) /\ Head(q) = q[1]
      /\ DOMAIN Tail(q) = 1..Len(q)-1
      /\ \A i \in 1..Len(q)-1 : Tail(q)[i] = q[i+1]
  OBVIOUS
<1>2. IsInjective(Tail(q))
  BY <1>1 DEF IsInjective
<1>3. Head(q) \in Range(q) /\ Head(q) \notin Range(Tail(q))
  BY <1>1 DEF IsInjective, Range
<1>4. ASSUME NEW x \in Range(q), x # Head(q)
      PROVE  x \in Range(Tail(q))
  <2>1. PICK i \in DOMAIN q : q[i] = x
    BY DEF Range
  <2>2. i - 1 \in DOMAIN Tail(q) /\ Tail(q)[i-1] = x
    BY <1>1, <1>4, <2>1
  <2> QED
    BY <2>2 DEF Range
<1>5. Range(Tail(q)) \subseteq Range(q)
  BY <1>1 DEF Range
<1> QED
  BY <1>2, <1>3, <1>4, <1>5

\* Appending a new call keeps the queue free of repetitions.
LEMMA AppendNew ==
  ASSUME NEW q \in Seq(Calls), NEW c \in Calls
  PROVE  /\ Range(Append(q, c)) = Range(q) \cup {c}
         /\ IsInjective(q) /\ c \notin Range(q) => IsInjective(Append(q, c))
<1> DEFINE a == Append(q, c)
<1>1. /\ Len(q) \in Nat /\ DOMAIN q = 1..Len(q) /\ DOMAIN a = 1..Len(q)+1
      /\ a[Len(q)+1] = c /\ \A i \in 1..Len(q) : a[i] = q[i]
  BY AppendProperties
<1> HIDE DEF a
<1>2. Range(a) = Range(q) \cup {c}
  BY <1>1 DEF Range
<1>3. IsInjective(q) /\ c \notin Range(q) => IsInjective(a)
  BY <1>1 DEF IsInjective, Range
<1> QED
  BY <1>2, <1>3 DEF a

LEMMA HeldInit == Init => HeldInv
<1> SUFFICES ASSUME Init PROVE HeldInv
  OBVIOUS
<1>1. requests = <<>> /\ Range(requests) = {}
  BY DEF Init, Range
<1>2. IsInjective(requests)
  BY <1>1 DEF IsInjective
<1> QED
  BY <1>1, <1>2 DEF Init, HeldInv, EveryCallAccountedFor, Held

LEMMA HeldOthers ==
  ASSUME TypeOK, HeldInv, Spawner \/ (\E c \in Calls : Caller(c)) \/ Cdb
  PROVE  HeldInv'
<1> USE DEF HeldInv, EveryCallAccountedFor, Held
<1>1. CASE Spawner \/ Cdb
  <2>1. UNCHANGED <<actorVars, callVars>>
    BY <1>1 DEF Spawner, SpawnReady, SpawnGivesUp, MarkFailed, GiveUp, SpawnDropped,
                Cdb, CdbReadLine, CdbPrompt, CdbExit, ReaderFails, CdbWrite
  <2> QED
    BY <2>1 DEF actorVars, loop, slot, callVars
<1>2. ASSUME NEW c \in Calls, NEW o \in Ops, Submit(c, o)
      PROVE  HeldInv'
  <2>1. c \notin Held /\ c # executing /\ c # stopper
    BY <1>2, NoneAssumption DEF Submit, Ask
  <2>2. Range(requests') = Range(requests) \cup {c} /\ IsInjective(requests')
    BY <1>2, <2>1, NoneAssumption, AppendNew DEF Submit, TypeOK
  <2>3. op'[c] # "none" /\ op'[c] # "wait" /\ reply'[c] = "pending"
    BY <1>2, OpsAssumption DEF Submit, Ask, TypeOK, AllOps
  <2>4. \A d \in Calls \ {c} : op'[d] = op[d] /\ reply'[d] = reply[d]
    BY <1>2 DEF Submit, Ask, TypeOK
  <2>5. UNCHANGED <<executing, stopper, actor>>
    BY <1>2 DEF Submit, actorVars, loop, slot
  <2> QED
    BY <2>1, <2>2, <2>3, <2>4, <2>5, NoneAssumption
<1>3. ASSUME NEW c \in Calls, (\E o \in Ops : SubmitGone(c, o)) \/ StartWait(c)
      PROVE  HeldInv'
  <2>1. c \notin Held
    BY <1>3 DEF SubmitGone, StartWait, Ask
  <2>2. /\ op'[c] # "none"
        /\ reply'[c] = "gone" \/ (reply'[c] = "pending" /\ op'[c] = "wait")
    BY <1>3, OpsAssumption DEF SubmitGone, StartWait, Ask, TypeOK, AllOps
  <2>3. \A d \in Calls \ {c} : op'[d] = op[d] /\ reply'[d] = reply[d]
    BY <1>3 DEF SubmitGone, StartWait, Ask, TypeOK
  <2>4. UNCHANGED <<requests, executing, stopper, actor>>
    BY <1>3 DEF SubmitGone, StartWait, actorVars, loop, slot
  <2> QED
    BY <2>1, <2>2, <2>3, <2>4
<1>4. ASSUME NEW c \in Calls, WaitReturns(c) \/ Abandon(c)
      PROVE  HeldInv'
  <2>1. UNCHANGED <<requests, executing, stopper, actor, op>>
    BY <1>4 DEF WaitReturns, Abandon, actorVars, loop, slot
  <2>2. \A d \in Calls \ {c} : reply'[d] = reply[d]
    BY <1>4 DEF WaitReturns, Abandon, Answer, TypeOK
  <2>3. reply[c] = "pending" /\ (op[c] = "wait" \/ reply'[c] = "abandoned")
    BY <1>4 DEF WaitReturns, Abandon, TypeOK
  <2>4. op[c] # "none" /\ reply'[c] # "pending"
    BY <1>4, <2>3 DEF WaitReturns, Abandon, Answer, TypeOK
  <2> QED
    BY <2>1, <2>2, <2>3, <2>4
<1> QED
  BY <1>1, <1>2, <1>3, <1>4 DEF Caller

\* When the actor ends, every call it held is answered or dropped.
LEMMA HeldEnds ==
  ASSUME TypeOK, HeldInv, NEW c \in {executing, stopper}, NEW r \in Answers,
         ActorEnds(c, r), actor = "select" => stopper = None,
         actor = "stopping" => c = stopper, actor = "select" => c = executing,
         actor \in {"select", "stopping"}
  PROVE  HeldInv'
<1> USE DEF HeldInv, EveryCallAccountedFor, Held
<1>1. requests' = <<>> /\ Range(requests') = {} /\ IsInjective(requests')
  BY DEF ActorEnds, Range, IsInjective
<1>2. Held' = {} /\ executing' = None /\ stopper' = None /\ op' = op
  BY <1>1 DEF ActorEnds
<1>3. ASSUME NEW d \in Calls, reply[d] # "pending"
      PROVE  reply'[d] = reply[d]
  BY <1>3 DEF ActorEnds, Dropping, Answer, TypeOK
<1>4. ASSUME NEW d \in Calls, d \in Held
      PROVE  reply'[d] # "pending"
  <2>1. CASE d = c
    <3>1. reply'[d] = IF reply[d] = "pending" THEN r ELSE reply[d]
      BY <1>4, <2>1 DEF ActorEnds, Dropping, Answer, TypeOK
    <3> QED
      BY <3>1 DEF Answers
  <2>2. CASE d # c
    <3>1. d \in (Range(requests) \cup {executing}) \ {c}
      BY <1>4, <2>2
    <3> QED
      BY <3>1 DEF ActorEnds, Dropping
  <2> QED
    BY <2>1, <2>2
<1>5. ASSUME NEW d \in Calls, d \notin Held
      PROVE  reply'[d] = reply[d]
  <2>1. d # c
    BY <1>5, NoneAssumption
  <2>2. d \notin (Range(requests) \cup {executing}) \ {c}
    BY <1>5, NoneAssumption
  <2>3. (IF c = None THEN reply ELSE Answer(c, r))[d] = reply[d]
    BY <2>1 DEF Answer, TypeOK
  <2> QED
    BY <2>2, <2>3 DEF ActorEnds, Dropping
<1> QED
  BY <1>1, <1>2, <1>3, <1>4, <1>5

\* A request that is taken and answered leaves the actor's hands.
LEMMA HeldAnswered ==
  ASSUME TypeOK, HeldInv, NEW c \in Calls, NEW ops, NEW r \in Answers, Take(c, ops),
         reply' = Answer(c, r), UNCHANGED <<executing, stopper, actor, op>>
  PROVE  HeldInv'
<1> USE DEF HeldInv, EveryCallAccountedFor, Held
<1>1. /\ Range(requests') = Range(requests) \ {c} /\ c \in Range(requests)
      /\ IsInjective(requests')
  BY TakeHead DEF Take, TypeOK
<1>2. Held' = Held \ {c}
  BY <1>1
<1>3. \A d \in Calls \ {c} : reply'[d] = reply[d]
  BY DEF Answer, TypeOK
<1>4. reply[c] \in {"pending", "abandoned"} /\ op[c] # "wait" /\ op[c] # "none"
  BY <1>1, NoneAssumption
<1>5. reply'[c] # "pending"
  BY <1>4 DEF Answer, TypeOK, Answers
<1> QED
  BY <1>1, <1>2, <1>3, <1>4, <1>5

LEMMA TickInit == Init => TickInv
BY DEF Init, TickInv

\* What the cancel arm found stays as it is until the turn ends.
LEMMA TickStep == ASSUME TypeOK, HeldInv, TickInv, [Next]_vars PROVE TickInv'
<1> USE DEF TickInv, Cancelled
<1>1. CASE Spawner \/ Cdb \/ UNCHANGED vars
  <2>1. UNCHANGED <<actorVars, callVars>>
    BY <1>1 DEF Spawner, SpawnReady, SpawnGivesUp, MarkFailed, GiveUp, SpawnDropped,
                Cdb, CdbReadLine, CdbPrompt, CdbExit, ReaderFails, CdbWrite, vars
  <2> QED
    BY <2>1 DEF actorVars, loop, slot, callVars
<1>2. ASSUME NEW c \in Calls, Caller(c)
      PROVE  TickInv'
  <2>1. UNCHANGED actorVars
    BY <1>2 DEF Caller, Submit, SubmitGone, StartWait, WaitReturns, Abandon
  <2>2. reply[c] # "abandoned" /\ \A d \in Calls \ {c} : reply'[d] = reply[d]
    BY <1>2 DEF Caller, Submit, SubmitGone, StartWait, WaitReturns, Abandon, Ask, Answer,
                HeldInv, TypeOK
  <2> QED
    BY <2>1, <2>2 DEF actorVars, loop, slot, TypeOK
<1>3. CASE Actor
  <2>1. NextTurn \/ LeaveSelect
    BY <1>3 DEF Actor, RecvOutput, OnOutput, ActOnPrompt, ChildExit, StreamsClosed,
       StopReturns, StopEnds, ActorEnds, DeadlinePasses, CancelTick, TakeSlot, HandleRequest,
       HandleCommand, HandleContinue, HandleBreak, HandleStatus, Refuse, AcceptCommand,
       BeginCommand, SendGo, SendBreak, Interrupt, HandleStop
  <2> QED
    BY <2>1 DEF NextTurn, LeaveSelect
<1> QED
  BY <1>1, <1>2, <1>3 DEF Next

LEMMA HeldActor == ASSUME TypeOK, SlotInv, HeldInv, TickInv, Actor PROVE HeldInv'
<1> USE DEF HeldInv, EveryCallAccountedFor, Held
<1>1. CASE \E s \in Streams : RecvOutput(s)
  BY <1>1 DEF RecvOutput, slot, callVars
<1>2. CASE OnOutput
  <2>1. CASE Complete /\ executing # None
    <3>1. /\ reply' = Answer(executing, "ok") /\ executing' = None
          /\ UNCHANGED <<requests, stopper, op>> /\ stopper = None
      BY <1>2, <2>1 DEF Complete, OnOutput, ActOnPrompt
    <3>2. executing \in Calls /\ reply'[executing] # "pending"
      BY <2>1, <3>1 DEF Answer, TypeOK
    <3>3. \A d \in Calls \ {executing} : reply'[d] = reply[d]
      BY <2>1, <3>1, <3>2 DEF Answer, TypeOK
    <3>4. op[executing] # "none"
      BY <2>1, <3>2
    <3> QED
      BY <3>1, <3>2, <3>3, <3>4
  <2>2. CASE UNCHANGED <<reply, slot>>
    BY <1>2, <2>2 DEF OnOutput, ActOnPrompt, slot
  <2> QED
    BY <1>2, <2>1, <2>2 DEF OnOutput, ActOnPrompt, Complete, slot
<1>3. CASE ChildExit \/ StreamsClosed
  BY <1>3, HeldEnds DEF ChildExit, StreamsClosed, Answers
<1>4. CASE StopReturns
  BY <1>4, HeldEnds DEF StopReturns, StopEnds, Reaped, WaitFails, WaitTimesOut, Answers
<1>5. CASE DeadlinePasses \/ CancelTick
  <2>1. /\ executing \in Calls /\ executing' = None
        /\ UNCHANGED <<requests, stopper, actor, op>>
    BY <1>5 DEF DeadlinePasses, CancelTick, TakeSlot, TypeOK
  <2>2. /\ reply'[executing] # "pending"
        /\ \A d \in Calls \ {executing} : reply'[d] = reply[d]
    BY <1>5, <2>1 DEF DeadlinePasses, CancelTick, TickInv, Cancelled, Answer, TypeOK
  <2>3. op[executing] # "none" /\ executing # None
    BY <2>1, NoneAssumption
  <2>4. Held' = Held \ {executing}
    BY <2>1, <2>3
  <2>5. EveryCallAccountedFor'
    BY <2>1, <2>2, <2>4
  <2>6. \A d \in Range(requests') : d # executing' /\ d # stopper'
    <3>1. Range(requests) \subseteq Calls
      BY DEF TypeOK, Range
    <3> QED
      BY <2>1, <3>1, NoneAssumption
  <2> QED
    BY <2>1, <2>2, <2>3, <2>5, <2>6
<1>6. ASSUME NEW c \in Calls, HandleRequest(c)
      PROVE  HeldInv'
  <2>1. ASSUME NEW ops, NEW guard, NEW r \in {"ok", "io", "invalid"},
               Refuse(c, ops, guard, r)
        PROVE  HeldInv'
    BY <2>1, HeldAnswered DEF Refuse, actorVars, loop, slot, Answers
  <2>2. CASE SendGo(c) \/ SendBreak(c)
    BY <2>2, HeldAnswered DEF SendGo, SendBreak, Interrupt, actorVars, loop, slot, Answers
  <2>3. CASE AcceptCommand(c)
    <3>1. executing = None /\ executing' = c /\ UNCHANGED <<stopper, actor, op>>
      BY <2>3 DEF AcceptCommand, BeginCommand, SlotInv, SlotMatchesState
    <3>2. /\ Range(requests') = Range(requests) \ {c} /\ c \in Range(requests)
          /\ IsInjective(requests')
      BY <2>3, TakeHead DEF AcceptCommand, BeginCommand, Take, TypeOK
    <3>3. reply' = reply
      BY <2>3, <3>1, NoneAssumption DEF AcceptCommand, BeginCommand, Dropping, TypeOK
    <3> QED
      BY <3>1, <3>2, <3>3, NoneAssumption
  <2>4. CASE HandleStop(c)
    <3>1. /\ stopper = None /\ stopper' = c /\ actor' = "stopping"
          /\ UNCHANGED <<executing, op, reply>>
      BY <2>4 DEF HandleStop, Take, slot
    <3>2. /\ Range(requests') = Range(requests) \ {c} /\ c \in Range(requests)
          /\ IsInjective(requests')
      BY <2>4, TakeHead DEF HandleStop, Take, TypeOK
    <3> QED
      BY <3>1, <3>2, NoneAssumption
  <2> QED
    BY <1>6, <2>1, <2>2, <2>3, <2>4
       DEF HandleRequest, HandleCommand, HandleContinue, HandleBreak, HandleStatus
<1> QED
  BY <1>1, <1>2, <1>3, <1>4, <1>5, <1>6 DEF Actor

LEMMA HeldStep == TypeOK /\ SlotInv /\ HeldInv /\ TickInv /\ [Next]_vars => HeldInv'
<1>1. HeldInv /\ UNCHANGED vars => HeldInv'
  BY DEF HeldInv, EveryCallAccountedFor, Held, vars, actorVars, loop, slot, callVars
<1> QED
  BY <1>1, HeldOthers, HeldActor DEF Next

LEMMA HeldInvariant == Spec => [](HeldInv /\ TickInv)
BY HeldInit, HeldStep, TickInit, TickStep, TypeCorrect, SlotInvariant, PTL DEF Spec

\* What the cancel arm takes from the slot is the command whose caller it found gone,
\* though it does not look again.
THEOREM CancelsTheAbandoned == Spec => []TickInv
BY HeldInvariant, PTL

\* No call on a session is forgotten by its actor, answered while it is still
\* held, or held twice.
THEOREM CallsAccountedFor == Spec => []EveryCallAccountedFor
BY HeldInvariant, PTL DEF HeldInv

-----------------------------------------------------------------------------
(* Stopped.                                                                *)

\* The reader tasks give up only on read errors while the actor lives.
StreamsInv == ~OsErrors => actor = "gone" \/ closed = {}

\* Unless the OS fails it, a session that says Stopped has a child that exited or
\* was killed.
THEOREM StoppedIsTrue == Spec => []StoppedMeansChildDone
<1> USE DEF StoppedMeansChildDone, StreamsInv
<1>1. Init => StoppedMeansChildDone /\ StreamsInv
  BY DEF Init
<1>2. ASSUME TypeOK, SlotInv, StoppedMeansChildDone, StreamsInv, [Next]_vars
      PROVE  StoppedMeansChildDone' /\ StreamsInv'
  <2>1. CASE Spawner
    BY <1>2, <2>1 DEF Spawner, SpawnReady, SpawnGivesUp, MarkFailed, GiveUp, SpawnDropped,
                shared, actorVars, loop, wire, child
  <2>2. CASE \E c \in Calls : Caller(c)
    BY <1>2, <2>2 DEF Caller, Submit, SubmitGone, StartWait, WaitReturns, Abandon,
                shared, actorVars, loop, wire, child
  <2>3. CASE Cdb
    <3>1. UNCHANGED <<shared, actor, killed>> /\ (closed' = closed \/ OsErrors)
      BY <2>3 DEF Cdb, CdbReadLine, CdbPrompt, CdbExit, ReaderFails, CdbWrite,
                  actorVars, loop, wire, child
    <3>2. cdb = "exited" => cdb' = "exited"
      BY <2>3 DEF Cdb, CdbReadLine, CdbPrompt, CdbExit, ReaderFails, CdbWrite, child
    <3> QED
      BY <1>2, <3>1, <3>2 DEF shared
  <2>4. CASE (\E s \in Streams : RecvOutput(s)) \/ OnOutput
    BY <1>2, <2>4 DEF RecvOutput, OnOutput, ActOnPrompt, shared, wire, child
  <2>5. CASE ChildExit
    BY <1>2, <2>5 DEF ChildExit, ActorEnds, child
  <2>6. CASE StreamsClosed
    BY <1>2, <2>6 DEF StreamsClosed, ActorEnds, child, Streams
  <2>7. CASE StopReturns
    BY <1>2, <2>7 DEF StopReturns, StopEnds, Reaped, WaitFails, WaitTimesOut, ActorEnds
  <2>8. CASE DeadlinePasses \/ CancelTick
    BY <1>2, <2>8 DEF DeadlinePasses, CancelTick, TakeSlot, InterruptCommand, wire
  <2>9. CASE \E c \in Calls : HandleRequest(c)
    BY <1>2, <2>9
       DEF HandleRequest, HandleCommand, HandleContinue, HandleBreak, HandleStatus,
           Refuse, AcceptCommand, BeginCommand, SendGo, SendBreak, Interrupt, HandleStop, Take, shared,
           actorVars, loop, slot, wire, child
  <2>10. CASE UNCHANGED vars
    BY <1>2, <2>10 DEF vars, shared, actorVars, loop, wire, child
  <2> QED
    BY <1>2, <2>1, <2>2, <2>3, <2>4, <2>5, <2>6, <2>7, <2>8, <2>9, <2>10
       DEF Next, Actor
<1> QED
  BY <1>1, <1>2, TypeCorrect, SlotInvariant, PTL DEF Spec

-----------------------------------------------------------------------------
(* The end is the end.                                                     *)

\* The actor is gone once the session says Stopped; Failed is what the spawner
\* says when it returns nothing.
EndInv ==
  /\ state = "Stopped" => actor = "gone"
  /\ state = "Failed" => spawner = "failed"

\* A step of the actor needs the actor, and leaves Failed to the spawner.
LEMMA ActorIsThere == ASSUME Actor PROVE actor # "gone"
BY DEF Actor, RecvOutput, OnOutput, ActOnPrompt, ChildExit, StreamsClosed, StopReturns,
       StopEnds, DeadlinePasses, CancelTick, TakeSlot, HandleRequest, HandleCommand,
       HandleContinue, HandleBreak, HandleStatus, Refuse, AcceptCommand, BeginCommand,
       SendGo, SendBreak, Interrupt, HandleStop, Take

LEMMA ActorState ==
  ASSUME EndInv, Actor
  PROVE  /\ state' = "Stopped" => actor' = "gone"
         /\ state' = "Failed" => state = "Failed"
         /\ spawner' = spawner
<1> USE DEF EndInv
<1>1. CASE (\E s \in Streams : RecvOutput(s)) \/ OnOutput
  BY <1>1 DEF RecvOutput, OnOutput, ActOnPrompt, shared
<1>2. CASE ChildExit \/ StreamsClosed
  BY <1>2 DEF ChildExit, StreamsClosed, ActorEnds
<1>3. CASE StopReturns
  BY <1>3 DEF StopReturns, StopEnds, ActorEnds
<1>4. CASE DeadlinePasses \/ CancelTick
  BY <1>4 DEF DeadlinePasses, CancelTick, TakeSlot, InterruptCommand
<1>5. CASE \E c \in Calls : HandleRequest(c)
  BY <1>5, ActorIsThere
     DEF HandleRequest, HandleCommand, HandleContinue, HandleBreak, HandleStatus,
         Refuse, AcceptCommand, BeginCommand, SendGo, SendBreak, Interrupt,
         HandleStop, Take, shared, actorVars, loop, slot
<1> QED
  BY <1>1, <1>2, <1>3, <1>4, <1>5 DEF Actor

LEMMA OthersKeepState ==
  ASSUME (\E c \in Calls : Caller(c)) \/ Cdb \/ UNCHANGED vars
  PROVE  state' = state /\ spawner' = spawner /\ actor' = actor
<1>1. CASE \E c \in Calls : Caller(c)
  BY <1>1 DEF Caller, Submit, SubmitGone, StartWait, WaitReturns, Abandon, shared,
              actorVars, loop
<1>2. CASE Cdb
  BY <1>2 DEF Cdb, CdbReadLine, CdbPrompt, CdbExit, ReaderFails, CdbWrite, shared,
              actorVars, loop
<1>3. CASE UNCHANGED vars
  BY <1>3 DEF vars, shared, actorVars, loop
<1> QED
  BY <1>1, <1>2, <1>3

LEMMA EndStep == EndInv /\ [Next]_vars => EndInv'
<1> SUFFICES ASSUME EndInv, [Next]_vars PROVE EndInv'
  OBVIOUS
<1>1. CASE Actor
  BY <1>1, ActorState DEF EndInv
<1>2. CASE Spawner
  BY <1>2 DEF Spawner, SpawnReady, SpawnGivesUp, MarkFailed, GiveUp, SpawnDropped,
              shared, actorVars, loop, EndInv
<1>3. CASE (\E c \in Calls : Caller(c)) \/ Cdb \/ UNCHANGED vars
  BY <1>3, OthersKeepState DEF EndInv
<1> QED
  BY <1>1, <1>2, <1>3 DEF Next

LEMMA EndInvariant == Spec => []EndInv
<1>1. Init => EndInv
  BY DEF Init, EndInv
<1> QED
  BY <1>1, EndStep, PTL DEF Spec

\* A session that was returned to a caller and is inactive stays inactive.
THEOREM EndIsForever == Spec => InactiveForever
<1>1. ASSUME EndInv, Next, spawner = "ok", Inactive(state) PROVE Inactive(state')
  <2>1. actor = "gone"
    BY <1>1 DEF EndInv, Inactive
  <2>2. ~Actor
    BY <2>1, ActorIsThere
  <2>3. CASE Spawner
    BY <1>1, <2>3 DEF Spawner, SpawnReady, SpawnGivesUp, MarkFailed, GiveUp,
                      SpawnDropped
  <2>4. CASE (\E c \in Calls : Caller(c)) \/ Cdb
    BY <1>1, <2>4, OthersKeepState
  <2> QED
    BY <1>1, <2>2, <2>3, <2>4 DEF Next
<1>2. EndInv /\ [Next]_vars => [spawner = "ok" /\ Inactive(state) => Inactive(state')]_vars
  BY <1>1
<1> QED
  BY <1>2, EndInvariant, PTL DEF Spec, InactiveForever

-----------------------------------------------------------------------------
(* What the registry assumes of a session.                                 *)

\* Two states of the session that are the same to the registry.
LEMMA LifeUntouched ==
  ASSUME LifeOf(state') = LifeOf(state), (actor' # "gone") = (actor # "gone"),
         SpawnPhase' = SpawnPhase
  PROVE  UNCHANGED Life!vars
BY DEF Life!vars

LEMMA LifeOfSpawner == ASSUME EndInv, Spawner PROVE [Life!Next]_(Life!vars)
<1>1. CASE SpawnReady
  <2>1. Life!SpawnReturns
    BY <1>1 DEF SpawnReady, Life!SpawnReturns, LifeOf, SpawnPhase, shared, actorVars, loop
  <2> QED
    BY <2>1 DEF Life!Next
<1>2. CASE SpawnGivesUp
  BY <1>2, LifeUntouched DEF SpawnGivesUp, SpawnPhase, shared, actorVars, loop
<1>3. CASE MarkFailed
  <2>1. Life!SpawnFails
    BY <1>3 DEF MarkFailed, GiveUp, Life!SpawnFails, LifeOf, SpawnPhase, actorVars, loop
  <2> QED
    BY <2>1 DEF Life!Next
<1>4. CASE SpawnDropped
  <2>1. Life!SpawnDropped
    BY <1>4 DEF SpawnDropped, Life!SpawnDropped, LifeOf, SpawnPhase, shared, actorVars, loop
  <2> QED
    BY <2>1 DEF Life!Next
<1> QED
  BY <1>1, <1>2, <1>3, <1>4 DEF Spawner

\* The actor makes the session ready at most once, and ends it at most once.
LEMMA LifeOfActor ==
  ASSUME TypeOK, SlotInv, EndInv, Actor
  PROVE  [Life!Next]_(Life!vars)
<1>0. actor # "gone" /\ SpawnPhase' = SpawnPhase
  BY ActorIsThere, ActorState DEF SpawnPhase
<1>1. ASSUME NEW c, NEW r, ActorEnds(c, r) PROVE Life!End
  BY <1>0, <1>1 DEF ActorEnds, Life!End, LifeOf
<1>2. CASE \E s \in Streams : RecvOutput(s)
  BY <1>0, <1>2, LifeUntouched DEF RecvOutput, shared
<1>3. CASE OnOutput
  <2>1. actor' # "gone" /\ state' \in {state, "Idle"}
    BY <1>3 DEF OnOutput, ActOnPrompt
  <2>2. CASE state' = state
    BY <1>0, <2>1, <2>2, LifeUntouched
  <2>3. CASE state' # state
    <3>1. state' = "Idle" /\ state \in {"Starting", "Executing", "Running", "Breaking",
                                        "Failed"}
      BY <1>3, <2>3 DEF OnOutput, ActOnPrompt, SlotInv, SeenIsCurrent
    <3>2. CASE state \in {"Starting", "Failed"}
      <4>1. Life!FirstPrompt
        BY <1>0, <2>1, <3>1, <3>2 DEF EndInv, Life!FirstPrompt, LifeOf, SpawnPhase
      <4> QED
        BY <4>1 DEF Life!Next
    <3>3. CASE state \in {"Executing", "Running", "Breaking"}
      BY <1>0, <2>1, <3>1, <3>3, LifeUntouched DEF LifeOf
    <3> QED
      BY <3>1, <3>2, <3>3
  <2> QED
    BY <2>2, <2>3
<1>4. CASE ChildExit \/ StreamsClosed \/ StopReturns
  <2>1. Life!End
    BY <1>1, <1>4 DEF ChildExit, StreamsClosed, StopReturns, StopEnds
  <2> QED
    BY <2>1 DEF Life!Next
<1>5. CASE DeadlinePasses \/ CancelTick
  <2>1. /\ state \in {"Executing", "Breaking"} /\ actor' = actor
        /\ state' \in {state, "Idle", "Breaking"}
    BY <1>5 DEF DeadlinePasses, CancelTick, TakeSlot, InterruptCommand, SlotInv,
                SlotMatchesState
  <2> QED
    BY <1>0, <2>1, LifeUntouched DEF LifeOf
<1>6. CASE \E c \in Calls : HandleRequest(c)
  <2>1. PICK c \in Calls : HandleRequest(c)
    BY <1>6
  <2>2. CASE UNCHANGED state /\ actor' # "gone"
    BY <1>0, <2>2, LifeUntouched
  <2>3. CASE /\ state' \in {"Executing", "Running", "Breaking"} /\ actor' # "gone"
             /\ state \in {"Starting", "Idle", "Executing", "Running", "Breaking"}
    <3>1. CASE state = "Starting"
      <4>1. Life!FirstPrompt
        BY <1>0, <2>3, <3>1 DEF Life!FirstPrompt, LifeOf
      <4> QED
        BY <4>1 DEF Life!Next
    <3>2. CASE state # "Starting"
      BY <1>0, <2>3, <3>2, LifeUntouched DEF LifeOf
    <3> QED
      BY <3>1, <3>2
  <2>4. ASSUME NEW ops, NEW guard, NEW r, Refuse(c, ops, guard, r)
        PROVE  UNCHANGED state /\ actor' # "gone"
    BY <1>0, <2>4 DEF Refuse, shared, actorVars, loop
  <2>5. CASE AcceptCommand(c) \/ SendGo(c)
    BY <1>0, <2>3, <2>5 DEF AcceptCommand, BeginCommand, SendGo, actorVars, loop
  <2>6. CASE SendBreak(c)
    BY <1>0, <2>3, <2>6 DEF SendBreak, Interrupt, Inactive, TypeOK, States, actorVars, loop
  <2>7. CASE HandleStop(c)
    BY <2>2, <2>7 DEF HandleStop, shared
  <2> QED
    BY <2>1, <2>2, <2>4, <2>5, <2>6, <2>7
       DEF HandleRequest, HandleCommand, HandleContinue, HandleBreak, HandleStatus
<1> QED
  BY <1>2, <1>3, <1>4, <1>5, <1>6 DEF Actor

\* A session lives as the registry assumes.
THEOREM LivesAsAssumed == Spec => LivesAsRegistered
<1>1. Init => Life!Init
  BY DEF Init, Life!Init, Life!Started, LifeOf, SpawnPhase
<1>2. TypeOK /\ SlotInv /\ EndInv /\ [Next]_vars => [Life!Next]_(Life!vars)
  <2> SUFFICES ASSUME TypeOK, SlotInv, EndInv, [Next]_vars
               PROVE  [Life!Next]_(Life!vars)
    OBVIOUS
  <2>1. CASE (\E c \in Calls : Caller(c)) \/ Cdb \/ UNCHANGED vars
    BY <2>1, OthersKeepState, LifeUntouched DEF SpawnPhase
  <2> QED
    BY <2>1, LifeOfSpawner, LifeOfActor DEF Next
<1> QED
  BY <1>1, <1>2, TypeCorrect, SlotInvariant, EndInvariant, PTL
     DEF Spec, LivesAsRegistered, Life!Spec

-----------------------------------------------------------------------------
(* The contract.                                                           *)

\* The contract sees of the calls in which phase they are.
Phases == [c \in Calls |-> Phase(reply[c])]

\* A step that keeps the replies, the slot and the actor's life is a stutter.
LEMMA ContractUntouched ==
  ASSUME UNCHANGED <<reply, executing>>, (actor' # "gone") = (actor # "gone")
  PROVE  [Contract!Next]_(Contract!vars)
BY DEF Contract!vars

\* An answer given to a call that is not in the slot.
LEMMA ContractAnswers ==
  ASSUME TypeOK, NEW c \in Calls, NEW r \in Answers,
         reply' = Answer(c, r), reply[c] \in {"pending", "abandoned"},
         c # executing, UNCHANGED executing, (actor' # "gone") = (actor # "gone")
  PROVE  [Contract!Next]_(Contract!vars)
<1>1. CASE reply[c] = "pending"
  <2>1. reply' = [reply EXCEPT ![c] = r]
    BY <1>1 DEF Answer
  <2>2. Phase(reply[c]) = "waiting" /\ Phase(r) = "answered"
    BY <1>1 DEF Phase, Answers
  <2>3. Phases' = [Phases EXCEPT ![c] = "answered"]
    BY <2>1, <2>2 DEF Phases, TypeOK
  <2>4. Contract!Reply(c)
    BY <2>2, <2>3 DEF Contract!Reply, Phases
  <2> QED
    BY <2>4 DEF Contract!Next
<1>2. CASE reply[c] # "pending"
  BY <1>2, ContractUntouched DEF Answer
<1> QED
  BY <1>1, <1>2

\* The slot is emptied: its caller is answered, or has gone.
LEMMA ContractEmpties ==
  ASSUME TypeOK, HeldInv, executing # None, executing' = None, NEW r \in Answers,
         reply' = Answer(executing, r), (actor' # "gone") = (actor # "gone")
  PROVE  [Contract!Next]_(Contract!vars)
<1>1. executing \in Calls /\ reply[executing] \in {"pending", "abandoned"}
  BY DEF TypeOK, HeldInv, EveryCallAccountedFor, Held
<1>2. CASE reply[executing] = "pending"
  <2>1. reply' = [reply EXCEPT ![executing] = r]
    BY <1>2 DEF Answer
  <2>2. Phase(reply[executing]) = "waiting" /\ Phase(r) = "answered"
    BY <1>2 DEF Phase, Answers
  <2>3. Phases' = [Phases EXCEPT ![executing] = "answered"]
    BY <1>1, <2>1, <2>2 DEF Phases, TypeOK
  <2>4. Contract!Reply(executing)
    BY <1>1, <2>2, <2>3 DEF Contract!Reply, Phases
  <2> QED
    BY <1>1, <2>4 DEF Contract!Next
<1>3. CASE reply[executing] = "abandoned"
  <2>1. reply' = reply /\ Phase(reply[executing]) = "left"
    BY <1>3 DEF Answer, Phase
  <2>2. Contract!Release
    BY <1>1, <2>1 DEF Contract!Release
  <2> QED
    BY <2>2 DEF Contract!Next
<1> QED
  BY <1>1, <1>2, <1>3

LEMMA ContractOfCaller ==
  ASSUME TypeOK, HeldInv, NEW c \in Calls, Caller(c)
  PROVE  [Contract!Next]_(Contract!vars)
<1> DEFINE becomes(p) == Phases' = [Phases EXCEPT ![c] = p]
<1>0. UNCHANGED <<executing, actor>>
  BY DEF Caller, Submit, SubmitGone, StartWait, WaitReturns, Abandon, actorVars, loop, slot
<1>1. ASSUME NEW r \in Replies, reply' = [reply EXCEPT ![c] = r]
      PROVE  becomes(Phase(r))
  BY <1>1 DEF Phases, TypeOK
<1>2. CASE (\E o \in Ops : Submit(c, o)) \/ StartWait(c)
  <2>1. reply' = [reply EXCEPT ![c] = "pending"] /\ reply[c] = "unasked"
    BY <1>2 DEF Submit, StartWait, Ask, HeldInv
  <2>2. becomes("waiting") /\ Phase(reply[c]) = "new"
    BY <1>1, <2>1 DEF Phase, Replies
  <2>3. Contract!Ask(c)
    BY <1>0, <2>2 DEF Contract!Ask, Phases
  <2> QED
    BY <2>3 DEF Contract!Next
<1>3. CASE \E o \in Ops : SubmitGone(c, o)
  <2>1. /\ reply' = [reply EXCEPT ![c] = "gone"] /\ reply[c] = "unasked"
        /\ actor = "gone"
    BY <1>3 DEF SubmitGone, Ask, HeldInv
  <2>2. becomes("answered") /\ Phase(reply[c]) = "new"
    BY <1>1, <2>1 DEF Phase, Replies, Answers
  <2>3. Contract!Ask(c)
    BY <1>0, <2>1, <2>2 DEF Contract!Ask, Phases
  <2> QED
    BY <2>3 DEF Contract!Next
<1>4. CASE WaitReturns(c)
  <2>1. c # executing
    BY <1>4, NoneAssumption DEF WaitReturns, HeldInv, EveryCallAccountedFor, Held
  <2> QED
    BY <1>0, <1>4, <2>1, ContractAnswers DEF WaitReturns, Answers
<1>5. CASE Abandon(c)
  <2>1. reply' = [reply EXCEPT ![c] = "abandoned"] /\ reply[c] = "pending"
    BY <1>5 DEF Abandon
  <2>2. becomes("left") /\ Phase(reply[c]) = "waiting"
    BY <1>1, <2>1 DEF Phase, Replies
  <2>3. Contract!Leave(c)
    BY <1>0, <2>2 DEF Contract!Leave, Phases
  <2> QED
    BY <2>3 DEF Contract!Next
<1> QED
  BY <1>2, <1>3, <1>4, <1>5 DEF Caller

\* The end of the actor closes the session.
LEMMA ContractEnds ==
  ASSUME TypeOK, HeldInv, actor # "gone", NEW c \in Calls \cup {None},
         NEW r \in Answers, ActorEnds(c, r)
  PROVE  Contract!Next
<1> DEFINE answered == (Range(requests) \cup {executing, c}) \ {None}
<1>1. answered \subseteq Calls
  BY DEF Range, TypeOK
<1>2. ASSUME NEW d \in Calls
      PROVE  Phases'[d] = IF d \in answered /\ Phases[d] = "waiting"
                            THEN "answered" ELSE Phases[d]
  <2>1. Phases[d] = Phase(reply[d]) /\ Phases'[d] = Phase(reply'[d])
    BY DEF Phases
  <2>2. d # None
    BY NoneAssumption
  <2>3. Phase(reply[d]) = "waiting" <=> reply[d] = "pending"
    BY DEF Phase
  <2>4. CASE d = c
    <3>1. reply'[d] = IF reply[d] = "pending" THEN r ELSE reply[d]
      BY <2>2, <2>4 DEF ActorEnds, Dropping, Answer, TypeOK
    <3>2. Phase(r) = "answered"
      BY DEF Phase, Answers
    <3> QED
      BY <2>1, <2>2, <2>3, <2>4, <3>1, <3>2
  <2>5. CASE d # c
    <3>1. (IF c = None THEN reply ELSE Answer(c, r))[d] = reply[d]
      BY <2>5 DEF Answer, TypeOK
    <3>2. reply'[d] = IF d \in Range(requests) \cup {executing} /\ reply[d] = "pending"
                        THEN "dropped" ELSE reply[d]
      BY <2>5, <3>1 DEF ActorEnds, Dropping
    <3>3. Phase("dropped") = "answered"
      BY DEF Phase
    <3> QED
      BY <2>1, <2>2, <2>3, <2>5, <3>2, <3>3
  <2> QED
    BY <2>4, <2>5
<1>3. Phases' = [d \in Calls |-> IF d \in answered /\ Phases[d] = "waiting"
                                   THEN "answered" ELSE Phases[d]]
  BY <1>2 DEF Phases
<1>4. actor' = "gone" /\ executing' = None
  BY DEF ActorEnds
<1>5. Contract!Close(answered)
  BY <1>3, <1>4 DEF Contract!Close, Phases
<1> QED
  BY <1>1, <1>5 DEF Contract!Next

LEMMA ContractOfActor ==
  ASSUME TypeOK, SlotInv, HeldInv, TickInv, Actor
  PROVE  [Contract!Next]_(Contract!vars)
<1>0. actor # "gone"
  BY ActorIsThere
<1>1. CASE \E s \in Streams : RecvOutput(s)
  BY <1>0, <1>1, ContractUntouched DEF RecvOutput, slot, callVars
<1>2. CASE OnOutput
  <2>1. CASE Complete /\ executing # None
    BY <1>0, <1>2, <2>1, ContractEmpties DEF OnOutput, ActOnPrompt, Complete, Answers
  <2>2. CASE UNCHANGED <<reply, slot>>
    BY <1>0, <1>2, <2>2, ContractUntouched DEF OnOutput, ActOnPrompt, slot
  <2> QED
    BY <1>2, <2>1, <2>2 DEF OnOutput, ActOnPrompt, Complete, slot
<1>3. CASE ChildExit \/ StreamsClosed
  BY <1>0, <1>3, ContractEnds DEF ChildExit, StreamsClosed, TypeOK, Answers
<1>4. CASE StopReturns
  BY <1>0, <1>4, ContractEnds DEF StopReturns, StopEnds, TypeOK, Answers
<1>5. CASE DeadlinePasses
  BY <1>0, <1>5, ContractEmpties DEF DeadlinePasses, TakeSlot, Answers
<1>6. CASE CancelTick
  <2>1. reply' = Answer(executing, "ok")
    BY <1>6 DEF CancelTick, TickInv, Cancelled, Answer
  <2> QED
    BY <1>0, <1>6, <2>1, ContractEmpties DEF CancelTick, TakeSlot, Answers
<1>7. ASSUME NEW c \in Calls, HandleRequest(c)
      PROVE  [Contract!Next]_(Contract!vars)
  <2>1. ASSUME NEW ops, Take(c, ops)
        PROVE  c \in Held /\ c # executing /\ reply[c] \in {"pending", "abandoned"}
    BY <2>1, NoneAssumption, TakeHead
       DEF Take, HeldInv, EveryCallAccountedFor, Held, TypeOK
  <2>2. ASSUME NEW ops, NEW guard, NEW r \in {"ok", "io", "invalid"},
               Refuse(c, ops, guard, r)
        PROVE  [Contract!Next]_(Contract!vars)
    BY <1>0, <2>1, <2>2, ContractAnswers DEF Refuse, actorVars, loop, slot, Answers
  <2>3. CASE SendGo(c) \/ SendBreak(c)
    BY <1>0, <2>1, <2>3, ContractAnswers
       DEF SendGo, SendBreak, Interrupt, actorVars, loop, slot, Answers
  <2>4. CASE AcceptCommand(c)
    <3>1. executing = None /\ executing' = c /\ actor' = actor
      BY <2>4 DEF AcceptCommand, BeginCommand, SlotInv, SlotMatchesState
    <3>2. reply' = reply
      BY <2>4, <3>1, NoneAssumption DEF AcceptCommand, BeginCommand, Dropping, TypeOK
    <3>3. Phase(reply[c]) \in {"waiting", "left"}
      BY <2>1, <2>4 DEF AcceptCommand, BeginCommand, Phase
    <3>4. Contract!Start(c)
      BY <1>0, <3>1, <3>2, <3>3 DEF Contract!Start
    <3> QED
      BY <3>4 DEF Contract!Next
  <2>5. CASE HandleStop(c)
    BY <1>0, <2>5, ContractUntouched DEF HandleStop, slot
  <2> QED
    BY <1>7, <2>2, <2>3, <2>4, <2>5
       DEF HandleRequest, HandleCommand, HandleContinue, HandleBreak, HandleStatus
<1> QED
  BY <1>1, <1>2, <1>3, <1>4, <1>5, <1>6, <1>7 DEF Actor

\* The session implements its contract: every step is a step of SessionContract or
\* leaves what it sees alone.
THEOREM ContractIsKept == Spec => KeepsContract
<1>1. Init => Contract!Init
  BY DEF Init, Contract!Init, Phase
<1>2. TypeOK /\ SlotInv /\ HeldInv /\ TickInv /\ [Next]_vars
        => [Contract!Next]_(Contract!vars)
  <2> SUFFICES ASSUME TypeOK, SlotInv, HeldInv, TickInv, [Next]_vars
               PROVE  [Contract!Next]_(Contract!vars)
    OBVIOUS
  <2>1. CASE Spawner \/ Cdb \/ UNCHANGED vars
    <3>1. UNCHANGED <<reply, executing, actor>>
      BY <2>1 DEF Spawner, SpawnReady, SpawnGivesUp, MarkFailed, GiveUp, SpawnDropped,
           Cdb, CdbReadLine, CdbPrompt, CdbExit, ReaderFails, CdbWrite, vars, actorVars, loop,
           slot, callVars
    <3> QED
      BY <3>1, ContractUntouched
  <2> QED
    BY <2>1, ContractOfCaller, ContractOfActor DEF Next
<1> QED
  BY <1>1, <1>2, TypeCorrect, SlotInvariant, HeldInvariant, PTL
     DEF Spec, KeepsContract, Contract!Spec
-----------------------------------------------------------------------------
(* Which prompt is whose.                                                  *)

Quiet == cdb \in {"prompt", "exited"} /\ stdin = <<>>

AtNewPrompt == actor = "output" /\ EndsAtPrompt(log)

\* The actor is in its loop and nothing in the buffer misled it.
Looping == actor \in {"select", "output"} /\ ~Misled

EndedIsOver == actor = "gone" => Inactive(state)

StderrHasNoPrompt == \A i \in DOMAIN pipe["stderr"] : pipe["stderr"][i].kind # "prompt"

\* cdb has one thing to do at a time: a line to read, or work, or a prompt to show,
\* and nothing of it while the session is Idle.
PromptInv ==
  Looping =>
    /\ stdin # <<>> => Len(stdin) = 1 /\ cdb \in {"prompt", "exited"}
    /\ PromptOnItsWay => Quiet
    /\ \A i \in DOMAIN pipe["stdout"] :
         pipe["stdout"][i].kind = "prompt" => i = Len(pipe["stdout"]) /\ ~AtNewPrompt
    /\ state = "Idle" => Quiet /\ ~PromptOnItsWay

OwnPrompt == [kind |-> "prompt", by |-> executing]

\* What cdb has to do is for the command in the slot, and so is the next prompt.
OutputInv ==
  (Looping /\ executing # None) =>
    /\ startOffset <= Len(log)
    /\ actor = "output" => startOffset < Len(log)
    /\ \/ stdin = <<executing>> /\ ~PromptOnItsWay
       \/ stdin = <<>> /\ job = executing
    /\ \A i \in DOMAIN pipe["stdout"] :
         pipe["stdout"][i].kind = "prompt" => pipe["stdout"][i] = OwnPrompt
    /\ AtNewPrompt => log[Len(log)] = OwnPrompt

\* Only a stop is in Stop.
StopperStops == stopper # None => op[stopper] \in StopModes

\* The inductive invariant.
AnswerInv ==
  /\ EndedIsOver /\ StderrHasNoPrompt /\ StopperStops
  /\ PromptInv /\ OutputInv /\ OutputReachesOwnPrompt

\* Where there are no blank lines, a text ends at a prompt by its last chunk.
LEMMA LastIsPrompt ==
  ASSUME "blank" \notin NoiseKinds, NEW l \in Seq(Chunk), EndsAtPrompt(l)
  PROVE  l # <<>> /\ l[Len(l)].kind = "prompt"
<1>1. PICK i \in DOMAIN l : /\ l[i].kind = "prompt"
                            /\ \A j \in DOMAIN l : j > i => l[j].kind = "blank"
  BY DEF EndsAtPrompt
<1>2. l[Len(l)] \in Chunk /\ Len(l) \in DOMAIN l /\ i \in 1..Len(l)
  BY <1>1
<1>3. l[Len(l)].kind # "blank"
  BY <1>2 DEF Chunk
<1>4. ~(Len(l) > i)
  BY <1>1, <1>2, <1>3
<1> QED
  BY <1>1, <1>2, <1>4

LEMMA AnswerInit == Init => AnswerInv
BY DEF Init, AnswerInv, EndedIsOver, StderrHasNoPrompt, StopperStops, PromptInv,
       OutputInv, OutputReachesOwnPrompt, PromptOnItsWay, AtNewPrompt, Streams

\* The replies and what was returned with them stay; only the replies of stops
\* and waits are Ok without a prompt.
LEMMA OutputsKept ==
  ASSUME TypeOK, OutputReachesOwnPrompt, Misled => Misled',
         UNCHANGED <<op, output>>,
         \A c \in Calls : (reply'[c] = "ok" /\ op[c] \in Commands) => reply[c] = "ok"
  PROVE  OutputReachesOwnPrompt'
BY DEF OutputReachesOwnPrompt

LEMMA AnswerSpawner == ASSUME TypeOK, AnswerInv, Spawner PROVE AnswerInv'
<1>1. /\ UNCHANGED <<actorVars, callVars, wire, child>>
      /\ state' = state \/ state' = "Failed"
  BY DEF Spawner, SpawnReady, SpawnGivesUp, MarkFailed, GiveUp, SpawnDropped, shared
<1> QED
  BY <1>1 DEF AnswerInv, EndedIsOver, StderrHasNoPrompt, StopperStops, PromptInv,
     OutputInv, OutputReachesOwnPrompt, Looping, Misled, PromptOnItsWay, AtNewPrompt,
     Quiet, OwnPrompt, Inactive, actorVars, loop, slot, callVars, wire, child

\* Neither callers nor the answers of requests move the session or cdb.
LEMMA PromptsKept ==
  ASSUME AnswerInv, UNCHANGED <<state, loop, wire, stdin, cdb, job>>
  PROVE  /\ EndedIsOver' /\ StderrHasNoPrompt' /\ PromptInv' /\ OutputInv'
         /\ Misled' = Misled
BY DEF AnswerInv, EndedIsOver, StderrHasNoPrompt, PromptInv, OutputInv, Looping, Misled,
   PromptOnItsWay, AtNewPrompt, Quiet, OwnPrompt, Inactive, actorVars, loop, slot, wire

LEMMA AnswerCaller ==
  ASSUME TypeOK, AnswerInv, NEW c \in Calls, Caller(c)
  PROVE  AnswerInv'
<1>1. UNCHANGED <<shared, actorVars, output, wire, child>>
  BY DEF Caller, Submit, SubmitGone, StartWait, WaitReturns, Abandon
<1>2. EndedIsOver' /\ StderrHasNoPrompt' /\ PromptInv' /\ OutputInv' /\ Misled' = Misled
  BY <1>1, PromptsKept DEF shared, actorVars, child
<1>3. StopperStops'
  BY <1>1 DEF Caller, Submit, SubmitGone, StartWait, WaitReturns, Abandon, Ask, AnswerInv,
              StopperStops, StopModes, TypeOK, actorVars, loop
<1>4. OutputReachesOwnPrompt'
  <2>1. CASE UNCHANGED op
    <3>1. \A d \in Calls : (reply'[d] = "ok" /\ op[d] \in Commands) => reply[d] = "ok"
      BY <2>1 DEF Caller, Submit, SubmitGone, StartWait, WaitReturns, Abandon, Ask,
                  Answer, TypeOK, Commands
    <3> QED
      BY <1>1, <1>2, <2>1, <3>1, OutputsKept DEF AnswerInv
  <2>2. CASE ~UNCHANGED op
    <3>1. reply'[c] # "ok" /\ \A d \in Calls \ {c} : op'[d] = op[d] /\ reply'[d] = reply[d]
      BY <2>2 DEF Caller, Submit, SubmitGone, StartWait, WaitReturns, Abandon, Ask, TypeOK
    <3> QED
      BY <1>1, <1>2, <3>1 DEF AnswerInv, OutputReachesOwnPrompt
  <2> QED
    BY <2>1, <2>2
<1> QED
  BY <1>2, <1>3, <1>4 DEF AnswerInv

LEMMA AnswerCdb == ASSUME TypeOK, AnswerInv, Cdb PROVE AnswerInv'
<1> DEFINE q == pipe["stdout"]
<1>0. q \in Seq(Chunk) /\ pipe["stderr"] \in Seq(Chunk) /\ stdin \in Seq(Calls)
  BY DEF TypeOK, Streams
<1>1. /\ UNCHANGED <<shared, spawner, actorVars, callVars>> /\ Misled' = Misled
      /\ Looping' = Looping /\ AtNewPrompt' = AtNewPrompt /\ OwnPrompt' = OwnPrompt
  BY DEF Cdb, CdbReadLine, CdbPrompt, CdbExit, ReaderFails, CdbWrite, actorVars, loop, slot,
         Misled, Looping, AtNewPrompt, OwnPrompt
<1>2. EndedIsOver' /\ StopperStops' /\ OutputReachesOwnPrompt'
  BY <1>1 DEF AnswerInv, EndedIsOver, StopperStops, OutputReachesOwnPrompt, shared,
              actorVars, loop, slot, callVars
<1> USE DEF PromptInv, OutputInv, PromptOnItsWay, Quiet
<1>3. CASE CdbReadLine
  <2>1. /\ cdb = "prompt" /\ stdin # <<>> /\ UNCHANGED wire
        /\ job' = Head(stdin) /\ stdin' = Tail(stdin)
    BY <1>3 DEF CdbReadLine
  <2>2. StderrHasNoPrompt'
    BY <2>1 DEF AnswerInv, StderrHasNoPrompt, wire
  <2>3. ASSUME Looping PROVE stdin' = <<>> /\ ~PromptOnItsWay /\ state # "Idle"
    BY <1>0, <2>1, <2>3 DEF AnswerInv
  <2>4. PromptInv'
    BY <1>1, <2>1, <2>3 DEF wire, shared, actorVars, loop
  <2>5. ASSUME Looping, executing # None PROVE job' = executing
    BY <2>1, <2>5 DEF AnswerInv
  <2>6. OutputInv'
    BY <1>1, <2>1, <2>3, <2>5 DEF AnswerInv, wire, actorVars, loop, slot
  <2> QED
    BY <1>2, <2>2, <2>4, <2>6 DEF AnswerInv
<1>4. CASE CdbExit
  <2>1. cdb' = "exited" /\ UNCHANGED <<wire, stdin, job>>
    BY <1>4 DEF CdbExit
  <2> QED
    BY <1>1, <1>2, <2>1 DEF AnswerInv, StderrHasNoPrompt, wire, shared, actorVars, loop, slot
<1>5. ASSUME cdb \in {"starting", "busy"}, Looping
      PROVE  stdin = <<>> /\ ~PromptOnItsWay /\ state # "Idle"
  BY <1>5 DEF AnswerInv
<1>6. CASE CdbPrompt
  <2> DEFINE chunk == [kind |-> "prompt", by |-> job]
  <2>1. /\ cdb \in {"starting", "busy"} /\ cdb' = "prompt" /\ UNCHANGED <<stdin, job>>
        /\ pipe' = pipe \/ pipe' = [pipe EXCEPT !["stdout"] = Append(q, chunk)]
    BY <1>6 DEF CdbPrompt, Emit
  <2>2. chunk \in Chunk
    BY DEF Chunk, TypeOK
  <2>3. CASE pipe' = pipe
    BY <1>1, <1>2, <1>5, <2>1, <2>3
       DEF AnswerInv, StderrHasNoPrompt, shared, actorVars, loop, slot
  <2>4. CASE pipe' = [pipe EXCEPT !["stdout"] = Append(q, chunk)]
    <3>1. /\ pipe'["stderr"] = pipe["stderr"] /\ pipe'["stdout"] = Append(q, chunk)
          /\ Len(pipe'["stdout"]) = Len(q) + 1 /\ DOMAIN pipe'["stdout"] = 1..Len(q)+1
          /\ pipe'["stdout"][Len(q)+1] = chunk /\ Len(q) \in Nat
          /\ \A i \in 1..Len(q) : pipe'["stdout"][i] = q[i]
      BY <1>0, <2>2, <2>4 DEF TypeOK, Streams
    <3>2. StderrHasNoPrompt'
      BY <3>1 DEF AnswerInv, StderrHasNoPrompt
    <3>3. ASSUME Looping, NEW i \in DOMAIN pipe'["stdout"],
                 pipe'["stdout"][i].kind = "prompt"
          PROVE  i = Len(q) + 1
      BY <1>0, <1>5, <2>1, <3>1, <3>3
    <3>4. PromptInv'
      BY <1>1, <1>5, <2>1, <3>1, <3>3 DEF shared, AtNewPrompt
    <3>5. ASSUME Looping, executing # None PROVE chunk = OwnPrompt
      BY <1>5, <2>1, <3>5 DEF AnswerInv, OwnPrompt
    <3>6. OutputInv'
      <4> SUFFICES ASSUME Looping, executing # None PROVE OutputInv'
        BY <1>1 DEF actorVars, loop, slot
      <4>1. stdin' = <<>> /\ job' = executing /\ executing' = executing
        BY <1>1, <1>5, <2>1 DEF AnswerInv, actorVars, loop, slot
      <4>2. \A i \in DOMAIN pipe'["stdout"] :
              pipe'["stdout"][i].kind = "prompt" => pipe'["stdout"][i] = OwnPrompt
        BY <3>1, <3>3, <3>5
      <4> QED
        BY <1>1, <4>1, <4>2 DEF AnswerInv, actorVars, loop, slot
    <3> QED
      BY <1>2, <3>2, <3>4, <3>6 DEF AnswerInv
  <2> QED
    BY <2>1, <2>3, <2>4
<1>7. CASE \E s \in Streams : \E k \in NoiseKinds : CdbWrite(s, k)
  <2>1. PICK s \in Streams, k \in NoiseKinds : CdbWrite(s, k)
    BY <1>7
  <2>2. /\ cdb \in {"starting", "busy"} /\ UNCHANGED <<cdb, stdin, job>>
        /\ \/ pipe' = pipe
           \/ pipe' = [pipe EXCEPT ![s] = Append(@, [kind |-> k, by |-> job])]
    BY <2>1 DEF CdbWrite, Emit
  <2>3. k # "prompt" /\ [kind |-> k, by |-> job] \in Chunk
    BY NoiseAssumption DEF Chunk, TypeOK
  <2>4. \A t \in Streams : \A i \in DOMAIN pipe'[t] :
          pipe'[t][i].kind = "prompt" => i \in DOMAIN pipe[t] /\ pipe[t][i] = pipe'[t][i]
    <3> SUFFICES ASSUME NEW t \in Streams, NEW i \in DOMAIN pipe'[t],
                        pipe'[t][i].kind = "prompt"
                 PROVE  i \in DOMAIN pipe[t] /\ pipe[t][i] = pipe'[t][i]
      OBVIOUS
    <3>1. CASE pipe'[t] = pipe[t]
      BY <3>1
    <3>2. CASE pipe'[t] = Append(pipe[t], [kind |-> k, by |-> job])
      <4>1. pipe[t] \in Seq(Chunk)
        BY DEF TypeOK
      <4> QED
        BY <2>3, <3>2, <4>1
    <3> QED
      BY <2>2, <3>1, <3>2 DEF TypeOK
  <2>5. StderrHasNoPrompt'
    BY <2>4 DEF AnswerInv, StderrHasNoPrompt, Streams
  <2>6. ASSUME Looping PROVE ~PromptOnItsWay'
    BY <1>1, <1>5, <2>2, <2>4, <2>6 DEF Streams, AtNewPrompt
  <2>7. PromptInv' /\ OutputInv'
    BY <1>1, <1>5, <2>2, <2>6 DEF AnswerInv, shared, actorVars, loop, slot
  <2> QED
    BY <1>2, <2>5, <2>7 DEF AnswerInv
<1>8. CASE \E s \in Streams : ReaderFails(s)
  <2>1. PICK s \in Streams : ReaderFails(s)
    BY <1>8
  <2>2. PICK n \in 0..Len(pipe[s]) : pipe' = [pipe EXCEPT ![s] = SubSeq(@, 1, n)]
    BY <2>1 DEF ReaderFails
  <2>3. UNCHANGED <<cdb, stdin, job>>
    BY <2>1 DEF ReaderFails, child
  <2>4. \A t \in Streams : \A i \in DOMAIN pipe'[t] :
          /\ i \in DOMAIN pipe[t] /\ pipe[t][i] = pipe'[t][i]
          /\ i = Len(pipe[t]) => i = Len(pipe'[t])
    <3> SUFFICES ASSUME NEW t \in Streams, NEW i \in DOMAIN pipe'[t]
                 PROVE  /\ i \in DOMAIN pipe[t] /\ pipe[t][i] = pipe'[t][i]
                        /\ i = Len(pipe[t]) => i = Len(pipe'[t])
      OBVIOUS
    <3>0. pipe[t] \in Seq(Chunk)
      BY DEF TypeOK
    <3>1. CASE pipe'[t] = pipe[t]
      BY <3>1
    <3>2. CASE s = t
      BY <2>2, <3>0, <3>2 DEF TypeOK
    <3> QED
      BY <2>2, <3>1, <3>2 DEF TypeOK
  <2>5. StderrHasNoPrompt'
    BY <2>4 DEF AnswerInv, StderrHasNoPrompt, Streams
  <2>6. PromptOnItsWay' => PromptOnItsWay
    BY <1>1, <2>4 DEF Streams, AtNewPrompt
  <2>7. PromptInv'
    <3> SUFFICES ASSUME Looping PROVE PromptInv'
      BY <1>1
    <3>1. \A i \in DOMAIN pipe'["stdout"] :
            pipe'["stdout"][i].kind = "prompt" => i = Len(pipe'["stdout"]) /\ ~AtNewPrompt'
      BY <1>1, <2>4 DEF AnswerInv, Streams
    <3> QED
      BY <1>1, <2>3, <2>6, <3>1 DEF AnswerInv, shared
  <2>8. OutputInv'
    <3> SUFFICES ASSUME Looping, executing # None PROVE OutputInv'
      BY <1>1 DEF actorVars, loop, slot
    <3>1. \A i \in DOMAIN pipe'["stdout"] :
            pipe'["stdout"][i].kind = "prompt" => pipe'["stdout"][i] = OwnPrompt
      BY <2>4 DEF AnswerInv, Streams
    <3> QED
      BY <1>1, <2>3, <2>6, <3>1 DEF AnswerInv, actorVars, loop, slot
  <2> QED
    BY <1>2, <2>5, <2>7, <2>8 DEF AnswerInv
<1> QED
  BY <1>3, <1>4, <1>6, <1>7, <1>8 DEF Cdb

\* A chunk is taken from a stream.
LEMMA AnswerReceive ==
  ASSUME TypeOK, AnswerInv, NEW s \in Streams, RecvOutput(s)
  PROVE  AnswerInv'
<1> DEFINE q == pipe[s]
           chunk == Head(q)
<1>0. /\ q \in Seq(Chunk) /\ q # <<>> /\ chunk \in Chunk /\ log \in Seq(Chunk)
      /\ chunk = q[1] /\ Len(q) \in Nat \ {0} /\ Len(log) \in Nat
  BY DEF TypeOK, RecvOutput
<1>1. /\ actor = "select" /\ actor' = "output" /\ log' = Append(log, chunk)
      /\ UNCHANGED <<shared, stopper, slot, recovered, callVars, child>>
      /\ pipe' = [pipe EXCEPT ![s] = Tail(q)]
  BY DEF RecvOutput
<1>2. /\ Len(log') = Len(log) + 1 /\ log'[Len(log')] = chunk /\ log' \in Seq(Chunk)
  BY <1>0, <1>1
<1>3. \A t \in Streams : \A i \in DOMAIN pipe'[t] :
        \/ t # s /\ pipe'[t] = pipe[t]
        \/ /\ t = s /\ i + 1 \in DOMAIN pipe[t] /\ pipe'[t][i] = pipe[t][i+1]
           /\ Len(pipe'[t]) = Len(pipe[t]) - 1 /\ i \in 1..Len(pipe[t])-1
  BY <1>0, <1>1 DEF TypeOK
<1>4. StderrHasNoPrompt'
  BY <1>3 DEF AnswerInv, StderrHasNoPrompt, Streams
<1>5. EndedIsOver' /\ StopperStops' /\ OutputReachesOwnPrompt' /\ Misled' = Misled
  BY <1>1 DEF AnswerInv, EndedIsOver, StopperStops, OutputReachesOwnPrompt, Misled,
              callVars
<1>6. Looping' => Looping /\ "blank" \notin NoiseKinds
  BY <1>1, <1>5 DEF Looping, Misled
<1>7. ASSUME Looping, AtNewPrompt'
      PROVE  s = "stdout" /\ chunk.kind = "prompt" /\ 1 \in DOMAIN q
  <2>1. log'[Len(log')].kind = "prompt"
    BY <1>2, <1>7, LastIsPrompt DEF Looping, Misled, AtNewPrompt
  <2>2. chunk.kind = "prompt" /\ 1 \in DOMAIN q
    BY <1>0, <1>2, <2>1
  <2> QED
    BY <1>0, <2>2 DEF AnswerInv, StderrHasNoPrompt, Streams
<1>8. ASSUME Looping, PromptOnItsWay' PROVE PromptOnItsWay
  <2>1. CASE AtNewPrompt'
    BY <1>0, <1>7, <1>8, <2>1 DEF PromptOnItsWay
  <2>2. CASE \E i \in DOMAIN pipe'["stdout"] : pipe'["stdout"][i].kind = "prompt"
    BY <1>3, <2>2 DEF PromptOnItsWay, Streams
  <2> QED
    BY <1>8, <2>1, <2>2 DEF PromptOnItsWay, AtNewPrompt
<1>9. PromptInv'
  <2> SUFFICES ASSUME Looping PROVE PromptInv'
    BY <1>6 DEF PromptInv
  <2>1. ASSUME NEW i \in DOMAIN pipe'["stdout"], pipe'["stdout"][i].kind = "prompt"
        PROVE  i = Len(pipe'["stdout"]) /\ ~AtNewPrompt'
    <3>1. CASE s = "stdout"
      <4>1. /\ i + 1 \in DOMAIN q /\ q[i+1].kind = "prompt"
            /\ Len(pipe'["stdout"]) = Len(q) - 1 /\ i \in 1..Len(q)-1
        BY <1>3, <2>1, <3>1 DEF Streams
      <4>2. i + 1 = Len(q)
        BY <3>1, <4>1 DEF AnswerInv, PromptInv
      <4>3. ~AtNewPrompt'
        <5>1. 1 \in DOMAIN q /\ q = pipe["stdout"] /\ chunk = q[1]
          BY <1>0, <3>1
        <5>2. chunk.kind = "prompt" => 1 = Len(q)
          BY <5>1 DEF AnswerInv, PromptInv
        <5> QED
          BY <1>0, <1>7, <4>1, <5>2
      <4> QED
        BY <1>0, <4>1, <4>2, <4>3
    <3>2. CASE s # "stdout"
      <4>1. pipe'["stdout"] = pipe["stdout"]
        BY <1>3, <2>1, <3>2 DEF Streams
      <4> QED
        BY <1>7, <2>1, <3>2, <4>1 DEF AnswerInv, PromptInv
    <3> QED
      BY <3>1, <3>2
  <2> QED
    BY <1>1, <1>8, <2>1 DEF AnswerInv, PromptInv, Quiet, shared, child
<1>10. OutputInv'
  <2> SUFFICES ASSUME Looping, executing # None PROVE OutputInv'
    BY <1>1, <1>6 DEF OutputInv, slot
  <2>1. OwnPrompt' = OwnPrompt
    BY <1>1 DEF OwnPrompt, slot
  <2>2. \A i \in DOMAIN pipe'["stdout"] :
          pipe'["stdout"][i].kind = "prompt" => pipe'["stdout"][i] = OwnPrompt
    BY <1>3 DEF AnswerInv, OutputInv, Streams
  <2>3. AtNewPrompt' => log'[Len(log')] = OwnPrompt
    BY <1>0, <1>2, <1>7 DEF AnswerInv, OutputInv
  <2>4. startOffset' < Len(log') /\ startOffset' <= Len(log')
    BY <1>0, <1>1, <1>2 DEF AnswerInv, OutputInv, TypeOK, slot
  <2> QED
    BY <1>1, <1>8, <2>1, <2>2, <2>3, <2>4 DEF AnswerInv, OutputInv, slot, child
<1> QED
  BY <1>4, <1>5, <1>9, <1>10 DEF AnswerInv

\* A command that is answered Ok gets its own prompt.
LEMMA AnswerComplete ==
  ASSUME TypeOK, AnswerInv, OnOutput, Complete, executing # None, AtNewPrompt
  PROVE  OutputReachesOwnPrompt'
<1>1. UNCHANGED <<op, recovered>> /\ reply' = Answer(executing, "ok") /\ executing \in Calls
  BY DEF OnOutput, ActOnPrompt, Complete, TypeOK
<1>2. \A c \in Calls \ {executing} : output'[c] = output[c] /\ reply'[c] = reply[c]
  BY <1>1 DEF Complete, Answer, TypeOK
<1>3. CASE reply[executing] # "pending"
  BY <1>1, <1>2, <1>3, OutputsKept DEF AnswerInv, Misled, Complete, Answer
<1>4. CASE reply[executing] = "pending" /\ ~Misled
  <2>1. output'[executing] = SubSeq(log, startOffset + 1, Len(log))
    BY <1>1, <1>4 DEF Complete, ReadSince, TypeOK
  <2>2. Looping
    BY <1>4 DEF AtNewPrompt, Looping
  <2>3. startOffset < Len(log) /\ log[Len(log)] = OwnPrompt
    BY <2>2 DEF AnswerInv, OutputInv, AtNewPrompt
  <2>4. /\ startOffset \in Nat /\ Len(log) \in Nat /\ log \in Seq(Chunk)
    BY DEF TypeOK
  <2>5. /\ Len(log) - startOffset \in DOMAIN output'[executing]
        /\ output'[executing][Len(log) - startOffset] = OwnPrompt
    BY <2>1, <2>3, <2>4
  <2> QED
    BY <1>1, <1>2, <2>5 DEF AnswerInv, OutputReachesOwnPrompt, Misled, OwnPrompt
<1> QED
  BY <1>1, <1>3, <1>4 DEF OutputReachesOwnPrompt, Misled

LEMMA AnswerOnOutput == ASSUME TypeOK, AnswerInv, OnOutput PROVE AnswerInv'
<1>1. /\ actor = "output" /\ actor' = "select" /\ Misled' = Misled
      /\ UNCHANGED <<stopper, log, op, wire, child>>
      /\ \/ UNCHANGED <<state, reply, output, slot>>
         \/ AtNewPrompt /\ state' = "Idle" /\ UNCHANGED <<reply, output, slot>>
         \/ AtNewPrompt /\ state' = "Idle" /\ Complete /\ executing' = None
  BY DEF OnOutput, ActOnPrompt, Complete, AtNewPrompt, Misled, slot
<1>2. EndedIsOver' /\ StderrHasNoPrompt' /\ StopperStops'
  BY <1>1 DEF AnswerInv, EndedIsOver, StderrHasNoPrompt, StopperStops, wire
<1>3. OutputReachesOwnPrompt'
  <2>1. CASE UNCHANGED <<reply, output>>
    BY <1>1, <2>1 DEF AnswerInv, OutputReachesOwnPrompt
  <2>2. CASE Complete /\ executing # None /\ AtNewPrompt
    BY <2>2, AnswerComplete
  <2> QED
    BY <1>1, <2>1, <2>2 DEF Complete
<1>4. PromptInv'
  BY <1>1 DEF AnswerInv, PromptInv, PromptOnItsWay, AtNewPrompt, Looping, Quiet, wire, child
<1>5. OutputInv'
  BY <1>1 DEF AnswerInv, OutputInv, PromptOnItsWay, AtNewPrompt, Looping, OwnPrompt, slot,
              wire, child
<1> QED
  BY <1>2, <1>3, <1>4, <1>5 DEF AnswerInv

\* The end of the actor, by an exit or by a stop.
LEMMA AnswerEnds ==
  ASSUME TypeOK, AnswerInv, NEW c \in Calls \cup {None}, NEW r \in Answers,
         ActorEnds(c, r), r # "ok" \/ (c # None => op[c] \notin Commands)
  PROVE  AnswerInv'
<1>1. /\ actor' = "gone" /\ state' = "Stopped" /\ stopper' = None
      /\ UNCHANGED <<recovered, op, output>> /\ pipe'["stderr"] = <<>>
  BY DEF ActorEnds, Streams
<1>2. \A d \in Calls : (reply'[d] = "ok" /\ op[d] \in Commands) => reply[d] = "ok"
  BY NoneAssumption DEF ActorEnds, Dropping, Answer, TypeOK
<1>3. OutputReachesOwnPrompt'
  BY <1>1, <1>2, OutputsKept DEF AnswerInv, Misled
<1> QED
  BY <1>1, <1>3 DEF AnswerInv, EndedIsOver, StderrHasNoPrompt, StopperStops, PromptInv,
     OutputInv, Looping, Inactive

\* A line that is written to a cdb at its prompt is its only one.
LEMMA FirstLine ==
  ASSUME TypeOK, NEW c \in Calls, stdin = <<>>, stdin' = Append(stdin, c)
  PROVE  stdin' = <<c>> /\ stdin' # <<>> /\ Len(stdin') = 1
OBVIOUS

LEMMA AnswerRequest ==
  ASSUME TypeOK, SlotInv, AnswerInv, NEW c \in Calls, HandleRequest(c)
  PROVE  AnswerInv'
<1>1. ASSUME NEW ops, NEW guard, NEW r, Refuse(c, ops, guard, r),
             r # "ok" \/ ops \cap Commands = {}
      PROVE  AnswerInv'
  <2>1. /\ UNCHANGED <<state, loop, wire, stdin, cdb, job, op, output>>
        /\ reply' = Answer(c, r) /\ op[c] \in ops
    BY <1>1 DEF Refuse, Take, shared, child
  <2>2. \A d \in Calls : (reply'[d] = "ok" /\ op[d] \in Commands) => reply[d] = "ok"
    BY <1>1, <2>1 DEF Answer, TypeOK
  <2>3. EndedIsOver' /\ StderrHasNoPrompt' /\ PromptInv' /\ OutputInv' /\ Misled' = Misled
    BY <2>1, PromptsKept
  <2>4. OutputReachesOwnPrompt'
    BY <2>1, <2>2, <2>3, OutputsKept DEF AnswerInv
  <2> QED
    BY <2>1, <2>3, <2>4 DEF AnswerInv, StopperStops, actorVars, loop
<1>2. ASSUME actor = "select", UNCHANGED <<actor, wire, recovered, stopper, op, log>>
      PROVE  /\ EndedIsOver' /\ StderrHasNoPrompt' /\ StopperStops' /\ Misled' = Misled
             /\ Looping' = Looping /\ PromptOnItsWay' = PromptOnItsWay
             /\ ~AtNewPrompt /\ ~AtNewPrompt'
  BY <1>2 DEF AnswerInv, EndedIsOver, StderrHasNoPrompt, StopperStops, Misled, Looping,
              PromptOnItsWay, AtNewPrompt, wire
<1>3. CASE AcceptCommand(c)
  <2>1. /\ actor = "select" /\ state = "Idle" /\ state' = "Executing"
        /\ UNCHANGED <<actor, wire, recovered, stopper, op, log, output, cdb, job>>
        /\ executing = None /\ executing' = c /\ startOffset' = Len(log)
        /\ stdin' = Append(stdin, c) /\ reply' = Dropping({executing}, reply)
    BY <1>3 DEF AcceptCommand, BeginCommand, Take, SlotInv, SlotMatchesState
  <2>2. ASSUME Looping PROVE stdin = <<>> /\ cdb \in {"prompt", "exited"} /\ ~PromptOnItsWay
    BY <2>1, <2>2 DEF AnswerInv, PromptInv, Quiet
  <2>3. PromptInv' /\ OutputInv'
    BY <1>2, <2>1, <2>2, FirstLine
       DEF PromptInv, OutputInv, PromptOnItsWay, TypeOK, wire
  <2>4. \A d \in Calls : (reply'[d] = "ok" /\ op[d] \in Commands) => reply[d] = "ok"
    BY <2>1, NoneAssumption DEF Dropping, TypeOK
  <2>5. OutputReachesOwnPrompt'
    <3>1. Misled' = Misled /\ UNCHANGED <<op, output>> /\ OutputReachesOwnPrompt
      BY <1>2, <2>1 DEF AnswerInv
    <3> QED
      BY <2>4, <3>1, OutputsKept
  <2> QED
    BY <1>2, <2>1, <2>3, <2>5 DEF AnswerInv
<1>4. CASE SendGo(c)
  <2>1. /\ actor = "select" /\ state = "Idle" /\ state' = "Running" /\ op[c] = "continue"
        /\ UNCHANGED <<actor, wire, recovered, stopper, op, log, output, cdb, job>>
        /\ executing = None /\ executing' = None
        /\ stdin' = Append(stdin, c) /\ reply' = Answer(c, "ok")
    BY <1>4 DEF SendGo, Take, SlotInv, SlotMatchesState, actorVars, loop, slot
  <2>2. ASSUME Looping PROVE stdin = <<>> /\ cdb \in {"prompt", "exited"} /\ ~PromptOnItsWay
    BY <2>1, <2>2 DEF AnswerInv, PromptInv, Quiet
  <2>3. PromptInv' /\ OutputInv'
    BY <1>2, <2>1, <2>2, FirstLine DEF PromptInv, OutputInv, PromptOnItsWay, wire
  <2>4. \A d \in Calls : (reply'[d] = "ok" /\ op[d] \in Commands) => reply[d] = "ok"
    BY <2>1 DEF Answer, Commands, TypeOK
  <2>5. OutputReachesOwnPrompt'
    BY <1>2, <2>1, <2>4, OutputsKept DEF AnswerInv
  <2> QED
    BY <1>2, <2>1, <2>3, <2>5 DEF AnswerInv
<1>5. CASE SendBreak(c)
  <2>1. /\ actor = "select" /\ state # "Idle" /\ state' = "Breaking" /\ op[c] = "break"
        /\ UNCHANGED <<loop, wire, op, output, stdin, cdb, job>>
        /\ reply' = Answer(c, "ok")
    BY <1>5 DEF SendBreak, Interrupt, Take
  <2>2. PromptInv' /\ OutputInv'
    BY <1>2, <2>1
       DEF AnswerInv, PromptInv, OutputInv, PromptOnItsWay, Quiet, OwnPrompt, actorVars, loop,
           slot, wire
  <2>3. \A d \in Calls : (reply'[d] = "ok" /\ op[d] \in Commands) => reply[d] = "ok"
    BY <2>1 DEF Answer, Commands, TypeOK
  <2>4. OutputReachesOwnPrompt'
    BY <1>2, <2>1, <2>3, OutputsKept DEF AnswerInv, actorVars, loop
  <2> QED
    BY <1>2, <2>1, <2>2, <2>4 DEF AnswerInv, actorVars, loop
<1>6. CASE HandleStop(c)
  <2>1. /\ actor' = "stopping" /\ stopper' = c /\ op[c] \in StopModes
        /\ UNCHANGED <<wire, op, reply, output, recovered>>
    BY <1>6 DEF HandleStop, Take
  <2> QED
    BY <2>1 DEF AnswerInv, EndedIsOver, StderrHasNoPrompt, StopperStops, PromptInv,
       OutputInv, OutputReachesOwnPrompt, Misled, Looping, wire
<1> QED
  BY <1>1, <1>3, <1>4, <1>5, <1>6
     DEF HandleRequest, HandleCommand, HandleContinue, HandleBreak, HandleStatus, Commands

LEMMA AnswerActor == ASSUME TypeOK, SlotInv, AnswerInv, Actor PROVE AnswerInv'
<1>1. CASE ChildExit \/ StreamsClosed
  BY <1>1, AnswerEnds DEF ChildExit, StreamsClosed, TypeOK, Answers
<1>2. CASE StopReturns
  <2>1. ActorEnds(stopper, "ok") /\ (stopper # None => op[stopper] \notin Commands)
    BY <1>2 DEF StopReturns, StopEnds, AnswerInv, StopperStops, StopModes, Commands
  <2> QED
    BY <2>1, AnswerEnds DEF TypeOK, Answers
<1>3. CASE DeadlinePasses \/ CancelTick
  <2>1. /\ UNCHANGED <<actor, stopper, log, op, output, wire, stdin, cdb, job>>
        /\ executing' = None /\ actor = "select"
        /\ \/ state' \in {state, "Breaking"} /\ UNCHANGED recovered
           \/ recovered' = TRUE
    BY <1>3 DEF DeadlinePasses, CancelTick, TakeSlot, InterruptCommand
  <2>2. \A d \in Calls : (reply'[d] = "ok" /\ op[d] \in Commands) => reply[d] = "ok"
    BY <1>3 DEF DeadlinePasses, CancelTick, TakeSlot, Answer, TypeOK
  <2>3. OutputReachesOwnPrompt'
    BY <2>1, <2>2, OutputsKept DEF AnswerInv, Misled, TypeOK
  <2>4. PromptInv'
    BY <2>1 DEF AnswerInv, PromptInv, PromptOnItsWay, AtNewPrompt, Looping, Misled, Quiet,
                TypeOK, wire
  <2> QED
    BY <2>1, <2>3, <2>4 DEF AnswerInv, EndedIsOver, StderrHasNoPrompt, StopperStops,
       OutputInv, wire
<1> QED
  BY <1>1, <1>2, <1>3, AnswerReceive, AnswerOnOutput, AnswerRequest DEF Actor

LEMMA AnswerStep == TypeOK /\ SlotInv /\ AnswerInv /\ [Next]_vars => AnswerInv'
<1>1. ASSUME AnswerInv, UNCHANGED vars PROVE AnswerInv'
  <2>1. UNCHANGED <<shared, actorVars, callVars, wire, child>>
    BY <1>1 DEF vars
  <2> QED
    BY <1>1, <2>1 DEF AnswerInv, EndedIsOver, StderrHasNoPrompt, StopperStops, PromptInv,
       OutputInv, OutputReachesOwnPrompt, Looping, Misled, PromptOnItsWay, AtNewPrompt,
       Quiet, OwnPrompt, Inactive, shared, actorVars, loop, slot, callVars, wire, child
<1> QED
  BY <1>1, AnswerSpawner, AnswerCaller, AnswerCdb, AnswerActor DEF Next

LEMMA AnswerInvariant == Spec => []AnswerInv
BY AnswerInit, AnswerStep, TypeCorrect, SlotInvariant, PTL DEF Spec

\* Unless the buffer misled it, a session is Idle only if cdb is at its prompt with
\* nothing to read, or is gone.
THEOREM IdleIsAtPrompt == Spec => []IdleMeansPrompt
<1>1. TypeOK /\ AnswerInv => IdleMeansPrompt
  BY DEF TypeOK, AnswerInv, EndedIsOver, PromptInv, Looping, Quiet, IdleMeansPrompt, Inactive
<1> QED
  BY <1>1, AnswerInvariant, TypeCorrect, PTL

\* Unless the buffer misled the session, a command that is answered Ok has all its
\* output, up to its own prompt.
THEOREM OutputIsOwn == Spec => []OutputReachesOwnPrompt
BY AnswerInvariant, PTL DEF AnswerInv
=============================================================================
