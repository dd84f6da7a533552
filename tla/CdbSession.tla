----------------------------- MODULE CdbSession -----------------------------
(***************************************************************************)
(* One cdb session of windbgr-mcp: src/src/cdb/session.rs with the prompt  *)
(* rule of src/src/cdb/prompt.rs.                                          *)
(*                                                                         *)
(* Four kinds of process meet here.                                        *)
(*   the spawner  spawn_common, waiting for the first prompt               *)
(*   the callers  Session::run_command, control, stop, status, wait_ready  *)
(*   the actor    SessionActor::run, the only reader of the request queue  *)
(*                and of the output channel                                *)
(*   cdb          the child process, external: it reads lines from its     *)
(*                stdin at a prompt, and writes text and prompts           *)
(* They share `state` (SessionShared, behind a mutex that is released      *)
(* between a read and the write that depends on it).                       *)
(*                                                                         *)
(* Time is abstract: a deadline, a tick and a poll may elapse whenever the *)
(* code is waiting on them.  Text is abstract: a chunk of output is a      *)
(* prompt or one of the NoiseKinds of PromptRule, tagged with the call that*)
(* caused it.                                                              *)
(***************************************************************************)
EXTENDS PromptRule, Functions

CONSTANTS
  Calls,       \* one element per call on the Session handle
  None,        \* no call
  Ops,         \* the operations the callers use
  NoiseKinds,  \* the kinds of text cdb writes that are not a prompt
  MaxNoise,    \* bound: how many such chunks cdb writes
  ReqCap,      \* room in the request queue (64 in the code)
  PipeCap,     \* chunks between cdb and the actor, for each stream
  OsErrors     \* may a write, wait, read or CTRL+BREAK fail for no reason

AllOps == {"command", "untimed", "continue", "break", "detach", "terminate",
           "kill", "status", "wait"}

ASSUME NoneAssumption == None \notin Calls
ASSUME OpsAssumption == Ops \subseteq AllOps
ASSUME NoiseAssumption == NoiseKinds \subseteq {"line", "frag", "blank"}
ASSUME BoundAssumption == /\ MaxNoise \in Nat
                          /\ ReqCap \in Nat \ {0}
                          /\ PipeCap \in Nat \ {0}
ASSUME OsErrorsAssumption == OsErrors \in BOOLEAN

VARIABLES
  state,       \* SessionShared.state
  exitStatus,  \* is SessionShared.exit_status known
  spawner,     \* where spawn_common is
  actor,       \* where SessionActor::run is
  seen,        \* the state on_output read before it looked for a prompt
  stopper,     \* the Stop call whose child.wait the actor is in
  executing,   \* the call in SessionActor.executing
  startOffset, \* its PendingCommand.start_offset
  log,         \* what was pushed to the ring (never evicted in this module)
  requests,    \* the mpsc channel of Request
  op,          \* what each call asked for
  reply,       \* what each call was answered
  output,      \* CommandOutcome.output of each answered command
  pipe,        \* chunks cdb wrote that the actor has not taken, per stream
  closed,      \* streams whose read_stream task gave up
  stdin,       \* lines written to cdb that it has not read, by their call
  cdb,         \* what the child is doing
  job,         \* the call whose line the child executes or executed last
  ctrl,        \* has a CTRL+BREAK reached a working child
  killed,      \* was start_kill called on the child
  noise,       \* how many noise chunks were written
  recovered,   \* did interrupt_cdb_command ever skip the CTRL+BREAK
  tick         \* is the arm of ACTOR_CANCEL_TICK on in this turn of select!

shared == <<state, exitStatus>>
slot == <<executing, startOffset>>
loop == <<actor, seen, stopper, slot, log, recovered>>
actorVars == <<loop, tick>>
callVars == <<requests, op, reply, output>>
wire == <<pipe, closed>>
child == <<stdin, cdb, job, ctrl, killed, noise>>
vars == <<shared, spawner, actorVars, callVars, wire, child>>

-----------------------------------------------------------------------------
States == {"Starting", "Idle", "Executing", "Running", "Breaking",
           "Stopped", "Failed"}

Inactive(s) == s \in {"Stopped", "Failed"}

Commands == {"command", "untimed"}
StopModes == {"detach", "terminate", "kill"}

Answers == {"ok", "invalid", "io", "timeout", "exited", "gone", "dropped"}
Replies == Answers \cup {"unasked", "pending", "abandoned"}

Streams == {"stdout", "stderr"}

Chunk == [kind : NoiseKinds \cup {"prompt"}, by : Calls \cup {None}]

\* Mutant of ReadSince: one chunk too far on.
ReadAfter(start) == SubSeq(log, start + 2, Len(log))

\* RingBuffer::read_since on a ring that evicted nothing.
ReadSince(start) == SubSeq(log, start + 1, Len(log))

\* oneshot::Sender::send: the answer is lost when the caller went away.
Answer(c, r) == IF reply[c] = "pending" THEN [reply EXCEPT ![c] = r] ELSE reply

\* The oneshot senders of these calls are dropped unused.
Dropping(cs, r) ==
  [d \in Calls |-> IF d \in cs /\ r[d] = "pending" THEN "dropped" ELSE r[d]]

-----------------------------------------------------------------------------
Init ==
  /\ state = "Starting" /\ exitStatus = FALSE
  /\ spawner = "waiting"
  /\ actor = "select" /\ seen = "Starting" /\ stopper = None
  /\ executing = None /\ startOffset = 0
  /\ log = <<>> /\ recovered = FALSE /\ tick = FALSE
  /\ requests = <<>>
  /\ op = [c \in Calls |-> "none"]
  /\ reply = [c \in Calls |-> "unasked"]
  /\ output = [c \in Calls |-> <<>>]
  /\ pipe = [s \in Streams |-> <<>>] /\ closed = {}
  /\ stdin = <<>> /\ cdb = "starting" /\ job = None
  /\ ctrl = FALSE /\ killed = FALSE /\ noise = 0

-----------------------------------------------------------------------------
(* The spawner: wait_ready polls the state, and spawn_common marks the     *)
(* session Failed, under another acquisition of the lock, when it gave up. *)

SpawnReady ==
  /\ spawner = "waiting" /\ state = "Idle"
  /\ spawner' = "ok"
  /\ UNCHANGED <<shared, actorVars, callVars, wire, child>>

\* cdb exited, or the deadline passed.
SpawnGivesUp ==
  /\ spawner = "waiting" /\ state # "Idle"
  /\ spawner' = "failing"
  /\ UNCHANGED <<shared, actorVars, callVars, wire, child>>

GiveUp(next) ==
  /\ spawner = "failing"
  /\ state' = "Failed"
  /\ spawner' = next
  /\ UNCHANGED <<exitStatus, actorVars, callVars, wire, child>>

\* Mutant of MarkFailed: the session is returned in spite of the error.
MarkFailedAndReturn == GiveUp("ok")

MarkFailed == GiveUp("failed")

\* The future of the tool call that spawns is dropped.
SpawnDropped ==
  /\ spawner = "waiting"
  /\ spawner' = "dropped"
  /\ UNCHANGED <<shared, actorVars, callVars, wire, child>>

-----------------------------------------------------------------------------
(* The callers, which hold a Session once the spawner returned it.         *)

Ask(c, o) ==
  /\ spawner = "ok" /\ op[c] = "none"
  /\ op' = [op EXCEPT ![c] = o]

Submit(c, o) ==
  /\ Ask(c, o) /\ o # "wait"
  /\ actor # "gone" /\ Len(requests) < ReqCap
  /\ requests' = Append(requests, c)
  /\ reply' = [reply EXCEPT ![c] = "pending"]
  /\ UNCHANGED <<shared, spawner, actorVars, output, wire, child>>

SubmitGone(c, o) ==
  /\ Ask(c, o) /\ o # "wait"
  /\ actor = "gone"
  /\ reply' = [reply EXCEPT ![c] = "gone"]
  /\ UNCHANGED <<shared, spawner, actorVars, requests, output, wire, child>>

StartWait(c) ==
  /\ Ask(c, "wait") /\ "wait" \in Ops
  /\ reply' = [reply EXCEPT ![c] = "pending"]
  /\ UNCHANGED <<shared, spawner, actorVars, requests, output, wire, child>>

WaitReturns(c) ==
  /\ op[c] = "wait" /\ reply[c] = "pending"
  /\ \/ state = "Idle" /\ reply' = Answer(c, "ok")
     \/ Inactive(state) /\ reply' = Answer(c, "exited")
     \/ state # "Idle" /\ ~Inactive(state) /\ reply' = Answer(c, "timeout")
  /\ UNCHANGED <<shared, spawner, actorVars, requests, op, output, wire, child>>

\* The caller's future is dropped, and its oneshot receiver with it.
Abandon(c) ==
  /\ reply[c] = "pending"
  /\ reply' = [reply EXCEPT ![c] = "abandoned"]
  /\ UNCHANGED <<shared, spawner, actorVars, requests, op, output, wire, child>>

-----------------------------------------------------------------------------
(* The actor: its turns.  The condition of an arm of select! is evaluated  *)
(* once, when the actor enters it: a caller that goes away while the actor *)
(* already waits there is not noticed before something else ends the turn. *)

\* pending_command_cancelled.
Cancelled == executing # None /\ reply[executing] = "abandoned"

NextTurn == tick' = Cancelled'

\* The actor is out of select!, in on_output or in Stop, or at its end.
LeaveSelect == tick' = FALSE

-----------------------------------------------------------------------------
(* The actor: output.                                                      *)

RecvOutput(s) ==
  /\ actor = "select" /\ pipe[s] # <<>>
  /\ log' = Append(log, Head(pipe[s]))
  /\ pipe' = [pipe EXCEPT ![s] = Tail(@)]
  /\ seen' = state
  /\ actor' = "output" /\ LeaveSelect
  /\ UNCHANGED <<shared, spawner, stopper, slot, recovered, callVars, closed,
                 child>>

\* The command in the slot is answered with what was pushed since it began.
Complete ==
  IF executing = None
    THEN UNCHANGED <<reply, output, slot>>
    ELSE /\ reply' = Answer(executing, "ok")
         /\ output' = IF reply[executing] = "pending"
                        THEN [output EXCEPT ![executing] = ReadSince(startOffset)]
                        ELSE output
         /\ executing' = None /\ startOffset' = 0

\* on_output acts on the state it saw, whatever the state is by now: where a
\* prompt ends the command, where it only makes the session Idle.
ActOnPrompt(completing, idling) ==
  /\ actor = "output"
  /\ actor' = "select"
  /\ \/ /\ EndsAtPrompt(log) /\ seen \in completing
        /\ Complete
        /\ state' = "Idle"
     \/ /\ EndsAtPrompt(log) /\ seen \in idling
        /\ state' = "Idle"
        /\ UNCHANGED <<reply, output, slot>>
     \/ /\ ~EndsAtPrompt(log) \/ seen \notin completing \cup idling
        /\ UNCHANGED <<state, reply, output, slot>>
  /\ seen' = "Starting"
  /\ UNCHANGED <<exitStatus, spawner, stopper, log, recovered, requests, op,
                 wire, child>>
  /\ NextTurn

\* Mutants of OnOutput: a prompt after a break leaves the slot as it is, or is
\* not acted on at all.
OnOutputKeepsInterrupted ==
  ActOnPrompt({"Executing"}, {"Starting", "Running", "Breaking"})
OnOutputIgnoresBreaking == ActOnPrompt({"Executing"}, {"Starting", "Running"})

OnOutput == ActOnPrompt({"Executing", "Breaking"}, {"Starting", "Running"})

-----------------------------------------------------------------------------
(* The actor: its end.                                                     *)

\* The actor returns after answering c with r: everything it owns is dropped,
\* the requests it never took and the command in its slot included.
ActorEnds(c, r) ==
  /\ state' = "Stopped"
  /\ actor' = "gone" /\ stopper' = None /\ LeaveSelect
  /\ executing' = None /\ startOffset' = 0 /\ log' = <<>>
  /\ requests' = <<>>
  /\ reply' = Dropping((Range(requests) \cup {executing}) \ {c},
                       IF c = None THEN reply ELSE Answer(c, r))
  /\ pipe' = [s \in Streams |-> <<>>] /\ closed' = Streams
  /\ UNCHANGED <<spawner, seen, recovered, op, output>>

\* child.wait resolves in the select! of run.
ChildExit ==
  /\ actor = "select"
  /\ \/ cdb = "exited" /\ exitStatus' = TRUE
     \/ OsErrors /\ UNCHANGED exitStatus
  /\ ActorEnds(executing, "exited")
  /\ UNCHANGED child

\* out_rx.recv yields None: both reader tasks ended and nothing is queued.
StreamsClosed ==
  /\ actor = "select"
  /\ \A s \in Streams : pipe[s] = <<>> /\ (cdb = "exited" \/ s \in closed)
  /\ ActorEnds(executing, "exited")
  /\ UNCHANGED <<exitStatus, child>>

\* The three results of child.wait under STOP_WAIT.
Reaped == cdb = "exited" /\ exitStatus' = TRUE /\ UNCHANGED killed
WaitFails == OsErrors /\ UNCHANGED <<exitStatus, killed>>
WaitTimesOut == cdb # "exited" /\ killed' = TRUE /\ UNCHANGED exitStatus

StopEnds(result) ==
  /\ actor = "stopping" /\ result
  /\ ActorEnds(stopper, "ok")
  /\ UNCHANGED <<stdin, cdb, job, ctrl, noise>>

\* Mutants of StopReturns: cdb is left alone after STOP_WAIT; there is no
\* STOP_WAIT.
StopReturnsWithoutKill ==
  StopEnds(\/ Reaped \/ WaitFails
           \/ cdb # "exited" /\ UNCHANGED <<exitStatus, killed>>)
StopReturnsOnExit == StopEnds(Reaped)

StopReturns == StopEnds(Reaped \/ WaitFails \/ WaitTimesOut)

-----------------------------------------------------------------------------
(* The actor: interrupts.                                                  *)

\* By the code's own account a CTRL+BREAK does nothing to a cdb at its prompt.
CtrlBreak == ctrl' = (ctrl \/ cdb \in {"starting", "busy"})

CtrlBreakMayFail == OsErrors \/ cdb = "exited"

\* interrupt_cdb_command, after the slot was taken.
InterruptCommand ==
  \/ /\ state \in {"Idle", "Breaking", "Stopped", "Failed"}
     /\ UNCHANGED <<state, ctrl, recovered>>
  \/ /\ state \in {"Starting", "Executing", "Running"} /\ EndsAtPrompt(log)
     /\ state' = "Idle" /\ recovered' = TRUE
     /\ UNCHANGED ctrl
  \/ /\ state \in {"Starting", "Executing", "Running"} /\ ~EndsAtPrompt(log)
     /\ \/ state' = "Breaking" /\ CtrlBreak
        \/ CtrlBreakMayFail /\ UNCHANGED <<state, ctrl>>
     /\ UNCHANGED recovered

TakeSlot ==
  /\ actor = "select" /\ executing # None
  /\ executing' = None /\ startOffset' = 0
  /\ InterruptCommand
  /\ UNCHANGED <<exitStatus, spawner, actor, seen, stopper, log, requests, op,
                 output, wire, stdin, cdb, job, killed, noise>>
  /\ NextTurn

\* Mutant of DeadlinePasses: the command is answered but not taken.
DeadlineLeavesSlot ==
  /\ actor = "select" /\ executing # None
  /\ InterruptCommand
  /\ reply' = Answer(executing, "timeout")
  /\ UNCHANGED <<exitStatus, spawner, actor, seen, stopper, slot, log, requests,
                 op, output, wire, stdin, cdb, job, killed, noise>>
  /\ NextTurn

\* The sleep until the deadline elapses.  An untimed command has no deadline,
\* and the sleep lasts ACTOR_IDLE_BLOCK.
DeadlinePasses == TakeSlot /\ reply' = Answer(executing, "timeout")

\* Mutant of CancelTick: only a command with a deadline is given up.
CancelTickIfTimed ==
  /\ tick /\ op[executing] = "command" /\ TakeSlot
  /\ UNCHANGED reply

CancelTick ==
  /\ tick /\ TakeSlot
  /\ UNCHANGED reply

-----------------------------------------------------------------------------
(* The actor: requests.                                                    *)

Take(c, ops) ==
  /\ actor = "select" /\ requests # <<>> /\ c = Head(requests)
  /\ op[c] \in ops
  /\ requests' = Tail(requests)

WriteMayFail == OsErrors \/ cdb = "exited"

Refuse(c, ops, guard, r) ==
  /\ Take(c, ops) /\ guard
  /\ reply' = Answer(c, r)
  /\ UNCHANGED <<shared, spawner, loop, op, output, wire, child>>
  /\ NextTurn

\* A command that found the slot taken would drop the caller already there.
BeginCommand(c, start) ==
  /\ Take(c, Commands)
  /\ stdin' = Append(stdin, c)
  /\ state' = "Executing"
  /\ executing' = c /\ startOffset' = start
  /\ reply' = Dropping({executing}, reply)
  /\ UNCHANGED <<exitStatus, spawner, actor, seen, stopper, log, recovered, op,
                 output, wire, cdb, job, ctrl, killed, noise>>
  /\ NextTurn

\* Mutant of AcceptCommand: the state is not looked at.
AcceptCommandAlways(c) == BeginCommand(c, Len(log))

AcceptCommand(c) == state = "Idle" /\ BeginCommand(c, Len(log))

HandleCommand(c) ==
  \/ Refuse(c, Commands, state # "Idle", "invalid")
  \/ Refuse(c, Commands, state = "Idle" /\ WriteMayFail, "io")
  \/ AcceptCommand(c)

SendGo(c) ==
  /\ Take(c, {"continue"}) /\ state = "Idle"
  /\ stdin' = Append(stdin, c)
  /\ state' = "Running"
  /\ reply' = Answer(c, "ok")
  /\ UNCHANGED <<exitStatus, spawner, loop, op, output, wire, cdb, job,
                 ctrl, killed, noise>>
  /\ NextTurn

HandleContinue(c) ==
  \/ Refuse(c, {"continue"}, state # "Idle", "invalid")
  \/ Refuse(c, {"continue"}, state = "Idle" /\ WriteMayFail, "io")
  \/ SendGo(c)

Interrupt(c) ==
  /\ Take(c, {"break"}) /\ ~Inactive(state)
  /\ CtrlBreak
  /\ state' = "Breaking"
  /\ reply' = Answer(c, "ok")
  /\ UNCHANGED <<exitStatus, spawner, loop, op, output, wire, stdin, cdb,
                 job, killed, noise>>
  /\ NextTurn

\* Mutant of SendBreak: also sent to a cdb at its prompt.
SendBreakAnyway(c) == Interrupt(c)

SendBreak(c) == state # "Idle" /\ Interrupt(c)

\* ControlAction::Break and InterruptCommand.
HandleBreak(c) ==
  \/ Refuse(c, {"break"}, Inactive(state) \/ state = "Idle",
            IF Inactive(state) THEN "invalid" ELSE "ok")
  \/ Refuse(c, {"break"}, state # "Idle" /\ ~Inactive(state)
                          /\ CtrlBreakMayFail, "io")
  \/ SendBreak(c)

\* The write of qd or q may fail unnoticed; then child.wait under STOP_WAIT.
HandleStop(c) ==
  /\ Take(c, StopModes)
  /\ \/ op[c] # "kill" /\ stdin' = Append(stdin, c) /\ UNCHANGED killed
     \/ op[c] # "kill" /\ WriteMayFail /\ UNCHANGED <<stdin, killed>>
     \/ op[c] = "kill" /\ killed' = TRUE /\ UNCHANGED stdin
  /\ actor' = "stopping" /\ stopper' = c /\ LeaveSelect
  /\ UNCHANGED <<shared, spawner, seen, slot, log, recovered, op, reply,
                 output, wire, cdb, job, ctrl, noise>>

HandleStatus(c) == Refuse(c, {"status"}, TRUE, "ok")

HandleRequest(c) ==
  \/ HandleCommand(c) \/ HandleContinue(c) \/ HandleBreak(c)
  \/ HandleStop(c) \/ HandleStatus(c)

-----------------------------------------------------------------------------
(* cdb and its pipes.                                                      *)

\* A chunk written to a stream nobody reads any more is lost; one written to a
\* full pipe has to wait.
Emit(s, k) ==
  IF s \in closed
    THEN UNCHANGED pipe
    ELSE /\ Len(pipe[s]) < PipeCap
         /\ pipe' = [pipe EXCEPT ![s] = Append(@, [kind |-> k, by |-> job])]

CdbReadLine ==
  /\ cdb = "prompt" /\ stdin # <<>>
  /\ job' = Head(stdin) /\ stdin' = Tail(stdin)
  /\ cdb' = IF op[job'] \in StopModes THEN "exited" ELSE "busy"
  /\ UNCHANGED <<shared, spawner, actorVars, callVars, wire, ctrl, killed, noise>>

CdbWrite(s, k) ==
  /\ cdb \in {"starting", "busy"} /\ noise < MaxNoise
  /\ Emit(s, k)
  /\ noise' = noise + 1
  /\ UNCHANGED <<shared, spawner, actorVars, callVars, closed, stdin, cdb, job,
                 ctrl, killed>>

CdbPrompt ==
  /\ cdb \in {"starting", "busy"}
  /\ Emit("stdout", "prompt")
  /\ cdb' = "prompt" /\ ctrl' = FALSE
  /\ UNCHANGED <<shared, spawner, actorVars, callVars, closed, stdin, job,
                 killed, noise>>

CdbExit ==
  /\ cdb # "exited"
  /\ cdb' = "exited" /\ ctrl' = FALSE
  /\ UNCHANGED <<shared, spawner, actorVars, callVars, wire, stdin, job,
                 killed, noise>>

\* read_stream ends on a read error; what it had not read is lost.
ReaderFails(s) ==
  /\ OsErrors /\ s \notin closed
  /\ closed' = closed \cup {s}
  /\ \E n \in 0..Len(pipe[s]) : pipe' = [pipe EXCEPT ![s] = SubSeq(@, 1, n)]
  /\ UNCHANGED <<shared, spawner, actorVars, callVars, child>>

-----------------------------------------------------------------------------
Spawner == SpawnReady \/ SpawnGivesUp \/ MarkFailed \/ SpawnDropped

Caller(c) ==
  \/ \E o \in Ops : Submit(c, o) \/ SubmitGone(c, o)
  \/ StartWait(c) \/ WaitReturns(c) \/ Abandon(c)

Actor ==
  \/ \E s \in Streams : RecvOutput(s)
  \/ OnOutput \/ ChildExit \/ StreamsClosed \/ StopReturns
  \/ DeadlinePasses \/ CancelTick
  \/ \E c \in Calls : HandleRequest(c)

Cdb ==
  \/ CdbReadLine \/ CdbPrompt \/ CdbExit
  \/ \E s \in Streams : ReaderFails(s) \/ \E k \in NoiseKinds : CdbWrite(s, k)

Next == Spawner \/ (\E c \in Calls : Caller(c)) \/ Actor \/ Cdb

Spec == Init /\ [][Next]_vars

-----------------------------------------------------------------------------
(* Fairness.  tokio's select! polls its ready arms in random order, so an  *)
(* arm that stays ready is taken; tasks and timers are run.  A deadline is *)
(* an absolute instant only for a timed command; the hour an untimed one   *)
(* is given (ACTOR_IDLE_BLOCK, "no timeout") is not waited for.  A tick    *)
(* elapses only in a turn that has its arm on, and steady output puts it   *)
(* off for as long as it lasts.  Of cdb only this is assumed: at a prompt  *)
(* it reads its stdin, a CTRL+BREAK that reached it brings a prompt, and a *)
(* killed child exits.                                                     *)
Fairness ==
  /\ WF_vars(SpawnReady \/ SpawnGivesUp) /\ WF_vars(MarkFailed)
  /\ \A c \in Calls : WF_vars(WaitReturns(c)) /\ WF_vars(HandleRequest(c))
  /\ \A s \in Streams : WF_vars(RecvOutput(s))
  /\ WF_vars(OnOutput) /\ WF_vars(StopReturns)
  /\ WF_vars(ChildExit \/ StreamsClosed)
  /\ WF_vars(executing # None /\ op[executing] = "command" /\ DeadlinePasses)
  /\ WF_vars(CancelTick)
  /\ WF_vars(CdbReadLine) /\ WF_vars(ctrl /\ CdbPrompt)
  /\ WF_vars(killed /\ CdbExit)

FairSpec == Spec /\ Fairness

-----------------------------------------------------------------------------
\* Types of all variables: the states of SessionState, the channels and the
\* pipes within their bounds.
TypeOK ==
  /\ state \in States /\ exitStatus \in BOOLEAN
  /\ spawner \in {"waiting", "failing", "ok", "failed", "dropped"}
  /\ actor \in {"select", "output", "stopping", "gone"}
  /\ seen \in States /\ stopper \in Calls \cup {None}
  /\ executing \in Calls \cup {None} /\ startOffset \in Nat
  /\ log \in Seq(Chunk) /\ recovered \in BOOLEAN /\ tick \in BOOLEAN
  /\ requests \in Seq(Calls)
  /\ op \in [Calls -> Ops \cup {"none"}]
  /\ reply \in [Calls -> Replies]
  /\ output \in [Calls -> Seq(Chunk)]
  /\ pipe \in [Streams -> Seq(Chunk)] /\ closed \subseteq Streams
  /\ stdin \in Seq(Calls)
  /\ cdb \in {"starting", "prompt", "busy", "exited"}
  /\ job \in Calls \cup {None}
  /\ ctrl \in BOOLEAN /\ killed \in BOOLEAN /\ noise \in Nat

\* A command occupies the slot only while the session is Executing or
\* Breaking, so the next command (accepted only when Idle) never overwrites a
\* caller that still waits: the hazard the comment in on_output describes.
SlotMatchesState == executing # None => state \in {"Executing", "Breaking"}

\* The calls the actor is responsible for.
Held == (Range(requests) \cup {executing, stopper}) \ {None}

\* No call is forgotten and none is answered early: a call on the session
\* waits exactly while the actor holds it in the queue, in the slot or in
\* Stop, through every timeout, cancellation, exit and failed write.
EveryCallAccountedFor ==
  \A c \in Calls :
    /\ (reply[c] = "pending" /\ op[c] # "wait") => c \in Held
    /\ c \in Held => reply[c] \in {"pending", "abandoned"} /\ op[c] # "wait"

\* The inductive invariant under it: a call is in one place at a time.
HeldInv ==
  /\ EveryCallAccountedFor
  /\ IsInjective(requests)
  /\ \A c \in Range(requests) : c # executing /\ c # stopper
  /\ executing # None => executing # stopper
  /\ stopper # None => actor = "stopping"
  /\ \A c \in Calls : op[c] = "none" => reply[c] = "unasked"

\* interrupt_cancelled_command does not look again: the command it takes from the
\* slot is the one whose caller was found gone when the turn began.
TickInv == tick => Cancelled

\* A prompt cdb wrote that on_output has not acted on yet.
PromptOnItsWay ==
  \/ \E i \in DOMAIN pipe["stdout"] : pipe["stdout"][i].kind = "prompt"
  \/ actor = "output" /\ EndsAtPrompt(log)

\* No wedge: while the session claims that cdb works (so that only a prompt
\* brings it back to Idle), cdb does work, or has a line to read, or its prompt
\* is on its way to on_output.  The comments in handle_request and in
\* interrupt_cdb_command name this hazard for Breaking.
NoWedge ==
  ( /\ actor \in {"select", "output"} /\ "stdout" \notin closed
    /\ state \in {"Starting", "Executing", "Running", "Breaking"}
    /\ cdb = "prompt" /\ stdin = <<>> )
  => PromptOnItsWay

\* The buffer check of interrupt_cdb_command, made when a deadline or a
\* cancelled caller took the slot, can only find the prompt from BEFORE the
\* command: a prompt pushed since would have emptied the slot in on_output.
PromptInBufferIsStale ==
  (actor = "select" /\ executing # None /\ EndsAtPrompt(log))
  => startOffset = Len(log)

\* Nothing is asked of a session before spawn_common returned it.
CallsNeedSession ==
  spawner # "ok" =>
    /\ requests = <<>> /\ executing = None /\ stopper = None
    /\ \A c \in Calls : op[c] = "none"

\* Between on_output's look at the state and its own write, only the spawner can
\* change it.
SeenIsCurrent == actor = "output" => state \in {seen, "Failed"}

\* The inductive invariant under SlotMatchesState, PromptInBufferIsStale and
\* NoWedge.
SlotInv ==
  /\ CallsNeedSession /\ SeenIsCurrent
  /\ SlotMatchesState /\ PromptInBufferIsStale

\* Does the buffer mislead on_output: white space after an old prompt matches
\* the pattern again, and the check of interrupt_cdb_command sees old prompts.
Misled == recovered \/ "blank" \in NoiseKinds

\* Idle means a debugger prompt: unless misled, a session is Idle only if cdb
\* is at its prompt with nothing left to read, or is gone.
IdleMeansPrompt ==
  (state = "Idle" /\ actor # "stopping" /\ ~Misled)
  => cdb = "exited" \/ (cdb = "prompt" /\ stdin = <<>>)

\* A command answered Ok ran to its own prompt, and the output it returns ends
\* with that prompt: nothing of it is missing.
OutputReachesOwnPrompt ==
  \A c \in Calls :
    (op[c] \in Commands /\ reply[c] = "ok" /\ ~Misled)
    => \E i \in DOMAIN output[c] : output[c][i] = [kind |-> "prompt", by |-> c]

\* Unless the OS fails the actor, Stopped is reported only for a child that
\* exited or was killed (is_active's doc), and an exit status only for the
\* former.
StoppedMeansChildDone ==
  /\ (state = "Stopped" /\ ~OsErrors) => cdb = "exited" \/ killed
  /\ exitStatus => cdb = "exited"

\* Once a session in use is inactive it stays so: prune_inactive forgets the
\* session for good on the strength of one look at its state.
InactiveForever ==
  [][spawner = "ok" /\ Inactive(state) => Inactive(state')]_vars

\* Every call but an untimed command, and wait_ready, returns.
EveryCallReturns ==
  \A c \in Calls :
    (reply[c] = "pending" /\ op[c] # "untimed") ~> (reply[c] # "pending")

\* A command whose caller went away is let go of, by its deadline or, once the
\* loop has made a turn since (so that the cancel arm is on), by the tick: next to
\* output that puts the tick off, and whatever the command's timeout.
NoticedCommandLeavesSlot ==
  \A c \in Calls :
    (executing = c /\ reply[c] = "abandoned" /\ (tick \/ op[c] = "command"))
      ~> (executing # c)

\* A CTRL+BREAK that reached a working cdb gets the session out of Breaking.
BreakTakesEffect == (state = "Breaking" /\ ctrl) ~> (state # "Breaking")

\* The session keeps the contract of SessionContract: exclusive commands, one
\* answer at most for a call, nothing started after the end.
Phase(r) == CASE r = "unasked" -> "new"
              [] r = "pending" -> "waiting"
              [] r = "abandoned" -> "left"
              [] OTHER -> "answered"

Contract == INSTANCE SessionContract
              WITH open <- actor # "gone",
                   phase <- [c \in Calls |-> Phase(reply[c])],
                   current <- executing

KeepsContract == Contract!Spec

\* The session lives as the registry assumes: ready from its first prompt on,
\* given up at most while its spawn waits, and over when its actor is gone.
LifeOf(s) == CASE s = "Starting" -> "starting"
               [] s = "Stopped" -> "stopped"
               [] s = "Failed" -> "failed"
               [] OTHER -> "ready"

SpawnPhase == CASE spawner \in {"waiting", "failing"} -> "waiting"
                [] spawner = "ok" -> "returned"
                [] OTHER -> spawner

Life == INSTANCE SessionLife
          WITH life <- LifeOf(state), tended <- actor # "gone",
               spawn <- SpawnPhase

LivesAsRegistered == Life!Spec

-----------------------------------------------------------------------------
\* What comments say, and the code does not do (README, "Disagreements").

\* ACTOR_CANCEL_TICK is a "periodic tick [...] to detect callers dropping their
\* command future": a command whose caller went away is let go of, even if cdb
\* is silent, no other call comes and it has no deadline.
AbandonedCommandLeavesSlot ==
  \A c \in Calls :
    (executing = c /\ reply[c] = "abandoned") ~> (executing # c)

\* is_active: Stopped and Failed are inactive because the child exited or was
\* killed.
InactiveMeansChildDone == Inactive(state) => cdb = "exited" \/ killed

\* interrupt_cdb_command returns to Idle when the command already completed.
RecoveryIsToAPrompt ==
  [][recovered' # recovered => cdb = "exited" \/ (cdb = "prompt" /\ stdin = <<>>)]_vars
=============================================================================
