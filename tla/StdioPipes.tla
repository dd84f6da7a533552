----------------------------- MODULE StdioPipes -----------------------------
(***************************************************************************)
(* The pipes between the actor of src/src/cdb/session.rs and cdb, and what *)
(* waits for what there.                                                   *)
(*                                                                         *)
(* handle_request awaits write_all and flush inside the actor's loop: until*)
(* cdb has read what does not fit its stdin, the actor takes no output, no *)
(* request and no deadline.  cdb in turn reads its stdin only at a prompt, *)
(* and stops in the middle of a command when nobody takes its output.      *)
(* CdbSession has writes that never wait; here a pipe has room for a few   *)
(* pieces, and a command is a text of several pieces, on several lines if  *)
(* its caller wrote it so: run_command trims only the end of it.           *)
(***************************************************************************)
EXTENDS Naturals, Sequences

CONSTANTS
  Calls,     \* the calls on the session
  None,      \* no call
  MaxLines,  \* bound: the lines of a command
  MaxWidth,  \* bound: the pieces of a line
  MaxOut,    \* bound: the pieces of output of a line
  StdinCap,  \* pieces the stdin pipe of cdb holds
  OutCap     \* pieces between cdb and the actor: pipe, reader and channel

ASSUME NoneAssumption == None \notin Calls
ASSUME SizeAssumption == /\ {MaxLines, MaxWidth} \subseteq Nat \ {0}
                         /\ MaxOut \in Nat
                         /\ {StdinCap, OutCap} \subseteq Nat \ {0}

VARIABLES
  state,      \* SessionShared.state
  actor,      \* where SessionActor::run is
  current,    \* the call whose request it is in
  unwritten,  \* what write_all still has to write
  executing,  \* the slot
  atPrompt,   \* does the ring end at a prompt
  recovered,  \* did interrupt_cdb_command ever skip the CTRL+BREAK
  requests,   \* the mpsc channel of Request
  op,         \* what each call asked for
  text,       \* the shape of its command
  reply,      \* what it was answered
  stdin,      \* the stdin pipe of cdb
  out,        \* what cdb wrote and the actor has not taken
  cdb,        \* what the child is doing
  left,       \* the output its command has yet to write
  ctrl,       \* has a CTRL+BREAK reached it at work
  killed      \* was start_kill called

writing == <<current, unwritten>>
session == <<state, executing, atPrompt, recovered>>
callVars == <<requests, op, text, reply>>
child == <<cdb, left, ctrl>>
vars == <<actor, writing, session, callVars, stdin, out, child, killed>>

-----------------------------------------------------------------------------
Ops == {"command", "continue", "detach", "kill"}

\* A piece of the text of call c; the last one of a line ends it.
Piece(c, last) == [by |-> c, eol |-> last]

Shapes == [lines : 1..MaxLines, width : 1..MaxWidth]
OneLine == [lines |-> 1, width |-> 1]

\* What is written for a call: the lines of a command, or g or qd.
Written(c) ==
  IF op[c] = "command"
    THEN [i \in 1..(text[c].lines * text[c].width)
            |-> Piece(c, \E k \in 1..text[c].lines : i = k * text[c].width)]
    ELSE <<Piece(c, TRUE)>>

Answer(c, r) == IF reply[c] = "pending" THEN [reply EXCEPT ![c] = r] ELSE reply

Init ==
  /\ state = "Idle" /\ actor = "select"
  /\ current = None /\ unwritten = <<>>
  /\ executing = None /\ atPrompt = TRUE /\ recovered = FALSE
  /\ requests = <<>>
  /\ op = [c \in Calls |-> "none"]
  /\ text = [c \in Calls |-> OneLine]
  /\ reply = [c \in Calls |-> "unasked"]
  /\ stdin = <<>> /\ out = <<>>
  /\ cdb = "prompt" /\ left = 0 /\ ctrl = FALSE /\ killed = FALSE

-----------------------------------------------------------------------------
(* The callers.                                                            *)

Submit(c, o, shape) ==
  /\ op[c] = "none" /\ actor # "gone"
  /\ op' = [op EXCEPT ![c] = o]
  /\ text' = [text EXCEPT ![c] = shape]
  /\ requests' = Append(requests, c)
  /\ reply' = [reply EXCEPT ![c] = "pending"]
  /\ UNCHANGED <<actor, writing, session, stdin, out, child, killed>>

-----------------------------------------------------------------------------
(* The actor.                                                              *)

Take(c, o) ==
  /\ actor = "select" /\ requests # <<>> /\ c = Head(requests)
  /\ op[c] = o
  /\ requests' = Tail(requests)

\* Every request that writes to cdb begins so.
BeginWrite(c) ==
  /\ actor' = "writing" /\ current' = c /\ unwritten' = Written(c)
  /\ UNCHANGED <<session, op, text, reply, stdin, out, child, killed>>

Refuse(c, o) ==
  /\ Take(c, o) /\ state # "Idle"
  /\ reply' = Answer(c, "invalid")
  /\ UNCHANGED <<actor, writing, session, op, text, stdin, out, child, killed>>

\* Mutant of TakeLine: commands are written ahead to a cdb at work.
TakeLineAlways(c, o) == Take(c, o) /\ BeginWrite(c)

TakeLine(c, o) == state = "Idle" /\ Take(c, o) /\ BeginWrite(c)

TakeDetach(c) == Take(c, "detach") /\ BeginWrite(c)

TakeKillIf(c, ready) ==
  /\ ready /\ Take(c, "kill")
  /\ killed' = TRUE
  /\ actor' = "stopping" /\ current' = c
  /\ UNCHANGED <<unwritten, session, op, text, reply, stdin, out, child>>

\* Mutant of TakeKill: a kill has to wait for the prompt, as g does.
TakeKillAtPrompt(c) == TakeKillIf(c, state = "Idle")

TakeKill(c) == TakeKillIf(c, TRUE)

\* write_all and flush go on while the pipe has room.
WritePiece ==
  /\ actor = "writing" /\ unwritten # <<>>
  /\ cdb # "exited" /\ Len(stdin) < StdinCap
  /\ stdin' = Append(stdin, Head(unwritten))
  /\ unwritten' = Tail(unwritten)
  /\ UNCHANGED <<actor, current, session, callVars, out, child, killed>>

\* All is written; or cdb is gone and nobody looks at the error, which flush and
\* a stop ignore.
WriteEnds ==
  /\ actor = "writing"
  /\ unwritten = <<>> \/ cdb = "exited"
  /\ unwritten' = <<>>
  /\ \/ /\ op[current] = "command"
        /\ state' = "Executing" /\ executing' = current
        /\ actor' = "select" /\ current' = None
        /\ UNCHANGED reply
     \/ /\ op[current] = "continue"
        /\ state' = "Running"
        /\ reply' = Answer(current, "ok")
        /\ actor' = "select" /\ current' = None
        /\ UNCHANGED executing
     \/ /\ op[current] = "detach"
        /\ actor' = "stopping"
        /\ UNCHANGED <<state, executing, reply, current>>
  /\ UNCHANGED <<atPrompt, recovered, requests, op, text, stdin, out, child,
                 killed>>

WriteFails ==
  /\ actor = "writing" /\ unwritten # <<>> /\ cdb = "exited"
  /\ op[current] # "detach"
  /\ reply' = Answer(current, "io")
  /\ actor' = "select" /\ current' = None /\ unwritten' = <<>>
  /\ UNCHANGED <<session, requests, op, text, stdin, out, child, killed>>

\* on_output: a prompt ends the command in the slot.
TakeOutput ==
  /\ actor = "select" /\ out # <<>>
  /\ out' = Tail(out)
  /\ atPrompt' = (Head(out) = "prompt")
  /\ \/ /\ Head(out) = "prompt" /\ state # "Idle"
        /\ state' = "Idle" /\ executing' = None
        /\ reply' = IF executing = None THEN reply ELSE Answer(executing, "ok")
     \/ /\ Head(out) # "prompt" \/ state = "Idle"
        /\ UNCHANGED <<state, executing, reply>>
  /\ UNCHANGED <<actor, writing, recovered, requests, op, text, stdin, child,
                 killed>>

\* The deadline of the command in the slot, and interrupt_cdb_command.
DeadlinePasses ==
  /\ actor = "select" /\ executing # None
  /\ reply' = Answer(executing, "timeout")
  /\ executing' = None
  /\ \/ /\ state = "Executing" /\ atPrompt
        /\ state' = "Idle" /\ recovered' = TRUE /\ UNCHANGED ctrl
     \/ /\ state = "Executing" /\ ~atPrompt /\ cdb # "exited"
        /\ state' = "Breaking" /\ ctrl' = (cdb = "busy") /\ UNCHANGED recovered
     \/ /\ state # "Executing" \/ (~atPrompt /\ cdb = "exited")
        /\ UNCHANGED <<state, recovered, ctrl>>
  /\ UNCHANGED <<actor, writing, atPrompt, requests, op, text, stdin, out, cdb,
                 left, killed>>

\* The actor returns: every call it holds is answered or dropped.
ActorEnds ==
  /\ state' = "Stopped" /\ actor' = "gone"
  /\ current' = None /\ executing' = None /\ requests' = <<>>
  /\ reply' = [c \in Calls |-> IF reply[c] = "pending" THEN "ended" ELSE reply[c]]
  /\ UNCHANGED <<unwritten, atPrompt, recovered, op, text, stdin, out, child>>

ChildExit == actor = "select" /\ cdb = "exited" /\ ActorEnds /\ UNCHANGED killed

\* child.wait under STOP_WAIT.
StopReturns ==
  /\ actor = "stopping"
  /\ killed' = (killed \/ cdb # "exited")
  /\ ActorEnds

-----------------------------------------------------------------------------
(* cdb.                                                                    *)

\* At a prompt cdb reads; a line that is complete is executed.
CdbReads ==
  /\ cdb = "prompt" /\ stdin # <<>>
  /\ stdin' = Tail(stdin)
  /\ \/ /\ ~Head(stdin).eol
        /\ UNCHANGED child
     \/ /\ Head(stdin).eol /\ op[Head(stdin).by] # "detach"
        /\ cdb' = "busy" /\ left' \in 0..MaxOut /\ UNCHANGED ctrl
     \/ /\ Head(stdin).eol /\ op[Head(stdin).by] = "detach"
        /\ cdb' = "exited" /\ UNCHANGED <<left, ctrl>>
  /\ UNCHANGED <<actor, writing, session, callVars, out, killed>>

CdbWrites ==
  /\ cdb = "busy" /\ left > 0 /\ Len(out) < OutCap
  /\ out' = Append(out, "text") /\ left' = left - 1
  /\ UNCHANGED <<actor, writing, session, callVars, stdin, cdb, ctrl, killed>>

\* The command is done, or was interrupted.
CdbPrompts ==
  /\ cdb = "busy" /\ (left = 0 \/ ctrl) /\ Len(out) < OutCap
  /\ out' = Append(out, "prompt")
  /\ cdb' = "prompt" /\ left' = 0 /\ ctrl' = FALSE
  /\ UNCHANGED <<actor, writing, session, callVars, stdin, killed>>

CdbExits ==
  /\ cdb # "exited"
  /\ cdb' = "exited" /\ ctrl' = FALSE
  /\ UNCHANGED <<actor, writing, session, callVars, stdin, out, left, killed>>

-----------------------------------------------------------------------------
HandleRequest(c) ==
  \/ \E o \in {"command", "continue"} : Refuse(c, o) \/ TakeLine(c, o)
  \/ TakeDetach(c) \/ TakeKill(c)

Actor ==
  \/ \E c \in Calls : HandleRequest(c)
  \/ WritePiece \/ WriteEnds \/ WriteFails
  \/ TakeOutput \/ DeadlinePasses \/ ChildExit \/ StopReturns

Cdb == CdbReads \/ CdbWrites \/ CdbPrompts \/ CdbExits

Next ==
  \/ \E c \in Calls, o \in Ops :
       \E shape \in (IF o = "command" THEN Shapes ELSE {OneLine}) :
         Submit(c, o, shape)
  \/ Actor \/ Cdb

Spec == Init /\ [][Next]_vars

\* The actor is scheduled, and its select! is fair to its arms.  cdb reads at a
\* prompt, writes what it has to write, heeds a CTRL+BREAK and dies of a kill;
\* nothing else makes it exit.
Fairness ==
  /\ \A c \in Calls : WF_vars(HandleRequest(c))
  /\ WF_vars(WritePiece) /\ WF_vars(WriteEnds) /\ WF_vars(WriteFails)
  /\ WF_vars(TakeOutput) /\ WF_vars(DeadlinePasses)
  /\ WF_vars(ChildExit) /\ WF_vars(StopReturns)
  /\ WF_vars(CdbReads) /\ WF_vars(CdbWrites) /\ WF_vars(ctrl /\ CdbPrompts)
  /\ WF_vars(killed /\ CdbExits)

FairSpec == Spec /\ Fairness
-----------------------------------------------------------------------------
\* Types of all variables, and the room in the pipes.
TypeOK ==
  /\ state \in {"Idle", "Executing", "Running", "Breaking", "Stopped"}
  /\ actor \in {"select", "writing", "stopping", "gone"}
  /\ {current, executing} \subseteq Calls \cup {None}
  /\ unwritten \in Seq([by : Calls, eol : BOOLEAN])
  /\ {atPrompt, recovered, ctrl, killed} \subseteq BOOLEAN
  /\ requests \in Seq(Calls)
  /\ op \in [Calls -> Ops \cup {"none"}] /\ text \in [Calls -> Shapes]
  /\ reply \in [Calls -> {"unasked", "pending", "ok", "invalid", "io",
                          "timeout", "ended"}]
  /\ stdin \in Seq([by : Calls, eol : BOOLEAN]) /\ Len(stdin) <= StdinCap
  /\ out \in Seq({"text", "prompt"}) /\ Len(out) <= OutCap
  /\ cdb \in {"prompt", "busy", "exited"} /\ left \in 0..MaxOut

\* The actor waits for room in the stdin of cdb, and cdb for room in its output.
MutualWait ==
  /\ actor = "writing" /\ unwritten # <<>> /\ Len(stdin) = StdinCap
  /\ cdb = "busy" /\ Len(out) = OutCap

\* The actor and cdb never wait for each other, although the actor writes without
\* taking output: what makes it so is that a line is only written to a cdb that
\* sits at its prompt, which the recovery of interrupt_cdb_command gets wrong.
NoMutualWait == MutualWait => recovered

\* "Block until the session returns to the debugger prompt": a session that is
\* Idle has a cdb that waits at its prompt with nothing left to read.
IdleMeansAtPrompt ==
  (state = "Idle" /\ actor = "select" /\ ~recovered)
  => cdb = "exited" \/ (cdb = "prompt" /\ stdin = <<>>)

\* However long its writes wait, the session keeps the contract of SessionContract:
\* one command at a time, each call answered once, and nothing starts in a session
\* that is over.
Phase(r) == CASE r = "unasked" -> "new" [] r = "pending" -> "waiting"
              [] OTHER -> "answered"

Contract == INSTANCE SessionContract
              WITH open <- actor # "gone", current <- executing,
                   phase <- [c \in Calls |-> Phase(reply[c])]

KeepsContract == Contract!Spec

\* A command is answered by its prompt or by its deadline, in spite of the time
\* its write may take, in which the actor sees neither.
CommandReturns ==
  \A c \in Calls :
    (op[c] = "command" /\ reply[c] = "pending")
    ~> (reply[c] # "pending" \/ recovered)

\* A kill, the last resort, ends a session whatever the other calls are doing.
KillEndsSession ==
  \A c \in Calls : (op[c] = "kill" /\ reply[c] = "pending")
                    ~> ((killed /\ actor = "gone") \/ cdb = "exited" \/ recovered)
=============================================================================
