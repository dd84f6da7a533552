-------------------------- MODULE SessionContract --------------------------
(***************************************************************************)
(* What a debugging session promises its callers, without the debugger.    *)
(* A call on an open session waits until it is answered or its caller      *)
(* leaves.  At most one command is current; the one that is holds the      *)
(* debugger until it is answered, or until its caller has left and the     *)
(* session lets go of it.  A call is answered at most once, and a session  *)
(* that closed starts nothing.                                             *)
(*                                                                         *)
(* KeepsContract of CdbSession says that the actor of session.rs, with its *)
(* queue, its slot, its deadlines and its child process, keeps this.       *)
(***************************************************************************)
CONSTANTS Calls, None

VARIABLES
  open,     \* does the session take requests
  phase,    \* of each call: new, waiting, left (by its caller) or answered
  current   \* the command that holds the debugger

vars == <<open, phase, current>>

Init ==
  /\ open = TRUE
  /\ phase = [c \in Calls |-> "new"]
  /\ current = None

\* A closed session answers at once.
Ask(c) ==
  /\ phase[c] = "new"
  /\ \/ phase' = [phase EXCEPT ![c] = "waiting"]
     \/ ~open /\ phase' = [phase EXCEPT ![c] = "answered"]
  /\ UNCHANGED <<open, current>>

Leave(c) ==
  /\ phase[c] = "waiting"
  /\ phase' = [phase EXCEPT ![c] = "left"]
  /\ UNCHANGED <<open, current>>

\* A command starts even if its caller left while it was queued.
Start(c) ==
  /\ open /\ current = None
  /\ phase[c] \in {"waiting", "left"}
  /\ current' = c
  /\ UNCHANGED <<open, phase>>

Reply(c) ==
  /\ phase[c] = "waiting"
  /\ phase' = [phase EXCEPT ![c] = "answered"]
  /\ current' = IF current = c THEN None ELSE current
  /\ UNCHANGED open

Release ==
  /\ current # None /\ phase[current] = "left"
  /\ current' = None
  /\ UNCHANGED <<open, phase>>

\* The session ends, and answers the requests it holds with it.
Close(answered) ==
  /\ open /\ open' = FALSE
  /\ current # None => current \in answered
  /\ phase' = [c \in Calls |-> IF c \in answered /\ phase[c] = "waiting"
                                 THEN "answered" ELSE phase[c]]
  /\ current' = None

Next ==
  \/ \E c \in Calls : Ask(c) \/ Leave(c) \/ Start(c) \/ Reply(c)
  \/ Release
  \/ \E answered \in SUBSET Calls : Close(answered)

Spec == Init /\ [][Next]_vars
=============================================================================
