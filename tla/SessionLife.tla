----------------------------- MODULE SessionLife -----------------------------
(***************************************************************************)
(* The life of a session as the registry sees it: what SessionManager      *)
(* assumes of CdbSession.                                                  *)
(*                                                                         *)
(* `life` is SessionShared.state with all states of a session that came to *)
(* its first prompt as "ready"; `tended` says that its actor is there, and *)
(* so that nobody has seen its cdb end; `spawn` is where spawn_common is.  *)
(***************************************************************************)
VARIABLES life, tended, spawn

vars == <<life, tended, spawn>>

NotStarted == life = "none" /\ tended = FALSE /\ spawn = "none"
Started == life = "starting" /\ tended = TRUE /\ spawn = "waiting"

Init == NotStarted \/ Started

Start == NotStarted /\ life' = "starting" /\ tended' = TRUE /\ spawn' = "waiting"

\* on_output had read Starting, though the spawner may have given up since.
FirstPrompt ==
  /\ tended /\ (life = "starting" \/ (life = "failed" /\ spawn = "failed"))
  /\ life' = "ready"
  /\ UNCHANGED <<tended, spawn>>

SpawnReturns ==
  /\ spawn = "waiting" /\ life = "ready"
  /\ spawn' = "returned"
  /\ UNCHANGED <<life, tended>>

SpawnFails ==
  /\ spawn = "waiting"
  /\ spawn' = "failed" /\ life' = "failed"
  /\ UNCHANGED tended

SpawnDropped ==
  /\ spawn = "waiting"
  /\ spawn' = "dropped"
  /\ UNCHANGED <<life, tended>>

\* The actor ends: cdb exited, or a stop was carried out.
End ==
  /\ tended
  /\ tended' = FALSE /\ life' = "stopped"
  /\ UNCHANGED spawn

Next ==
  \/ Start \/ FirstPrompt \/ SpawnReturns \/ SpawnFails \/ SpawnDropped \/ End

Spec == Init /\ [][Next]_vars
=============================================================================
