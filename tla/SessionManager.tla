--------------------------- MODULE SessionManager ---------------------------
(***************************************************************************)
(* The registry of sessions, src/src/cdb/manager.rs, used by the tool      *)
(* calls that src/src/mcp/server.rs dispatches: debug_attach,              *)
(* debug_launch, debug_list_sessions, debug_stop, and the shutdown of      *)
(* src/src/app.rs.                                                         *)
(*                                                                         *)
(* Tool calls run concurrently.  The lock on the map is held for one step  *)
(* at a time: the capacity check, the registration, the pruning and the    *)
(* listing, the lookup and the removal are separate acquisitions.  Of a    *)
(* session (CdbSession) only its life is kept, as SessionLife has it.      *)
(***************************************************************************)
EXTENDS Naturals, FiniteSets

CONSTANTS
  Spawns,       \* the debug_attach and debug_launch calls, and their sessions
  MaxSessions,  \* server.max_sessions
  MaxInFlight   \* bound: attach and launch calls under way at a time

ASSUME SpawnsAssumption == IsFiniteSet(Spawns)
ASSUME MaxAssumption == MaxSessions \in Nat /\ MaxInFlight \in Nat \ {0}

VARIABLES
  sessions,  \* ManagerInner.sessions
  spawn,     \* where each attach or launch call is
  life,      \* SessionShared.state of the session it makes
  child,     \* does the cdb of that session run, as far as its actor knows
  stop,      \* where the debug_stop call for that session is
  shutdown,  \* where SessionManager::shutdown is
  todo,      \* the rest of its snapshot of sessions
  timedOut,  \* the sessions whose stop it gave up waiting for
  late       \* ghost: the sessions registered after its snapshot

ending == <<shutdown, todo, timedOut>>
vars == <<sessions, spawn, life, child, stop, ending, late>>

Lives == {"none", "starting", "ready", "stopped", "failed"}

Active(a) == life[a] \in {"starting", "ready"}

InFlight == {a \in Spawns : spawn[a] \in {"checked", "waiting", "spawned"}}

Init ==
  /\ sessions = {}
  /\ spawn = [a \in Spawns |-> "new"]
  /\ life = [a \in Spawns |-> "none"]
  /\ child = [a \in Spawns |-> FALSE]
  /\ stop = [a \in Spawns |-> "no"]
  /\ shutdown = "no" /\ todo = {} /\ timedOut = {} /\ late = {}

-----------------------------------------------------------------------------
(* attach and launch: check_capacity, then the spawn is awaited, then      *)
(* register.                                                               *)

Retained == {a \in sessions : Active(a)}

Check(a, full) ==
  /\ spawn[a] = "new" /\ Cardinality(InFlight) < MaxInFlight
  /\ sessions' = Retained
  /\ spawn' = [spawn EXCEPT ![a] = IF full THEN "refused" ELSE "checked"]
  /\ UNCHANGED <<life, child, stop, ending, late>>

\* Mutant of CheckCapacity: one session too many.
CheckCapacityOneOver(a) == Check(a, Cardinality(Retained) > MaxSessions)

CheckCapacity(a) == Check(a, Cardinality(Retained) >= MaxSessions)

\* cdb is missing or does not start.
SpawnError(a) ==
  /\ spawn[a] = "checked"
  /\ spawn' = [spawn EXCEPT ![a] = "failed"]
  /\ UNCHANGED <<sessions, life, child, stop, ending, late>>

StartChild(a) ==
  /\ spawn[a] = "checked"
  /\ spawn' = [spawn EXCEPT ![a] = "waiting"]
  /\ life' = [life EXCEPT ![a] = "starting"]
  /\ child' = [child EXCEPT ![a] = TRUE]
  /\ UNCHANGED <<sessions, stop, ending, late>>

\* wait_ready saw the first prompt.
SpawnReturns(a) ==
  /\ spawn[a] = "waiting" /\ life[a] = "ready"
  /\ spawn' = [spawn EXCEPT ![a] = "spawned"]
  /\ UNCHANGED <<sessions, life, child, stop, ending, late>>

\* It timed out, or cdb exited: the session is dropped, its cdb is not killed.
\* The prompt may come between the last poll and the write of Failed.
SpawnFails(a) ==
  /\ spawn[a] = "waiting"
  /\ spawn' = [spawn EXCEPT ![a] = "failed"]
  /\ life' = [life EXCEPT ![a] = "failed"]
  /\ UNCHANGED <<sessions, child, stop, ending, late>>

\* The future of the tool call is dropped while it waits for the prompt.
SpawnDropped(a) ==
  /\ spawn[a] = "waiting"
  /\ spawn' = [spawn EXCEPT ![a] = "dropped"]
  /\ UNCHANGED <<sessions, life, child, stop, ending, late>>

Registering(a, kept) ==
  /\ spawn[a] = "spawned"
  /\ spawn' = [spawn EXCEPT ![a] = "done"]
  /\ sessions' = kept
  /\ late' = IF shutdown = "no" THEN late ELSE late \cup {a}
  /\ UNCHANGED <<life, child, stop, ending>>

\* Mutant of Register: the limit is enforced here, by dropping the session.
RegisterIfRoom(a) ==
  Registering(a, IF Cardinality(sessions) < MaxSessions THEN sessions \cup {a}
                                                        ELSE sessions)

Register(a) == Registering(a, sessions \cup {a})

-----------------------------------------------------------------------------
(* The session's own life, as CdbSession has it.                           *)

\* on_output had read Starting, though the spawner may have given up since.
FirstPrompt(a) ==
  /\ child[a] /\ (life[a] = "starting" \/ (life[a] = "failed" /\ spawn[a] = "failed"))
  /\ life' = [life EXCEPT ![a] = "ready"]
  /\ UNCHANGED <<sessions, spawn, child, stop, ending, late>>

Exit(a, becomes) ==
  /\ child[a]
  /\ child' = [child EXCEPT ![a] = FALSE]
  /\ life' = [life EXCEPT ![a] = becomes]
  /\ UNCHANGED <<sessions, spawn, stop, ending, late>>

\* Mutant of ChildExits: the actor ends and does not write Stopped.
ChildExitsUnseen(a) == Exit(a, life[a])

ChildExits(a) == Exit(a, "stopped")

-----------------------------------------------------------------------------
(* debug_stop: get, then the stop is awaited, then remove.                 *)

GetForStop(a) ==
  /\ stop[a] = "no" /\ a \in sessions
  /\ stop' = [stop EXCEPT ![a] = "stopping"]
  /\ UNCHANGED <<sessions, spawn, life, child, ending, late>>

\* The actor ends the session; or it had ended, and stop is an error.
StopReturns(a) ==
  /\ stop[a] = "stopping"
  /\ \/ /\ Active(a)
        /\ stop' = [stop EXCEPT ![a] = "stopped"]
        /\ life' = [life EXCEPT ![a] = "stopped"]
        /\ child' = [child EXCEPT ![a] = FALSE]
     \/ /\ ~Active(a)
        /\ stop' = [stop EXCEPT ![a] = "error"]
        /\ UNCHANGED <<life, child>>
  /\ UNCHANGED <<sessions, spawn, ending, late>>

Forget(a) ==
  /\ stop' = [stop EXCEPT ![a] = "done"]
  /\ sessions' = sessions \ {a}
  /\ UNCHANGED <<spawn, life, child, ending, late>>

\* Mutant of Remove: the session is removed before its stop returns.
RemoveEarly(a) == stop[a] \in {"stopping", "stopped"} /\ Forget(a)

Remove(a) == stop[a] = "stopped" /\ Forget(a)

-----------------------------------------------------------------------------
(* debug_list_sessions: prune_inactive; the read of the map that follows   *)
(* changes nothing.                                                        *)

ListActive ==
  /\ sessions' = Retained
  /\ UNCHANGED <<spawn, life, child, stop, ending, late>>

-----------------------------------------------------------------------------
(* shutdown, called when the transport has ended: no call is dispatched    *)
(* any more, but those under way still run.                                *)

Snapshot ==
  /\ shutdown = "no"
  /\ shutdown' = "running" /\ todo' = sessions
  /\ UNCHANGED <<sessions, spawn, life, child, stop, timedOut, late>>

\* Mutant of ShutdownOne: a stop that times out ends the loop.
ShutdownOneAborts(a) ==
  /\ shutdown = "running" /\ a \in todo
  /\ \/ /\ ~Active(a) /\ todo' = todo \ {a}
        /\ UNCHANGED <<life, child, timedOut>>
     \/ /\ Active(a) /\ todo' = {}
        /\ timedOut' = timedOut \cup {a}
        /\ UNCHANGED <<life, child>>
  /\ UNCHANGED <<sessions, spawn, stop, shutdown, late>>

\* A session that ended is skipped, another one killed; a stop that takes more
\* than five seconds is given up.
ShutdownOne(a) ==
  /\ shutdown = "running" /\ a \in todo
  /\ todo' = todo \ {a}
  /\ \/ /\ ~Active(a)
        /\ UNCHANGED <<life, child, timedOut>>
     \/ /\ Active(a)
        /\ life' = [life EXCEPT ![a] = "stopped"]
        /\ child' = [child EXCEPT ![a] = FALSE]
        /\ UNCHANGED timedOut
     \/ /\ Active(a)
        /\ timedOut' = timedOut \cup {a}
        /\ UNCHANGED <<life, child>>
  /\ UNCHANGED <<sessions, spawn, stop, shutdown, late>>

ShutdownEnds ==
  /\ shutdown = "running" /\ todo = {}
  /\ shutdown' = "done"
  /\ UNCHANGED <<sessions, spawn, life, child, stop, todo, timedOut, late>>

-----------------------------------------------------------------------------
\* Calls are dispatched until the transport has ended.
Accepting == shutdown = "no"

BeginCall == ListActive \/ \E a \in Spawns : CheckCapacity(a) \/ GetForStop(a)

AttachOrLaunch(a) ==
  \/ SpawnError(a) \/ StartChild(a) \/ SpawnReturns(a)
  \/ SpawnFails(a) \/ SpawnDropped(a) \/ Register(a)

\* What goes on by itself: the calls under way, the sessions and a shutdown.
GoOn ==
  \/ \E a \in Spawns :
       \/ AttachOrLaunch(a) \/ FirstPrompt(a) \/ ChildExits(a)
       \/ StopReturns(a) \/ Remove(a) \/ ShutdownOne(a)
  \/ ShutdownEnds

Next == (Accepting /\ BeginCall) \/ GoOn \/ Snapshot

Spec == Init /\ [][Next]_vars

-----------------------------------------------------------------------------
\* Each session lives as SessionLife says, and so as CdbSession makes it: where
\* its spawn is, for the session itself.
SpawnPhase(a) ==
  CASE life[a] = "none" -> "none"
    [] spawn[a] \in {"spawned", "done"} -> "returned"
    [] OTHER -> spawn[a]

Life(a) == INSTANCE SessionLife
             WITH life <- life[a], tended <- child[a], spawn <- SpawnPhase(a)

SessionsLive ==
  /\ \A a \in Spawns : Life(a)!Init
  /\ [][\A a \in Spawns : [Life(a)!Next]_(Life(a)!vars)]_vars

\* Types of all variables.
TypeOK ==
  /\ sessions \subseteq Spawns
  /\ spawn \in [Spawns -> {"new", "refused", "checked", "waiting", "spawned",
                           "done", "failed", "dropped"}]
  /\ life \in [Spawns -> Lives] /\ child \in [Spawns -> BOOLEAN]
  /\ stop \in [Spawns -> {"no", "stopping", "stopped", "error", "done"}]
  /\ shutdown \in {"no", "running", "done"} /\ todo \subseteq Spawns
  /\ timedOut \subseteq Spawns /\ late \subseteq Spawns

\* How far max_sessions can be overshot: by the attach and launch calls that
\* passed the capacity check together, all but one of them, and no further.
LimitOvershootBounded ==
  Cardinality(sessions \cup InFlight) <= MaxSessions + MaxInFlight - 1

\* Only an inactive session leaves the registry: neither pruning nor the
\* removal after a stop loses a session whose cdb can still be talked to.
OnlyEndedSessionsLeave ==
  [][\A a \in sessions \ sessions' : ~Active(a)]_vars

\* Dead sessions do not use up the limit: an attach is refused only when that
\* many registered sessions are active.
RefusedOnlyWhenFull ==
  [][\A a \in Spawns : (spawn[a] = "new" /\ spawn'[a] = "refused")
       => Cardinality({b \in sessions : Active(b)}) >= MaxSessions]_vars

\* A cdb that runs without being in the registry belongs to an attach or launch
\* that is under way, failed, or was dropped: nothing else loses one.
UntrackedOnlyIfAbandoned ==
  \A a \in Spawns : (child[a] /\ a \notin sessions)
    => a \in InFlight \/ spawn[a] \in {"failed", "dropped"}

\* What shutdown has passed is inactive: an active session in the registry is
\* still to be stopped, or its stop timed out, or it was registered after the
\* snapshot.
ShutdownReachesAll ==
  shutdown # "no" =>
    \A a \in sessions : Active(a) => a \in todo \cup timedOut \cup late
=============================================================================
