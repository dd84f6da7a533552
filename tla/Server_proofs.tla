---------------------------- MODULE Server_proofs ----------------------------
(***************************************************************************)
(* Theorems about SessionManager and about Server, for any number of       *)
(* clients and calls and any limits: what holds of the registry by itself, *)
(* and what holds of it in a server that starts, serves and ends.          *)
(***************************************************************************)
EXTENDS Server, FiniteSetTheorems, TLAPS

-----------------------------------------------------------------------------
(* The registry.                                                           *)

(* The life of a session next to the calls that use it.                    *)

\* A session is registered, and so can be stopped, only when its spawn is done.
StopNeedsSession ==
  \A a \in Spawns : (a \in sessions \/ stop[a] # "no") => spawn[a] = "done"

\* A cdb that runs belongs to a session that is alive, or that failed to start; and
\* a session that is alive has one.
ChildNeedsSpawn ==
  \A a \in Spawns :
    /\ child[a] => Active(a) \/ life[a] = "failed"
    /\ Active(a) => child[a]
    /\ life[a] = "failed" => spawn[a] = "failed"
    /\ spawn[a] \in {"new", "refused", "checked"} => life[a] = "none"
    /\ spawn[a] \in {"waiting", "spawned", "done", "dropped"} => life[a] # "none"

\* A stop that returned left nothing alive.
StoppedIsDead ==
  \A a \in Spawns : stop[a] \in {"stopped", "done"} => ~child[a] /\ ~Active(a)

\* The inductive invariant.
ManagerInv ==
  /\ TypeOK
  /\ StopNeedsSession
  /\ ChildNeedsSpawn
  /\ StoppedIsDead
  /\ UntrackedOnlyIfAbandoned
  /\ ShutdownReachesAll

LEMMA ManagerInit == Init => ManagerInv
BY DEF Init, ManagerInv, TypeOK, Lives, StopNeedsSession, ChildNeedsSpawn,
       StoppedIsDead, Active, UntrackedOnlyIfAbandoned, ShutdownReachesAll

LEMMA SpawnSteps ==
  ASSUME ManagerInv, NEW a \in Spawns, CheckCapacity(a) \/ AttachOrLaunch(a)
  PROVE  ManagerInv'
<1> USE DEF ManagerInv, TypeOK, Lives, StopNeedsSession, ChildNeedsSpawn,
            StoppedIsDead, Active, UntrackedOnlyIfAbandoned, ShutdownReachesAll,
            InFlight, ending
<1>1. CASE CheckCapacity(a)
  BY <1>1 DEF CheckCapacity, Check, Retained
<1>2. CASE SpawnError(a)
  BY <1>2 DEF SpawnError
<1>3. CASE StartChild(a)
  BY <1>3 DEF StartChild
<1>4. CASE SpawnReturns(a)
  BY <1>4 DEF SpawnReturns
<1>5. CASE SpawnFails(a)
  BY <1>5 DEF SpawnFails
<1>6. CASE SpawnDropped(a)
  BY <1>6 DEF SpawnDropped
<1>7. CASE Register(a)
  BY <1>7 DEF Register, Registering
<1> QED
  BY <1>1, <1>2, <1>3, <1>4, <1>5, <1>6, <1>7 DEF AttachOrLaunch

LEMMA SessionSteps ==
  ASSUME ManagerInv, NEW a \in Spawns,
         \/ FirstPrompt(a) \/ ChildExits(a)
         \/ GetForStop(a) \/ StopReturns(a) \/ Remove(a)
  PROVE  ManagerInv'
<1> USE DEF ManagerInv, TypeOK, Lives, StopNeedsSession, ChildNeedsSpawn,
            StoppedIsDead, Active, UntrackedOnlyIfAbandoned, ShutdownReachesAll,
            InFlight, ending
<1>1. CASE FirstPrompt(a)
  BY <1>1 DEF FirstPrompt
<1>2. CASE ChildExits(a)
  BY <1>2 DEF ChildExits, Exit
<1>3. CASE GetForStop(a)
  BY <1>3 DEF GetForStop
<1>4. CASE StopReturns(a)
  <2>1. CASE Active(a)
    <3>1. /\ stop[a] = "stopping" /\ stop' = [stop EXCEPT ![a] = "stopped"]
          /\ life' = [life EXCEPT ![a] = "stopped"]
          /\ child' = [child EXCEPT ![a] = FALSE]
          /\ UNCHANGED <<sessions, spawn, shutdown, todo, timedOut, late>>
      BY <1>4, <2>1 DEF StopReturns
    <3>2. TypeOK' /\ StopNeedsSession' /\ ShutdownReachesAll'
      BY <3>1
    <3>3. ChildNeedsSpawn' /\ StoppedIsDead' /\ UntrackedOnlyIfAbandoned'
      BY <3>1
    <3> QED
      BY <3>2, <3>3
  <2>2. CASE ~Active(a)
    BY <1>4, <2>2 DEF StopReturns
  <2> QED
    BY <2>1, <2>2
<1>5. CASE Remove(a)
  BY <1>5 DEF Remove, Forget
<1> QED
  BY <1>1, <1>2, <1>3, <1>4, <1>5

LEMMA ShutdownSteps ==
  ASSUME ManagerInv,
         ListActive \/ Snapshot \/ ShutdownEnds \/ \E a \in Spawns : ShutdownOne(a)
  PROVE  ManagerInv'
<1> USE DEF ManagerInv, TypeOK, Lives, StopNeedsSession, ChildNeedsSpawn,
            StoppedIsDead, Active, UntrackedOnlyIfAbandoned, ShutdownReachesAll,
            InFlight, ending
<1>1. CASE ListActive
  BY <1>1 DEF ListActive, Retained
<1>2. CASE Snapshot
  BY <1>2 DEF Snapshot
<1>3. CASE ShutdownEnds
  BY <1>3 DEF ShutdownEnds
<1>4. CASE \E a \in Spawns : ShutdownOne(a)
  <2>1. PICK a \in Spawns : ShutdownOne(a)
    BY <1>4
  <2>2. CASE UNCHANGED <<life, child>>
    BY <2>1, <2>2 DEF ShutdownOne
  <2>3. CASE life' = [life EXCEPT ![a] = "stopped"] /\ child' = [child EXCEPT ![a] = FALSE]
    BY <2>1, <2>3 DEF ShutdownOne
  <2> QED
    BY <2>1, <2>2, <2>3 DEF ShutdownOne
<1> QED
  BY <1>1, <1>2, <1>3, <1>4

LEMMA ManagerStep == ManagerInv /\ [Next]_vars => ManagerInv'
<1>1. ASSUME ManagerInv, Next PROVE ManagerInv'
  BY <1>1, SpawnSteps, SessionSteps, ShutdownSteps DEF Next, BeginCall, GoOn
<1>2. ManagerInv /\ UNCHANGED vars => ManagerInv'
  BY DEF vars, ending, ManagerInv, TypeOK, StopNeedsSession, ChildNeedsSpawn,
         StoppedIsDead, Active, UntrackedOnlyIfAbandoned, ShutdownReachesAll, InFlight
<1> QED
  BY <1>1, <1>2

LEMMA ManagerInvariant == Spec => []ManagerInv
BY ManagerInit, ManagerStep, PTL DEF Spec

\* Type correctness of the manager and of the calls on it.
THEOREM ManagerTypes == Spec => []TypeOK
BY ManagerInvariant, PTL DEF ManagerInv

\* No live cdb is lost except by a spawn that failed or was dropped.
THEOREM NoLiveSessionIsLost == Spec => []UntrackedOnlyIfAbandoned
BY ManagerInvariant, PTL DEF ManagerInv

\* shutdown passes no active session but those that hang or came too late.
THEOREM ShutdownIsThorough == Spec => []ShutdownReachesAll
BY ManagerInvariant, PTL DEF ManagerInv

-----------------------------------------------------------------------------
(* What a step may do to the registry.                                     *)

\* Neither a prune nor a removal takes an active session away.
THEOREM LiveSessionsStay == Spec => OnlyEndedSessionsLeave
<1>1. ASSUME ManagerInv, Next PROVE \A a \in sessions \ sessions' : ~Active(a)
  <2> USE DEF Active, ManagerInv, StoppedIsDead, TypeOK
  <2>1. CASE \E a \in Spawns : CheckCapacity(a) \/ AttachOrLaunch(a)
    BY <1>1, <2>1 DEF AttachOrLaunch, CheckCapacity, Check, Retained, SpawnError,
          StartChild, SpawnReturns, SpawnFails, SpawnDropped, Register, Registering
  <2>2. CASE \E a \in Spawns : Remove(a)
    BY <1>1, <2>2 DEF Remove, Forget
  <2>3. CASE \E a \in Spawns : \/ FirstPrompt(a) \/ ChildExits(a) \/ GetForStop(a)
                               \/ StopReturns(a) \/ ShutdownOne(a)
    BY <2>3 DEF FirstPrompt, ChildExits, Exit, GetForStop, StopReturns, ShutdownOne
  <2>4. CASE ListActive \/ Snapshot \/ ShutdownEnds
    BY <2>4 DEF ListActive, Retained, Snapshot, ShutdownEnds
  <2> QED
    BY <1>1, <2>1, <2>2, <2>3, <2>4 DEF Next, BeginCall, GoOn
<1>2. ManagerInv /\ [Next]_vars => [\A a \in sessions \ sessions' : ~Active(a)]_vars
  BY <1>1
<1> QED
  BY <1>2, ManagerInvariant, PTL DEF Spec, OnlyEndedSessionsLeave

\* Dead sessions do not use up the limit: a refusal counts only active ones.
THEOREM RefusalsAreJust == Spec => RefusedOnlyWhenFull
<1>1. ASSUME ManagerInv, Next, NEW a \in Spawns, spawn[a] = "new", spawn'[a] = "refused"
      PROVE  Cardinality({b \in sessions : Active(b)}) >= MaxSessions
  <2>1. CheckCapacity(a)
    BY <1>1 DEF Next, BeginCall, GoOn, AttachOrLaunch, CheckCapacity, Check,
         SpawnError, StartChild, SpawnReturns, SpawnFails, SpawnDropped, Register,
         Registering, FirstPrompt, ChildExits, Exit, GetForStop, StopReturns, Remove,
         Forget, ShutdownOne, ListActive, Snapshot, ShutdownEnds,
         ManagerInv, TypeOK
  <2>2. Cardinality(Retained) >= MaxSessions
    BY <1>1, <2>1 DEF CheckCapacity, Check, ManagerInv, TypeOK
  <2> QED
    BY <2>2 DEF Retained
<1>2. ManagerInv /\ [Next]_vars
      => [\A a \in Spawns : (spawn[a] = "new" /\ spawn'[a] = "refused")
            => Cardinality({b \in sessions : Active(b)}) >= MaxSessions]_vars
  BY <1>1
<1> QED
  BY <1>2, ManagerInvariant, PTL DEF Spec, RefusedOnlyWhenFull

-----------------------------------------------------------------------------
(* The sessions live as SessionLife says.                                  *)

\* A step that does not touch what SessionLife sees of a session is a stutter.
LEMMA LifeUntouched ==
  ASSUME NEW a \in Spawns, life'[a] = life[a], child'[a] = child[a],
         spawn'[a] = spawn[a]
  PROVE  UNCHANGED Life(a)!vars
BY DEF Life!vars, SpawnPhase

LEMMA LifeOfSpawn ==
  ASSUME ManagerInv, NEW a \in Spawns, CheckCapacity(a) \/ AttachOrLaunch(a)
  PROVE  [Life(a)!Next]_(Life(a)!vars)
<1> USE DEF ManagerInv, TypeOK, ChildNeedsSpawn, Active, SpawnPhase, Life!vars
<1>1. CASE CheckCapacity(a)
  BY <1>1 DEF CheckCapacity, Check
<1>2. CASE SpawnError(a)
  BY <1>2 DEF SpawnError
<1>3. CASE StartChild(a)
  <2>1. Life(a)!Start
    BY <1>3 DEF StartChild, Life!Start, Life!NotStarted
  <2> QED
    BY <2>1 DEF Life!Next
<1>4. CASE SpawnReturns(a)
  <2>1. Life(a)!SpawnReturns
    BY <1>4 DEF SpawnReturns, Life!SpawnReturns
  <2> QED
    BY <2>1 DEF Life!Next
<1>5. CASE SpawnFails(a)
  <2>1. Life(a)!SpawnFails
    BY <1>5 DEF SpawnFails, Life!SpawnFails
  <2> QED
    BY <2>1 DEF Life!Next
<1>6. CASE SpawnDropped(a)
  <2>1. Life(a)!SpawnDropped
    BY <1>6 DEF SpawnDropped, Life!SpawnDropped
  <2> QED
    BY <2>1 DEF Life!Next
<1>7. CASE Register(a)
  BY <1>7 DEF Register, Registering
<1> QED
  BY <1>1, <1>2, <1>3, <1>4, <1>5, <1>6, <1>7 DEF AttachOrLaunch

LEMMA LifeOfSession ==
  ASSUME ManagerInv, NEW a \in Spawns,
         FirstPrompt(a) \/ ChildExits(a) \/ StopReturns(a) \/ ShutdownOne(a)
  PROVE  [Life(a)!Next]_(Life(a)!vars)
<1> USE DEF ManagerInv, TypeOK, ChildNeedsSpawn, Active, SpawnPhase, Life!vars
<1>1. CASE FirstPrompt(a)
  <2>1. Life(a)!FirstPrompt
    BY <1>1 DEF FirstPrompt, Life!FirstPrompt
  <2> QED
    BY <2>1 DEF Life!Next
<1>2. CASE /\ child[a] /\ life[a] # "none" /\ UNCHANGED spawn
           /\ child' = [child EXCEPT ![a] = FALSE]
           /\ life' = [life EXCEPT ![a] = "stopped"]
  <2>1. Life(a)!End
    BY <1>2 DEF Life!End
  <2> QED
    BY <2>1 DEF Life!Next
<1>3. CASE UNCHANGED <<life, child, spawn>>
  BY <1>3
<1>4. CASE ChildExits(a)
  BY <1>2, <1>4 DEF ChildExits, Exit
<1>5. CASE StopReturns(a)
  BY <1>2, <1>3, <1>5 DEF StopReturns
<1>6. CASE ShutdownOne(a)
  BY <1>2, <1>3, <1>6 DEF ShutdownOne
<1> QED
  BY <1>1, <1>4, <1>5, <1>6

\* Every step of the registry is a step of the life of each session, or none.
THEOREM SessionsLiveTheirLives == Spec => SessionsLive
<1>1. Init => \A a \in Spawns : Life(a)!Init
  BY DEF Init, Life!Init, Life!NotStarted, SpawnPhase
<1>2. ASSUME ManagerInv, Next, NEW a \in Spawns
      PROVE  [Life(a)!Next]_(Life(a)!vars)
  <2> DEFINE Mine(b) == \/ CheckCapacity(b) \/ AttachOrLaunch(b) \/ FirstPrompt(b)
                        \/ ChildExits(b) \/ StopReturns(b) \/ ShutdownOne(b)
  <2>1. CASE \E b \in Spawns : b # a /\ Mine(b)
    <3>1. life'[a] = life[a] /\ child'[a] = child[a] /\ spawn'[a] = spawn[a]
      BY <1>2, <2>1 DEF AttachOrLaunch, CheckCapacity, Check, SpawnError, StartChild,
           SpawnReturns, SpawnFails, SpawnDropped, Register, Registering, FirstPrompt,
           ChildExits, Exit, StopReturns, ShutdownOne, ManagerInv, TypeOK
    <3> QED
      BY <3>1, LifeUntouched
  <2>2. CASE Mine(a)
    BY <1>2, <2>2, LifeOfSpawn, LifeOfSession
  <2>3. CASE \/ ListActive \/ Snapshot \/ ShutdownEnds
             \/ \E b \in Spawns : GetForStop(b) \/ Remove(b)
    <3>1. UNCHANGED <<life, child, spawn>>
      BY <2>3 DEF ListActive, Snapshot, ShutdownEnds, GetForStop, Remove,
           Forget
    <3> QED
      BY <3>1, LifeUntouched
  <2> QED
    BY <1>2, <2>1, <2>2, <2>3 DEF Next, BeginCall, GoOn
<1>3. ManagerInv /\ [Next]_vars
      => [\A a \in Spawns : [Life(a)!Next]_(Life(a)!vars)]_vars
  BY <1>2
<1> QED
  BY <1>1, <1>3, ManagerInvariant, PTL DEF Spec, SessionsLive

-----------------------------------------------------------------------------
(* The limit.                                                              *)

\* What counts against it, in the map or on the way there.
Claimed == sessions \cup InFlight

LEMMA ClaimedIsFinite ==
  ASSUME TypeOK
  PROVE  /\ IsFiniteSet(sessions) /\ IsFiniteSet(InFlight) /\ IsFiniteSet(Claimed)
         /\ Cardinality(sessions) \in Nat /\ Cardinality(InFlight) \in Nat
         /\ Cardinality(Claimed) \in Nat
<1>1. sessions \subseteq Spawns /\ InFlight \subseteq Spawns /\ Claimed \subseteq Spawns
  BY DEF TypeOK, InFlight, Claimed
<1> QED
  BY <1>1, SpawnsAssumption, FS_Subset, FS_CardinalityType

\* Only the capacity check adds to it, and then the check bounds both parts.
LEMMA ClaimsShrink ==
  ASSUME TypeOK, TypeOK', [Next]_vars,
         ~\E a \in Spawns : CheckCapacity(a) /\ spawn'[a] = "checked"
  PROVE  Claimed' \subseteq Claimed
<1> USE DEF Claimed, InFlight, TypeOK
<1>1. CASE \E a \in Spawns : CheckCapacity(a) \/ AttachOrLaunch(a)
  BY <1>1 DEF AttachOrLaunch, CheckCapacity, Check, Retained, SpawnError,
        StartChild, SpawnReturns, SpawnFails, SpawnDropped, Register, Registering
<1>2. CASE \E a \in Spawns : \/ FirstPrompt(a) \/ ChildExits(a) \/ GetForStop(a)
                             \/ StopReturns(a) \/ Remove(a) \/ ShutdownOne(a)
  BY <1>2 DEF FirstPrompt, ChildExits, Exit, GetForStop, StopReturns, Remove, Forget,
        ShutdownOne
<1>3. CASE ListActive \/ Snapshot \/ ShutdownEnds
  BY <1>3 DEF ListActive, Retained, Snapshot, ShutdownEnds
<1>4. CASE UNCHANGED vars
  BY <1>4 DEF vars
<1> QED
  BY <1>1, <1>2, <1>3, <1>4 DEF Next, BeginCall, GoOn

LEMMA ClaimIsChecked ==
  ASSUME TypeOK, TypeOK', NEW a \in Spawns, CheckCapacity(a), spawn'[a] = "checked"
  PROVE  LimitOvershootBounded'
<1>0. /\ ~(Cardinality(Retained) >= MaxSessions) /\ sessions' = Retained
      /\ Cardinality(InFlight) < MaxInFlight /\ spawn[a] = "new"
      /\ spawn' = [spawn EXCEPT ![a] = "checked"]
  BY DEF CheckCapacity, Check, TypeOK
<1>1. InFlight' = InFlight \cup {a} /\ a \notin InFlight
  BY <1>0 DEF InFlight, TypeOK
<1>2. /\ IsFiniteSet(InFlight) /\ Cardinality(InFlight) \in Nat
      /\ IsFiniteSet(sessions') /\ Cardinality(sessions') \in Nat
      /\ IsFiniteSet(InFlight')
  <2>1. sessions' \subseteq Spawns /\ InFlight' \subseteq Spawns
    BY DEF TypeOK, InFlight
  <2> QED
    BY <2>1, ClaimedIsFinite, SpawnsAssumption, FS_Subset, FS_CardinalityType
<1>3. Cardinality(InFlight') = Cardinality(InFlight) + 1
  BY <1>1, <1>2, FS_AddElement
<1>4. /\ IsFiniteSet(sessions' \cap InFlight')
      /\ Cardinality(sessions' \cap InFlight') \in Nat
  BY <1>2, FS_Subset, FS_CardinalityType
<1>5. Cardinality(sessions' \cup InFlight')
        = Cardinality(sessions') + Cardinality(InFlight')
            - Cardinality(sessions' \cap InFlight')
  BY <1>2, FS_Union
<1>6. Cardinality(sessions' \cup InFlight') <= MaxSessions + MaxInFlight - 1
  BY <1>0, <1>2, <1>3, <1>4, <1>5, MaxAssumption
<1> QED
  BY <1>6 DEF LimitOvershootBounded

\* Calls that overlap exceed max_sessions by all but one of them at most.
THEOREM OvershootIsBounded == Spec => []LimitOvershootBounded
<1>1. Init => LimitOvershootBounded
  <2> SUFFICES ASSUME Init PROVE LimitOvershootBounded
    OBVIOUS
  <2>1. sessions \cup InFlight = {}
    BY DEF Init, InFlight
  <2>2. Cardinality(sessions \cup InFlight) = 0
    BY <2>1, FS_EmptySet
  <2> QED
    BY <2>2, MaxAssumption DEF LimitOvershootBounded
<1>2. ASSUME TypeOK, TypeOK', LimitOvershootBounded, [Next]_vars
      PROVE  LimitOvershootBounded'
  <2>1. CASE \E a \in Spawns : CheckCapacity(a) /\ spawn'[a] = "checked"
    BY <1>2, <2>1, ClaimIsChecked
  <2>2. CASE ~\E a \in Spawns : CheckCapacity(a) /\ spawn'[a] = "checked"
    <3>1. Claimed' \subseteq Claimed /\ IsFiniteSet(Claimed)
      BY <1>2, <2>2, ClaimsShrink, ClaimedIsFinite
    <3>2. /\ Cardinality(Claimed') <= Cardinality(Claimed)
          /\ Cardinality(Claimed) \in Nat /\ Cardinality(Claimed') \in Nat
      BY <1>2, <3>1, FS_Subset, FS_CardinalityType
    <3>3. Cardinality(Claimed) <= MaxSessions + MaxInFlight - 1
      BY <1>2 DEF Claimed, LimitOvershootBounded
    <3>4. Cardinality(Claimed') <= MaxSessions + MaxInFlight - 1
      BY <3>2, <3>3, MaxAssumption
    <3> QED
      BY <3>4 DEF Claimed, LimitOvershootBounded
  <2> QED
    BY <2>1, <2>2
<1> QED
  BY <1>1, <1>2, ManagerTypes, PTL DEF Spec

-----------------------------------------------------------------------------
(* The server around it.                                                   *)


\* The shutdown of the sessions begins only when the transport has ended.
ShutdownAfterTransport == shutdown # "no" => transport \in {"closed", "failed"}

\* The process exits with an error of stdio, or after the shutdown.
ExitAfterShutdown ==
  process = "exited" => shutdown = "done" \/ (transport = "failed" /\ kind = "stdio")

\* The shutdown ends when its snapshot is done.
DoneMeansAll == shutdown = "done" => todo = {}

\* stdio has one connection.
OneOnStdio == kind = "stdio" => \A m, n \in connected : m = n

\* The inductive invariant.
ServerInv ==
  /\ ServerTypeOK /\ OneOnStdio /\ shutdown \in {"no", "running", "done"}
  /\ ShutdownAfterTransport /\ ExitAfterShutdown /\ DoneMeansAll

LEMMA ServerInitInv == ServerInit => ServerInv
BY DEF ServerInit, Init, ServerInv, ServerTypeOK, OneOnStdio,
       ShutdownAfterTransport, ExitAfterShutdown, DoneMeansAll

\* What goes on by itself only takes the shutdown from running to done.
LEMMA GoOnShutdown ==
  ASSUME GoOn
  PROVE  \/ UNCHANGED <<shutdown, todo>>
         \/ shutdown = "running" /\ shutdown' = "running"
         \/ shutdown = "running" /\ shutdown' = "done" /\ todo' = {}
<1>1. CASE ShutdownEnds
  BY <1>1 DEF ShutdownEnds
<1>2. CASE \E a \in Spawns : ShutdownOne(a)
  BY <1>2 DEF ShutdownOne
<1>3. CASE \E a \in Spawns : \/ AttachOrLaunch(a) \/ FirstPrompt(a) \/ ChildExits(a)
                             \/ StopReturns(a) \/ Remove(a)
  BY <1>3 DEF AttachOrLaunch, SpawnError, StartChild, SpawnReturns, SpawnFails,
       SpawnDropped, Register, Registering, FirstPrompt, ChildExits, Exit, StopReturns,
       Remove, Forget, ending
<1> QED
  BY <1>1, <1>2, <1>3 DEF GoOn

LEMMA BeginCallShutdown == BeginCall => UNCHANGED <<shutdown, todo>>
BY DEF BeginCall, ListActive, CheckCapacity, Check, GetForStop, ending

LEMMA ServerStep == ServerInv /\ [ServerNext]_allVars => ServerInv'
<1> SUFFICES ASSUME ServerInv, [ServerNext]_allVars PROVE ServerInv'
  OBVIOUS
<1> USE DEF ServerInv, ServerTypeOK, OneOnStdio, ShutdownAfterTransport,
            ExitAfterShutdown, DoneMeansAll, serverVars, vars, ending
<1>1. CASE \E m \in Clients : Connect(m) \/ Disconnect(m)
  BY <1>1 DEF Connect, Disconnect
<1>2. CASE Signal \/ Drained \/ TransportFails
  BY <1>2 DEF Signal, Drained, DrainIf, TransportFails
<1>3. CASE ServeCall
  BY <1>3, BeginCallShutdown DEF ServeCall
<1>4. CASE Work
  BY <1>4, GoOnShutdown DEF Work
<1>5. CASE BeginShutdown
  BY <1>5 DEF BeginShutdown, ShutdownFrom, Snapshot
<1>6. CASE ServerExits
  BY <1>6 DEF ServerExits, ExitIf
<1>7. CASE UNCHANGED allVars
  BY <1>7 DEF allVars
<1> QED
  BY <1>1, <1>2, <1>3, <1>4, <1>5, <1>6, <1>7 DEF ServerNext

LEMMA ServerInvariant == ServerSpec => []ServerInv
BY ServerInitInv, ServerStep, PTL DEF ServerSpec

\* Type correctness of the transport; one that has ended has no clients.
THEOREM ServerTypes == ServerSpec => []ServerTypeOK
BY ServerInvariant, PTL DEF ServerInv

-----------------------------------------------------------------------------
\* Every step of the server is a step of the registry or leaves it alone: a call
\* needs a connection, and at the snapshot there is none.
LEMMA ServerMapsToManager == ServerInv /\ [ServerNext]_allVars => [Next]_vars
<1> SUFFICES ASSUME ServerInv, ServerNext PROVE [Next]_vars
  BY DEF allVars
<1>1. CASE \E m \in Clients : Connect(m) \/ Disconnect(m)
  BY <1>1 DEF Connect, Disconnect
<1>2. CASE Signal \/ Drained \/ TransportFails \/ ServerExits
  BY <1>2 DEF Signal, Drained, DrainIf, TransportFails,
              ServerExits, ExitIf
<1>3. CASE ServeCall
  <2>1. Accepting
    BY <1>3 DEF ServeCall, Accepting, ServerInv, ServerTypeOK, ShutdownAfterTransport
  <2> QED
    BY <1>3, <2>1 DEF ServeCall, Next
<1>4. CASE Work \/ BeginShutdown
  BY <1>4 DEF Work, BeginShutdown, ShutdownFrom, Next
<1> QED
  BY <1>1, <1>2, <1>3, <1>4 DEF ServerNext

\* The server uses the registry as SessionManager says, so that all that is
\* proved there holds here.
THEOREM ServerUsesManager == ServerSpec => UsesManager
<1>1. ServerInit => Init
  BY DEF ServerInit
<1> QED
  BY <1>1, ServerInvariant, ServerMapsToManager, PTL DEF ServerSpec, Spec, UsesManager

\* The exit leaves no cdb behind that is not accounted for.
THEOREM ExitIsAccountedFor == ServerSpec => []ExitAccountsForChildren
<1>1. ASSUME ServerInv, ManagerInv PROVE ExitAccountsForChildren
  <2> SUFFICES ASSUME process = "exited", ~(transport = "failed" /\ kind = "stdio"),
                      NEW a \in Spawns, child[a],
                      a \notin InFlight, spawn[a] \notin {"failed", "dropped"}
               PROVE  a \in timedOut \cup late
    BY DEF ExitAccountsForChildren
  <2>1. shutdown = "done" /\ todo = {}
    BY <1>1 DEF ServerInv, ExitAfterShutdown, DoneMeansAll
  <2>2. a \in sessions
    BY <1>1 DEF ManagerInv, UntrackedOnlyIfAbandoned
  <2>3. Active(a)
    BY <1>1 DEF ManagerInv, ChildNeedsSpawn
  <2> QED
    BY <1>1, <2>1, <2>2, <2>3 DEF ManagerInv, ShutdownReachesAll
<1>2. ServerSpec => []ManagerInv
  BY ServerUsesManager, ManagerInvariant, PTL DEF UsesManager
<1> QED
  BY <1>1, <1>2, ServerInvariant, PTL
=============================================================================
