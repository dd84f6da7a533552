\* Clients of either transport; three attaches, two at a time, for one session, with
\* stops and listings.  No symmetry: TLC would miss violations of the liveness
\* property.
SPECIFICATION ServerFairSpec
CONSTANTS
  Spawns = {a1, a2, a3}
  MaxSessions = 1
  MaxInFlight = 2
  Clients = {m1, m2}
INVARIANTS
  LimitOvershootBounded
  UntrackedOnlyIfAbandoned
  ShutdownReachesAll
  ExitAccountsForChildren
PROPERTIES
  OnlyEndedSessionsLeave
  SessionsLive
  UsesManager
  ServerEnds
\* The process exits.
CHECK_DEADLOCK FALSE
