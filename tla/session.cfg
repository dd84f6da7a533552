\* Two calls of any kind on one session; the OS does what it is asked.
\* No symmetry: TLC would miss violations of the liveness properties.
SPECIFICATION FairSpec
CONSTANTS
  Calls = {c1, c2}
  None = None
  Ops = {"command", "untimed", "continue", "break", "detach", "terminate", "kill", "status", "wait"}
  NoiseKinds = {"line"}
  MaxNoise = 1
  ReqCap = 2
  PipeCap = 2
  OsErrors = FALSE
INVARIANTS
  NoWedge
  IdleMeansPrompt
  OutputReachesOwnPrompt
  StoppedMeansChildDone
PROPERTIES
  EveryCallReturns
  NoticedCommandLeavesSlot
  BreakTakesEffect
\* A session ends: its actor is gone and nothing is left to happen.
CHECK_DEADLOCK FALSE
