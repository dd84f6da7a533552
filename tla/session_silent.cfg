\* Commands of a cdb that may be silent; the callers may go away.
\* No symmetry: TLC would miss violations of the liveness property.
SPECIFICATION FairSpec
CONSTANTS
  Calls = {c1, c2}
  None = None
  Ops = {"command", "untimed"}
  NoiseKinds = {"line"}
  MaxNoise = 1
  ReqCap = 2
  PipeCap = 2
  OsErrors = FALSE
PROPERTIES
  AbandonedCommandLeavesSlot
\* A session ends: its actor is gone and nothing is left to happen.
CHECK_DEADLOCK FALSE
