\* Any write, read, wait or CTRL+BREAK may fail, and output may be cut off in
\* the middle of a line, or be white space after a prompt.
SPECIFICATION Spec
CONSTANTS
  Calls = {c1, c2}
  None = None
  Ops = {"command", "untimed", "continue", "break", "detach", "terminate", "kill", "status", "wait"}
  NoiseKinds = {"line", "frag", "blank"}
  MaxNoise = 1
  ReqCap = 2
  PipeCap = 2
  OsErrors = TRUE
SYMMETRY CallSymmetry
INVARIANTS
  SlotMatchesState
  PromptInBufferIsStale
  EveryCallAccountedFor
PROPERTIES
  KeepsContract
  LivesAsRegistered
\* A session ends: its actor is gone and nothing is left to happen.
CHECK_DEADLOCK FALSE
