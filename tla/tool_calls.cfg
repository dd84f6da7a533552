\* Three calls of any tool.
SPECIFICATION Spec
CONSTANTS
  Calls = {c1, c2, c3}
SYMMETRY CallSymmetry
INVARIANTS
  StoppedSessionIsForgotten
  OneStopSucceeds
  WaitBreakSawPrompt
  AnswerIsAudited
\* Every call is over.
CHECK_DEADLOCK FALSE
