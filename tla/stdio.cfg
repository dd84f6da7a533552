\* Two calls: commands of one line, of up to two pieces each, through pipes with room
\* for one piece, a continue, a detach and a kill.
SPECIFICATION FairSpec
CONSTANTS
  Calls = {c1, c2}
  None = None
  MaxLines = 1
  MaxWidth = 2
  MaxOut = 2
  StdinCap = 1
  OutCap = 1
INVARIANTS
  NoMutualWait
PROPERTIES
  CommandReturns
  KillEndsSession
\* A session ends.
CHECK_DEADLOCK FALSE
