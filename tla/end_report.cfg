\* Two readers of a session whose end is being written.
SPECIFICATION Spec
CONSTANTS
  Readers = {r1, r2}
INVARIANTS
  StoppedEntryIsComplete
  EndHasReason
\* The session has ended and the reports are made.
CHECK_DEADLOCK FALSE
