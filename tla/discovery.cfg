\* A scan of three pids, one of the system, while processes come and go.
SPECIFICATION Spec
CONSTANTS
  m1 = m1
  m2 = m2
  Modules <- MCModules
  Requests <- MCRequests
  Pids = {4, 100, 200}
  SystemPids = {4}
  MaxStarts = 1
  ApiErrors = TRUE
INVARIANTS
  NoMatchMissed
  VerdictFitsProcess
\* The call has returned.
CHECK_DEADLOCK FALSE
