\* Every sequence of six chunks of output.
SPECIFICATION TextSpec
CONSTANTS
  MaxChunks = 6
INVARIANTS
  RuleIsThePattern
  CleanReturnsWritten
\* MaxChunks chunks are written.
CHECK_DEADLOCK FALSE
