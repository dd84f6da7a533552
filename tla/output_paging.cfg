\* Chunks shorter than, as long as and longer than the buffer; pages without a limit
\* and pages of at most two bytes.
SPECIFICATION Spec
CONSTANTS
  Byte <- MCBytes
  Chunks <- MCChunks
  Capacity = 3
  MaxTotal = 7
  Limits = {0, 2}
INVARIANTS
  HoldsRecentOutput
  ReadsWhatWasWritten
  TailIsTheEnd
  GapHasSign
\* All MaxTotal bytes are written and read.
CHECK_DEADLOCK FALSE
