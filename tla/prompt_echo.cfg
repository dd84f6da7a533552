\* Output that looks like the command or like a prompt.
SPECIFICATION TextSpec
CONSTANTS
  MaxChunks = 3
INVARIANTS
  CleanStripsOnlyPromptAndEcho
\* MaxChunks chunks are written.
CHECK_DEADLOCK FALSE
