\* Every configuration and every start.
SPECIFICATION Spec
CONSTANTS
  Binds = {"loopback", "lan", "wildcard", "invalid"}
  Overrides = {"none", "lan", "invalid"}
INVARIANTS
  CdbFromFirstPlace
  TokenGuardsTools
\* The program serves, has reported or has failed.
CHECK_DEADLOCK FALSE
