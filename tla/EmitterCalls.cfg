CONSTANTS
  Constants <- MCConstants
  Fold = TRUE
  SuperOps = TRUE
  CodeMax = 5
  PoolMax = 3
  AndsMax = 1
  LineMax = 1
  ConstantArguments = TRUE
SPECIFICATION EmitterSpec
INVARIANTS DepthIsTrue
CHECK_DEADLOCK FALSE
