CONSTANTS
  Constants <- MCConstants
  Fold = TRUE
  SuperOps = TRUE
  CodeMax = 5
  PoolMax = 3
  AndsMax = 1
  LineMax = 2
  ConstantArguments = FALSE
SPECIFICATION EmitterSpec
INVARIANTS EmitterTypeOK DepthIsTrue LinesTrue
PROPERTIES MeansTheSame
CHECK_DEADLOCK FALSE
