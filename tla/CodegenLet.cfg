CONSTANTS
  Names = {"x"}
  SlotWidth = 256
  Scattered = TRUE
  NestingMax = 4
  ItemsMax = 2
SPECIFICATION CodegenSpec
INVARIANT HeightIsKnown
CHECK_DEADLOCK FALSE
