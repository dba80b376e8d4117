CONSTANTS
  Names = {"x"}
  SlotWidth = 256
  Scattered = FALSE
  NestingMax = 4
  ItemsMax = 2
SPECIFICATION CodegenSpec
INVARIANTS CodegenTypeOK HeightIsKnown LocalsInSlots
CHECK_DEADLOCK FALSE
