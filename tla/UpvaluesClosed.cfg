CONSTANTS
  x = x
  y = y
  z = z
  u1 = u1
  u2 = u2
  Values = {0, 1}
  Cells = {x, y, z}
  Upvalues = {u1, u2}
  Temporary = Temporary
  Dead = Dead
  StackMax = 6
  FramesMax = 2
  Abrupt = {}
SPECIFICATION UpvaluesSpec
INVARIANTS UpvaluesTypeOK WritesAreShared OpenSlotsLive
PROPERTIES ImplementsVariables
SYMMETRY Interchangeable
