CONSTANTS
  x = x
  y = y
  z = z
  u1 = u1
  u2 = u2
  Values = {0, 1}
  Cells = {x, y, z}
  Upvalues = {u1, u2}
  Temporary = Temporary
  Dead = Dead
  StackMax = 5
  FramesMax = 2
  Abrupt = {"break", "match", "error"}
SPECIFICATION UpvaluesSpec
INVARIANTS OpenSlotsLive
SYMMETRY Interchangeable
