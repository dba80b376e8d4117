SPECIFICATION TravelSpec
CONSTANTS
  script = script
  f = f
  u1 = u1
  k = k
  Closures = {script, f}
  Script = script
  Upvalues = {u1}
  Keys = {k}
  Nil = Nil
  Absent = Absent
  Null = Null
  StackMax = 5
  FramesMax = 2
  CodeMax = 5
  LogMax = 6
  AsidesMax = 1
  Lossy = {"frames", "operands"}
INVARIANT EverythingRestored
