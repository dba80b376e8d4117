CONSTANTS
  o1 = o1
  o2 = o2
  o3 = o3
  o4 = o4
  o5 = o5
  print = print
  x = x
  Objects = {o1, o2, o3, o4, o5}
  Names = {x}
  Builtins = {}
  NoObject = NoObject
  TempRootsMax = 2
  Threshold = 8
  Stress = TRUE
  Exercised = {"function", "script", "closure", "gc", "string"}
  MaxFields = 2
  Strays = FALSE
SPECIFICATION Spec
INVARIANTS NoDangling
PROPERTIES NoFloatingGarbage ImplementsManagedHeap
SYMMETRY FreshAddresses
