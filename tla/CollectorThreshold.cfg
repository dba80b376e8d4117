CONSTANTS
  o1 = o1
  o2 = o2
  o3 = o3
  o4 = o4
  o5 = o5
  print = print
  x = x
  Objects = {o1, o2, o3}
  Names = {print, x}
  Builtins = {print}
  NoObject = NoObject
  TempRootsMax = 2
  Threshold = 1
  Stress = FALSE
  Exercised = {"string", "map", "gc"}
  MaxFields = 1
  Strays = FALSE
SPECIFICATION FairSpec
INVARIANTS TypeOK LiveStringsInterned HeapBounded NoDangling
PROPERTIES ImplementsManagedHeap AllocationEnds
