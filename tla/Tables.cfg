CONSTANTS
  a1 = a1
  a2 = a2
  b = b
  c = c
  d = d
  Keys = {a1, a2, b, c, d}
  MapKeys = {a1, b, d}
  Values = {TRUE, FALSE}
  Hash <- MCHash
  Text <- MCText
  MinCapacity = 4
  MaxCapacity = 8
  Empty = Empty
  Tombstone = Tombstone
  Absent = Absent
SPECIFICATION StringSpec
INVARIANTS KeysOnce ProbesEnd TextsOnce ListsTheLiving
PROPERTIES IsAMap
