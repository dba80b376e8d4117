CONSTANTS
  Names = {x, y}
  Numbers = {one, two}
  Absent = Absent
  ItemsMax = 2
SPECIFICATION SessionSpec
SYMMETRY MCSymmetry
INVARIANTS SessionTypeOK LetsHold RemembersTheTruth
