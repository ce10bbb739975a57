SPECIFICATION Spec
CONSTANTS
  v1 = v1
  v2 = v2
  Versions = {v1}
  Size <- MCSize
  MaxSize = 1
  Pullers = {p1, p2, p3}
  Inodes = {i1, i2, i3, i4, i5}
  NoFile = NoFile
  NoData = NoData
  Exclusive = FALSE
  MayCrash = FALSE
SYMMETRY MCSymmetry
INVARIANTS TmpOwned
PROPERTIES InstalledStays
