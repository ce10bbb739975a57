SPECIFICATION Spec
CONSTANTS
  v1 = v1
  v2 = v2
  Versions = {v1, v2}
  Size <- MCSize
  MaxSize = 2
  Pullers = {p1, p2}
  Inodes = {i1, i2, i3}
  NoFile = NoFile
  NoData = NoData
  Exclusive = TRUE
  MayCrash = TRUE
INVARIANTS TypeOK DstWhole
PROPERTIES AtomicSpec
