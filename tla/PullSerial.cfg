SPECIFICATION Spec
CONSTANTS
  Paths = {"passwd", "app", "app/x"}
  Root = Root
  Under <- MCUnder
  Data = {"d1", "d2"}
  Absent = Absent
  Dir = Dir
  Torn = Torn
  None = None
  Passwd = "passwd"
  Pullers = {p1, p2}
  Refs = {r1}
  Images = {"plain", "swap", "bare"}
  Stream <- MCStream
  Named <- MCNamed
  Exclusive = TRUE
  Moves = TRUE
  MayFail = TRUE
  MayCrash = TRUE
SYMMETRY MCSymmetry
INVARIANTS TypeOK SpecMeansHeld SpecMeansReady
PROPERTIES CachedIsFrozen EntrySpec
