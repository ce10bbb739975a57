SPECIFICATION FairSpec
CONSTANTS
  Paths = {"passwd", "app", "app/x"}
  Root = Root
  Under <- MCUnder
  Data = {"d1", "d2"}
  Absent = Absent
  Dir = Dir
  Torn = Torn
  None = None
  Passwd = "passwd"
  Pullers = {p1, p2, p3}
  Refs = {r1}
  Images = {"plain", "other"}
  Stream <- MCStream
  Named = {}
  Exclusive = FALSE
  Moves = FALSE
  MayFail = FALSE
  MayCrash = FALSE
INVARIANTS OverlapConverges
PROPERTIES Converges
