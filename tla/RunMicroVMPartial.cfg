SPECIFICATION Spec
CONSTANTS
  Runners = {r1, r2}
  Names = {n1, n2}
  Cmds = {c1, c2}
  NoCmd = NoCmd
  Image = Image
  None = None
  Torn = Torn
  Asks <- NeverCmd
  Cached = FALSE
  Exclusive = TRUE
  MayCrash = FALSE
INVARIANTS BootsWhole
