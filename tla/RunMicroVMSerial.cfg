SPECIFICATION Spec
CONSTANTS
  Runners = {r1, r2}
  Names = {n1, n2}
  Cmds = {c1, c2}
  NoCmd = NoCmd
  Image = Image
  None = None
  Torn = Torn
  Asks <- AlwaysCmd
  Cached = FALSE
  Exclusive = TRUE
  MayCrash = TRUE
INVARIANTS TypeOK AsAsked BootsWhole
