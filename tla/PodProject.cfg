SPECIFICATION Spec
CONSTANTS
  a = a
  b = b
  top = top
  web = web
  db = db
  team = team
  Runners = {p1, p2}
  Images = {a, b}
  Cmds = {top}
  NoCmd = NoCmd
  Ids = {web, db}
  Projects = {Default, team}
  Default = Default
  Requests <- MCTeamRequests
  Shelves <- MCShelves
  Variables <- MCVariables
  None = None
  Torn = Torn
SYMMETRY MCSymmetry
PROPERTIES OkMeansUp
