SPECIFICATION Spec
CONSTANTS
  a = a
  b = b
  top = top
  web = web
  db = db
  team = team
  Runners = {p1, p2}
  Images = {a, b}
  Cmds = {top}
  NoCmd = NoCmd
  Ids = {web, db}
  Projects = {Default}
  Default = Default
  Requests <- MCRequests
  Shelves <- MCShelves
  Variables <- MCVariables
  None = None
  Torn = Torn
SYMMETRY MCSymmetry
INVARIANTS TypeOK  OwnCommand OwnSpec
 
