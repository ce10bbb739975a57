SPECIFICATION UnpackSpec
CONSTANTS
  old = old
  new = new
  groups = groups
  sh = sh
  Paths <- MCPaths
  Root = ""
  Parent <- MCParent
  Child <- MCChild
  Inodes = {i1, i2, i3}
  Data = {old, new, groups}
  Entries <- MCEntries
  Absent = Absent
  Dir = Dir
  MaxEntries = 4
  Unprivileged = TRUE
  Tokens <- MCTokens
  Value <- MCValue
  MaxId = 50
  NoToken = NoToken
  Shell = Shell
  DefaultEnv = DefaultEnv
  SlashDir = SlashDir
  Configs <- MCConfigs
  Commands <- MCCommands
  LinesOf <- MCLinesOf
  PasswdPath = "etc/passwd"
  GroupPath = "etc/group"
  NoSpec = NoSpec
SYMMETRY MCSymmetry
CHECK_DEADLOCK FALSE
INVARIANTS TypeOK    
