SPECIFICATION Spec
CONSTANTS
  Words <- MCWords
  Refs <- MCRefs
  Dotted <- MCDotted
  Mirrors <- MCMirrors
  SyncHosts <- MCSyncHosts
  PlainHosts <- MCPlainHosts
  Loopback = {"127.0.0.1", "localhost", "::1"}
  Descriptors <- MCDescriptors
  Arch = "arm64"
  None = None
  MaxCalls = 3
CHECK_DEADLOCK FALSE
INVARIANTS TypeOK OwnImage InCluster 
