SPECIFICATION CopySpec
CONSTANTS
  foo1 = foo1
  foo1b = foo1b
  foo2 = foo2
  bar = bar
  bar2 = bar2
  torn = torn
  Partial = torn
  Needs <- RpmNeeds
  Paths <- MCPaths
  Contents <- MCContents
  IndexPaths <- MCIndexPaths
  Key <- MCKey
  EVR <- MCEVR
  Base <- MCBase
  Signed <- MCSigned
  SizeOf <- MCSize
  First <- MCFirst
  Dirs <- MCDirs
  Uses <- MCUses
  Order <- MCOrder
  Signer = "us"
  Rpms = {foo1, foo1b, foo2, bar, bar2}
  SourceAt <- MCSourceAt
  Here = "source"
  Origin = ""
  Flags <- MCFlags
  MaxCopies = 2
  Hows = {"new", "overwrite", "continue", "update"}
  CanCopy = TRUE
  CanHash = TRUE
  AtomicCopy = TRUE
  MaxStops = 0
CHECK_DEADLOCK FALSE
INVARIANTS
  CopyResumes
PROPERTIES
  CopyUndisturbed
  ReplicaMade
  ChosenPublished
