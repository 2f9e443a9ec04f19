SPECIFICATION CopySpec
CONSTANTS
  foo1 = foo1
  foo2 = foo2
  foo2b = foo2b
  bar = bar
  doc = doc
  src1 = src1
  src2 = src2
  orig = orig
  debian = debian
  torn = torn
  Partial = torn
  Needs <- AptNeeds
  Paths <- MCPaths
  Contents <- MCContents
  IndexPaths <- MCIndexPaths
  Key <- MCKey
  EVR <- MCEVR
  ArchOf <- MCArchOf
  Files <- MCFiles
  ArchOrder <- MCArchOrder
  SizeOf <- MCSize
  First <- MCFirst
  Dirs <- MCDirs
  CanCopy = TRUE
  CanHash = TRUE
  AtomicCopy = TRUE
  Entries = {foo1, foo2, foo2b, bar, doc, src1, src2}
  Suites = {"stable", "testing"}
  SourceAt <- MCSourceAt
  SourceSuite = "stable"
  Here = "source"
  Flags <- MCFlags
  Hows = {"new", "overwrite", "continue", "update"}
  Uses <- ReopenUse
  MaxStops = 1
CHECK_DEADLOCK FALSE
INVARIANTS
  Reopens
