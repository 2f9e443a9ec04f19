SPECIFICATION Spec
CONSTANTS
  index = index
  pkg = pkg
  old = old
  new = new
  Calls = {c1, c2, c3}
  Partial = Partial
  Absent = Absent
  None = None
  Paths <- MCPaths
  Contents <- MCContents
  InitialData <- MCInitialData
  Requests <- MCRequests
  Kinds = {"local", "posix", "plain", "s3", "gcs"}
  Regions = {"home", "elsewhere"}
  Home = "home"
  MaxCuts = 1
SYMMETRY Symmetry
INVARIANTS
  PreviousKept
  TempsCleared
  RecordedTrue
PROPERTIES
  StoreCallsAtomic
