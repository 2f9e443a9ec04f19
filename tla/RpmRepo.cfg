SPECIFICATION TakeoverSpec
CONSTANTS
  foo1 = foo1
  foo1b = foo1b
  foo2 = foo2
  qux = qux
  qux2 = qux2
  torn = torn
  Partial = torn
  Needs <- RpmNeeds
  Paths <- MCPaths
  Contents <- MCContents
  IndexPaths <- MCIndexPaths
  Key <- MCKey
  EVR <- MCEVR
  Base <- MCBase
  Signed <- MCSigned
  SizeOf <- MCSize
  First <- MCFirst
  Dirs <- MCDirs
  Uses <- MCUses
  Order <- MCOrder
  Signer = "us"
  Rpms = {foo1, foo1b, foo2, qux}
  CanCopy = TRUE
  CanHash = TRUE
  AtomicCopy = FALSE
  MaxStops = 1
PROPERTIES
  SignatureCurrent
  EndsTidy
  UndisturbedIfTrusted
  ForcedEndsWhole
  RefreshTrue
  TakeoverForesees
  TakeoverSafe
