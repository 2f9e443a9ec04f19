SPECIFICATION Spec
CONSTANTS
  release = release
  inRelease = inRelease
  x = x
  y = y
  z = z
  a = a
  b = b
  i0 = i0
  i1 = i1
  i2 = i2
  i3 = i3
  torn = torn
  Paths <- MCPaths
  Contents <- MCContents
  IndexPaths <- MCIndexPaths
  Needs <- MCNeeds
  Partial <- MCPartial
  AtomicCopy = FALSE
  Works <- MCWorks
  InitialStores <- MCInitialStores
INVARIANTS
  Whole
  StaysSound
PROPERTIES
  PublishedAtomically
