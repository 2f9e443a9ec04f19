SPECIFICATION Spec
CONSTANTS
  a = a
  b = b
  c = c
  d = d
  x = x
  y = y
  z = z
  Absent = Absent
  RepomdAsc = RepomdAsc
  Repomd = "repomd"
  Items = {x, y, z}
  Conc = 2
  NoChecksum = {c}
  Keys <- MCKeys
  Lapsed = {"revoked"}
  Primary <- MCPrimary
  NameOf <- MCNameOf
  Size <- MCSize
  Cases <- MCCases
  MaxErrors = 1
CHECK_DEADLOCK FALSE
INVARIANTS
  Bounded
  ReportExact
  BarTrue
  PassIsTrust
  BlameSettled
PROPERTIES
  Returns
