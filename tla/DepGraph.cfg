SPECIFICATION Spec
CONSTANTS
  Catalogs <- MCCatalogs
  Rank <- MCRank
  Ignored <- MCIgnored
  IsPath <- MCIsPath
  Unexpanded <- MCUnexpanded
  SameName <- MCSameName
  Replaces <- MCReplaces
  SameVersion <- MCSameVersion
  Less <- MCLess
  Requirements <- MCRequirements
  Knows <- MCKnows
  Meets <- MCMeets
  Visible <- MCVisible
INVARIANTS
  RangesOverlap
  VersionsOrdered
PROPERTIES
  SurvivorsMet
  BreaksReported
