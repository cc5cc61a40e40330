SPECIFICATION FairSpec
CONSTANTS
  Names = {search, connection}
  Search = search
  Requests = {r1, r2}
  Jobs = {j1, j2}
  None = None
INVARIANTS TypeOK ReportedOnce LossExplained
PROPERTIES CollectionEnds
