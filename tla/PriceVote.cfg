SPECIFICATION FairSpec
CONSTANTS
  Users = {u1, u2}
  Items = {i1}
  Prices = {q1, q2}
  Requests = {r1, r2}
  Quorum = 2
  MaxPurges = 1
  None = None
INVARIANTS TypeOK VotesPerPeriod RowsBacked HonestAnswer EntriesBacked
PROPERTIES PostEnds PurgeEnds
