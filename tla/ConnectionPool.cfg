SPECIFICATION FairSpec
CONSTANTS
  Queries = {q1, q2, q3, q4}
  Clients = {c1, c2}
  PoolMax = 2
  PoolMin = 1
  None = None
INVARIANTS TypeOK NobodyWaitsBesideIdle Accounted
PROPERTIES QueryEnds DeadReplaced
