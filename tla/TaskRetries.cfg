SPECIFICATION FairSpec
CONSTANTS
  w1 = w1
  w2 = w2
  Nobody = Nobody
  Workers = {w1, w2}
  ItemCount = 3
  ChunkSize = 2
  MaxReceives = 3
  MaxLosses = 2
CHECK_DEADLOCK FALSE
INVARIANTS
  TypeOK
  OncePerItem
  NoItemIsLost
  FinishedIsComplete
PROPERTIES
  TaskEnds
  KeepsPromise
