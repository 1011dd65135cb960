SPECIFICATION Spec
CONSTANTS
  Instances <- MCInstances
  Shards = {w1, w2}
  Seqs = {1, 2}
  Server = 1
CHECK_DEADLOCK FALSE
INVARIANT CachesWhole
INVARIANT EngineFits
INVARIANT ResultsRight
