SPECIFICATION FairSpec
CONSTANTS
  Batches = {b1, b2, b3}
  Corpora = {1, 2}
  Codes = {1, 2}
  MaxDropped = 1
  StateBase = 0
  ClusterBytes <- MCClusterBytes
  MaxCrashes = 2
  MaxFailures = 2
  Absent = Absent
INVARIANTS TypeOK ClustersMatchCorpus OneCode
PROPERTIES CacheSurvives Recovers
