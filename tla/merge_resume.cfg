SPECIFICATION FairSpec
CONSTANTS
  Corpora = {1, 2}
  Of <- MCOf
  ClusterOf <- MCClusterOf
  Ids = {"a", "b", "c", "x"}
  IdOf <- MCIdOf
  Deltas = {{2}}
  Every = 2
  MaxFailed = 1
  Codes = {1, 2}
  MaxCrashes = 2
  MaxFailures = 2
  Absent = Absent
INVARIANTS TypeOK HandsOverWhole
PROPERTIES InterruptKeeps DeltaDiscardsNothing Completes
