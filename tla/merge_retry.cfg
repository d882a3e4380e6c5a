SPECIFICATION FairSpec
CONSTANTS
  Corpora = {1}
  Of <- MCOf
  ClusterOf <- MCClusterOf
  Ids = {"a", "b", "c", "x"}
  IdOf <- MCIdOf
  Deltas = {}
  Every = 2
  MaxFailed = 1
  Codes = {1}
  MaxCrashes = 0
  MaxFailures = 1
  Absent = Absent
PROPERTY RetryCompletes
