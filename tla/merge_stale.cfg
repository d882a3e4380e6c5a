SPECIFICATION Spec
CONSTANTS
  Corpora = {1, 2}
  Of <- MCOf
  ClusterOf <- MCClusterOf
  Ids = {"a", "b", "c", "x"}
  IdOf <- MCIdOf
  Deltas = {}
  Every = 2
  MaxFailed = 1
  Codes = {1}
  MaxCrashes = 0
  MaxFailures = 0
  Absent = Absent
INVARIANT CurrentOnly
