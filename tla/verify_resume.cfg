SPECIFICATION FairSpec
CONSTANTS
  Procs = {p1, p2}
  Inputs = {1, 2}
  Of <- MCOf
  FBs <- MCFBs
  Every = 2
  Codes = {1, 2}
  MaxCrashes = 2
  Absent = Absent
  Gone = Gone
INVARIANTS TypeOK ResumesOwnInput LosesLittle CompletesWhole
PROPERTIES WritersExclude Completes
