SPECIFICATION FairSpec
CONSTANTS
  c1 = c1
  c2 = c2
  c3 = c3
  p = p
  q = q
  Clusters = {c1, c2, c3}
  Unsplit = {c1, c3}
  Principles = {p, q}
  Yield <- MCYield
  Every = 2
  MaxFailed = 1
  Codes = {1, 2}
  MaxCrashes = 2
  MaxFailures = 2
  Absent = Absent
INVARIANTS TypeOK SkipsOnlyCovered CertifiedCovers
PROPERTIES IsResumable Completes
