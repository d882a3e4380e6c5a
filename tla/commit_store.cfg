SPECIFICATION FairSpec
CONSTANTS
  Inputs = {1, 2, 3}
  Of <- MCOf
  FBs <- MCFBs
  Tier = {3}
  ConceptOf <- MCNameOf
  NameOf <- MCNameOf
  TierSize <- MCTierSize
  GateSize <- MCGateSize
  Scopes = {"verification_scoped", "full_upsert"}
  MaxFailed = 0
  MaxRowid = 6
  MaxRatings = 1
  MaxRuns = 1
  MaxFailures = 1
  Absent = Absent
INVARIANTS TypeOK CertifiedStored VectorsOwn
PROPERTIES AllOrNothing OthersKept Completes
