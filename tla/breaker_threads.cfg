SPECIFICATION FairSpec
CONSTANTS
  Threads = {t1, t2, t3}
  Threshold = 2
  MaxRetries = 2
  MaxOutages = 2
INVARIANTS TypeOK OpensOnThreshold RejectionsNeverTrip
PROPERTY Heals
