SPECIFICATION FairSpec
CONSTANTS
  Pids = {p1, p2, p3}
  Inodes = {f1, f2, f3, f4}
  None = None
  MaxStarting = 2
  MaxReuses = 1
  MaxKills = 2
INVARIANTS TypeOK LockNamesHolder
PROPERTIES IsExclusive StartsAgain
