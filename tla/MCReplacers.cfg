SPECIFICATION FairSpec
CONSTANTS
  f1 = f1  f2 = f2  f3 = f3  c1 = c1  None = None
INVARIANTS NothingLost ScansSound
PROPERTIES VictimFollowsPolicy ScanEnds
