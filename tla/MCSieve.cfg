SPECIFICATION FairSpec
CONSTANTS
  c1 = c1
  c2 = c2
  Clients <- TwoClients
  Capacity = 3
  None = None
  WithClean = FALSE
INVARIANTS LinksInverse HandInList ExhaustedMeansUsed FramesPartitioned
PROPERTIES ImplementsQueue VictimEnds
