SPECIFICATION Spec
CONSTANTS
  c1 = c1
  c2 = c2
  c3 = c3
  p1 = p1
  p2 = p2
  p3 = p3
  f1 = f1
  f2 = f2
  f3 = f3
  Clients <- TwoClients
  Pages <- TwoPages
  Frames <- TwoFrames
  Empty = Empty
  Busy = Busy
  None = None
  FlushModes = {"delete"}
  MaxVersion = 1
  RefMax = 2
SYMMETRY Symmetry
INVARIANTS PinSafety
