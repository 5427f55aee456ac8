SPECIFICATION FairSpec
CONSTANTS
  t1 = t1  t2 = t2  t3 = t3  t4 = t4  g1 = g1  g2 = g2  f1 = f1  f2 = f2
  p1 = p1  p2 = p2  p3 = p3  None = None  Empty = Empty  Busy = Busy
PROPERTIES IsReadersWriters 
