SPECIFICATION Spec
CONSTANTS
  t1 = t1  t2 = t2  f1 = f1  f2 = f2  b1 = b1  b2 = b2
  p1 = p1  p2 = p2  p3 = p3  p4 = p4  s1 = s1  s2 = s2  c1 = c1  c2 = c2  c3 = c3
  None = None  Null = Null  Empty = Empty  Busy = Busy
SYMMETRY Symmetry
INVARIANTS BlocksShown ReferencesExact NothingLeftBehind
PROPERTIES NoLostWrite ActsAsMap
