SPECIFICATION Spec
CONSTANTS
  c1 = c1  c2 = c2  a1 = a1  a2 = a2  a3 = a3  b1 = b1  b2 = b2
  None = None  Empty = Empty  Busy = Busy
SYMMETRY Symmetric
INVARIANTS FlushSound
PROPERTIES ImplementsPageStore
