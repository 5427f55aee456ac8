SPECIFICATION Spec
CONSTANTS
  s1 = s1  s2 = s2  s3 = s3  u1 = u1  u2 = u2  p1 = p1  p2 = p2  q = q
SYMMETRY Symmetric
INVARIANTS OwnedOnce
