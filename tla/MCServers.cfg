SPECIFICATION Spec
CONSTANTS
  c1 = c1  c2 = c2  d1 = d1  d2 = d2  d3 = d3  f1 = f1  f2 = f2
  p1 = p1  p2 = p2  p3 = p3  q1 = q1  q2 = q2  None = None  Empty = Empty  Busy = Busy
SYMMETRY Symmetric
INVARIANTS BlockCurrent NoRequestLost AnswerMeansDone
PROPERTIES ActsAsQueue
