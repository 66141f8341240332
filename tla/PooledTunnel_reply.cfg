SPECIFICATION Spec
CONSTANTS
  s1 = s1
  s2 = s2
  a1 = a1
  a2 = a2
  b1 = b1
  Session = {s1, s2}
  Local = {a1, a2}
  Stream = {a1, a2, b1}
  Binds = {}
  MaxLeft = 1
SYMMETRY Symmetry
INVARIANT RepliesLeave
CHECK_DEADLOCK FALSE
