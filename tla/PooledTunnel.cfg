SPECIFICATION Spec
CONSTANTS
  s1 = s1
  s2 = s2
  a1 = a1
  a2 = a2
  b1 = b1
  Session = {s1, s2}
  Local = {a1, a2}
  Stream = {a1, a2, b1}
  Binds = {s1, s2}
  MaxLeft = 1
SYMMETRY Symmetry
INVARIANTS TypeOK CountsMatchBindings OnlyOpenSessions OneSessionPerStream NoLeakedBinding LocalStreamHasTransport
PROPERTIES LeastLoadedIsLeast
CHECK_DEADLOCK FALSE
