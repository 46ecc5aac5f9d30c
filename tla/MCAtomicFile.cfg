SPECIFICATION Spec
CONSTANTS
  w1 = w1
  w2 = w2
  w3 = w3
  d1 = d1
  d2 = d2
  Writer = {w1, w2, w3}
  Doc = {d1, d2}
  None = None
INVARIANTS
  TargetWhole
  NoLitter
  OnlySuccessShows
PROPERTY ImplementsRegister
CHECK_DEADLOCK FALSE
