SPECIFICATION Spec
CONSTANTS
  a = a
  b = b
  six = six
  lan = lan
  p = p
  q = q
  net = net
  NoIP = NoIP
  Unset = Unset
  Addr <- MCAddr
  V4 <- MCV4
  Unusable = {lan, p, q}
  Net24 <- MCNet24
  Covers <- MCCovers
  Whole = {"0.0.0.0/0"}
  h1 = h1
  h2 = h2
  Handler = {h1, h2}
  ServerDocs <- MCServerDocs
  Crowds <- MCCrowds
  Minute = 3
  MaxWait = 1
  MaxClock = 4
INVARIANTS
  TypeOK
  BlockedEarned
  BudgetHolds
  RecordsOrigin
  PageTells
PROPERTY WindowFixed
SYMMETRY MCSymmetry
