SPECIFICATION Spec
CONSTANTS
  c1 = c1
  c2 = c2
  c3 = c3
  CIDR = {c1, c2, c3}
  NoEntry = NoEntry
  TTL = 2
  Limits <- MCLimits
  MaxLag = 1
  MaxClock = 4
SYMMETRY Symmetry
INVARIANTS
  TypeOK
  DiskAgrees
  NeverPermanent
  AckedSurvives
PROPERTIES
  LimitHolds
  LeavesOnlyForRoom
  ReturnsOnlyByRecord
  ImplementsWhitelist
