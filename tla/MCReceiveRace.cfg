SPECIFICATION Spec
CONSTANTS
  p1 = p1
  p2 = p2
  b = b
  c = c
  a24 = a24
  ra = ra
  rb = rb
  rc = rc
  bad = bad
  Invalid = Invalid
  Garbage = Garbage
  Proc = {p1, p2}
  RawCIDR <- MCRaw
  CIDR = {a24, b, c}
  Canon <- MCCanon
  Inputs <- MCInputs
  MaxEntries = 2
  MaxRuns = 3
  MaxClock = 1
INVARIANT AheadOnlyAfterFailure
SYMMETRY ProcSymmetry
CHECK_DEADLOCK FALSE
