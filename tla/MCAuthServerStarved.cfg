SPECIFICATION FairSpec
CONSTANTS
  a = a
  b = b
  h1 = h1
  h2 = h2
  t1 = t1
  t2 = t2
  t3 = t3
  CIDR = {a}
  Target = {t1, t2, t3}
  Order <- ThreeTargets
  Handler = {h1}
  Purger = Purger
  Reconciler = Reconciler
  Nobody = Nobody
  NotAllowed = NotAllowed
  Limits = {1}
  TargetLimit = 1
  Budget = 12
  Timeout = 10
  Delays = {0}
  WaitDelay = 2
  WriteTimeout = 15
  Before = 1
  Reconciles = TRUE
  Brakes = FALSE
  MaxStamp = 1
  MaxFaults = 0
PROPERTY Converges
