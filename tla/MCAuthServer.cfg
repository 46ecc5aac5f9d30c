SPECIFICATION FairSpec
CONSTANTS
  a = a
  b = b
  h1 = h1
  h2 = h2
  t1 = t1
  t2 = t2
  t3 = t3
  CIDR = {a, b}
  Target = {t1}
  Order <- OneTarget
  Handler = {h1}
  Purger = Purger
  Reconciler = Reconciler
  Nobody = Nobody
  NotAllowed = NotAllowed
  Limits = {1, 2}
  TargetLimit = 1
  Budget = 12
  Timeout = 15
  Delays = {0}
  WaitDelay = 2
  WriteTimeout = 15
  Before = 1
  Reconciles = TRUE
  Brakes = FALSE
  MaxStamp = 2
  MaxFaults = 1
INVARIANTS
  TypeOK
  AnswersMatch
  AnsweredInTime
PROPERTIES
  HandlersFinish
  ServedConverge
  ImplementsAllowList
  ImplementsWhitelist
