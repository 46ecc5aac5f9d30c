SPECIFICATION FairSpec
CONSTANTS
  timer = timer
  op = op
  ssh = ssh
  a = a
  six = six
  Invalid = Invalid
  Timer = timer
  Operators = {op}
  Sessions = {ssh}
  RawCIDR = {a, six}
  CIDR = {a}
  Granted = {a}
  Canon <- MCCanon
  Clean <- MCClean
  MaxEntries = 1
  PullerDocs <- MCPullerDocs
  ReceiveDocs <- MCReceiveDocs
  Units <- MCUnits
  Manual <- MCManual
  TTL = 1
  Life = 1
  MaxClock = 1
  MaxFaults = 1
  MaxManual = 1
INVARIANTS
  TypeOK
  ListStaysList
  ListsAreVerified
  OutcomeTells
PROPERTIES
  Converges
  FileIsAllowList
  KernelIsAllowList
CHECK_DEADLOCK FALSE
