SPECIFICATION Spec
CONSTANTS
  c1 = c1
  c2 = c2
  Calls = {c1, c2}
  Clients <- MCClients
  Amounts = {1}
  NoLimit = NoLimit
  Wishes <- MCWishes
  MaxPerRequest <- MCMaxPerRequest
  DailyLimit <- MCDailyLimit
  StateTTL = 3
  PollTimeout = 3
  PollInterval = 1
  MaxLag = 1
  NoCall = NoCall
INVARIANTS
  CallIInv
  LedgerAccounts
  LimitKept
  ReportsAreTrue
  DiagnosticIsOwn
  
  ProofsAreInTime
PROPERTIES
  EveryCallEnds
CHECK_DEADLOCK FALSE
