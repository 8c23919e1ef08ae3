\* Two headers that share a call id, one of them signed with a policy hash the service does
\* not pin, three requests, client clocks skewed by at most one unit and a restart: copies,
\* re-signed retries and slow verification all meet entry expiry, empty stores and stores
\* that reject.
CONSTANTS
  Reqs = {r1, r2, r3}
  Msgs = {m1, m3}
  Addrs = {agent1}
  Humans = {owner}
  Nonces = {n1, n3}
  CallIds = {c1}
  Deployments = {d1}
  Durable = FALSE
  StoresReject = TRUE
  MaxTime = 3
  MaxRestarts = 1
  MaxAge = 0
  MaxSkew = 1
  MaxDelay = 1
  NonceTTL = 3
  CallIdTTL = 2
  Hashes = {h1, h2, zero}
  ZeroHash = zero
  NoHuman = NoHuman
  NoMsg = NoMsg
  SignerOf <- MCSignerOf
  NonceOf <- MCNonceOf
  CallIdOf <- MCCallIdOf
  SignedHashOf <- MCSignedHashOf
  ServedHashOf <- MCServedHashOf
  m1 = m1
  m2 = m2
  m3 = m3
  agent1 = agent1
  agent2 = agent2
  n1 = n1
  n2 = n2
  n3 = n3
  c1 = c1
  c2 = c2
  h1 = h1
  h2 = h2
  d1 = d1
  d2 = d2
SPECIFICATION AuthSpec
SYMMETRY ReqSymmetry
PROPERTY
  GateSpec
INVARIANTS
  AuthIInv
  HeaderSpentOnce
  CallIdWindow
CHECK_DEADLOCK FALSE
