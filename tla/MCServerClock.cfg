\* A call, its challenge and two rival resumes while the state and every store entry
\* expire; verification takes less than a unit of time, proofs and handlers any time.
CONSTANTS
  Reqs = {r1, r2, r3}
  Msgs = {m1, m2, m3}
  Addrs = {agent1}
  Humans = {owner}
  Deployments = {d1}
  Fns = {pay}
  ArgVals = {a1}
  Durable = FALSE
  StoresReject = FALSE
  StableKey = FALSE
  MaxTime = 2
  MaxRestarts = 0
  MaxAge = 0
  MaxSkew = 0
  MaxDelay = 0
  NonceTTL = 1
  CallIdTTL = 1
  StateTTL = 1
  StepUpTTL = 2
  NullifierTTL = 2
  Nonces = {n1, n2, n3, n4}
  CallIds = {c1, c2, c3, c4}
  Hashes = {h1, h2, zero}
  Owner = owner
  ZeroHash = zero
  NoHuman = NoHuman
  NoMsg = NoMsg
  NoReq = NoReq
  SignerOf <- MCSignerOf
  NonceOf <- MCNonceOf
  CallIdOf <- MCCallIdOf
  SignedHashOf <- MCSignedHashOf
  ServedHashOf <- MCServedHashOf
  FnOf <- MCFnOf
  ArgsOf <- MCArgsOf
  ServiceOf <- MCServiceOf
  m1 = m1
  m2 = m2
  m3 = m3
  m4 = m4
  agent1 = agent1
  agent2 = agent2
  n1 = n1
  n2 = n2
  n3 = n3
  n4 = n4
  c1 = c1
  c2 = c2
  c3 = c3
  c4 = c4
  h1 = h1
  h2 = h2
  d1 = d1
  d2 = d2
  d3 = d3
  d4 = d4
  d5 = d5
  pay = pay
  look = pay
  a1 = a1
  a2 = a1
SPECIFICATION Spec
SYMMETRY ReqSymmetry
INVARIANTS
  ServerIInv
  RunOncePerCall
  StateRedeemedOnce
CHECK_DEADLOCK FALSE
