\* Four deployments, the owner's agent and a stranger's, two requests: each policy and
\* each missing part of a service meets each caller.  No symmetry: liveness is checked too.
CONSTANTS
  Reqs = {r1, r2}
  Msgs = {m1, m2, m4}
  Addrs = {agent1, agent2}
  Humans = {owner, other}
  Deployments = {d1, d2, d3, d5}
  Fns = {pay, look}
  ArgVals = {a1, a2}
  Durable = FALSE
  StoresReject = FALSE
  StableKey = FALSE
  MaxTime = 0
  MaxRestarts = 0
  MaxAge = 1
  MaxSkew = 0
  MaxDelay = 1
  NonceTTL = 3
  CallIdTTL = 3
  StateTTL = 1
  StepUpTTL = 3
  NullifierTTL = 3
  Nonces = {n1, n2, n3, n4}
  CallIds = {c1, c2, c3, c4}
  Hashes = {h1, h2, zero}
  Owner = owner
  ZeroHash = zero
  NoHuman = NoHuman
  NoMsg = NoMsg
  NoReq = NoReq
  SignerOf <- MCSignerOf
  NonceOf <- MCNonceOf
  CallIdOf <- MCCallIdOf
  SignedHashOf <- MCSignedHashOf
  ServedHashOf <- MCServedHashOf
  FnOf <- MCFnOf
  ArgsOf <- MCArgsOf
  ServiceOf <- MCServiceOf
  m1 = m1
  m2 = m2
  m3 = m3
  m4 = m4
  agent1 = agent1
  agent2 = agent2
  n1 = n1
  n2 = n2
  n3 = n3
  n4 = n4
  c1 = c1
  c2 = c2
  c3 = c3
  c4 = c4
  h1 = h1
  h2 = h2
  d1 = d1
  d2 = d2
  d3 = d3
  d4 = d4
  d5 = d5
  pay = pay
  look = look
  a1 = a1
  a2 = a2
SPECIFICATION Spec
INVARIANTS
  RunMatchesSignedCall
  RunHasEvidence
PROPERTY
  EveryCallAnswered
CHECK_DEADLOCK FALSE
