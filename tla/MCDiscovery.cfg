SPECIFICATION DiscoverySpec
CONSTANTS
  a1 = a1
  a2 = a2
  n1 = n1
  p1 = p1
  p2 = p2
  e1 = e1
  e2 = e2
  c1 = c1
  c2 = c2
  Accounts = {a1, a2}
  Nobody = Nobody
  Names = {n1}
  Policies = {p1, p2}
  NoManifest = NoManifest
  Runs = {}
  AccountOf <- MCAccountOf
  NameOf <- MCNameOf
  PolicyOf <- MCPolicyOf
  Foreign <- MCForeign
  MaxVersion = 2
  Endpoints = {e1, e2}
  Commands = {c1, c2}
  Absent = Absent
INVARIANTS
  DiscoveryIInv
  VerifiedEntryWasPublished
  VerifiedFunctionsWereCommitted
SYMMETRY MCSymmetry
CHECK_DEADLOCK FALSE
