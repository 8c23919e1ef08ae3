SPECIFICATION BootSpec
CONSTANTS
  a1 = a1
  a2 = a2
  n1 = n1
  r1 = r1
  r2 = r2
  p1 = p1
  p2 = p2
  h1 = h1
  h2 = h2
  Accounts = {a1, a2}
  Nobody = Nobody
  Names = {n1}
  Policies = {p1, p2}
  NoManifest = NoManifest
  Runs = {r1, r2}
  AccountOf <- MCAccountOf
  NameOf <- MCNameOf
  PolicyOf <- MCPolicyOf
  Foreign <- MCForeign
  MaxVersion = 2
  Humans = {h1, h2}
  NoHuman = NoHuman
  HumanOf <- MCHumanOf
  Checks = {e1, e2}
  Clients = {c1}
  Undefined = Undefined
  HasStore = TRUE
  MaxProofs = 2
  Scenes <- MCScenes
INVARIANTS
  BootIInv
  ManifestNeverAhead
  EnrolledOnce
PROPERTY
  ServedAsCommitted
CHECK_DEADLOCK FALSE
