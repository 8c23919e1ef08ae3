SPECIFICATION Spec
CONSTANTS
  Procs = {p1, p2, p3}
  Names = {n1}
  Humans = {h1}
  NoHuman = NoHuman
  Before = Before
  NoEntry = NoEntry
  Nobody = Nobody
  Mixes <- MCMixes
SYMMETRY MCSymmetry
INVARIANTS
  HomeIInv
  ProfileNamesRegistered
  KeptOnceSettled
  ShownInOrder
  CaughtUp
PROPERTY
  AloneTakesEffect
CHECK_DEADLOCK FALSE
