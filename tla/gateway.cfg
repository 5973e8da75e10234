CONSTANTS
  h1 = h1
  h2 = h2
  o1 = o1
  m1 = m1
  m2 = m2
  Handlers = {h1, h2}
  Operators = {o1}
  Machines = {m1, m2}
  Configured = {m1}
  Overlaps = {TRUE, FALSE}
  BatchSize = 2
  MaxActions = 6
  MaxCrashes = 1
SPECIFICATION Spec
SYMMETRY Symmetry
CONSTRAINT Smaller
INVARIANTS
  TypeOK
  IdentityKept
  ListedAreActive
  SendFlagOwned
  ActionsSentInOrder
CHECK_DEADLOCK FALSE
