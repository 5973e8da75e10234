CONSTANTS
  h1 = h1
  h2 = h2
  o1 = o1
  m1 = m1
  f1 = f1
  root = root
  admin = admin
  weld = weld
  paint = paint
  Handlers = {h1, h2}
  Operators = {o1}
  Machines = {m1}
  Foreign = {f1}
  Issuers = {root, admin}
  ActionNames = {weld, paint}
  Attempts <- MCAttempts
  Posts <- MCPosts
  Overlaps = {TRUE, FALSE}
  MaxKey = 2
  MaxAttempts = 1
  MaxPosts = 1
  MaxCrashes = 1
SPECIFICATION Spec
SYMMETRY Symmetry
CONSTRAINT Smaller
INVARIANTS
  TypeOK
  IdentityHeldOnce
  CachedUnlessGap
  RefreshTakesEffect
  TrustedWhenRestricted
  EventsPermitted
PROPERTIES
  ImplementsLifecycle
CHECK_DEADLOCK FALSE
