SPECIFICATION Spec
CONSTANTS
  c1 = c1
  c2 = c2
  c3 = c3
  None = None
  Calls = {c1, c2, c3}
  Tools <- AllTools
SYMMETRY Symmetry
INVARIANTS
  TypeOK
  OneRequestAtATime
  LockHeldByItsUser
  NotConnectedIsTrue
PROPERTY NoSuccessAfterLoss
