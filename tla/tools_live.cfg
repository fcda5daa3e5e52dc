SPECIFICATION FairSpec
CONSTANTS
  c1 = c1
  c2 = c2
  c3 = c3
  None = None
  Calls = {c1, c2, c3}
  Tools <- LockUsers
PROPERTIES
  LossUnblocksEveryone
  EveryCallAnswered
