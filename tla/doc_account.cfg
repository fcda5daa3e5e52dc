SPECIFICATION Spec
CONSTANTS
  m1 = m1
  m2 = m2
  m3 = m3
  a1 = a1
  a2 = a2
  None = None
  Other = Other
  Managers = {m1}
  Accounts = {a1, a2}
  IB_CLIENT_ID <- SameId
  IB_ACCOUNT <- NoneConfigured
  ClientIds <- Ids3
  MaxAttempts = 2
  Logins <- BothOrOther
  Faults <- AllButDisconnect
INVARIANT AccountIdNoneWhenUnreachable
