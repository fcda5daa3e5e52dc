SPECIFICATION Spec
CONSTANTS
  m1 = m1
  m2 = m2
  m3 = m3
  a1 = a1
  a2 = a2
  None = None
  Other = Other
  Managers = {m1, m2, m3}
  Accounts = {a1, a2}
  IB_CLIENT_ID <- ThreeIds
  IB_ACCOUNT <- NoneConfigured
  ClientIds <- Ids5
  MaxAttempts = 4
  Logins <- BothOrOther
  Faults <- NoFaults
INVARIANT BusyIdsTolerated
