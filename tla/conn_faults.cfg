SPECIFICATION FairSpec
CONSTANTS
  m1 = m1
  m2 = m2
  m3 = m3
  a1 = a1
  a2 = a2
  None = None
  Other = Other
  Managers = {m1, m2}
  Accounts = {a1, a2}
  IB_CLIENT_ID <- OverlappingIds
  IB_ACCOUNT <- OneConfigured
  ClientIds <- Ids4
  MaxAttempts = 3
  Logins <- AnyLogin
  Faults <- FaultKinds
INVARIANTS
  TypeOK
  RegisteredUnderReportedId
  ServedAccount
  NoStrayConnection
PROPERTIES
  ImplementsSession
  ConnectReturns
