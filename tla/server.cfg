SPECIFICATION FairServerSpec
CONSTANTS
  p = p
  s1 = s1
  s2 = s2
  a1 = a1
  a2 = a2
  None = None
  Other = Other
  Managers = {p, s1, s2}
  Probe = p
  Accounts = {a1, a2}
  IB_CLIENT_ID <- SameId
  IB_ACCOUNT <- OneAccountSet
  ClientIds <- Ids
  MaxAttempts = 2
  Logins <- TwoLogins
  Faults <- MCFaults
INVARIANTS
  ServerTypeOK
  ProbeGone
  BannerTellsTheSession
  ExitsClean
PROPERTIES
  ServesAndStops
