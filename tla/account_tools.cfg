SPECIFICATION Spec
CONSTANTS
  a1 = a1
  a2 = a2
  o1 = o1
  o2 = o2
  p1 = p1
  p2 = p2
  p3 = p3
  p4 = p4
  None = None
  NaN = NaN
  NoAccount = NoAccount
  Formula <- MCFormula
  Accounts = {a1, a2}
  Orders = {o1, o2}
  Own = {o2}
  OrderId <- MCOrderId
  Positions <- MCPositions
  AccountOf <- MCAccountOf
  Contract <- MCContract
  Quantities = {0, 1}
  Statuses = {"Submitted", "PendingCancel", "Filled"}
  Tickers <- MCTickers
  AskedIds <- MCAskedIds
  Linked <- MCLinked
  MaxRows = 2
INVARIANTS
  TypeOK
  LiveOrdersAreLive
  LiveOrdersComplete
  FoundUnderItsId
  ServesTheAccount
  PositionsComplete
  GreeksAccounted
PROPERTY ImplementsToolCalls
