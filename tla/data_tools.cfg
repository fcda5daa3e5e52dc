SPECIFICATION Spec
CONSTANTS
  None = None
  NaN = NaN
  Upper <- MCUpper
  Instruments <- MCInstruments
  Chains <- MCChains
  FlexCalls <- MCFlexCalls
  Durations <- MCDurations
  Registries <- MCRegistries
  Exceptions <- MCExceptions
  Params <- MCParams
  Quotes <- MCQuotes
  Bars <- MCBars
  Details <- MCDetails
  Reports <- MCReports
INVARIANTS
  TypeOK
  RequestsAsAsked
  HistoryAsAsked
  ChainPaired
  GreeksFromOneBundle
  DiscoveryNeverFetches
  ErrorsHaveCauses
  FlexRightQuery
  FlexAllOrRaw
PROPERTY ImplementsToolCalls
