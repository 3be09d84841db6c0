SPECIFICATION Spec
CONSTANTS
  Keys <- MCOneKey
  Page = 3
  Window = 3
  Quantities = {1}
  OrderPrices <- MCPrices
  StartTimes = {1, 3}
  EndOfTime = 5
INVARIANTS TypeOK HighConfidenceIsTrue LedgerHasNoHole EveryTradePosted StartTimeAdopted
PROPERTIES PostedOnce PostsTellTheChange
