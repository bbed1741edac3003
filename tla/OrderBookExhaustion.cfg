SPECIFICATION Spec
CONSTANTS
    OrderIds = {o1, o2, o3}
    ZeroId = ZeroId
    Prices = {1, 2}
    Quantities = {1, 2, 3}
    MaxValue = 3
    FirstTradeId = 3
INVARIANT TradeIdsConsecutive
INVARIANT NeverTerminates
