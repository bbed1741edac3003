SPECIFICATION Spec
CONSTANTS
    OrderIds = {o1, o2, o3, o4}
    ZeroId = ZeroId
    Prices = {1, 2}
    Quantities = {1, 3}
    MaxValue = 4
    FirstTradeId = 1
SYMMETRY Symmetry
INVARIANT TypeOK
INVARIANT InvariantsHold
INVARIANT ViewsExact
INVARIANT PlanIsExact
INVARIANT QuantityConserved
PROPERTY IdsNeverReused
PROPERTY ImplementsPriceTime
