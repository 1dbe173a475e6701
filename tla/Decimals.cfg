SPECIFICATION Spec
CONSTANTS
    One = 2
    Grains = 20
    RateGrains = 10
    Dust = 2
    MaxLots = 2
    MaxExpenses = 3
    Null = Null
CONSTANT Amounts <- MCAmounts
CONSTANT Rates <- MCRates
INVARIANTS
    TypeOK
    DriftBounded
    PriceBounded
PROPERTIES
    LotsOnlyFall
    StockUsedUp
