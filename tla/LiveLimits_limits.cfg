SPECIFICATION Spec
CHECK_DEADLOCK FALSE
CONSTANTS
    Coins = {c1}
    Stocks = {s1, s2}
    Quantities = {2, 7}
    StartCash = 8
    Owned = {s1}
    OwnedUnits = 2
    Price = 1
    MaxOrders = 2
    MaxDay = 1
    MaxPositionPct = 60
    MaxDailyLossPct = 50
    MaxDailyOrders = 1
    MaxDataAge = 1
    MinCashReservePct = 10
    MaxPortfolioExposurePct = 90
    MaxOpenPositions = 2
    BuyCooldown = 0
    SellCooldown = 0
    StopCooldown = 0
    BuyKillSwitch = FALSE
INVARIANTS ReserveKept PositionsCapped OpenPositionsAreLimited DailyOrdersAreLimited
