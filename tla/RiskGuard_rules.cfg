CONSTANTS
    MaxPositionPct = 60
    MaxDailyLossPct = 3
    MaxDailyOrders = 2
    MaxDataAge = 1
    MinCashReservePct = 10
    MaxPortfolioExposurePct = 90
    MaxOpenPositions = 2
    BuyCooldown = 1
    SellCooldown = 1
    StopCooldown = 1
    BuyKillSwitch = FALSE
    Cash = {0, 1, 3, 5, 8}
    Values = {0, 1, 3, 4}
    Others = {0, 2, 5}
    Prices = {1, 2, 3}
    Quantities = {1, 2, 5}
    Ages = {0, 1}
    Parts = 2
    Fresh <- Halves
    Shift = 5
    BullMin = 60
    BearMax = 40
    BullTarget = 80
    NeutralTarget = 60
    BearTarget = 35
    BuyMinScore = 60
    SellMaxScore = 40
    Technicals = {30, 35, 42, 50, 59, 65, 73}
    Raws = {0, 60, 100}
    Regimes = {20, 50, 80}
    Confidences = {0, 55, 100}
SPECIFICATION Spec
INVARIANTS BuysAreSafe BuysAreLargest SellsAreAvailable CoinsKeepDirection StocksFollowEvidence ViewsDoNotSwing
CHECK_DEADLOCK FALSE
