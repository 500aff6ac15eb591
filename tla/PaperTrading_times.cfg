CONSTANTS
    Stocks = {}
    Coins = {btc}
    InitialCash = 5
    Prices = {1}
    Ages = {0, 2}
    TargetPcts = {20}
    SellPcts = {60, 100}
    ManualQuantities = {1}
    Keys = {k1}
    Cycles = {a, b}
    Monitor = monitor
    Refresh = refresh
    Nobody = nobody
    DayLength = 1
    MaxWait = 1
    MaxTime = 2
    MaxCrashes = 0
    MaxPositionPct = 60
    MaxDailyLossPct = 50
    MaxDailyOrders = 1
    MaxDataAge = 1
    MinCashReservePct = 10
    MaxPortfolioExposurePct = 90
    MaxOpenPositions = 1
    BuyCooldown = 2
    SellCooldown = 1
    StopCooldown = 2
    BuyKillSwitch = FALSE
SPECIFICATION Spec
CHECK_DEADLOCK FALSE
SYMMETRY Symmetry
INVARIANTS DailyBuysAreLimited
PROPERTIES CooldownsKept  KillSwitchHolds
