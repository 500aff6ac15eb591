CONSTANTS
    Stocks = {samsung}
    Coins = {btc}
    InitialCash = 2
    Prices = {1}
    Ages = {0}
    TargetPcts = {50}
    SellPcts = {60}
    ManualQuantities = {1}
    Keys = {}
    Cycles = {a, b}
    Monitor = monitor
    Refresh = refresh
    Nobody = nobody
    DayLength = 9
    MaxWait = 1
    MaxTime = 0
    MaxCrashes = 1
    MaxPositionPct = 60
    MaxDailyLossPct = 50
    MaxDailyOrders = 2
    MaxDataAge = 1
    MinCashReservePct = 10
    MaxPortfolioExposurePct = 90
    MaxOpenPositions = 1
    BuyCooldown = 0
    SellCooldown = 0
    StopCooldown = 0
    BuyKillSwitch = FALSE
SPECIFICATION Spec
CHECK_DEADLOCK FALSE
SYMMETRY Symmetry
INVARIANTS HoldingsAreLimited JournalMatches
