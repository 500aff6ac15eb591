CONSTANTS
    btc = btc
    samsung = samsung
    k1 = k1
    Symbols = {samsung}
    UpbitSymbols = {}
    Intents = {i1}
    Keys = {k1}
    Requests <- TossRequests
    Enabled <- TossRequests
    Clients = {}
    Cycles = {cycle, call}
    Boot = boot
    Job = job
    Endpoints = {e1}
    Nobody = nobody
    NoIntent = noIntent
    NoRequest = noRequest
    Attempts = 1
    BuyCooldown = 2
    SellCooldown = 1
    MaxTime = 0
    MaxCrashes = 0
SPECIFICATION LiveSpec
PROPERTIES SettledForGood LockIsReleased
