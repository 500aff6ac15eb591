CONSTANTS
    btc = btc
    samsung = samsung
    k1 = k1
    Symbols = {btc}
    UpbitSymbols = {btc}
    Intents = {i1, i2}
    Keys = {k1}
    Requests <- UpbitRequests
    Enabled <- UpbitRequests
    Clients = {c1}
    Cycles = {cycle}
    Boot = boot
    Job = job
    Endpoints = {}
    Nobody = nobody
    NoIntent = noIntent
    NoRequest = noRequest
    Attempts = 1
    BuyCooldown = 1
    SellCooldown = 1
    MaxTime = 1
    MaxCrashes = 1
SPECIFICATION Spec
SYMMETRY Symmetry
INVARIANTS JournalIsHonest OneOrderPerSymbol OneOrderPerKey HonestAnswers
PROPERTIES GatedAndSentOnce CooldownAfterAcknowledgement PromiseSpec
