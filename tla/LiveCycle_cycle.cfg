CONSTANTS
    Coins = {c1, c2}
    Stocks = {s1, s2}
    Unfit = {c2, s2}
    Enabled = {"crypto", "stock"}
    Limit = 1
SPECIFICATION Spec
INVARIANTS HoldingsAreDecided LogIsTrue OrdersAreFit
PROPERTIES RunsEnd
CHECK_DEADLOCK FALSE
