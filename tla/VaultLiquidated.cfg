CONSTANTS
    Collaterals <- Lots
    Ratios = {175}
    Amounts = {}
    Prices = {1, 3}
    Cent = 3
    Warn = 200
    Critical = 150
    Near = 1
    Ages = {0}
    Thresholds = {}
    Wallet = 15
    Faults = {}
    MaxCalls = 2
    MaxMoves = 3
CHECK_DEADLOCK FALSE
SPECIFICATION Spec
INVARIANT HealthyHasHealthySnapshot
