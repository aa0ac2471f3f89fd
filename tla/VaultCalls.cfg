CONSTANTS
    Collaterals <- Lots
    Ratios = {149, 175}
    Amounts = {0, 7}
    Prices = {2, 3}
    Cent = 3
    Warn = 250
    Critical = 175
    Near = 1
    Ages = {0, 301}
    Thresholds <- Seconds
    Wallet = 15
    Faults = {"node", "link", "reply"}
    MaxCalls = 2
    MaxMoves = 2
CHECK_DEADLOCK FALSE
SPECIFICATION FairSpec
INVARIANTS TypeOK AutoMintsKeepRatio MintResultIsTrue OnlyLostAnswersLeaveDoubt
    HealthyIsSafe TrustIsEarned TroublesAreContained VaultInv
PROPERTY CallsEnd
