CONSTANTS
    e1 = e1
    e2 = e2
    shelter = shelter
    food = food
    clinic = clinic
    Engines = {e1}
    Names = {shelter, food, clinic}
    Pcts = {}
    Amounts = {1, 101, 100001}
    Cent = 2
    Seeds <- Rounding
    Modes = {"live"}
    LoadOnStart = TRUE
    Faults = {}
    Funds = 210000
    MaxBatches = 2
SPECIFICATION FairSpec
INVARIANTS BatchGivesAll SharesAreFair ProjectionIsKept
PROPERTY BatchReachesDisk
