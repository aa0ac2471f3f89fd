CONSTANTS
    e1 = e1
    e2 = e2
    shelter = shelter
    food = food
    clinic = clinic
    Engines = {e1}
    Names = {shelter, food}
    Pcts = {}
    Amounts = {4}
    Cent = 2
    Seeds <- HalfHalf
    Modes = {"live"}
    LoadOnStart = TRUE
    Faults = {"crash"}
    Funds = 4
    MaxBatches = 2
SPECIFICATION Spec
INVARIANT StateSurvivesRestart
