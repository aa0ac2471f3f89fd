CONSTANTS
    e1 = e1
    e2 = e2
    shelter = shelter
    food = food
    clinic = clinic
    Engines = {e1, e2}
    Names = {shelter, food}
    Pcts = {}
    Amounts = {2}
    Cent = 1
    Seeds <- HalfHalf
    Modes = {"live"}
    LoadOnStart = TRUE
    Faults = {"reply"}
    Funds = 3
    MaxBatches = 2
SPECIFICATION Spec
INVARIANT IndInv
PROPERTY KeepsLedger
SYMMETRY Twins
