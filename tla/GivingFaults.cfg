CONSTANTS
    e1 = e1
    e2 = e2
    shelter = shelter
    food = food
    clinic = clinic
    Engines = {e1}
    Names = {shelter, food}
    Pcts = {10000, 10001}
    Amounts = {0, 3}
    Cent = 1
    Seeds <- FreshOrHalf
    Modes = {"dry", "live"}
    LoadOnStart = TRUE
    Faults = {"crash", "disk", "refused", "reply"}
    Funds = 6
    MaxBatches = 2
SPECIFICATION FairSpec
INVARIANTS TypeOK UniqueCauses RecordsArePaid PaidOncePerBatch 
    ReturnedIsPersisted SavedIsNeverForgotten TotalIsSumOfLog BooksAgree
PROPERTY CallsReturn
