SPECIFICATION Spec
CONSTANTS
    Sessions = {s1}
    Coins = 2
    Holding = {2}
    alice = alice
    Addresses = {alice}
    Issues <- IssueArguments
    Transfers <- TransferArguments
    Faults = {}
    MaxCalls = 2
INVARIANTS NoneMeansNoAssets
CHECK_DEADLOCK FALSE
