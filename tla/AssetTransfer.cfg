SPECIFICATION Spec
CONSTANTS
    Sessions = {s1}
    Coins = 2
    Holding = {2}
    alice = alice
    Addresses = {alice}
    Issues <- IssueArguments
    Transfers <- TransferArguments
    Faults = {}
    MaxCalls = 1
INVARIANTS TransferMovesAsset
CHECK_DEADLOCK FALSE
