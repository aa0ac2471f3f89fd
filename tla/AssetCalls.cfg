SPECIFICATION FairSpec
CONSTANTS
    Sessions = {s1, s2}
    Coins = 2
    Holding = {2}
    alice = alice
    Addresses = {alice}
    Issues <- IssueArguments
    Transfers <- TransferArguments
    Faults = {"node", "reply"}
    MaxCalls = 2
INVARIANTS TypeOK ChainSaysWhatWasAsked InspectionFindsPayload CallTellsTruth AssetInv
PROPERTIES LosersHaveAWinner CallsEnd
CHECK_DEADLOCK FALSE
