CONSTANTS
    Pubkeys <- Keys
    Timelocks <- Locks
    Numbers <- Pushed
    Lengths <- DataLengths
    Locktimes <- LockTimes
    Moments <- Clock
    MaxPushes = 2
CHECK_DEADLOCK FALSE
SPECIFICATION FairSpec
INVARIANTS TypeOK ClosedUntilDue OpensForOwner TweakCommits PushesArrive LeafIsOfScript
    ScriptInv
PROPERTY CollateralReturns
