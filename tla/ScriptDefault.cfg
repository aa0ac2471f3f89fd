CONSTANTS
    Pubkeys <- Owners
    Timelocks = {}
    Numbers = {}
    Lengths = {}
    Locktimes = {}
    Moments <- Today
    MaxPushes = 0
CHECK_DEADLOCK FALSE
SPECIFICATION Spec
INVARIANT DefaultLocksThirtyDays
