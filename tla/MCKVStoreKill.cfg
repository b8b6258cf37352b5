\* Three processes, three calls in all; p3 may be killed at any step.
CONSTANTS
    Proc = {p1, p2, p3}
    Mortal = {p3}
    NUMBERPODS = 1
    NUMBERKVPAIR = 3
    MAXNUMBERVALUES = 2
    KEYSIZE = 2
    Key <- OneKey
    Value = {u}
    LongValue = {}
    Empty = Empty
    Stray = Stray
    Null = Null
    PodOf <- OnePod
    MaxCalls = 3
SPECIFICATION FairStoreSpec
CHECK_DEADLOCK FALSE
INVARIANTS
    NoTornValue
PROPERTIES
    DeadHolderIsNeverReplaced
    EveryCallReturns
