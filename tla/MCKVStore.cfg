\* Three processes, four calls in all, none killed.
CONSTANTS
    Proc = {p1, p2, p3}
    Mortal = {}
    NUMBERPODS = 1
    NUMBERKVPAIR = 3
    MAXNUMBERVALUES = 3
    KEYSIZE = 2
    Key <- Keys
    Value = {u}
    LongValue = {}
    Empty = Empty
    Stray = Stray
    Null = Null
    PodOf <- OnePod
    MaxCalls = 4
SPECIFICATION StoreSpec
SYMMETRY Symmetry
CHECK_DEADLOCK FALSE
INVARIANTS
    StoreInv
    NoWriteIsLost
    ReadSeesStablePair
    NoRowIsSkipped
