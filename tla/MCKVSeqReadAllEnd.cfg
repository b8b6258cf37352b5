\* One more value than rows: numberValues passes the end of the array.
CONSTANTS
    NUMBERPODS = 2
    NUMBERKVPAIR = 3
    MAXNUMBERVALUES = 2
    KEYSIZE = 2
    Key <- TwoKeys
    Value = {u}
    LongValue = {}
    Empty = Empty
    Stray = Stray
    Null = Null
    PodOf <- TwoPods
    MaxWrites = 3
SPECIFICATION Spec
CHECK_DEADLOCK FALSE
INVARIANTS
    ReadAllTerminated
