\* As many keys as slots: the write that fills the pod hides what the pod holds.
CONSTANTS
    NUMBERPODS = 2
    NUMBERKVPAIR = 2
    MAXNUMBERVALUES = 2
    KEYSIZE = 2
    Key <- PlainKeys
    Value = {u}
    LongValue = {}
    Empty = Empty
    Stray = Stray
    Null = Null
    PodOf <- TwoPods
    MaxWrites = 3
SPECIFICATION Spec
CHECK_DEADLOCK FALSE
INVARIANTS
    WrittenKeyIsFound
