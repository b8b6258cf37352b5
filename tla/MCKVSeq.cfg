\* As many keys as slots and more values than rows: pods and rings wrap around.
CONSTANTS
    NUMBERPODS = 2
    NUMBERKVPAIR = 3
    MAXNUMBERVALUES = 2
    KEYSIZE = 2
    Key <- PlainKeys
    Value = {u, v}
    LongValue = {}
    Empty = Empty
    Stray = Stray
    Null = Null
    PodOf <- OnePod
    MaxWrites = 5
SPECIFICATION Spec
CHECK_DEADLOCK FALSE
INVARIANTS
    SeqInv
    RingsConsistent
    VisibleKeysDistinct
    RowsAreLatest
PROPERTIES
    KeysVanishOnlyByWrap
    KeepsPromise
