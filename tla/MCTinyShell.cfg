\* Every shell with two lines and two failures.  The halves may wait for each other's
\* next command for ever, and users may stop typing.
CONSTANTS
    Input = {"writer", "reader", "writerScript", "readerScript",
             "vfork", "vforkScript", "forkScript", "cloneScript"}
    Variant <- Variants
    PipeEnd <- PipeEnds
    Buffered = {"writerScript", "readerScript", "vforkScript", "forkScript", "cloneScript"}
    Together <- Runs
    Lines = 2
    Slots = 3
    MaxFailures = 2
    Capacity = 1
    Output = 2
SPECIFICATION FairSpec
CHECK_DEADLOCK FALSE
INVARIANTS
    ShellInv
    OneIsActive
    LinesAreTakenOnce
PROPERTIES
    PipeCommandsEnd
