\* Two launches of three rounds with two children each, two signals, three failed forks in a
\* launch.  The program ends, or its children stay at the barrier where those of the code do.
CONSTANTS
    FORK_NUM = 2
    RUN_ITERATIONS = 3
    Writes = 1
    MaxLaunches = 2
    MaxForkFailures = 3
    MaxSignals = 2
SPECIFICATION FairSpec
CHECK_DEADLOCK FALSE
INVARIANTS
    HarnessInv
    ParentAlone
    NoOrphans
    CountsAgree
    OutsidersAreSafe
    NamesAreGone
PROPERTIES
    LaunchEnds
