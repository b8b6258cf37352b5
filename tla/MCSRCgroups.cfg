\* Three launches, two of one host name; any call may fail and any main may be killed.
CONSTANTS
    a = a
    b = b
    c = c
    Launch = {a, b, c}
    Name = {"shared", "other"}
    NameOf <- Names
    Control = {"blkio", "cpuset", "memory"}
    ControlsOf <- Controls
    Faulty = {a, b, c}
    Crashing = {a, b, c}
SPECIFICATION Spec
CHECK_DEADLOCK FALSE
INVARIANTS
    CgroupInv
    ContainersAreHeld
    NothingIsLeft
    ContainersHaveOwnLimits
