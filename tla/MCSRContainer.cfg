\* One launch; any call may fail, and either process may be killed.
CONSTANTS
    Launch = {a}
    Name = {"host"}
    NameOf <- Names
    Control = {"blkio", "cpuset"}
    ControlsOf <- Controls
    Faulty = {a}
    Crashing = {a}
SPECIFICATION FairContainerSpec
CHECK_DEADLOCK FALSE
INVARIANTS
    PayloadIsConfined
    MapsOnlyInNamespace
PROPERTIES
    IdsAfterMaps
    EveryLaunchEnds
