\* Up to six options, each limit up to twice, and a stray word; main ends or goes on
\* to the groups, where this model stops.
CONSTANTS
    Commands <- SomeCommands
    MaxOptions = 6
    MaxUses = 2
    MaxStrays = 1
    Padding = 3
SPECIFICATION Spec
CHECK_DEADLOCK FALSE
INVARIANTS
    OptionsInv
    BlkioIsJoined
    LimitsReachTheGroups
    PayloadIsCommand
