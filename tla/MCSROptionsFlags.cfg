\* Two limits on one command line.
CONSTANTS
    Commands <- SomeCommands
    MaxOptions = 3
    MaxUses = 1
    MaxStrays = 0
    Padding = 3
SPECIFICATION Spec
CHECK_DEADLOCK FALSE
INVARIANTS
    FlagsAreApplied
