\* Four processes with endless calls; each may be killed at any step, so the
\* system really may stop.
CONSTANTS
    Proc = {p1, p2, p3, p4}
    Mortal = {p1, p2, p3, p4}
SPECIFICATION LockSpec
SYMMETRY Symmetry
CHECK_DEADLOCK FALSE
INVARIANTS
    MutualExclusion
    NoStandstill
    LockInv
PROPERTIES
    ImplementsRWLock
