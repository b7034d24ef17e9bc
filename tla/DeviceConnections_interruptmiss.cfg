CONSTANTS
    Conns = {c1}
    MaxVersion = 2
SPECIFICATION Spec
CHECK_DEADLOCK FALSE
INVARIANT InterruptReachesAll
