CONSTANTS
    Conns = {c1}
    MaxVersion = 2
SPECIFICATION FairSpec
CHECK_DEADLOCK FALSE
PROPERTY InterruptEndsConnections
