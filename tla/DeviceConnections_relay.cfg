CONSTANTS
    Conns = {c1, c2}
    MaxVersion = 2
SPECIFICATION FairSpec
CHECK_DEADLOCK FALSE
INVARIANTS TypeOK GaugeIsExact
PROPERTIES NoLeakedCopies InterruptEndsFullRelay FinishedIsReleased
