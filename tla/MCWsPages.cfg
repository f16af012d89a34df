SPECIFICATION Spec
CONSTANTS
    Tables = {"strategies", "mints"}
    Backtests = {b1, b2}
    Limits = {1, 2}
    MaxRows = 3
    Times = {0, 1}
    b1 = b1
    b2 = b2
SYMMETRY Symmetry
PROPERTY WalksThePages
INVARIANTS
    EachRowOnce
    FramesSayWhatWasSent
CHECK_DEADLOCK FALSE
