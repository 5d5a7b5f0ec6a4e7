SPECIFICATION MCFairSpec
CHECK_DEADLOCK FALSE
CONSTANTS
    BarWindows = {w1, w2}
    Widths = {20, 30}
    MaxMoves = 2
INVARIANT RequestIsNotLost
PROPERTIES WidthsConverge RepairsSettle
