SPECIFICATION ScreenFairSpec
CONSTANTS
    Sizes <- MCSizes
    FirstSize <- MCFirst
    TabStop = 2
    CsiMax = 3
    IntMax = 7
    Overflowed <- MCOverflowed
    Text <- MCText
    Letters = {"p"}
    Numbers = {"0", "1", "2", "3"}
    ReadSizes = {40}
    MaxBytes = 2
CHECK_DEADLOCK FALSE
PROPERTY
    SnapshotSent
