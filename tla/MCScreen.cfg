SPECIFICATION ScreenSpec
CONSTANTS
    Sizes <- MCSizes
    FirstSize <- MCFirst
    TabStop = 2
    CsiMax = 3
    IntMax = 7
    Overflowed <- MCOverflowed
    Text <- MCText
    Letters = {"p"}
    Numbers = {"1", "2", "9"}
    ReadSizes = {5, 8}
    MaxBytes = 5
CHECK_DEADLOCK FALSE
INVARIANTS
    OnScreen
    SnapshotShown
PROPERTIES
    OutsideKept
