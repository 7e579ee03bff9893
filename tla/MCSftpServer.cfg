\* A writing session and a read-only one over two names.
CONSTANTS
    Names = {a, b}
    Top = root
    Inodes = {1}
    Streams = {1, 2}
    MaxSize = 1
    Tags = {x, y}
    None = None
    Sessions = {s, r}
    ReadOnly = {r}
    MaxHandles = 1
    MaxId = 2
    OpenModes <- MCOpenModes
SYMMETRY Symmetric
SPECIFICATION Spec
CHECK_DEADLOCK FALSE
INVARIANTS
    HandlesExact
    AckedHeld
    ReadOnlyKept
