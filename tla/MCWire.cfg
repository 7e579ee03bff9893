SPECIFICATION LayersSpec
CONSTANTS
    Base = 8
    Word = 2
    FixedLen = 2
    Capacity = 24
    NameLists = 3
    MaxBlob = 1
    Uint32s = {10}
    Uint64s = {202}
    Texts <- MCTexts
    Offers <- MCOffers
    ServerLists <- MCServerLists
    FaultBytes = {0, 1, 2, 7}
    Block = 2
    PacketLens = {3, 4, 5}
    TimeoutIsZero = FALSE
    MaxPackets = 3
INVARIANTS
    InFrame
    NoFalseAlarm
    Understood
    Canonical
    SameChoice
PROPERTIES
    ArrivedDecoded
