CONSTANTS
    SeqMod = 3
    CountMax = 1
    RekeyAfter = 1
    SkipMax = 2
    LineMax = 1
    MaxAuthTries = 1
    MaxKex = 2
    MaxQueue = 2
SPECIFICATION FairSpec
INVARIANTS
    KeysInStep
    StagesProtected
    QuietDuringExchange
PROPERTIES
    ExchangeSettles
