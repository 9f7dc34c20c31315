SPECIFICATION FairSpec
CHECK_DEADLOCK FALSE
CONSTANTS
    old = old
    new = new
    bad = bad
    Image <- MCImage
    MasterImage = {new, bad}
    Version <- MCVersion
    Size <- MCSize
    Sealed <- MCSealed
    BlockLen = 64
    BadCRC = BadCRC
    FactoryImage = {old}
    MaxBlock = 3
    EraseSpan = 3
    Erased = Erased
    Garbage = Garbage
    NoData = NoData
    TimerSlot = {1, 2}
    Noise = TRUE
    MaxHeld = 0
    MaxLate = 0
    MaxPress = 1
    Fails = FALSE
PROPERTIES
    SessionsEnd
