SPECIFICATION FairSpec
CHECK_DEADLOCK FALSE
CONSTANTS
    old = old
    new = new
    bad = bad
    Image <- MCImage
    MasterImage = {new}
    Version <- MCVersion
    Size <- MCSize
    Sealed <- MCSealed
    BlockLen = 48
    BadCRC = BadCRC
    FactoryImage = {old, new}
    MaxBlock = 3
    EraseSpan = 3
    Erased = Erased
    Garbage = Garbage
    NoData = NoData
    MaxHeld = 0
    MaxPress = 2
PROPERTIES
    SessionsEnd
