SPECIFICATION Spec
CHECK_DEADLOCK FALSE
CONSTANTS
    old = old
    new = new
    bad = bad
    Image <- MCImage
    MasterImage = {old}
    Version <- MCVersionOld
    Size <- MCSize
    Sealed <- MCSealed
    BlockLen = 48
    BadCRC = BadCRC
    FactoryImage = {new}
    MaxBlock = 3
    EraseSpan = 3
    Erased = Erased
    Garbage = Garbage
    NoData = NoData
    MaxHeld = 0
    MaxPress = 1
PROPERTIES
    NeverOlder
