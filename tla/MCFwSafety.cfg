SPECIFICATION Spec
CHECK_DEADLOCK FALSE
CONSTANTS
    old = old
    new = new
    bad = bad
    Image <- MCImage
    MasterImage = {new}
    Version <- MCVersion
    Size <- MCSize
    Sealed <- MCSealed
    BlockLen = 64
    BadCRC = BadCRC
    FactoryImage = {old}
    MaxBlock = 3
    EraseSpan = 2
    Erased = Erased
    Garbage = Garbage
    NoData = NoData
    TimerSlot = {1, 2}
    Noise = TRUE
    MaxHeld = 0
    MaxLate = 1
    MaxPress = 1
    Fails = TRUE
INVARIANTS
    BootSafe
    WaitIsTimed
    OneTimer
    BlockSync
    ReceivedIsSent
PROPERTIES
    UpdateIsAtomic
