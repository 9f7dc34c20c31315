SPECIFICATION Spec
CHECK_DEADLOCK FALSE
CONSTANTS
    old = old
    new = new
    bad = bad
    Image <- MCImage
    MasterImage = {new, bad}
    Version <- MCVersion
    Size <- MCSize
    Sealed <- MCSealed
    BlockLen = 48
    BadCRC = BadCRC
    FactoryImage = {old}
    MaxBlock = 3
    EraseSpan = 2
    Erased = Erased
    Garbage = Garbage
    NoData = NoData
    MaxHeld = 1
    MaxPress = 2
INVARIANTS
    TypeOK
    BootSafe
    OneOutstanding
    BlockSync
    ReceivedIsSent
PROPERTIES
    RunningBankUntouched
    UpdateIsAtomic
