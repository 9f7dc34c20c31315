SPECIFICATION Spec
CONSTANTS
    Slots = 2
    Wrap = 12
    Margin = 3
    Interval = {1, 5}
    MaxGap = 2
    Item = {a, b}
    Nothing = Nothing
    MaxNumber = 1
    Byte = {x, y}
    size = 3
    Bits = 2
    SOFT_UART_REC_LEN_MAX = 2
    MaxFrame = 3
    Nobody = Nobody
    Behind = 0
    e1 = e1
    e2 = e2
    e3 = e3
    ListItem = {e1, e2, e3}
    NULL = NULL
    MMEM_SIZE = 3
    DeviceDesc = {"device", "product"}
    InterfaceDesc = {"hid"}
    DescLen <- MCDescLen
    AskLen = {8, 64}
    Value = {0, 1}
    DefaultValue = 0
    Patient = TRUE
    Key = {0, 1, 2}
    MaxLength = 9
    threshold = 2
    USB_FIFO_NUM = 2
    KbData <- MCKbData
    Drive = {1}
    ScanPin = {1, 2}
    ReleaseCnt = 3
    BuffNum = 2
    Rank <- MCRank
    HashItem = {e1, e2, e3}
    Hashv <- MCHashv
    InitialBuckets = 1
    HASH_BKT_CAPACITY_THRESH = 2
    MaxBuckets = 8
    TRANS_BUF_LEN = 3
    LineMod = 8
    SysClock = {16, 24, 32, 48}
    Baud = {96, 192, 384, 576, 1152, 2304, 4608, 10000}
    CalledPin <- MCCalledPin
    WatchedPin <- MCWatchedPin
    BoardOutput <- MCBoardOutput
    BoardPull <- MCBoardPull
    WdTicks = {91, 274}
    MaxCalls = 2
INVARIANTS
    TypeOK
    NotEarly
    NotLate
    FrameIntact
    BlocksKept
    AnswerIsAsked
    SortsWell
    DemoGoesOn
    PaOffAtRest
    TestIsRight
    KeysAsPressed
    ListsAndTables
    UartSound
    PinsAsTold
PROPERTIES
    QueueIsFifo
    RingIsFifo
    ListIsSequence
