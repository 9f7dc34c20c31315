SPECIFICATION SoftSpec
CONSTANTS
    Bits = 2
    SOFT_UART_REC_LEN_MAX = 2
    MaxFrame = 3
    Nobody = Nobody
    Behind = 1
INVARIANTS
    FrameIntact
