SPECIFICATION FairSpec
CHECK_DEADLOCK FALSE
CONSTANTS
    TOTAL_NB_CHNNEL = 3
    AFH_HOP = 2
    channel_map = {0, 1}
    AFH_NB_CHANNEL_MAX = 2
    AUTO_FLUSH_CNT_THRES = 1
    AFH_GOOD_CHNL_QLTY_THRES = 1
    NB_BROADCAST = 1
    MaxMisled = 0
INVARIANTS
    HopTogether
    MapsKept
PROPERTIES
    StrandedForGood
    RadiosGoOn
