SPECIFICATION FairSpec
CHECK_DEADLOCK FALSE
CONSTANTS
    TOTAL_NB_CHNNEL = 1
    AFH_HOP = 0
    channel_map = {0}
    AFH_NB_CHANNEL_MAX = 1
    AUTO_FLUSH_CNT_THRES = 2
    AFH_GOOD_CHNL_QLTY_THRES = 1
    NB_BROADCAST = 2
    MaxMisled = 0
PROPERTY
    ReportDealtWith
