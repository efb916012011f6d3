CONSTANTS
    PBUF_POOL_SIZE = 4
    RamSize = 3
    Host = {"h1", "h2", "h3"}
    Outside = {"far", "me"}
    Gw = "h1"
    ARP_TABLE_SIZE = 2
    ARP_MAXAGE = 3
    ARP_AGE_REREQUEST_USED = 2
    ARP_MAXPENDING = 2
    IP_REASS_MAX_PBUFS = 3
    IP_REASS_MAXAGE = 1
    MEMP_NUM_REASSDATA = 2
    MEMP_NUM_SYS_TIMEOUT = 3
    Loads <- MCLoads
    Interval <- MCInterval
SPECIFICATION FairSpec
INVARIANTS ReferencesHeld ReassemblyBounded RightNeighbour TimersArmed
PROPERTIES NoTimeoutHurried BuffersReturn
CHECK_DEADLOCK FALSE
