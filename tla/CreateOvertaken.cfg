\* A create is retried while the first attempt still runs.
SPECIFICATION FairSpecAll
CONSTANTS
    BlockSize = 8
    MaxInt = 31
    DefaultCapacity = 16
    MinSector = 2
    PageSize = 8
    Header = 8
    MinEncrypted = 16
    Ranges <- MCRanges
    Old = {}
    None = None
    Names = {n1}
    MaxHandlers = 2
    Hazards = {"timeout"}
    MaxFaults = 1
INVARIANT BoundHasImage
\* Names are used once: when the volume is deleted there is nothing to do.
CHECK_DEADLOCK FALSE
