\* A plain or encrypted volume, new or of an older version, every fault.
SPECIFICATION FairSpecAll
CONSTANTS
    BlockSize = 8
    MaxInt = 31
    DefaultCapacity = 16
    MinSector = 2
    PageSize = 8
    Header = 8
    MinEncrypted = 16
    Ranges <- MCRanges
    Old <- MCOld
    None = None
    Names = {n1}
    MaxHandlers = 2
    Hazards = {"cmd", "truncate", "remove", "timeout", "restart"}
    MaxFaults = 2
INVARIANTS TypeOK BoundKeepsImage BoundIsFormatted DeletedIsGoneOnceKnown FitsDevice AlwaysMountable
PROPERTIES NeverShrinks AnswerInRange GrowthLands Provisioned
\* Names are used once: when the volume is deleted there is nothing to do.
CHECK_DEADLOCK FALSE
