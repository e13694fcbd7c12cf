\* Two volumes, two rotations, every fault, the kubelet retries.
SPECIFICATION FairSpec
CONSTANTS
    Volumes = {v1, v2}
    MaxKey = 3
    Hazards = {"cmd", "close", "timeout", "torn", "crash"}
    MaxFaults = 2
INVARIANTS TypeOK NeverLockedOut OnlyCurrentSlot PreparedHasFilesystem
PROPERTIES PrepareConverges KeepsCustody
