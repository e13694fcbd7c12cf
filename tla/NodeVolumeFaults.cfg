\* Two encrypted volumes, every fault of the process and its commands,
\* concurrent publishes.
SPECIFICATION Spec
CONSTANTS
    None = None
    Released = Released
    Bare = Bare
    v1 = v1
    v2 = v2
    p1 = p1
    p2 = p2
    Volumes = {v1, v2}
    Encrypted = {v1, v2}
    LoopDevs = {d1, d2}
    Pods = {p1, p2}
    VolumeOf <- MCVolumeOf
    Hazards = {"cmd", "findmnt", "timeout", "flush", "crash", "reboot"}
    MaxFaults = 2
    Serial = FALSE
    Signal = "emergency_ro"
SYMMETRY LoopSymmetry
INVARIANTS OwnFilesystem EntryNamesOwnLoop
PROPERTY UnstageLeavesNothing
