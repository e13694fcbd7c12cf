\* A re-stage times out in losetup --detach and is retried.
SPECIFICATION Spec
CONSTANTS
    None = None
    Released = Released
    Bare = Bare
    v1 = v1
    v2 = v2
    p1 = p1
    p2 = p2
    Volumes = {v1, v2}
    Encrypted = {}
    LoopDevs = {d1, d2}
    Pods = {p1, p2}
    VolumeOf <- MCVolumeOf
    Hazards = {"timeout", "ioerror"}
    MaxFaults = 1
    Serial = TRUE
    Signal = "emergency_ro"
SYMMETRY LoopSymmetry
INVARIANT OwnFilesystem
