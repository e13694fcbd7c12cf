\* The plugin is killed in the middle of a re-stage.
SPECIFICATION Spec
CONSTANTS
    None = None
    Released = Released
    Bare = Bare
    v1 = v1
    v2 = v2
    p1 = p1
    p2 = p2
    Volumes = {v1}
    Encrypted = {}
    LoopDevs = {d1}
    Pods = {p1}
    VolumeOf <- MCVolumeOf
    Hazards = {"crash", "ioerror"}
    MaxFaults = 1
    Serial = TRUE
    Signal = "emergency_ro"
INVARIANT NeverBare
