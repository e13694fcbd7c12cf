\* A stage of an encrypted volume times out once.
SPECIFICATION FairSpec
CONSTANTS
    None = None
    Released = Released
    Bare = Bare
    v1 = v1
    v2 = v2
    p1 = p1
    p2 = p2
    Volumes = {v1}
    Encrypted = {v1}
    LoopDevs = {d1}
    Pods = {p1}
    VolumeOf <- MCVolumeOf
    Hazards = {"timeout"}
    MaxFaults = 1
    Serial = TRUE
    Signal = "emergency_ro"
PROPERTY StagingConverges
