\* A plain volume shared by two pods, I/O errors and every other fault, the kubelet
\* retries.
SPECIFICATION FairSpec
CONSTANTS
    None = None
    Released = Released
    Bare = Bare
    v1 = v1
    v2 = v2
    p1 = p1
    p2 = p2
    Volumes = {v1}
    Encrypted = {}
    LoopDevs = {d1}
    Pods = {p1, p2}
    VolumeOf <- MCVolumeOf
    Hazards = {"cmd", "findmnt", "timeout", "flush", "crash", "reboot", "ioerror"}
    MaxFaults = 2
    Serial = TRUE
    Signal = "emergency_ro"
INVARIANT TypeOK
PROPERTIES StagingConverges Recovers StaleMarkClears
