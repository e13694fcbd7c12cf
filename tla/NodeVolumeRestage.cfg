\* An encrypted volume shared by two pods, I/O errors and every other fault.
SPECIFICATION Spec
CONSTANTS
    None = None
    Released = Released
    Bare = Bare
    v1 = v1
    v2 = v2
    p1 = p1
    p2 = p2
    Volumes = {v1}
    Encrypted = {v1}
    LoopDevs = {d1, d2}
    Pods = {p1, p2}
    VolumeOf <- MCVolumeOf
    Hazards = {"cmd", "findmnt", "timeout", "flush", "crash", "reboot", "ioerror"}
    MaxFaults = 2
    Serial = TRUE
    Signal = "emergency_ro"
SYMMETRY LoopSymmetry
INVARIANTS OneLoopPerImage NeverBareUndisturbed KeyHeldWhileStaged RestageSparesPublished
