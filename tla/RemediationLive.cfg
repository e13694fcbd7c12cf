\* Two pods of a controller; the monitor and the kubelet go on.
SPECIFICATION FairSpec
CONSTANTS
    MaxPods = 2
    ByHand = FALSE
    Encrypted = FALSE
    Signal = "emergency_ro"
    AutoDelete = TRUE
    Hold = 1
    Hazards = {"api", "restart", "cmd"}
    MaxFaults = 1
PROPERTY Remediated
