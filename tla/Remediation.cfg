\* Two pods, together or one after the other, with and without a controller.
SPECIFICATION Spec
CONSTANTS
    MaxPods = 2
    ByHand = TRUE
    Encrypted = TRUE
    Signal = "emergency_ro"
    AutoDelete = TRUE
    Hold = 2
    Hazards = {"api", "restart", "cmd"}
    MaxFaults = 2
INVARIANTS TypeOK ReplacementSpared EventsOnce
PROPERTIES RoundsApart OnlyUsersDeleted
