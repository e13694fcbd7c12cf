\* Two stores, two Gets, every fault, an export that may stay hung.
SPECIFICATION FairSpec
CONSTANTS
    None = None
    Params <- MCParams
    Export <- MCExport
    Gets = {g1, g2}
    Hazards = {"cmd", "check", "findmnt", "timeout", "adopt", "drop", "hang", "restart"}
    MaxFaults = 3
INVARIANTS TypeOK NeverStacks OneCheckInFlight RecordedSubDirExists Placement
PROPERTIES HandsOutLiveMount CheckNeverWedges
