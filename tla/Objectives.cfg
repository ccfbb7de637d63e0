SPECIFICATION FairSpec
CONSTANTS
    Lock = "Lock"
    Removal = "Removal"
    Asked <- MCAsked
    Typed = {"map"}
    MaxPanels = 2
    MaxFaults = 2
INVARIANTS
    PanelsAgree
    AnnouncedOnce
    RemovedForGood
PROPERTIES
    ForeignRoleIsKept
    ObjectiveEnds
    RetirementCompletes
CHECK_DEADLOCK FALSE
