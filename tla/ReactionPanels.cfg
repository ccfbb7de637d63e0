SPECIFICATION FairPanelSpec
CONSTANTS
    MaxOps = 3
    MaxOverlaps = 1
    MaxChanges = 1
    MaxFailures = 1
INVARIANTS
    PanelsAgree
    DeletedStaysDeleted
PROPERTIES
    PublicationsSettle
CHECK_DEADLOCK FALSE
