SPECIFICATION PanelSpec
CONSTANTS
    MaxOps = 2
    MaxOverlaps = 1
    MaxChanges = 1
    MaxFailures = 0
INVARIANTS
    CommittedPanelIsKept
CHECK_DEADLOCK FALSE
