SPECIFICATION FairSpec
CONSTANTS
    Emoji = {"sword", "bow"}
    Role = {"tank", "healer"}
    MaxReactions = 2
    Member = {"ann"}
    MaxClicks = 2
    MaxEdits = 2
    MaxFaults = 1
INVARIANTS
    RolesAgree
    MappedRolesAreKept
PROPERTIES
    RolesSettle
CHECK_DEADLOCK FALSE
