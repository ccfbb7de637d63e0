CONSTANTS
    u1 = u1
    u2 = u2
    a1 = a1
    a2 = a2
    n1 = n1
    n2 = n2
    t1 = t1
    t2 = t2
    c1 = c1
    c2 = c2
    NoCharacter = NoCharacter
    NoName = NoName
    NoTarget = NoTarget
    NoCommand = NoCommand
    NoCheck = NoCheck
    NoAudit = NoAudit
    NoRecord = NoRecord
    Users = {u1, u2}
    Characters = {a1}
    Names = {n1}
    Targets = {t1}
    LeaveActions = {"remove_roles"}
    Commands = {c1}
    Confirmations = 1
    MaxRevision = 1
    MaxTurns = 1
SPECIFICATION FairSpec
INVARIANTS
    RoleIsQueuedUnlessForgotten
PROPERTIES
    IntentsSettle
CHECK_DEADLOCK FALSE
