CONSTANTS
    u1 = u1
    u2 = u2
    a1 = a1
    a2 = a2
    n1 = n1
    n2 = n2
    t1 = t1
    t2 = t2
    c1 = c1
    c2 = c2
    NoCharacter = NoCharacter
    NoName = NoName
    NoTarget = NoTarget
    NoCommand = NoCommand
    NoCheck = NoCheck
    NoAudit = NoAudit
    NoRecord = NoRecord
    Users = {u1}
    Characters = {a1}
    Names = {n1, n2}
    Targets = {t1, t2}
    LeaveActions = {"none", "kick"}
    Commands = {c1}
    Confirmations = 2
    MaxRevision = 2
    MaxTurns = 3
SYMMETRY Everybody
SPECIFICATION Spec
PROPERTIES
    DeparturesAreJustified
    RoleOnlyToActive
CHECK_DEADLOCK FALSE
