CONSTANTS
    u1 = u1
    u2 = u2
    n1 = n1
    n2 = n2
    a1 = a1
    k1 = k1
    Users = {u1, u2}
    Names = {n1, n2}
    AlbionIds = {a1}
    NoName = NoName
    NoAlbion = NoAlbion
    Keys = {k1}
    Deltas <- BothWays
    Amounts = {1}
    PartySize = 2
    MaxInteger = 2
    MaxRevision = 3
    MaxHistory = 2
SYMMETRY Accounts
SPECIFICATION Spec
INVARIANTS
    AuditExplainsPlayers
    RecordedOnce
    CurrentSiphonIsRight
    OwnershipIsUnique
    RevisionsAreAnnounced
CHECK_DEADLOCK FALSE
