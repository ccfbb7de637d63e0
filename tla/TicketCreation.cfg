CONSTANTS
    o1 = o1
    o2 = o2
    u1 = u1
    Ops = {o1, o2}
    Users = {u1}
    Opener <- BothOf
    Sweep = Sweep
    MaxMade = 2
    MaxTurns = 1
SPECIFICATION Spec
INVARIANTS
    CreatedOnce
    OneTicketPerOpener
    CompletedIsUsable
CHECK_DEADLOCK FALSE
