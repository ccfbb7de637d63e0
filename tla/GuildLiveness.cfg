CONSTANTS
    s1 = s1
    s2 = s2
    t1 = t1
    t2 = t2
    w1 = w1
    w2 = w2
    NoTarget = NoTarget
    NoServer = NoServer
    NoWizard = NoWizard
    Servers = {s1}
    Targets = {t1, t2}
    Wizards = {w1}
    MaxFiles = 1
    MaxTurns = 3
SPECIFICATION FairSpec
PROPERTIES
    TeardownsEnd
CHECK_DEADLOCK FALSE
