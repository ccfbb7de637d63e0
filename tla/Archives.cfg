CONSTANTS
    Button = Button
    Sweep = Sweep
    Trial = Trial
    MaxSaid = 2
    Files <- LastIsFile
    MaxAnchors = 2
    MaxFaults <- FaultsOf
SPECIFICATION ChannelSpec
INVARIANTS
    TrialAgrees
    DeletedOnlyWhenCopied
    CopiedOnce
PROPERTIES
    TrialMadeOnce
    FrozenIsFinished
    TrialEnds
CHECK_DEADLOCK FALSE
