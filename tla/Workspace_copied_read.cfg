SPECIFICATION WorkspaceSpec
CONSTANTS
    Universe <- MCUniverse
    Sources <- MCSources
    Targets <- MCTargets
    Squatters <- MCSquatters
    Batch = 2
    MaxChanges = 3
    MaxAttempts = 3
    NoKey = NoKey
    NoLink = NoLink
    MaxTask = 3
    StartRows = 1
    Projects = {P}
    Horizon = 1
    MaxWrites = 3
    BacklogLimit = 3
    BriefLimit = 1
    LogPerTask = 1
    None = None
INVARIANT WorkspaceTypeOK
INVARIANT ImportIsSound
INVARIANT ListsAgree
INVARIANT GhostsAreHonest
INVARIANT BriefIsComplete
PROPERTY IsCopy
CHECK_DEADLOCK FALSE
