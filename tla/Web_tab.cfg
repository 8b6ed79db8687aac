SPECIFICATION WebSpec
CONSTANTS
    MaxValues = 2
    MaxFails = 1
    MaxVisits = 2
    NoData = NoData
    MaxTyped = 2
    MaxTurns = 3
    MaxPatches = 2
    Ids = {a, b}
    None = None
    MaxAttempts = 3
    MaxLost = 2
    MaxOthers = 2
INVARIANT WebTypeOK
INVARIANT SavesWhatWasTyped
INVARIANT SuccessIsComplete
INVARIANT MovesOnce
PROPERTY ShowsTheTruth
PROPERTY EditsArrive
CHECK_DEADLOCK FALSE
