SPECIFICATION TransferSpec
CONSTANTS
    Universe <- MCUniverse
    Sources <- MCSources
    Targets <- JustEmpty
    Squatters <- MCSquatters
    Batch = 1
    MaxChanges = 0
    MaxAttempts = 1
    NoKey = NoKey
    NoLink = NoLink
INVARIANT MissingParentIsReported
CHECK_DEADLOCK FALSE
