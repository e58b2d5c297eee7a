CONSTANTS
    None = None
    StartBlock = 1
    Confirmations = 1
    BatchSize = 3
    ReorgDepth = 3
    MaxHeight = 5
    MaxReorgs = 1
    MaxCrashes = 1
SPECIFICATION Spec
INVARIANTS NothingOrphaned NothingMissing ProjectionsMatchChain
PROPERTIES ConfirmationsProtect CatchesUp
