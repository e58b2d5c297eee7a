SPECIFICATION Spec
CONSTANTS
    None = None
    Definitions = {d1}
    DevBuys = {"", "1", "x"}
    MaxAttempts = 1
    MaxLaunches = 2
    MaxBuys = 2
    MaxReorgs = 1
    MaxFaults = 1
INVARIANTS
    LinkedMetadataIsNotLost
    PageTellsTheTruth
PROPERTY PromisedMetadataAppears
\* A run ends when the submissions are used up and the page is left.
CHECK_DEADLOCK FALSE
