\* One token, one payee, two proposals, windows of one tick and no grace period.
SPECIFICATION PanelSpec
CONSTANTS
    t1 = t1
    alice = alice
    gov = gov
    treasury1 = treasury1
    None = None
    Page = t1
    Tokens = {t1}
    Users = {alice}
    Owners = {gov}
    Treasuries = {treasury1}
    CTOTreasuries <- MCCTOTreasuries
    FeeSplits <- MCFeeSplits
    TreasuryRotationDelay = 1
    MaxTime = 3
    MaxDeposits = 0
    MaxStray = 0
    AcceptanceWindow = 1
    ExecutionDelay = 1
    ExecutionGracePeriod = 0
    MaxNonce = 2
    MaxLPFees = 0
ACTION_CONSTRAINTS ProposalsOnly ClockStarts
INVARIANTS
    OffersAreNeverEarly
    ConfirmedActionIsShown
CHECK_DEADLOCK FALSE
