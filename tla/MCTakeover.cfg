\* One token, two payees, two owners, two proposals, windows of one tick and no grace
\* period.
SPECIFICATION CTOSpec
CONSTANTS
    t1 = t1
    alice = alice  bob = bob
    gov = gov  dao = dao
    treasury1 = treasury1  treasury2 = treasury2
    None = None
    Tokens = {t1}
    Users = {alice, bob}
    Owners = {gov, dao}
    Treasuries = {treasury1, treasury2}
    CTOTreasuries <- MCCTOTreasuries
    FeeSplits <- MCFeeSplits
    TreasuryRotationDelay = 2
    MaxTime = 3
    MaxDeposits = 2
    MaxStray = 1
    AcceptanceWindow = 1
    ExecutionDelay = 1
    ExecutionGracePeriod = 0
    MaxNonce = 2
    MaxLPFees = 1
SYMMETRY UserSymmetry
ACTION_CONSTRAINT OneConcernAtATime
INVARIANTS
    Backed
    CutoffRespected
    LPCutoffRespected
    OneLiveProposal
PROPERTIES
    RotationWaits
    HandoverIsConsented
CHECK_DEADLOCK FALSE
