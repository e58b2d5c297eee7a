\* Two traders, one of them on the page.
SPECIFICATION QuotedSpec
CONSTANTS
    CurveAllocation = 80
    LPAllocation = 20
    VirtualTokenReserve = 107
    VirtualNativeReserve = 6
    GraduationReserve = 18
    TotalFeeBps = 25
    FeeDenominator = 100
    t1 = t1
    t2 = t2
    Traders <- MCTraders
    Curve = Curve
    FeeManager = FeeManager
    GraduationManager = GraduationManager
    InitialNative = 13
    GrossInputs <- MCGrossInputs
    TokenInputs <- MCTokenInputs
    TransferAmounts <- MCTransferAmounts
    MinOuts <- MCMinOuts
    StrayTokens <- MCStrayTokens
    StrayNative <- MCStrayNative
    Payments <- MCPayments
    User = t1
    Tolerances <- MCTolerances
    BpsScale = 4
    QuoteLife = 1
    DeadlineAfter = 2
    MaxTime = 3
    MaxMoves = 2
    MaxPool = 2
ACTION_CONSTRAINT DeadlineInSight
INVARIANTS ReserveFollowsSupply GraduationIsExact QuotesNeverBreak
    NoRoundTripProfit CurveIsBacked
PROPERTIES ReviewedTermsHold
CHECK_DEADLOCK FALSE
