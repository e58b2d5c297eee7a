SPECIFICATION Spec
CONSTANTS
    a1 = a1
    a2 = a2
    t1 = t1
    None = None
    Tabs = {t1}
    Accounts = {a1, a2}
    Sides = {"buy", "sell"}
    ScanBatch = 1
    MaxTrades = 2
    MaxHeight = 1
    MaxDisturbances = 2
ACTION_CONSTRAINT SecondSaleFirst
INVARIANT ShownOutcomeIsTrue
PROPERTY PanelKeepsTheSlot
SYMMETRY PanelSymmetry
\* A run ends when the trades are begun and the disturbances used up.
CHECK_DEADLOCK FALSE
