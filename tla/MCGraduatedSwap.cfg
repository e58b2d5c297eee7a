SPECIFICATION Spec
CONSTANTS
    w1 = w1
    w2 = w2
    None = None
    Wallets = {w1, w2}
    MaxAmount = 1
    MaxRequests = 2
    MaxSends = 2
    MaxWalletChanges = 2
INVARIANTS ConfirmedIsTheReviewedSwap ModalFollowsTheSwap
SYMMETRY WalletSymmetry
\* A run ends when the transactions and the account changes are used up.
CHECK_DEADLOCK FALSE
