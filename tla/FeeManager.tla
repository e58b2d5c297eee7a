----------------------------- MODULE FeeManager -----------------------------
(***************************************************************************)
(* FeeManagerV3: custody of the curve trading fees of all launch tokens,   *)
(* the recipients they are paid to, and their rotation                     *)
(* (contracts/src/v3/FeeManagerV3.sol).                                    *)
(*                                                                         *)
(* A call that reverts is a step not taken.  The three claim functions pay *)
(* native USDC to an account that may run code before the call returns:    *)
(* a claim is a step that does the bookkeeping and sends the value, and a  *)
(* later step that returns and releases the reentrancy lock.  In between   *)
(* every function without `nonReentrant' may be called.                    *)
(*                                                                         *)
(* The variables under "History" are not in the contract; they record what *)
(* the properties speak about.  Definitions marked "Variant" are faulty    *)
(* forms of the one that follows them, not part of the specification; the  *)
(* README says which property each of them breaks.                         *)
(***************************************************************************)
EXTENDS Integers, FiniteSets, Functions

CONSTANTS
    Tokens,             \* launch tokens
    Users,              \* accounts that create tokens and receive payouts
    Owners,             \* governance accounts (Ownable2Step)
    Treasuries,         \* candidate protocol treasuries
    CTOTreasuries,      \* treasury contracts deployed by the CTO registry
    None,               \* address(0)
    FeeSplits,          \* fee splits a curve may deposit
    TreasuryRotationDelay,
    MaxTime,            \* bound of the clock
    MaxDeposits,        \* bound on deposits
    MaxStray            \* bound on native value that arrives without a call

Recipients == Users \union CTOTreasuries

SplitType == [creator : Nat, protocol : Nat, community : Nat, traderRewards : Nat]

ASSUME FeeManagerConstants ==
    /\ FeeSplits \subseteq SplitType
    /\ TreasuryRotationDelay \in Nat /\ MaxTime \in Nat
    /\ MaxDeposits \in Nat /\ MaxStray \in Nat
    /\ None \notin Recipients /\ None \notin Treasuries /\ None \notin Owners
    /\ Users \cap CTOTreasuries = {}
    /\ IsFiniteSet(Users) /\ IsFiniteSet(CTOTreasuries)     \* addresses

VARIABLES
    owner, pendingOwner,
    treasury, pendingTreasury, pendingTreasuryAcceptAfter,
    factorySet,                     \* setFactoryOnce has run
    vaultsBound,                    \* bindEcosystemVaultsOnce has run
    creatorOf, creatorPayoutOf, pendingCreatorPayoutOf,
    creatorFeesAccrued, checkpointedCreatorFees, totalCreatorFeesAccrued,
    protocolFeesAccrued,
    communityFeesAccrued, communityFeesAccruedByToken,
    traderRewardsFeesAccrued, traderRewardsFeesAccruedByToken,
    ctoActive, ctoTreasuryOf,
    locked,                         \* a claim is between its payment and its return
    balance,                        \* native USDC held
    now,                            \* block.timestamp
    \* History
    proposedBy, proposedAt,         \* of the pending treasury
    deposits,                       \* number of deposits
    stray,                          \* native value that arrived without a call
    creatorIn,                      \* creator fees ever deposited, per token
    cutoff,                         \* creatorIn when the CTO was activated
    creatorPaid                     \* creator fees paid, per token and recipient

ownership == <<owner, pendingOwner>>
rotation == <<treasury, pendingTreasury, pendingTreasuryAcceptAfter, proposedBy, proposedAt>>
bindings == <<factorySet, vaultsBound>>
payouts == <<creatorOf, creatorPayoutOf, pendingCreatorPayoutOf>>
creatorBooks == <<creatorFeesAccrued, checkpointedCreatorFees, totalCreatorFeesAccrued,
                  creatorIn, creatorPaid>>
communityBooks == <<communityFeesAccrued, communityFeesAccruedByToken>>
traderBooks == <<traderRewardsFeesAccrued, traderRewardsFeesAccruedByToken>>
arrivals == <<deposits, stray>>
money == <<creatorBooks, protocolFeesAccrued, communityBooks, traderBooks, balance, arrivals>>
cto == <<ctoActive, ctoTreasuryOf, cutoff>>
feeVars == <<ownership, rotation, bindings, payouts, money, cto, locked, now>>

TypeOK ==
    /\ owner \in Owners \union {None} /\ pendingOwner \in Owners \union {None}
    /\ treasury \in Treasuries /\ pendingTreasury \in Treasuries \union {None}
    /\ pendingTreasuryAcceptAfter \in Nat
    /\ factorySet \in BOOLEAN /\ vaultsBound \in BOOLEAN
    /\ creatorOf \in [Tokens -> Users \union {None}]
    /\ creatorPayoutOf \in [Tokens -> Recipients \union {None}]
    /\ pendingCreatorPayoutOf \in [Tokens -> Recipients \union {None}]
    /\ creatorFeesAccrued \in [Tokens -> Nat]
    /\ checkpointedCreatorFees \in [Tokens -> [Recipients -> Nat]]
    /\ totalCreatorFeesAccrued \in Nat /\ protocolFeesAccrued \in Nat
    /\ communityFeesAccrued \in Nat /\ traderRewardsFeesAccrued \in Nat
    /\ communityFeesAccruedByToken \in [Tokens -> Nat]
    /\ traderRewardsFeesAccruedByToken \in [Tokens -> Nat]
    /\ ctoActive \in [Tokens -> BOOLEAN]
    /\ ctoTreasuryOf \in [Tokens -> CTOTreasuries \union {None}]
    /\ locked \in BOOLEAN /\ balance \in Nat /\ now \in Nat
    /\ proposedBy \in Owners \union {None} /\ proposedAt \in Nat
    /\ deposits \in Nat /\ stray \in Nat
    /\ creatorIn \in [Tokens -> Nat] /\ cutoff \in [Tokens -> Nat]
    /\ creatorPaid \in [Tokens -> [Recipients -> Nat]]

Init ==
    /\ owner \in Owners /\ pendingOwner = None
    /\ treasury \in Treasuries /\ pendingTreasury = None
    /\ pendingTreasuryAcceptAfter = 0
    /\ factorySet = FALSE /\ vaultsBound = FALSE
    /\ creatorOf = [t \in Tokens |-> None]
    /\ creatorPayoutOf = [t \in Tokens |-> None]
    /\ pendingCreatorPayoutOf = [t \in Tokens |-> None]
    /\ creatorFeesAccrued = [t \in Tokens |-> 0]
    /\ checkpointedCreatorFees = [t \in Tokens |-> [r \in Recipients |-> 0]]
    /\ totalCreatorFeesAccrued = 0 /\ protocolFeesAccrued = 0
    /\ communityFeesAccrued = 0 /\ traderRewardsFeesAccrued = 0
    /\ communityFeesAccruedByToken = [t \in Tokens |-> 0]
    /\ traderRewardsFeesAccruedByToken = [t \in Tokens |-> 0]
    /\ ctoActive = [t \in Tokens |-> FALSE]
    /\ ctoTreasuryOf = [t \in Tokens |-> None]
    /\ locked = FALSE /\ balance = 0 /\ now = 0
    /\ proposedBy = None /\ proposedAt = 0 /\ deposits = 0 /\ stray = 0
    /\ creatorIn = [t \in Tokens |-> 0] /\ cutoff = [t \in Tokens |-> 0]
    /\ creatorPaid = [t \in Tokens |-> [r \in Recipients |-> 0]]

-----------------------------------------------------------------------------
(* Setup *)

setFactoryOnce ==
    /\ ~factorySet
    /\ factorySet' = TRUE
    /\ UNCHANGED <<vaultsBound, ownership, rotation, payouts, money, cto, locked, now>>

\* The factory registers a token with its curve; the creator is the payout.
registerToken(token, creator) ==
    /\ factorySet
    /\ creatorOf[token] = None
    /\ creatorOf' = [creatorOf EXCEPT ![token] = creator]
    /\ creatorPayoutOf' = [creatorPayoutOf EXCEPT ![token] = creator]
    /\ UNCHANGED <<pendingCreatorPayoutOf, ownership, rotation, bindings, money, cto,
                   locked, now>>

bindEcosystemVaultsOnce ==
    /\ ~vaultsBound
    /\ vaultsBound' = TRUE
    /\ UNCHANGED <<factorySet, ownership, rotation, payouts, money, cto, locked, now>>

-----------------------------------------------------------------------------
(* Fees in.  Only the token's curve may deposit and the value must equal   *)
(* the sum of the parts, which is what `fee' stands for here.              *)

depositFees(token, fee) ==
    /\ creatorOf[token] # None
    /\ deposits < MaxDeposits
    /\ deposits' = deposits + 1
    /\ protocolFeesAccrued' = protocolFeesAccrued + fee.protocol
    /\ creatorFeesAccrued' = [creatorFeesAccrued EXCEPT ![token] = @ + fee.creator]
    /\ totalCreatorFeesAccrued' = totalCreatorFeesAccrued + fee.creator
    /\ communityFeesAccrued' = communityFeesAccrued + fee.community
    /\ traderRewardsFeesAccrued' = traderRewardsFeesAccrued + fee.traderRewards
    /\ communityFeesAccruedByToken' =
         [communityFeesAccruedByToken EXCEPT ![token] = @ + fee.community]
    /\ traderRewardsFeesAccruedByToken' =
         [traderRewardsFeesAccruedByToken EXCEPT ![token] = @ + fee.traderRewards]
    /\ balance' = balance + fee.creator + fee.protocol + fee.community + fee.traderRewards
    /\ creatorIn' = [creatorIn EXCEPT ![token] = @ + fee.creator]
    /\ UNCHANGED <<ownership, rotation, bindings, payouts, checkpointedCreatorFees,
                   creatorPaid, stray, cto, locked, now>>

\* Native value that reaches the contract without receive() running: on Arc a plain
\* ERC-20 transfer of USDC, elsewhere a selfdestruct.  No function takes it out.
ForceNative(amount) ==
    /\ stray + amount <= MaxStray
    /\ stray' = stray + amount
    /\ balance' = balance + amount
    /\ UNCHANGED <<ownership, rotation, bindings, payouts, creatorBooks,
                   protocolFeesAccrued, communityBooks, traderBooks, deposits, cto,
                   locked, now>>

-----------------------------------------------------------------------------
(* Creator payout: proposed by the creator, accepted by the payee. *)

clearPendingPayout(token) ==
    pendingCreatorPayoutOf' = [pendingCreatorPayoutOf EXCEPT ![token] = None]

proposeCreatorPayout(token, proposed) ==
    /\ creatorOf[token] # None /\ ~ctoActive[token]
    /\ proposed # creatorPayoutOf[token]
    /\ pendingCreatorPayoutOf' = [pendingCreatorPayoutOf EXCEPT ![token] = proposed]
    /\ UNCHANGED <<creatorOf, creatorPayoutOf, ownership, rotation, bindings, money, cto,
                   locked, now>>

\* A CTO treasury contract has no way to accept a payout.
acceptCreatorPayout(token) ==
    /\ ~ctoActive[token]
    /\ pendingCreatorPayoutOf[token] \in Users
    /\ creatorPayoutOf' = [creatorPayoutOf EXCEPT ![token] = pendingCreatorPayoutOf[token]]
    /\ clearPendingPayout(token)
    /\ UNCHANGED <<creatorOf, ownership, rotation, bindings, money, cto, locked, now>>

cancelCreatorPayout(token) ==
    /\ ~ctoActive[token]
    /\ pendingCreatorPayoutOf[token] # None
    /\ clearPendingPayout(token)
    /\ UNCHANGED <<creatorOf, creatorPayoutOf, ownership, rotation, bindings, money, cto,
                   locked, now>>

-----------------------------------------------------------------------------
(* Protocol treasury: proposed by the owner, accepted after a delay. *)

clearPendingTreasury ==
    /\ pendingTreasury' = None
    /\ pendingTreasuryAcceptAfter' = 0
    /\ proposedBy' = None
    /\ proposedAt' = 0

proposeTreasury(proposed) ==
    /\ owner # None
    /\ proposed # treasury
    /\ pendingTreasury' = proposed
    /\ pendingTreasuryAcceptAfter' = now + TreasuryRotationDelay
    /\ proposedBy' = owner /\ proposedAt' = now
    /\ UNCHANGED <<treasury, ownership, bindings, payouts, money, cto, locked, now>>

acceptTreasury ==
    /\ pendingTreasury # None
    /\ now >= pendingTreasuryAcceptAfter
    /\ treasury' = pendingTreasury
    /\ clearPendingTreasury
    /\ UNCHANGED <<ownership, bindings, payouts, money, cto, locked, now>>

cancelTreasuryProposal ==
    /\ owner # None
    /\ pendingTreasury # None
    /\ clearPendingTreasury
    /\ UNCHANGED <<treasury, ownership, bindings, payouts, money, cto, locked, now>>

\* Variant: the new owner inherits the proposal.
transferOwnershipWithProposal(newOwner) ==
    /\ owner' = newOwner
    /\ pendingOwner' = None
    /\ UNCHANGED <<rotation, bindings, payouts, money, cto, locked, now>>

\* _transferOwnership: a new owner starts without the old one's proposal.
\* Without a proposal the four fields are already clear.
transferOwnershipTo(newOwner) ==
    /\ owner' = newOwner
    /\ pendingOwner' = None
    /\ clearPendingTreasury
    /\ UNCHANGED <<treasury, bindings, payouts, money, cto, locked, now>>

\* Proposing address(0) withdraws the transfer.
transferOwnership(newOwner) ==
    /\ owner # None
    /\ pendingOwner' = newOwner
    /\ UNCHANGED <<owner, rotation, bindings, payouts, money, cto, locked, now>>

acceptOwnership == pendingOwner # None /\ transferOwnershipTo(pendingOwner)

renounceOwnership == owner # None /\ transferOwnershipTo(None)

-----------------------------------------------------------------------------
(* Claims.  Anyone may call; the recipient is fixed by the contract.  The  *)
(* step sends the value; claimReturns ends the call.                       *)

claimProtocolFees ==
    /\ ~locked /\ locked' = TRUE
    /\ protocolFeesAccrued > 0
    /\ protocolFeesAccrued' = 0
    /\ balance' = balance - protocolFeesAccrued
    /\ UNCHANGED <<ownership, rotation, bindings, payouts, creatorBooks, communityBooks,
                   traderBooks, arrivals, cto, now>>

\* Variant: the total keeps what was paid.
payCreatorOffTheBooks(token, recipient, amount) ==
    /\ amount > 0 /\ amount <= totalCreatorFeesAccrued
    /\ balance' = balance - amount
    /\ creatorPaid' = [creatorPaid EXCEPT ![token][recipient] = @ + amount]
    /\ UNCHANGED totalCreatorFeesAccrued

\* What both creator claims do with the amount they took off a book; the checked
\* subtraction reverts where the total would not cover it.
payCreator(token, recipient, amount) ==
    /\ amount > 0 /\ amount <= totalCreatorFeesAccrued
    /\ totalCreatorFeesAccrued' = totalCreatorFeesAccrued - amount
    /\ balance' = balance - amount
    /\ creatorPaid' = [creatorPaid EXCEPT ![token][recipient] = @ + amount]

claimCreatorFees(token) ==
    /\ ~locked /\ locked' = TRUE
    /\ creatorFeesAccrued' = [creatorFeesAccrued EXCEPT ![token] = 0]
    /\ payCreator(token, creatorPayoutOf[token], creatorFeesAccrued[token])
    /\ UNCHANGED <<ownership, rotation, bindings, payouts, checkpointedCreatorFees,
                   creatorIn, protocolFeesAccrued, communityBooks, traderBooks,
                   arrivals, cto, now>>

claimCheckpointedCreatorFees(token, recipient) ==
    /\ ~locked /\ locked' = TRUE
    /\ checkpointedCreatorFees' = [checkpointedCreatorFees EXCEPT ![token][recipient] = 0]
    /\ payCreator(token, recipient, checkpointedCreatorFees[token][recipient])
    /\ UNCHANGED <<ownership, rotation, bindings, payouts, creatorFeesAccrued,
                   creatorIn, protocolFeesAccrued, communityBooks, traderBooks,
                   arrivals, cto, now>>

claimReturns ==
    /\ locked /\ locked' = FALSE
    /\ UNCHANGED <<ownership, rotation, bindings, payouts, money, cto, now>>

\* The vaults are contracts of the protocol that only record the deposit.
fundCommunityVault(token) ==
    LET amount == communityFeesAccruedByToken[token]
    IN  /\ ~locked /\ vaultsBound
        /\ amount > 0 /\ amount <= communityFeesAccrued
        /\ communityFeesAccruedByToken' =
             [communityFeesAccruedByToken EXCEPT ![token] = 0]
        /\ communityFeesAccrued' = communityFeesAccrued - amount
        /\ balance' = balance - amount
        /\ UNCHANGED <<ownership, rotation, bindings, payouts, creatorBooks,
                       protocolFeesAccrued, traderBooks, arrivals, cto, locked, now>>

fundTraderRewardsVault(token) ==
    LET amount == traderRewardsFeesAccruedByToken[token]
    IN  /\ ~locked /\ vaultsBound
        /\ amount > 0 /\ amount <= traderRewardsFeesAccrued
        /\ traderRewardsFeesAccruedByToken' =
             [traderRewardsFeesAccruedByToken EXCEPT ![token] = 0]
        /\ traderRewardsFeesAccrued' = traderRewardsFeesAccrued - amount
        /\ balance' = balance - amount
        /\ UNCHANGED <<ownership, rotation, bindings, payouts, creatorBooks,
                       protocolFeesAccrued, communityBooks, arrivals, cto, locked, now>>

-----------------------------------------------------------------------------
(* The CTO registry routes the creator fees to a CTO treasury: what has    *)
(* accrued stays with the recipient it accrued for.                        *)

\* Variant: the new recipient inherits the accrued fees.
inheritCreatorFees(token) == UNCHANGED <<creatorFeesAccrued, checkpointedCreatorFees>>

checkpointCreatorFees(token) ==
    /\ checkpointedCreatorFees' =
         [checkpointedCreatorFees EXCEPT
            ![token][creatorPayoutOf[token]] = @ + creatorFeesAccrued[token]]
    /\ creatorFeesAccrued' = [creatorFeesAccrued EXCEPT ![token] = 0]

activateCTO(token, ctoTreasury) ==
    /\ ~ctoActive[token]
    /\ creatorPayoutOf[token] # None
    /\ checkpointCreatorFees(token)
    /\ clearPendingPayout(token)
    /\ creatorPayoutOf' = [creatorPayoutOf EXCEPT ![token] = ctoTreasury]
    /\ ctoTreasuryOf' = [ctoTreasuryOf EXCEPT ![token] = ctoTreasury]
    /\ ctoActive' = [ctoActive EXCEPT ![token] = TRUE]
    /\ cutoff' = [cutoff EXCEPT ![token] = creatorIn[token]]
    /\ UNCHANGED <<creatorOf, ownership, rotation, bindings, totalCreatorFeesAccrued,
                   creatorIn, creatorPaid, protocolFeesAccrued, communityBooks,
                   traderBooks, balance, arrivals, locked, now>>

-----------------------------------------------------------------------------

Tick ==
    /\ now < MaxTime
    /\ now' = now + 1
    /\ UNCHANGED <<ownership, rotation, bindings, payouts, money, cto, locked>>

\* Everything but the call that comes from the registry.
FeeStep ==
    \/ setFactoryOnce
    \/ bindEcosystemVaultsOnce
    \/ \E t \in Tokens :
         \/ \E u \in Users : registerToken(t, u)
         \/ \E fee \in FeeSplits : depositFees(t, fee)
         \/ \E r \in Recipients : proposeCreatorPayout(t, r)
         \/ acceptCreatorPayout(t)
         \/ cancelCreatorPayout(t)
         \/ claimCreatorFees(t)
         \/ \E r \in Recipients : claimCheckpointedCreatorFees(t, r)
         \/ fundCommunityVault(t)
         \/ fundTraderRewardsVault(t)
    \/ \E tr \in Treasuries : proposeTreasury(tr)
    \/ acceptTreasury
    \/ cancelTreasuryProposal
    \/ \E o \in Owners \union {None} : transferOwnership(o)
    \/ acceptOwnership
    \/ renounceOwnership
    \/ claimProtocolFees
    \/ claimReturns
    \/ \E n \in 1 .. MaxStray : ForceNative(n)

Next ==
    \/ FeeStep
    \/ \E t \in Tokens, c \in CTOTreasuries : activateCTO(t, c)
    \/ Tick

Spec == Init /\ [][Next]_feeVars

-----------------------------------------------------------------------------
(* Properties *)

totalLiabilities ==
    protocolFeesAccrued + totalCreatorFeesAccrued + communityFeesAccrued
      + traderRewardsFeesAccrued

\* The contract holds what it owes after every call, and also while a recipient
\* runs code inside a claim; what was forced into it comes on top, and no claim
\* or funding ever pays any of it out (depositFees, the claims, the fund functions
\* and activateCTO move `totalLiabilities' and the balance alike).
Backed == balance = totalLiabilities + stray

CheckpointedOf(t) == SumFunction(checkpointedCreatorFees[t])

CreatorOwed(t) == creatorFeesAccrued[t] + CheckpointedOf(t)

PaidTo(t, R) == SumFunctionOnSet(creatorPaid[t], R)

\* The cutoff of a community takeover: a token's creator fees from before
\* activateCTO are paid to users or stay checkpointed for them, those from after
\* it are paid to that token's CTO treasury or still accrue to it.  No sequence
\* of payout changes, claims and the takeover moves a fee across the cutoff.
CutoffRespected ==
    \A t \in Tokens :
      LET toUsers == PaidTo(t, Users) + CheckpointedOf(t)
      IN  IF ctoActive[t]
          THEN /\ toUsers = cutoff[t]
               /\ creatorPaid[t][ctoTreasuryOf[t]] + creatorFeesAccrued[t]
                    = creatorIn[t] - cutoff[t]
          ELSE toUsers + creatorFeesAccrued[t] = creatorIn[t]

\* An account other than the CTO treasury that was proposed as payout before the
\* takeover can never take the fee route back: activateCTO voids the proposal and
\* proposeCreatorPayout, acceptCreatorPayout and activateCTO refuse from then on.
CTOHoldsTheRoute ==
    \A t \in Tokens :
      ctoActive[t] => /\ creatorPayoutOf[t] = ctoTreasuryOf[t]
                      /\ pendingCreatorPayoutOf[t] = None

\* A takeover is never undone, nor handed to another treasury.
CTOIsFinal ==
    [][\A t \in Tokens :
         ctoActive[t] => /\ ctoActive'[t]
                         /\ ctoTreasuryOf'[t] = ctoTreasuryOf[t]
                         /\ creatorPayoutOf'[t] = creatorPayoutOf[t]]_feeVars

\* The protocol treasury changes only to the proposed one, after the full delay
\* since its last proposal, and only if the owner who proposed it still governs
\* (proposeTreasury, acceptTreasury and the clearing in _transferOwnership).
RotationWaits ==
    [][treasury' # treasury =>
         /\ treasury' = pendingTreasury
         /\ now >= proposedAt + TreasuryRotationDelay
         /\ proposedBy = owner]_feeVars
=============================================================================
