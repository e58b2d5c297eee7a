----------------------------- MODULE MCTakeover -----------------------------
(***************************************************************************)
(* A small instance of CTORegistry, and of the fee manager inside it.      *)
(***************************************************************************)
EXTENDS CTORegistry, TLC

CONSTANTS t1, alice, bob, gov, dao, treasury1, treasury2

MCCTOTreasuries == Tokens \X (1 .. MaxNonce)

\* The four parts of a deposit differ, so that a part booked to another
\* beneficiary cannot go unnoticed.
MCFeeSplits ==
    {[creator |-> 1, protocol |-> 2, community |-> 3, traderRewards |-> 4]}

\* Payees are compared only for equality.
UserSymmetry == Permutations(Users)

(* Governance of the fee manager, the books of the beneficiaries other than the     *)
(* creator, and the takeover share no state but `now'.  The run explores the books  *)
(* with a second deposit, governance with one deposit, and the takeover with the    *)
(* others left alone and one deposit on either side of its cutoff, but not all      *)
(* three at once.                                                                   *)
TakeoverIdle ==
    \A t \in Tokens : tokenNonce[t] = 0 /\ ~graduated[t]

GovernanceIdle ==
    /\ owner = gov /\ pendingOwner = None /\ ~vaultsBound
    /\ treasury = treasury1 /\ pendingTreasury = None
    /\ proposedBy = None /\ proposedAt = 0
    /\ protocolFeesAccrued = 2 * deposits

OthersUnpaid ==
    communityFeesAccrued = 3 * deposits /\ traderRewardsFeesAccrued = 4 * deposits

DepositsOfTakeover == IF \E t \in Tokens : ctoActive[t] THEN 2 ELSE 1

OneConcern ==
    \/ TakeoverIdle /\ (deposits <= 1 \/ GovernanceIdle)
    \/ GovernanceIdle /\ OthersUnpaid /\ stray = 0 /\ deposits <= DepositsOfTakeover

OneConcernAtATime == OneConcern'
=============================================================================
