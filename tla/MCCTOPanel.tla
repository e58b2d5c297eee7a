----------------------------- MODULE MCCTOPanel -----------------------------
(***************************************************************************)
(* Small instances of CTOPanel for TLC.                                    *)
(***************************************************************************)
EXTENDS CTOPanel

CONSTANTS t1, alice, gov, treasury1

MCCTOTreasuries == Tokens \X (1 .. MaxNonce)

MCFeeSplits == {[creator |-> 1, protocol |-> 0, community |-> 0, traderRewards |-> 0]}

\* The page touches neither governance nor money: both are explored by the runs of
\* MCTakeover and left alone here.
ProposalsOnly == UNCHANGED <<ownership, rotation, vaultsBound, money, lpVars>>

\* There is nothing for time to act on before the first proposal.
ClockStarts == now' # now => tokenNonce[Page] > 0
=============================================================================
