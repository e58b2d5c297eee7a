----------------------------- MODULE CTORegistry -----------------------------
(***************************************************************************)
(* The voluntary community takeover of a launch token: the proposals of    *)
(* CTORegistryV3, the treasuries it deploys, and the LP fees collected     *)
(* before the creator's fee route changes hands                            *)
(* (contracts/src/v3/CTORegistryV3.sol, CTOTreasuryV3.sol).                *)
(*                                                                         *)
(* The registry's only effect on FeeManagerV3 is the call of activateCTO   *)
(* in executeCTO, so the system extends FeeManager and replaces its        *)
(* activateCTO step by that call.                                          *)
(*                                                                         *)
(* A proposal is named by its token and nonce, which is what its hash      *)
(* commits to; the treasury deployed for it has the same name.             *)
(*                                                                         *)
(* Definitions marked "Variant" are faulty forms of the one that follows   *)
(* them, as in FeeManager.                                                 *)
(***************************************************************************)
EXTENDS FeeManager

CONSTANTS
    AcceptanceWindow, ExecutionDelay, ExecutionGracePeriod,
    MaxNonce,           \* bound on proposals of a token
    MaxLPFees           \* bound on LP fees earned by a token's position

ProposalIds == Tokens \X (1 .. MaxNonce)

ASSUME RegistryConstants ==
    /\ AcceptanceWindow \in Nat /\ ExecutionDelay \in Nat /\ ExecutionGracePeriod \in Nat
    /\ MaxNonce \in Nat /\ MaxLPFees \in Nat
    /\ CTOTreasuries = ProposalIds
    /\ None \notin ProposalIds

VARIABLES
    tokenNonce,
    currentProposalId,
    proposals,              \* _proposals, with state "None" where none is stored
    activeTreasury,
    graduated,              \* the launch graduated and its position is settled
    lpUncollected,          \* creator share of the fees waiting in the V3 position
    creatorLPFeesAccrued,   \* claimable at PermanentLPFeeVaultV3, per recipient
    \* History
    lpEarned,               \* creator share ever earned by the position
    lpCutoff,               \* lpEarned when the CTO was executed
    lpCredited              \* creator share credited, per token and recipient

registryVars == <<tokenNonce, currentProposalId, proposals, activeTreasury>>
lpVars == <<graduated, lpUncollected, creatorLPFeesAccrued, lpEarned, lpCutoff, lpCredited>>
ctoVars == <<feeVars, registryVars, lpVars>>

ProposalState == {"None", "Proposed", "Accepted", "Cancelled", "Expired", "Active"}

ProposalType == [previousRecipient : Recipients \union {None},
                 createdAt : Nat, acceptedAt : Nat, state : ProposalState]

CTOTypeOK ==
    /\ tokenNonce \in [Tokens -> 0 .. MaxNonce]
    /\ currentProposalId \in [Tokens -> ProposalIds \union {None}]
    /\ proposals \in [ProposalIds -> ProposalType]
    /\ activeTreasury \in [Tokens -> CTOTreasuries \union {None}]
    /\ graduated \in [Tokens -> BOOLEAN]
    /\ lpUncollected \in [Tokens -> Nat]
    /\ creatorLPFeesAccrued \in [Recipients -> Nat]
    /\ lpEarned \in [Tokens -> Nat] /\ lpCutoff \in [Tokens -> Nat]
    /\ lpCredited \in [Tokens -> [Recipients -> Nat]]

NoProposal == [previousRecipient |-> None, createdAt |-> 0, acceptedAt |-> 0,
               state |-> "None"]

CTOInit ==
    /\ Init
    /\ tokenNonce = [t \in Tokens |-> 0]
    /\ currentProposalId = [t \in Tokens |-> None]
    /\ proposals = [id \in ProposalIds |-> NoProposal]
    /\ activeTreasury = [t \in Tokens |-> None]
    /\ graduated = [t \in Tokens |-> FALSE]
    /\ lpUncollected = [t \in Tokens |-> 0]
    /\ creatorLPFeesAccrued = [r \in Recipients |-> 0]
    /\ lpEarned = [t \in Tokens |-> 0] /\ lpCutoff = [t \in Tokens |-> 0]
    /\ lpCredited = [t \in Tokens |-> [r \in Recipients |-> 0]]

-----------------------------------------------------------------------------
(* Proposals *)

live(id) == proposals[id].state \in {"Proposed", "Accepted", "Active"}

executeAfter(id) == proposals[id].acceptedAt + ExecutionDelay

executionDeadline(id) == executeAfter(id) + ExecutionGracePeriod

timeIsUp(id) ==
    \/ /\ proposals[id].state = "Proposed"
       /\ now > proposals[id].createdAt + AcceptanceWindow
    \/ /\ proposals[id].state = "Accepted"
       /\ now > executionDeadline(id)

\* Variant: a proposal whose time has passed is as good as closed.
noProposalInTime(token) ==
    LET id == currentProposalId[token]
    IN  id # None => ~live(id) \/ timeIsUp(id)

\* _requireNoLiveProposal: a proposal whose time has passed stays live until it
\* is cancelled or marked expired.
noLiveProposal(token) ==
    currentProposalId[token] # None => ~live(currentProposalId[token])

\* By the token's creator, with a contract as controller.
proposeCTO(token) ==
    LET nonce == tokenNonce[token] + 1
        id    == <<token, nonce>>
    IN  /\ creatorOf[token] # None /\ ~ctoActive[token]
        /\ noLiveProposal(token)
        /\ nonce <= MaxNonce
        /\ tokenNonce' = [tokenNonce EXCEPT ![token] = nonce]
        /\ proposals' = [proposals EXCEPT ![id] =
                           [previousRecipient |-> creatorPayoutOf[token],
                            createdAt |-> now, acceptedAt |-> 0, state |-> "Proposed"]]
        /\ currentProposalId' = [currentProposalId EXCEPT ![token] = id]
        /\ UNCHANGED <<feeVars, lpVars, activeTreasury>>

\* The controller makes the proposal's treasury call the registry.
acceptCTO(id) ==
    /\ proposals[id].state = "Proposed"
    /\ now <= proposals[id].createdAt + AcceptanceWindow
    /\ proposals' = [proposals EXCEPT ![id].acceptedAt = now, ![id].state = "Accepted"]
    /\ UNCHANGED <<feeVars, lpVars, tokenNonce, currentProposalId, activeTreasury>>

\* By the token's creator.
cancelCTO(id) ==
    /\ proposals[id].state \in {"Proposed", "Accepted"}
    /\ proposals' = [proposals EXCEPT ![id].state = "Cancelled"]
    /\ UNCHANGED <<feeVars, lpVars, tokenNonce, currentProposalId, activeTreasury>>

\* By anyone.
expireCTO(id) ==
    /\ timeIsUp(id)
    /\ proposals' = [proposals EXCEPT ![id].state = "Expired"]
    /\ UNCHANGED <<feeVars, lpVars, tokenNonce, currentProposalId, activeTreasury>>

-----------------------------------------------------------------------------
(* LP fees of a graduated token *)

\* External: the curve's graduation, which settles the position in one call.
graduate(token) ==
    /\ creatorOf[token] # None /\ ~graduated[token]
    /\ graduated' = [graduated EXCEPT ![token] = TRUE]
    /\ UNCHANGED <<feeVars, registryVars, lpUncollected, creatorLPFeesAccrued, lpEarned,
                   lpCutoff, lpCredited>>

\* External: swaps in the pool leave fees in the permanent position.
earnLPFee(token) ==
    /\ graduated[token]
    /\ lpEarned[token] < MaxLPFees
    /\ lpEarned' = [lpEarned EXCEPT ![token] = @ + 1]
    /\ lpUncollected' = [lpUncollected EXCEPT ![token] = @ + 1]
    /\ UNCHANGED <<feeVars, registryVars, graduated, creatorLPFeesAccrued, lpCutoff,
                   lpCredited>>

\* PermanentLPCustodianV3.collectFees and the vault's accrual: what the position
\* has earned goes to the creator payout of this moment.
collectLPFees(token) ==
    LET recipient == creatorPayoutOf[token]
        amount    == lpUncollected[token]
    IN  /\ lpUncollected' = [lpUncollected EXCEPT ![token] = 0]
        /\ creatorLPFeesAccrued' = [creatorLPFeesAccrued EXCEPT ![recipient] = @ + amount]
        /\ lpCredited' = [lpCredited EXCEPT ![token][recipient] = @ + amount]

\* By anyone.
collectFees(token) ==
    /\ graduated[token]
    /\ lpUncollected[token] > 0
    /\ collectLPFees(token)
    /\ UNCHANGED <<feeVars, registryVars, graduated, lpEarned, lpCutoff>>

\* By the recipient; a treasury does so in pullLPCreatorFees, once it is active.
claimLPFees(recipient) ==
    /\ creatorLPFeesAccrued[recipient] > 0
    /\ recipient \in CTOTreasuries =>
         ctoActive[recipient[1]] /\ ctoTreasuryOf[recipient[1]] = recipient
    /\ creatorLPFeesAccrued' = [creatorLPFeesAccrued EXCEPT ![recipient] = 0]
    /\ UNCHANGED <<feeVars, registryVars, graduated, lpUncollected, lpEarned, lpCutoff,
                   lpCredited>>

-----------------------------------------------------------------------------

\* Variant: whatever the payout has become.
payoutIsAnything(id) == id \in ProposalIds

payoutUnchanged(id) == creatorPayoutOf[id[1]] = proposals[id].previousRecipient

\* Variant: what the position earned goes to whoever collects next.
leaveUncollected(token) == UNCHANGED <<lpUncollected, creatorLPFeesAccrued, lpCredited>>

collectBeforeHandover(token) ==
    \/ graduated[token] /\ collectLPFees(token)
    \/ /\ ~graduated[token]
       /\ UNCHANGED <<lpUncollected, creatorLPFeesAccrued, lpCredited>>

\* Variant: a token that had a proposal before keeps the treasury recorded first.
recordFirstTreasury(id) ==
    activeTreasury' = [activeTreasury EXCEPT ![id[1]] = <<id[1], 1>>]

recordTreasury(id) == activeTreasury' = [activeTreasury EXCEPT ![id[1]] = id]

\* By anyone, in the execution window, if the payout is still the proposal's.
executeCTO(id) ==
    LET token == id[1]
    IN  /\ proposals[id].state = "Accepted"
        /\ now >= executeAfter(id) /\ now <= executionDeadline(id)
        /\ payoutUnchanged(id)
        /\ proposals' = [proposals EXCEPT ![id].state = "Active"]
        /\ recordTreasury(id)
        /\ collectBeforeHandover(token)
        /\ activateCTO(token, id)
        /\ lpCutoff' = [lpCutoff EXCEPT ![token] = lpEarned[token]]
        /\ UNCHANGED <<tokenNonce, currentProposalId, graduated, lpEarned>>

CTONext ==
    \/ FeeStep /\ UNCHANGED <<registryVars, lpVars>>
    \/ Tick /\ UNCHANGED <<registryVars, lpVars>>
    \/ \E t \in Tokens :
         proposeCTO(t) \/ graduate(t) \/ earnLPFee(t) \/ collectFees(t)
    \/ \E id \in ProposalIds :
         acceptCTO(id) \/ cancelCTO(id) \/ expireCTO(id) \/ executeCTO(id)
    \/ \E r \in Recipients : claimLPFees(r)

CTOSpec == CTOInit /\ [][CTONext]_ctoVars

-----------------------------------------------------------------------------
(* Properties *)

proposalsOf(t) == {id \in ProposalIds : id[1] = t}

\* At most one proposal of a token can still take effect, the current one, and
\* the registry and the fee manager agree on who holds the route: proposeCTO
\* replaces only a closed proposal, and executeCTO writes activeTreasury, the
\* proposal and, through activateCTO, the fee manager.
OneLiveProposal ==
    \A t \in Tokens :
      /\ \A id \in proposalsOf(t) : live(id) => id = currentProposalId[t]
      /\ ctoActive[t] <=> activeTreasury[t] # None
      /\ ctoActive[t] => /\ ctoTreasuryOf[t] = activeTreasury[t]
                         /\ proposals[activeTreasury[t]].state = "Active"

LPCreditedTo(t, R) == SumFunctionOnSet(lpCredited[t], R)

\* LP fees earned before the takeover are credited to users, those earned after
\* it to the token's treasury or still uncollected, whoever calls collectFees and
\* whenever: executeCTO collects for the previous recipient before it reroutes.
LPCutoffRespected ==
    \A t \in Tokens :
      IF ctoActive[t]
      THEN /\ LPCreditedTo(t, Users) = lpCutoff[t]
           /\ lpCredited[t][ctoTreasuryOf[t]] + lpUncollected[t]
                = lpEarned[t] - lpCutoff[t]
      ELSE LPCreditedTo(t, Users) + lpUncollected[t] = lpEarned[t]

\* A takeover happens only as its creator and its controller agreed: to the
\* treasury that accepted in time, after the delay and within the grace period,
\* away from the payout in force when it was proposed, and not after the creator
\* withdrew it (executeCTO with acceptCTO, cancelCTO and expireCTO).
HandoverIsConsented ==
    [][\A t \in Tokens :
         ctoActive'[t] /\ ~ctoActive[t] =>
           LET p == proposals[currentProposalId[t]]
           IN  /\ ctoTreasuryOf'[t] = currentProposalId[t]
               /\ p.state = "Accepted"
               /\ p.acceptedAt - p.createdAt <= AcceptanceWindow
               /\ now - p.acceptedAt >= ExecutionDelay
               /\ now - p.acceptedAt <= ExecutionDelay + ExecutionGracePeriod
               /\ creatorPayoutOf[t] = p.previousRecipient]_ctoVars
=============================================================================
