------------------------------- MODULE CTOPanel -------------------------------
(***************************************************************************)
(* The takeover section of a token's page (components/token-cto.tsx over   *)
(* lib/cto-transactions.ts), composed with the registry it acts on.        *)
(*                                                                         *)
(* The page shows what it last read of the registry, in two rounds of      *)
(* calls, and offers the actions that snapshot allows by the chain's clock.*)
(* An action reads the registry again, is simulated, signed and waited     *)
(* for; then the page reads anew before it offers anything else.  Other    *)
(* users, other pages and time move the registry at any moment.            *)
(***************************************************************************)
EXTENDS CTORegistry

CONSTANT Page           \* the token whose page this is

VARIABLES
    snapshot,   \* chainState, or None before it is read and after a failure
    reading,    \* the answers to the first round of a read under way, or None
    job,        \* the action under way, or None
    message     \* the action last confirmed to the user, or None; whether it ran is History

panelVars == <<snapshot, reading, job, message>>

Ids == {<<Page, n>> : n \in 1 .. MaxNonce}
Actions == {"propose", "accept", "cancel", "expire", "execute"}
FirstRound == [id : Ids \cup {None}, time : Nat]
Snapshot == [id : Ids \cup {None}, time : Nat, proposal : ProposalType]
Stages == {"first", "second", "simulate", "receipt", "mined", "replaced", "refresh"}
Job == [action : Actions, id : Ids \cup {None}, seen : Ids \cup {None}, stage : Stages]

ASSUME PageConstants == Page \in Tokens /\ None \notin Job

PanelTypeOK ==
    /\ snapshot \in Snapshot \cup {None}
    /\ reading \in FirstRound \cup {None}
    /\ job \in Job \cup {None}
    /\ message = None \/ message \in [action : Actions, id : Ids \cup {None}, ran : BOOLEAN]

PanelInit ==
    /\ CTOInit
    /\ snapshot = None /\ reading = None /\ job = None /\ message = None

ProposalOf(id) == IF id = None THEN NoProposal ELSE proposals[id]

-----------------------------------------------------------------------------
(* Reading *)

\* Variant: the time is the browser's, which is ahead of the chain.
StartReadByLocalClock ==
    /\ reading = None
    /\ reading' = [id |-> currentProposalId[Page], time |-> now + 1]
    /\ UNCHANGED <<snapshot, job, message>>

\* readCTOChainState, first round: every 20 seconds while a proposal is pending, on
\* focus, and when an action is confirmed.
StartRead ==
    /\ reading = None
    /\ reading' = [id |-> currentProposalId[Page], time |-> now]
    /\ UNCHANGED <<snapshot, job, message>>

ReleasePage == job' = IF job # None /\ job.stage = "refresh" THEN None ELSE job

\* Second round: the proposal named in the first, as it is by now.
FinishRead ==
    /\ reading # None
    /\ snapshot' = [id |-> reading.id, time |-> reading.time,
                    proposal |-> ProposalOf(reading.id)]
    /\ reading' = None
    /\ ReleasePage
    /\ UNCHANGED message

\* "Fresh on-chain CTO state could not be verified": nothing is offered.
ReadFails ==
    /\ snapshot' = None /\ reading' = None
    /\ ReleasePage
    /\ UNCHANGED message

-----------------------------------------------------------------------------
(* What a snapshot offers *)

deadlines(s) ==
    [accept |-> s.proposal.createdAt + AcceptanceWindow,
     from |-> s.proposal.acceptedAt + ExecutionDelay,
     to |-> s.proposal.acceptedAt + ExecutionDelay + ExecutionGracePeriod]

canExpire(s) ==
    \/ s.proposal.state = "Proposed" /\ s.time > deadlines(s).accept
    \/ s.proposal.state = "Accepted" /\ s.time > deadlines(s).to

canExecute(s) ==
    /\ s.proposal.state = "Accepted"
    /\ s.time >= deadlines(s).from /\ s.time <= deadlines(s).to

\* InactiveCTO and ProposalWorkflow, to a user who holds whatever account an action
\* asks for.
OffersInactive == {"propose"}

OffersWorkflow(s) ==
    {a \in Actions :
       \/ a = "accept" /\ s.proposal.state = "Proposed"
       \/ a = "cancel" /\ s.proposal.state \in {"Proposed", "Accepted"}
       \/ a = "expire" /\ canExpire(s)
       \/ a = "execute" /\ canExecute(s)}

\* After a cancelled or expired proposal OnchainTerminal is shown, without an action.
Offers(s) ==
    CASE s.id = None -> OffersInactive
      [] s.id # None /\ s.proposal.state \in {"Proposed", "Accepted"} -> OffersWorkflow(s)
      [] OTHER -> {}

-----------------------------------------------------------------------------
(* An action *)

Click ==
    /\ job = None /\ snapshot # None
    /\ \E a \in Offers(snapshot) :
         job' = [action |-> a, id |-> snapshot.id, seen |-> None, stage |-> "first"]
    /\ message' = None
    /\ UNCHANGED <<snapshot, reading>>

At(stage) == job # None /\ job.stage = stage
KeepPage == UNCHANGED <<snapshot, reading, message>>

\* The action's own read of the registry, first round.
ReadAgain ==
    /\ At("first")
    /\ job' = [job EXCEPT !.seen = currentProposalId[Page], !.stage = "second"]
    /\ KeepPage

\* Second round, and what the functions of cto-transactions.ts make of it.
FreshProposal(states) == job.seen = job.id /\ ProposalOf(job.seen).state \in states

MayPropose ==
    job.action = "propose" /\ ProposalOf(job.seen).state \notin {"Proposed", "Accepted", "Active"}
MayAccept == job.action = "accept" /\ FreshProposal({"Proposed"})
MayCancel == job.action = "cancel" /\ FreshProposal({"Proposed", "Accepted"})
MayExpire == job.action = "expire" /\ FreshProposal({"Proposed", "Accepted"})
MayExecute ==
    /\ job.action = "execute" /\ FreshProposal({"Accepted"})
    /\ creatorPayoutOf[Page] = ProposalOf(job.seen).previousRecipient

Recheck ==
    /\ At("second")
    /\ MayPropose \/ MayAccept \/ MayCancel \/ MayExpire \/ MayExecute
    /\ job' = [job EXCEPT !.stage = "simulate"]
    /\ KeepPage

Call ==
    CASE job.action = "propose" -> proposeCTO(Page)
      [] job.action = "accept" -> acceptCTO(job.id)
      [] job.action = "cancel" -> cancelCTO(job.id)
      [] job.action = "expire" -> expireCTO(job.id)
      [] job.action = "execute" -> executeCTO(job.id)

\* simulateContract succeeds, the wallet is the one expected and signs.
SimulateAndSign ==
    /\ At("simulate") /\ ENABLED Call
    /\ job' = [job EXCEPT !.stage = "receipt"]
    /\ KeepPage

\* The transaction is mined and does not revert.
Mined ==
    /\ At("receipt") /\ Call
    /\ job' = [job EXCEPT !.stage = "mined",
                          !.id = IF job.action = "propose"
                                 THEN <<Page, tokenNonce[Page] + 1>> ELSE @]
    /\ KeepPage

\* The user replaced or cancelled the transaction in the wallet: the receipt of
\* whatever was mined with its nonce is as good to submitAndConfirm.
ReplacedInWallet ==
    /\ At("receipt")
    /\ job' = [job EXCEPT !.stage = "replaced"]
    /\ KeepPage

Confirmed == [action |-> job.action, id |-> job.id, ran |-> At("mined")]

\* Variant: a read under way is good enough.
ConfirmAndJoinRead ==
    /\ At("mined") \/ At("replaced")
    /\ message' = Confirmed
    /\ job' = [job EXCEPT !.stage = "refresh"]
    /\ UNCHANGED <<snapshot, reading>>

\* invalidateCTO: a read under way is dropped, the page waits for a new one.
Confirm ==
    /\ At("mined") \/ At("replaced")
    /\ message' = Confirmed
    /\ job' = [job EXCEPT !.stage = "refresh"]
    /\ reading' = None
    /\ UNCHANGED snapshot

\* A check does not hold, a call or the wallet fails, the transaction reverts, or
\* no receipt comes in two minutes.  It may still be mined, by anyone's doing.
GiveUp ==
    /\ job # None /\ job.stage \notin {"mined", "replaced", "refresh"}
    /\ job' = None
    /\ KeepPage

PanelNext ==
    \/ CTONext /\ UNCHANGED panelVars
    \/ Mined
    \/ /\ \/ StartRead \/ FinishRead \/ ReadFails
          \/ Click \/ ReadAgain \/ Recheck \/ SimulateAndSign \/ ReplacedInWallet
          \/ Confirm \/ GiveUp
       /\ UNCHANGED ctoVars

PanelSpec == PanelInit /\ [][PanelNext]_<<ctoVars, panelVars>>

-----------------------------------------------------------------------------
(* Properties *)

closed(id) == proposals[id].state \in {"Cancelled", "Expired", "Active"}

\* What the page offers can be out of date only because the proposal was acted on
\* or, for the execution, because its window has passed since: it never offers an
\* execution or an expiry before its time, though it reads the clock, the proposal
\* and its state at different moments (readCTOChainState, canExpire, canExecute).
OffersAreNeverEarly ==
    snapshot # None /\ snapshot.id # None =>
      LET id == snapshot.id
      IN  /\ "expire" \in Offers(snapshot) => timeIsUp(id) \/ closed(id)
          /\ "execute" \in Offers(snapshot) =>
               closed(id) \/ (proposals[id].state = "Accepted" /\ now >= executeAfter(id))

\* The states a proposal is in once an action on it was mined.
EffectOf(action) ==
    CASE action = "propose" -> ProposalState \ {"None"}
      [] action = "accept" -> ProposalState \ {"None", "Proposed"}
      [] action = "cancel" -> {"Cancelled"}
      [] action = "expire" -> {"Expired"}
      [] action = "execute" -> {"Active"}

\* Once an action is confirmed and the page is released, the page shows its effect
\* or something later, never the state from before it, unless the user replaced the
\* transaction in the wallet and it never ran (run, submit, invalidateCTO racing the
\* periodic reads).
ConfirmedActionIsShown ==
    job = None /\ message # None /\ snapshot # None =>
      \/ ~message.ran
      \/ /\ snapshot.id # None
         /\ \/ snapshot.id[2] > message.id[2]
            \/ /\ snapshot.id = message.id
               /\ snapshot.proposal.state \in EffectOf(message.action)
=============================================================================
