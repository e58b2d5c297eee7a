-------------------------------- MODULE Launch --------------------------------
(***************************************************************************)
(* Launching a token: the create page (app/create/page.tsx,                *)
(* components/create-token-form.tsx) with its optional dev buy             *)
(* (lib/dev-buy.ts), the chain, and the two services that give the token   *)
(* the metadata of the form: the API, which links the uploaded draft to    *)
(* the launch (FinalizeMetadata), and the indexer, which finds the link    *)
(* when it stores the launch (reconcileLinkedMetadata).                    *)
(*                                                                         *)
(* One creator in one tab.  Launch n is the n-th submission of the form,   *)
(* with its draft and, once the wallet sent it, its transaction; the token *)
(* is determined by the transaction.  The form runs one operation at a     *)
(* time; page.stage names the await it stands at.                          *)
(***************************************************************************)
EXTENDS Naturals, FiniteSets

CONSTANTS
    Definitions,        \* valid names and symbols; None stands for an invalid form
    None,
    DevBuys,            \* what may be typed as the dev buy
    MaxAttempts,        \* metadataFinalizationAttempts after the first
    MaxLaunches,        \* bound on submissions of the form
    MaxBuys,            \* bound on dev buys
    MaxReorgs,          \* bound on reorganisations
    MaxFaults           \* bound on failures of the services

Launches == 1 .. MaxLaunches
Buys == 1 .. MaxBuys

ASSUME LaunchConstants ==
    /\ None \notin Definitions /\ "" \in DevBuys
    /\ {MaxAttempts, MaxLaunches, MaxBuys, MaxReorgs, MaxFaults} \subseteq Nat

VARIABLES
    (* the browser *)
    page,           \* the form and the operation under way
    (* the chain *)
    definition,     \* name and symbol of each launch, None before it is submitted
    fate,           \* of its transaction
    buyOf,          \* the launch each dev buy belongs to, 0 before it is begun
    buyFate,
    receipts,       \* history: launches and dev buys that were ever mined
    (* the services *)
    linked,         \* drafts with a committed token and transaction
    row,            \* the token in the indexer's tables
    described,      \* tokens whose row carries the draft's metadata
    request,        \* the transaction of the API for each draft
    indexing,       \* the transaction of the indexer
    unreconciled,   \* history: launches last stored after a failed reconciliation
    reorgs, faults  \* counted, see MaxReorgs and MaxFaults

chain == <<definition, fate, buyOf, buyFate, receipts>>
services == <<linked, row, described, request, indexing, unreconciled>>
counters == <<reorgs, faults>>
vars == <<page, chain, services, counters>>

Fates == {"none", "asked", "pooled", "mined", "reverted", "dropped"}
Stages == {"none", "upload", "simulate", "sign", "confirm", "claim", "finalize",
           "buy", "signBuy", "confirmBuy", "pause", "retry"}
Status == {"idle", "busy", "confirmed", "failed", "rejected", "dev_buy_failed",
           "dev_buy_rejected", "dev_buy_confirming", "dev_buy_confirmed"}

\* The metadata of the form in one component, the dev buy as it is typed.
Inputs == [definition : Definitions \cup {None}, devBuy : DevBuys]

\* None: the parser throws.
parseDevBuyNativeUsdcAmount(text) ==
    CASE text \in {"", "0"} -> 0 [] text = "1" -> 1 [] OTHER -> None

\* Are there no errors?
validateCreateToken(input) ==
    input.definition # None /\ parseDevBuyNativeUsdcAmount(input.devBuy) # None

hasDevBuy(input) == parseDevBuyNativeUsdcAmount(input.devBuy) \notin {0, None}

\* DevBuyFailure, as far as the form looks at it: is there one to retry?
Failures == {"none", "retryable", "final"}

EmptyPage ==
    [input |-> [definition |-> None, devBuy |-> ""],
     review |-> FALSE,          \* the second step of the form
     stage |-> "none", status |-> "idle",
     n |-> 0,                   \* the launch
     devBuy |-> FALSE,          \* is a dev buy to follow?
     buy |-> 0, again |-> FALSE,        \* the dev buy, and is it retryDevBuy's?
     token |-> FALSE,           \* the API returned the token
     attempts |-> 0,
     result |-> "none",         \* "created", or "pending": with metadataPending
     failure |-> "none"]        \* devBuyFailure

NoRequest == [stage |-> "none", lock |-> FALSE, seen |-> FALSE, answer |-> "none"]

TypeOK ==
    /\ page \in [input : Inputs, review : BOOLEAN, stage : Stages, status : Status, n : 0 .. MaxLaunches, devBuy : BOOLEAN,
                 buy : 0 .. MaxBuys, again : BOOLEAN, token : BOOLEAN,
                 attempts : 0 .. MaxAttempts, result : {"none", "created", "pending"},
                 failure : Failures]
    /\ definition \in [Launches -> Definitions \cup {None}]
    /\ fate \in [Launches -> Fates] /\ buyFate \in [Buys -> Fates]
    /\ buyOf \in [Buys -> 0 .. MaxLaunches]
    /\ receipts \subseteq {"launch", "buy"} \X (Launches \cup Buys)
    /\ linked \subseteq Launches /\ described \subseteq Launches
    /\ row \in [Launches -> {"none", "canonical", "orphaned"}]
    /\ request \in [Launches -> [stage : {"none", "link", "read", "commit", "answered"},
                                 lock : BOOLEAN, seen : BOOLEAN,
                                 answer : {"none", "token", "not_indexed", "error"}]]
    /\ indexing \in [n : Launches, metadata : {"unread", "found", "missing", "failed"}] \cup {None}
    /\ unreconciled \subseteq Launches
    /\ reorgs \in 0 .. MaxReorgs /\ faults \in 0 .. MaxFaults

Init ==
    /\ page = EmptyPage
    /\ definition = [n \in Launches |-> None] /\ fate = [n \in Launches |-> "none"]
    /\ buyOf = [b \in Buys |-> 0] /\ buyFate = [b \in Buys |-> "none"]
    /\ receipts = {}
    /\ linked = {} /\ described = {} /\ row = [n \in Launches |-> "none"]
    /\ request = [n \in Launches |-> NoRequest] /\ indexing = None /\ unreconciled = {}
    /\ reorgs = 0 /\ faults = 0

-----------------------------------------------------------------------------
(* The form *)

\* Buttons and inputs are disabled while `pending'; submissionRef is set until an
\* operation returns.
pending == page.status \in {"busy", "dev_buy_confirming"}
Idle == page.stage = "none" /\ ~pending

At(stage) == page.stage = stage
Go(stage) == page' = [page EXCEPT !.stage = stage]
End(status) == page' = [page EXCEPT !.stage = "none", !.status = status]

\* Bound: after the last submission the form is not edited any more.
Editable == ~pending /\ None \in {definition[n] : n \in Launches}

\* The fields of the form; update() changes one field, the others as they were.
Edit(input) ==
    /\ Editable /\ ~page.review /\ input # page.input
    /\ input.definition = page.input.definition \/ input.devBuy = page.input.devBuy
    /\ page' = [page EXCEPT !.input = input]
    /\ UNCHANGED <<chain, services, counters>>

openReview ==
    /\ Editable /\ ~page.review /\ validateCreateToken(page.input)
    /\ page' = [page EXCEPT !.review = TRUE]
    /\ UNCHANGED <<chain, services, counters>>

BackToEdit ==
    /\ Editable /\ page.review
    /\ page' = [page EXCEPT !.review = FALSE]
    /\ UNCHANGED <<chain, services, counters>>

\* submit(), with the wallet ready; what was reviewed was valid and is still there.
Submit ==
    /\ Idle /\ page.review
    /\ \E n \in Launches :
         /\ definition[n] = None /\ \A m \in Launches : m < n => definition[m] # None
         /\ definition' = [definition EXCEPT ![n] = page.input.definition]
         /\ page' = [EmptyPage EXCEPT !.input = page.input, !.review = TRUE, !.n = n,
                                      !.stage = "upload", !.status = "busy",
                                      !.devBuy = hasDevBuy(page.input)]
    /\ UNCHANGED <<fate, buyOf, buyFate, receipts, services, counters>>

Upload == At("upload") /\ Go("simulate") /\ UNCHANGED <<chain, services, counters>>

\* The factory refuses a second token of the creator with the same definition.
Taken(n) == \E m \in Launches \ {n} : fate[m] = "mined" /\ definition[m] = definition[n]

\* submitCreateToken up to the wallet.
Simulate ==
    /\ At("simulate") /\ ~Taken(page.n)
    /\ fate' = [fate EXCEPT ![page.n] = "asked"]
    /\ Go("sign")
    /\ UNCHANGED <<definition, buyOf, buyFate, receipts, services, counters>>

Sign ==
    /\ At("sign")
    /\ fate' = [fate EXCEPT ![page.n] = "pooled"]
    /\ Go("confirm")
    /\ UNCHANGED <<definition, buyOf, buyFate, receipts, services, counters>>

\* The user rejects, or the wallet fails and may have sent the transaction.
FailSigning ==
    /\ At("sign")
    /\ \/ fate' = [fate EXCEPT ![page.n] = "dropped"] /\ End("rejected")
       \/ \E f \in {"pooled", "dropped"} :
            fate' = [fate EXCEPT ![page.n] = f] /\ End("failed")
    /\ UNCHANGED <<definition, buyOf, buyFate, receipts, services, counters>>

\* Does the receipt carry the factory's TokenLaunched?
parseTokenLaunchedReceipt(n) == fate[n] = "mined"

\* confirmCreatedToken.
Confirm ==
    /\ At("confirm") /\ fate[page.n] \in {"mined", "reverted"}
    /\ IF parseTokenLaunchedReceipt(page.n) THEN Go("claim") ELSE End("failed")
    /\ UNCHANGED <<chain, services, counters>>

\* The wallet signs metadataClaimMessage, and the API is asked to finalize.
Claim ==
    /\ At("claim")
    /\ request' = [request EXCEPT ![page.n] = [NoRequest EXCEPT !.stage = "link"]]
    /\ Go("finalize")
    /\ UNCHANGED <<chain, linked, row, described, indexing, unreconciled, counters>>

\* The second signature is a wallet request like the first.
RejectClaim == At("claim") /\ End("rejected") /\ UNCHANGED <<chain, services, counters>>

\* An await of execute fails before the API is asked.
Fail ==
    /\ page.stage \in {"upload", "simulate", "confirm", "claim"}
    /\ End("failed")
    /\ UNCHANGED <<chain, services, counters>>

-----------------------------------------------------------------------------
(* Metadata finalization *)

\* execute returns.
Done(token) ==
    page' = [page EXCEPT !.stage = "none", !.status = "confirmed", !.token = token,
                         !.result = IF token THEN "created" ELSE "pending"]

\* What follows the first answer, and then the dev buy.
AfterFinalize(token) ==
    CASE At("finalize") /\ page.devBuy -> page' = [page EXCEPT !.stage = "buy", !.token = token]
      [] token /\ (At("retry") \/ ~page.devBuy) -> Done(TRUE)
      [] ~token /\ (At("retry") \/ ~page.devBuy) -> Go("pause")

\* Variant: any error is taken for a launch that is not indexed yet.
AnswerIsPending ==
    LET r == request[page.n]
    IN  /\ page.stage \in {"finalize", "retry"} /\ r.stage = "answered"
        /\ request' = [request EXCEPT ![page.n] = NoRequest]
        /\ AfterFinalize(r.answer = "token")
        /\ UNCHANGED <<chain, linked, row, described, indexing, unreconciled, counters>>

\* tryMetadataFinalization: not_indexed is no error, every other failure is.
Answer ==
    LET r == request[page.n]
    IN  /\ page.stage \in {"finalize", "retry"} /\ r.stage = "answered"
        /\ request' = [request EXCEPT ![page.n] = NoRequest]
        /\ IF r.answer = "error" THEN End("failed") ELSE AfterFinalize(r.answer = "token")
        /\ UNCHANGED <<chain, linked, row, described, indexing, unreconciled, counters>>

\* retryPendingMetadataFinalization.
Retry ==
    /\ At("pause")
    /\ IF page.attempts < MaxAttempts
       THEN /\ page' = [page EXCEPT !.stage = "retry", !.attempts = @ + 1]
            /\ request' = [request EXCEPT ![page.n] = [NoRequest EXCEPT !.stage = "link"]]
       ELSE Done(FALSE) /\ UNCHANGED request
    /\ UNCHANGED <<chain, linked, row, described, indexing, unreconciled, counters>>

-----------------------------------------------------------------------------
(* The dev buy *)

\* The catch clauses of executeDevBuy, execute, submit and retryDevBuy: the retry
\* keeps the failure it was offered by.
FailBuy(retryable, rejected) ==
    page' = [page EXCEPT
               !.stage = "none",
               !.status = IF rejected THEN "dev_buy_rejected"
                          ELSE IF retryable \/ page.again THEN "dev_buy_failed"
                          ELSE "dev_buy_confirming",
               !.result = IF page.again THEN @ ELSE "created",
               !.failure = IF page.again THEN @
                           ELSE IF retryable THEN "retryable" ELSE "final"]

\* Trade state, quote, simulation and balance; then the wallet is asked.
AskBuy ==
    /\ At("buy")
    /\ \E b \in Buys :
         /\ buyOf[b] = 0 /\ \A c \in Buys : c < b => buyOf[c] # 0
         /\ buyOf' = [buyOf EXCEPT ![b] = page.n]
         /\ buyFate' = [buyFate EXCEPT ![b] = "asked"]
         /\ page' = [page EXCEPT !.stage = "signBuy", !.buy = b]
    /\ UNCHANGED <<definition, fate, receipts, services, counters>>

RefuseBuy == At("buy") /\ FailBuy(TRUE, FALSE) /\ UNCHANGED <<chain, services, counters>>

SignBuy ==
    /\ At("signBuy")
    /\ buyFate' = [buyFate EXCEPT ![page.buy] = "pooled"]
    /\ Go("confirmBuy")
    /\ UNCHANGED <<definition, fate, buyOf, receipts, services, counters>>

\* Without a hash the buy counts as never sent.
FailSigningBuy ==
    /\ At("signBuy")
    /\ \/ buyFate' = [buyFate EXCEPT ![page.buy] = "dropped"] /\ FailBuy(TRUE, TRUE)
       \/ \E f \in {"pooled", "dropped"} :
            buyFate' = [buyFate EXCEPT ![page.buy] = f] /\ FailBuy(TRUE, FALSE)
    /\ UNCHANGED <<definition, fate, buyOf, receipts, services, counters>>

ConfirmBuy ==
    /\ At("confirmBuy") /\ buyFate[page.buy] \in {"mined", "reverted"}
    /\ CASE buyFate[page.buy] = "reverted" -> FailBuy(TRUE, FALSE)
         [] buyFate[page.buy] = "mined" /\ page.again ->
              page' = [page EXCEPT !.stage = "none", !.status = "dev_buy_confirmed",
                                   !.failure = "none"]
         [] buyFate[page.buy] = "mined" /\ ~page.again ->
              IF page.token THEN Done(TRUE)
              ELSE page' = [page EXCEPT !.stage = "pause", !.status = "dev_buy_confirmed"]
    /\ UNCHANGED <<chain, services, counters>>

\* confirmTrade ends without a receipt, or with an error.
LoseBuy == At("confirmBuy") /\ FailBuy(FALSE, FALSE) /\ UNCHANGED <<chain, services, counters>>

RetryDevBuy ==
    /\ Idle /\ page.failure = "retryable"
    /\ page' = [page EXCEPT !.stage = "buy", !.status = "busy", !.again = TRUE]
    /\ UNCHANGED <<chain, services, counters>>

\* The user reloads, or the router leaves for the token's page.
LeavePage ==
    /\ page # EmptyPage
    /\ page' = EmptyPage
    /\ UNCHANGED <<chain, services, counters>>

-----------------------------------------------------------------------------
(* FinalizeMetadata, a database transaction of the API *)

Holds(n) == request[n].lock
\* A failed savepoint gives its lock back.
IndexerHolds(n) ==
    indexing # None /\ indexing.n = n /\ indexing.metadata \in {"found", "missing"}

SetRequest(n, r) == request' = [request EXCEPT ![n] = r]
Answered(n, answer) == SetRequest(n, [NoRequest EXCEPT !.stage = "answered", !.answer = answer])

\* Variant: the link is written without the lock on the launch's identity.
LinkUnlocked(n) ==
    /\ request[n].stage = "link"
    /\ SetRequest(n, [request[n] EXCEPT !.stage = "read"])
    /\ UNCHANGED <<page, chain, linked, row, described, indexing, unreconciled, counters>>

\* A draft without a link takes the lock before the link is written.
Link(n) ==
    /\ request[n].stage = "link"
    /\ \/ n \in linked /\ SetRequest(n, [request[n] EXCEPT !.stage = "read"])
       \/ /\ n \notin linked /\ ~IndexerHolds(n)
          /\ SetRequest(n, [request[n] EXCEPT !.stage = "read", !.lock = TRUE])
    /\ UNCHANGED <<page, chain, linked, row, described, indexing, unreconciled, counters>>

\* Is the launch indexed?
ReadToken(n) ==
    /\ request[n].stage = "read"
    /\ SetRequest(n, [request[n] EXCEPT !.stage = "commit", !.seen = row[n] = "canonical"])
    /\ UNCHANGED <<page, chain, linked, row, described, indexing, unreconciled, counters>>

\* Variant: a launch that is not indexed rolls the link back.
CommitIfIndexed(n) ==
    /\ request[n].stage = "commit"
    /\ IF request[n].seen /\ row[n] = "canonical"
       THEN linked' = linked \cup {n} /\ described' = described \cup {n} /\ Answered(n, "token")
       ELSE UNCHANGED <<linked, described>> /\ Answered(n, "not_indexed")
    /\ UNCHANGED <<page, chain, row, indexing, unreconciled, counters>>

\* The link is durable before not_indexed is answered; a token orphaned since it
\* was read fails the transaction.
CommitRequest(n) ==
    /\ request[n].stage = "commit"
    /\ \/ /\ ~request[n].seen
          /\ linked' = linked \cup {n} /\ UNCHANGED described /\ Answered(n, "not_indexed")
       \/ /\ request[n].seen /\ row[n] = "canonical"
          /\ linked' = linked \cup {n} /\ described' = described \cup {n}
          /\ Answered(n, "token")
       \/ /\ request[n].seen /\ row[n] # "canonical"
          /\ UNCHANGED <<linked, described>> /\ Answered(n, "error")
    /\ UNCHANGED <<page, chain, row, indexing, unreconciled, counters>>

\* The transaction fails, or its answer does not arrive.
LoseRequest(n) ==
    /\ faults < MaxFaults /\ faults' = faults + 1
    /\ request[n].stage # "none" /\ request[n].answer # "error"
    /\ Answered(n, "error")
    /\ UNCHANGED <<page, chain, linked, row, described, indexing, unreconciled, reorgs>>

-----------------------------------------------------------------------------
(* The indexer's transaction that stores the launch *)

StoreLaunch(n) ==
    /\ indexing = None /\ fate[n] = "mined" /\ row[n] # "canonical"
    /\ indexing' = [n |-> n, metadata |-> "unread"]
    /\ UNCHANGED <<page, chain, linked, row, described, request, unreconciled, counters>>

\* reconcileLinkedMetadata: under the lock, is a draft linked to this launch?
Reconcile ==
    /\ indexing # None /\ indexing.metadata = "unread" /\ ~Holds(indexing.n)
    /\ indexing' = [indexing EXCEPT !.metadata =
                       IF indexing.n \in linked THEN "found" ELSE "missing"]
    /\ UNCHANGED <<page, chain, linked, row, described, request, unreconciled, counters>>

\* A step of it fails: its savepoint is rolled back, and the transaction goes on.
ReconcileFails ==
    /\ faults < MaxFaults /\ faults' = faults + 1
    /\ indexing # None /\ indexing.metadata = "unread"
    /\ indexing' = [indexing EXCEPT !.metadata = "failed"]
    /\ UNCHANGED <<page, chain, linked, row, described, request, unreconciled, reorgs>>

\* A row stored before an orphaning keeps its metadata: the launch is the same.
CommitLaunch ==
    /\ indexing # None /\ indexing.metadata # "unread"
    /\ row' = [row EXCEPT ![indexing.n] = "canonical"]
    /\ described' = IF indexing.metadata = "found" THEN described \cup {indexing.n} ELSE described
    /\ unreconciled' = IF indexing.metadata = "failed" THEN unreconciled \cup {indexing.n}
                       ELSE unreconciled \ {indexing.n}
    /\ indexing' = None
    /\ UNCHANGED <<page, chain, linked, request, counters>>

AbortLaunch ==
    /\ faults < MaxFaults /\ faults' = faults + 1
    /\ indexing # None /\ indexing' = None
    /\ UNCHANGED <<page, chain, linked, row, described, request, unreconciled, reorgs>>

Rewind(n) ==
    /\ indexing = None /\ row[n] = "canonical" /\ fate[n] # "mined"
    /\ row' = [row EXCEPT ![n] = "orphaned"]
    /\ UNCHANGED <<page, chain, linked, described, request, indexing, unreconciled, counters>>

-----------------------------------------------------------------------------
(* External: the chain *)

MineLaunch(n) ==
    /\ fate[n] = "pooled"
    /\ \/ /\ ~Taken(n) /\ fate' = [fate EXCEPT ![n] = "mined"]
          /\ receipts' = receipts \cup {<<"launch", n>>}
       \/ Taken(n) /\ fate' = [fate EXCEPT ![n] = "reverted"] /\ UNCHANGED receipts
    /\ UNCHANGED <<page, definition, buyOf, buyFate, services, counters>>

MineBuy(b) ==
    /\ buyFate[b] = "pooled" /\ fate[buyOf[b]] = "mined"
    /\ \/ /\ buyFate' = [buyFate EXCEPT ![b] = "mined"]
          /\ receipts' = receipts \cup {<<"buy", b>>}
       \/ buyFate' = [buyFate EXCEPT ![b] = "reverted"] /\ UNCHANGED receipts
    /\ UNCHANGED <<page, definition, fate, buyOf, services, counters>>

\* A reorganisation returns a launch and what was bought of it to the pool.
Orphan(n) ==
    /\ reorgs < MaxReorgs /\ reorgs' = reorgs + 1
    /\ fate[n] = "mined"
    /\ fate' = [fate EXCEPT ![n] = "pooled"]
    /\ buyFate' = [b \in Buys |-> IF buyOf[b] = n /\ buyFate[b] \in {"mined", "reverted"}
                                  THEN "pooled" ELSE buyFate[b]]
    /\ UNCHANGED <<page, definition, buyOf, receipts, services, faults>>

\* External: a wallet prompt outlives the page that asked.
PromptAnswered ==
    /\ \/ \E n \in Launches, f \in {"pooled", "dropped"} :
            /\ fate[n] = "asked" /\ ~(At("sign") /\ page.n = n)
            /\ fate' = [fate EXCEPT ![n] = f] /\ UNCHANGED buyFate
       \/ \E b \in Buys, f \in {"pooled", "dropped"} :
            /\ buyFate[b] = "asked" /\ ~(At("signBuy") /\ page.buy = b)
            /\ buyFate' = [buyFate EXCEPT ![b] = f] /\ UNCHANGED fate
    /\ UNCHANGED <<page, definition, buyOf, receipts, services, counters>>

-----------------------------------------------------------------------------
Form ==
    \/ \E input \in Inputs : Edit(input)
    \/ openReview \/ BackToEdit \/ Submit \/ Upload \/ Simulate \/ Sign \/ FailSigning \/ Confirm \/ Claim \/ RejectClaim \/ Fail
    \/ Answer \/ Retry
    \/ AskBuy \/ RefuseBuy \/ SignBuy \/ FailSigningBuy \/ ConfirmBuy \/ LoseBuy
    \/ RetryDevBuy \/ LeavePage

Api(n) == Link(n) \/ ReadToken(n) \/ CommitRequest(n)

Indexer == (\E n \in Launches : StoreLaunch(n) \/ Rewind(n)) \/ Reconcile \/ CommitLaunch

Environment ==
    \/ \E n \in Launches : LoseRequest(n) \/ MineLaunch(n) \/ Orphan(n)
    \/ \E b \in Buys : MineBuy(b)
    \/ AbortLaunch \/ ReconcileFails \/ PromptAnswered

Next == Form \/ (\E n \in Launches : Api(n)) \/ Indexer \/ Environment

\* A transaction the API began ends, and the indexer goes on.
Fairness == WF_vars(Indexer) /\ \A n \in Launches : WF_vars(Api(n))

Spec == Init /\ [][Next]_vars /\ Fairness

-----------------------------------------------------------------------------
(* Properties *)

\* FinalizeMetadata and reconcileLinkedMetadata race for a launch, and "neither side
\* responsible for recovery" must not be the outcome of the race: a token in the tables
\* whose draft is linked has the metadata, whatever transaction was aborted, retried or
\* orphaned, unless the reconciliation itself failed when the token was stored.
LinkedMetadataIsNotLost ==
    \A n \in linked \ unreconciled : row[n] = "canonical" => n \in described

\* What the form says is true on the chain and in the database: a result needs a
\* receipt, "Metadata is safely linked" a committed link, a confirmed launch with
\* its token the metadata on the row, a confirmed dev buy its own receipt.
PageTellsTheTruth ==
    /\ page.result # "none" => <<"launch", page.n>> \in receipts
    /\ page.result = "pending" => page.n \in linked
    /\ page.status = "confirmed" /\ page.result = "created" => page.n \in linked \cap described
    /\ page.status = "dev_buy_confirmed" => <<"buy", page.buy>> \in receipts

\* "... and will appear after canonical indexing catches up": the token of which the
\* form says so gets its metadata, unless the chain drops the launch or the token is
\* stored after a failed reconciliation.
PromisedMetadataAppears ==
    \A n \in Launches :
      (page.n = n /\ page.result = "pending")
        ~> (n \in described \/ fate[n] # "mined" \/ n \in unreconciled)
=============================================================================
