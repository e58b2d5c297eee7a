---------------------------- MODULE GraduatedSwap ----------------------------
(***************************************************************************)
(* Swapping a graduated token on its Uniswap pool, as one open page does   *)
(* it: components/graduated-token-swap.tsx over lib/uniswap-v3.ts.         *)
(*                                                                         *)
(* A quote is requested as the user types; the user opens a review of the  *)
(* quote on display in a modal and confirms it; submit then approves the   *)
(* router for exactly the amount if the allowance is short, waits until it *)
(* shows, sends the swap and waits for its receipt.  Quote answers, wallet *)
(* changes and blocks come between its awaits.                             *)
(*                                                                         *)
(* An account on another network counts as another wallet.  Whether a      *)
(* quote is too old is a matter of time: each check of it may fail.        *)
(***************************************************************************)
EXTENDS Naturals, FiniteSets

CONSTANTS
    Wallets, None,
    MaxAmount,          \* amounts are 1 .. MaxAmount
    MaxRequests,        \* bound on quotes in flight
    MaxSends,           \* bound on transactions
    MaxWalletChanges    \* bound on changes of account

Sides == {"buy", "sell"}
Amounts == 1 .. MaxAmount
Sends == 1 .. MaxSends

ASSUME SwapConstants ==
    /\ MaxAmount \in Nat \ {0}
    /\ {MaxRequests, MaxSends, MaxWalletChanges} \subseteq Nat
    /\ None \notin Wallets \cup Sends

VARIABLES
    wallet,     \* the account the extension signs for
    shown,      \* the account on display, executionContext
    form,       \* side and amount, as typed
    requests,   \* quotes asked for and not answered
    quote,      \* the quote on display, or None
    reviewed,   \* the quote and the side under review, or None
    status,
    modal,      \* "closed", or the phase it shows
    hash,       \* the transaction on display, or None
    job,        \* the execution of submit, or None
    cached,     \* allowances as last read, stateQuery
    allowance,  \* of the router, per account and side, on chain
    txs,        \* transactions sent: a function from the numbers used
    pool,       \* what validateCanonicalPool made of the indexed pool
    changes

vars == <<wallet, shown, form, requests, quote, reviewed, status, modal, hash, job,
          cached, allowance, txs, pool, changes>>
page == <<form, requests, quote, reviewed>>
display == <<status, modal, hash>>
outside == <<wallet, shown, pool, changes>>
ledger == <<cached, allowance, txs>>

Quote == [side : Sides, amount : Amounts, wallet : Wallets]
Review == [quote : Quote, side : Sides]
Stages == {"approve", "approving", "reread", "send", "swapping", "refresh"}

TypeOK ==
    /\ {wallet, shown} \subseteq Wallets
    /\ form \in [side : Sides, amount : Amounts]
    /\ requests \subseteq Quote
    /\ quote \in Quote \cup {None} /\ reviewed \in Review \cup {None}
    /\ status \in {"idle", "quoting", "busy", "confirmed", "error"}
    /\ modal \in {"closed", "review", "busy", "confirmed", "failed"}
    /\ hash \in Sends \cup {None}
    /\ job = None \/ job \in [review : Review, stage : Stages, wallet : Wallets,
                              tx : Sends \cup {None}]
    /\ cached \in [Wallets \X Sides -> 0 .. MaxAmount]
    /\ allowance \in [Wallets \X Sides -> 0 .. MaxAmount]
    /\ \E S \in SUBSET Sends :
         txs \in [S -> [kind : {"approve", "swap"}, by : Wallets, quote : Quote,
                        review : Review,
                        fate : {"pooled", "mined", "replaced", "reverted"}]]
    /\ pool \in {"unknown", "valid", "refused"}
    /\ changes \in 0 .. MaxWalletChanges

Init ==
    /\ wallet \in Wallets /\ shown = wallet
    /\ form = [side |-> "buy", amount |-> 1]
    /\ requests = {} /\ quote = None /\ reviewed = None
    /\ status = "idle" /\ modal = "closed" /\ hash = None /\ job = None
    /\ cached = [k \in Wallets \X Sides |-> 0]
    /\ allowance = [k \in Wallets \X Sides |-> 0]
    /\ txs = [n \in {} |-> None]
    /\ pool = "unknown" /\ changes = 0

\* The effect that lets an open modal follow the status.
Phase(s, m) ==
    CASE m = "closed" -> "closed"
      [] m # "closed" /\ s = "busy" -> "busy"
      [] m # "closed" /\ s = "confirmed" -> "confirmed"
      [] m # "closed" /\ s = "error" -> "failed"
      [] OTHER -> m

SetStatus(s) == status' = s /\ modal' = Phase(s, modal)

-----------------------------------------------------------------------------
(* Typing and quotes.  The open modal covers the page. *)

\* Code, pair, fee tier and factory of the pool and its periphery are read once and
\* are as configured, or the page refuses to quote.
ValidatePool ==
    /\ pool = "unknown" /\ pool' \in {"valid", "refused"}
    /\ UNCHANGED <<page, display, job, ledger, wallet, shown, changes>>

Edit ==
    /\ job = None /\ modal = "closed"
    /\ \E side \in Sides, amount \in Amounts :
         /\ form # [side |-> side, amount |-> amount]
         /\ form' = [side |-> side, amount |-> amount]
    /\ quote' = None
    /\ UNCHANGED <<requests, reviewed, display, job, ledger, outside>>

RequestQuote ==
    /\ pool = "valid" /\ job = None /\ modal = "closed"
    /\ Cardinality(requests) < MaxRequests
    /\ requests' = requests \cup
         {[side |-> form.side, amount |-> form.amount, wallet |-> shown]}
    /\ SetStatus("quoting")
    /\ UNCHANGED <<form, quote, reviewed, hash, job, ledger, outside>>

\* Variant: an answer that comes during a review or a swap still counts.
AnswerAnytime(q) ==
    /\ q \in requests
    /\ requests' = requests \ {q}
    /\ \/ quote' = q /\ SetStatus("idle")
       \/ SetStatus("error") /\ UNCHANGED quote
    /\ UNCHANGED <<form, reviewed, hash, job, ledger, outside>>

\* Whichever request is answered last wins, unless a review or a swap is under way.
Answer(q) ==
    /\ q \in requests
    /\ requests' = requests \ {q}
    /\ \/ /\ job # None \/ modal # "closed"
          /\ UNCHANGED <<quote, status, modal>>
       \/ /\ job = None /\ modal = "closed"
          /\ \/ quote' = q /\ SetStatus("idle")
             \/ SetStatus("error") /\ UNCHANGED quote
    /\ UNCHANGED <<form, reviewed, hash, job, ledger, outside>>

OpenReview ==
    /\ quote # None /\ job = None /\ status # "quoting" /\ modal = "closed"
    /\ reviewed' = [quote |-> quote, side |-> form.side]
    /\ modal' = Phase(status, "review")
    /\ UNCHANGED <<form, requests, quote, status, hash, job, ledger, outside>>

\* Not while the phase is a busy one.  An outcome is forgotten with the modal.
CloseModal ==
    /\ modal \notin {"closed", "busy"}
    /\ modal' = "closed" /\ reviewed' = None /\ hash' = None
    /\ status' = IF status \in {"confirmed", "error"} THEN "idle" ELSE status
    /\ UNCHANGED <<form, requests, quote, job, ledger, outside>>

-----------------------------------------------------------------------------
(* submit *)

MaySubmit == job = None /\ modal = "review" /\ reviewed # None

\* As far as it is not a matter of time, see SubmitStale.
quoteIsFresh(q) == q.wallet = shown

\* assertContext fails before anything is done, be it only for the quote's age.
SubmitStale ==
    /\ MaySubmit
    /\ quote' = None /\ SetStatus("error")
    /\ UNCHANGED <<form, requests, reviewed, hash, job, ledger, outside>>

\* submit until its first await: the cached state decides whether to approve.
Submit ==
    /\ MaySubmit /\ quoteIsFresh(reviewed.quote)
    /\ LET short == cached[<<shown, form.side>>] < reviewed.quote.amount
       IN  /\ job' = [review |-> reviewed, wallet |-> shown, tx |-> None,
                      stage |-> IF short THEN "approve" ELSE "send"]
           /\ hash' = IF short THEN hash ELSE None
    /\ SetStatus("busy")
    /\ UNCHANGED <<page, ledger, outside>>

AssertContext == shown = job.wallet
WalletAgrees == wallet = job.wallet

NewTx(kind) ==
    [kind |-> kind, by |-> job.wallet, quote |-> job.review.quote,
     review |-> job.review, fate |-> "pooled"]
Sent(tx) == [n \in DOMAIN txs \cup {Cardinality(DOMAIN txs) + 1} |->
               IF n \in DOMAIN txs THEN txs[n] ELSE tx]
Latest == Cardinality(DOMAIN txs) + 1

\* The spender's allowance that a swap of this account and side draws on: of the
\* token paid in, which the side decides.
AllowanceRead(w, side) == allowance[<<w, side>>]

\* waitForTransactionReceipt, as it is called here, resolves with whatever was mined
\* with the transaction's nonce: also with what the user replaced or cancelled it by
\* in the wallet.
Succeeded(n) == txs[n].fate \in {"mined", "replaced"}

\* approveExactly, until its receipt.  The side is the one reviewed.
Approve ==
    /\ job # None /\ job.stage = "approve" /\ WalletAgrees /\ Latest \in Sends
    /\ txs' = Sent(NewTx("approve"))
    /\ hash' = Latest /\ SetStatus("busy")
    /\ job' = [job EXCEPT !.stage = "approving", !.tx = Latest]
    /\ UNCHANGED <<page, cached, allowance, outside>>

Approved ==
    /\ job # None /\ job.stage = "approving" /\ Succeeded(job.tx)
    /\ job' = [job EXCEPT !.stage = "reread"]
    /\ SetStatus("busy")
    /\ UNCHANGED <<page, hash, ledger, outside>>

\* waitForGraduatedAllowance, then assertContext; five reads that do not show the
\* allowance end in an error.
Reread ==
    /\ job # None /\ job.stage = "reread" /\ AssertContext
    /\ AllowanceRead(job.wallet, job.review.side) >= job.review.quote.amount
    /\ job' = [job EXCEPT !.stage = "send"]
    /\ hash' = None /\ SetStatus("busy")
    /\ UNCHANGED <<page, ledger, outside>>

\* The payload is built from the quote, the side of which it carries.
Send ==
    /\ job # None /\ job.stage = "send" /\ WalletAgrees /\ Latest \in Sends
    /\ txs' = Sent(NewTx("swap"))
    /\ hash' = Latest /\ SetStatus("busy")
    /\ job' = [job EXCEPT !.stage = "swapping", !.tx = Latest]
    /\ UNCHANGED <<page, cached, allowance, outside>>

\* Variant: any receipt is a success.
SwappedSomehow ==
    /\ job # None /\ job.stage = "swapping" /\ txs[job.tx].fate # "pooled"
    /\ SetStatus("confirmed")
    /\ job' = [job EXCEPT !.stage = "refresh"]
    /\ UNCHANGED <<page, hash, ledger, outside>>

Swapped ==
    /\ job # None /\ job.stage = "swapping" /\ Succeeded(job.tx)
    /\ SetStatus("confirmed")
    /\ job' = [job EXCEPT !.stage = "refresh"]
    /\ UNCHANGED <<page, hash, ledger, outside>>

\* The invalidated queries are awaited before the page is released.
Refreshed ==
    /\ job # None /\ job.stage = "refresh"
    /\ cached' = [cached EXCEPT ![<<shown, form.side>>] = AllowanceRead(shown, form.side)]
    /\ job' = None
    /\ UNCHANGED <<page, display, allowance, txs, outside>>

\* The catch and finally clauses of submit.
GiveUp ==
    /\ SetStatus("error")
    /\ job' = None
    /\ UNCHANGED <<page, hash, cached, allowance, outside>>

\* The wallet refuses, is another account or network, or fails, and then the user
\* may have signed what the page gives up on.
WalletFails ==
    /\ job # None /\ job.stage \in {"approve", "send"} /\ GiveUp
    /\ \/ UNCHANGED txs
       \/ /\ WalletAgrees /\ Latest \in Sends
          /\ txs' = Sent(NewTx(IF job.stage = "approve" THEN "approve" ELSE "swap"))

\* A receipt shows a revert or does not come within two minutes.
ReceiptFails ==
    /\ job # None /\ job.stage \in {"approving", "swapping"} /\ GiveUp
    /\ UNCHANGED txs

\* Reading the allowance fails or times out, or does not show it five times.
ReadFails ==
    /\ job # None /\ job.stage = "reread" /\ GiveUp
    /\ UNCHANGED txs

-----------------------------------------------------------------------------
(* Wallet and chain *)

RefetchState ==
    /\ cached' = [cached EXCEPT ![<<shown, form.side>>] = AllowanceRead(shown, form.side)]
    /\ cached' # cached
    /\ UNCHANGED <<page, display, job, allowance, txs, outside>>

WalletChanges ==
    /\ changes < MaxWalletChanges
    /\ changes' = changes + 1
    /\ \E w \in Wallets \ {wallet} : wallet' = w
    /\ UNCHANGED <<shown, pool, page, display, job, ledger>>

RenderWallet ==
    /\ shown # wallet
    /\ shown' = wallet
    /\ UNCHANGED <<wallet, pool, changes, page, display, job, ledger>>

\* External: an approval sets the allowance, a swap spends it or reverts; either may
\* be replaced in the wallet by a transaction that has nothing to do with the page.
Mine(n) ==
    /\ n \in DOMAIN txs /\ txs[n].fate = "pooled"
    /\ LET tx == txs[n]
           key == <<tx.by, IF tx.kind = "approve" THEN tx.review.side ELSE tx.quote.side>>
       IN  \/ /\ \E fate \in {"reverted", "replaced"} : txs' = [txs EXCEPT ![n].fate = fate]
              /\ UNCHANGED allowance
           \/ /\ tx.kind = "approve" \/ allowance[key] >= tx.quote.amount
              /\ txs' = [txs EXCEPT ![n].fate = "mined"]
              /\ allowance' = [allowance EXCEPT
                                 ![key] = IF tx.kind = "approve" THEN tx.quote.amount
                                          ELSE @ - tx.quote.amount]
    /\ UNCHANGED <<page, display, job, cached, outside>>

Next ==
    \/ ValidatePool \/ Edit \/ RequestQuote \/ OpenReview \/ CloseModal
    \/ \E q \in Quote : Answer(q)
    \/ SubmitStale \/ Submit \/ Approve \/ Approved \/ Reread \/ Send \/ Swapped
    \/ Refreshed \/ WalletFails \/ ReceiptFails \/ ReadFails \/ RefetchState \/ WalletChanges \/ RenderWallet
    \/ \E n \in Sends : Mine(n)

Spec == Init /\ [][Next]_vars

-----------------------------------------------------------------------------
(* Properties *)

\* What the modal calls confirmed is the swap under review: the transaction it
\* links to is a swap, not its approval or an earlier one, with the quote the user
\* reviewed and signed by the account that quote was made for, and it was mined
\* without a revert, unless the user replaced it in the wallet (submit,
\* approveExactly and closeModal, which all write hash and status).
ConfirmedIsTheReviewedSwap ==
    modal = "confirmed" =>
      /\ hash \in DOMAIN txs
      /\ txs[hash].kind = "swap" /\ txs[hash].fate \in {"mined", "replaced"}
      /\ txs[hash].review = reviewed /\ txs[hash].by = reviewed.quote.wallet

\* From the moment the user confirms until the outcome is known the modal stands
\* in a busy phase with the swap under way: it can neither be closed nor confirmed
\* again, whatever quotes are answered and wallets change meanwhile (busy,
\* modalOpenRef, transactionPhaseIsBusy).
ModalFollowsTheSwap ==
    job # None /\ job.stage # "refresh" => modal = "busy" /\ reviewed = job.review
=============================================================================
