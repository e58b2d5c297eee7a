------------------------- MODULE GraduatedSwap_proofs -------------------------
(***************************************************************************)
(* Theorems about GraduatedSwap: while a swap is under way the modal shows  *)
(* that swap and nothing else, and what it calls confirmed is the swap that *)
(* was reviewed, for any wallets, amounts and number of transactions.       *)
(***************************************************************************)
EXTENDS GraduatedSwap, FiniteSetTheorems, TLAPS

-----------------------------------------------------------------------------
(* Transactions *)

Tx == [kind : {"approve", "swap"}, by : Wallets, quote : Quote, review : Review,
       fate : {"pooled", "mined", "replaced", "reverted"}]

Job == [review : Review, stage : Stages, wallet : Wallets, tx : Sends \cup {None}]

\* Transactions are numbered as they are sent.
Numbered == \E k \in Nat : DOMAIN txs = 1 .. k

\* The number of the next transaction is free.
LEMMA LatestIsFree ==
  ASSUME Numbered
  PROVE  Latest \notin DOMAIN txs /\ \E k \in Nat : DOMAIN txs \cup {Latest} = 1 .. k
<1>1. PICK k \in Nat : DOMAIN txs = 1 .. k
  BY DEF Numbered
<1>2. Cardinality(1 .. k) = k
  BY FS_Interval
<1>3. Latest = k + 1
  BY <1>1, <1>2 DEF Latest
<1>4. (1 .. k) \cup {k + 1} = 1 .. (k + 1)
  OBVIOUS
<1> QED
  BY <1>1, <1>3, <1>4

\* Sending adds one transaction and changes no other.
LEMMA SentAdds ==
  ASSUME Numbered, NEW tx, txs' = Sent(tx)
  PROVE  /\ Numbered' /\ DOMAIN txs' = DOMAIN txs \cup {Latest}
         /\ txs'[Latest] = tx
         /\ \A n \in DOMAIN txs : txs'[n] = txs[n]
<1>1. /\ DOMAIN txs' = DOMAIN txs \cup {Latest}
      /\ \A n \in DOMAIN txs \cup {Latest} :
           txs'[n] = IF n \in DOMAIN txs THEN txs[n] ELSE tx
  BY DEF Sent, Latest
<1> HIDE DEF Latest
<1> QED
  BY <1>1, LatestIsFree DEF Numbered

-----------------------------------------------------------------------------
(* The invariant *)

\* The parts of TypeOK the invariant rests on.
SwapType ==
    /\ {wallet, shown} \subseteq Wallets
    /\ form \in [side : Sides, amount : Amounts]
    /\ requests \subseteq Quote
    /\ quote \in Quote \cup {None} /\ reviewed \in Review \cup {None}
    /\ job # None => job \in Job

TxsType == \A n \in DOMAIN txs : txs[n] \in Tx

Running == job # None /\ job.stage # "refresh"

\* A swap under way is the one reviewed, by the account its quote is for.
JobInv ==
    /\ job # None => job.wallet = job.review.quote.wallet
    /\ Running => modal = "busy" /\ reviewed = job.review

\* The transaction the job waits for is its own; the swap is also on display.
SendInv ==
    /\ job # None /\ job.stage \in {"approving", "swapping"} => job.tx \in DOMAIN txs
    /\ job # None /\ job.stage = "swapping" =>
         /\ hash = job.tx
         /\ txs[job.tx].kind = "swap"
         /\ txs[job.tx].review = job.review /\ txs[job.tx].by = job.wallet

\* A closed modal has forgotten the outcome, so that none is shown for a later review.
StatusInv == status = "confirmed" => modal = "confirmed"

IInv ==
    /\ SwapType /\ Numbered /\ TxsType
    /\ JobInv /\ SendInv /\ StatusInv /\ ConfirmedIsTheReviewedSwap

LEMMA InitInv == Init => IInv
<1> SUFFICES ASSUME Init PROVE IInv
  OBVIOUS
<1>1. Numbered
  <2>1. DOMAIN txs = 1 .. 0
    BY DEF Init
  <2> QED
    BY <2>1 DEF Numbered
<1>2. SwapType
  BY SwapConstants DEF Init, SwapType, Sides, Amounts
<1> QED
  BY <1>1, <1>2
     DEF Init, IInv, TxsType, JobInv, SendInv, StatusInv, ConfirmedIsTheReviewedSwap, Running

-----------------------------------------------------------------------------
(* Types: one case per action that changes a typed variable *)

LEMMA TypeStep == IInv /\ [Next]_vars => SwapType'
<1> SUFFICES ASSUME IInv, [Next]_vars
             PROVE  SwapType'
  OBVIOUS
<1> USE DEF IInv, SwapType, page, outside, display, ledger
<1>1. CASE Edit
  BY <1>1 DEF Edit
<1>2. CASE RequestQuote
  BY <1>2 DEF RequestQuote, Quote
<1>3. CASE OpenReview
  <2>1. [quote |-> quote, side |-> form.side] \in Review
    BY <1>3 DEF OpenReview, Review
  <2> QED
    BY <1>3, <2>1 DEF OpenReview
<1>4. CASE \E q \in Quote : Answer(q)
  BY <1>4 DEF Answer
<1>5. CASE Submit
  <2>1. job' \in Job
    <3>1. reviewed \in Review /\ shown \in Wallets
      BY <1>5 DEF Submit, MaySubmit
    <3> QED
      BY <1>5, <3>1 DEF Submit, Job, Stages
  <2> QED
    BY <1>5, <2>1 DEF Submit
<1>6. CASE Approve
  <2>1. job' \in Job
    BY <1>6 DEF Approve, Job, Stages
  <2> QED
    BY <1>6, <2>1 DEF Approve
<1>7. CASE Send
  <2>1. job' \in Job
    BY <1>7 DEF Send, Job, Stages
  <2> QED
    BY <1>7, <2>1 DEF Send
<1>8. CASE Approved \/ Reread \/ Swapped
  <2>1. job' \in Job
    BY <1>8 DEF Approved, Reread, Swapped, Job, Stages
  <2> QED
    BY <1>8, <2>1 DEF Approved, Reread, Swapped
<1>9. CASE SubmitStale \/ CloseModal
  BY <1>9 DEF SubmitStale, CloseModal
<1>10. CASE Refreshed \/ WalletFails \/ ReceiptFails \/ ReadFails
  BY <1>10 DEF Refreshed, WalletFails, ReceiptFails, ReadFails, GiveUp
<1>11. CASE WalletChanges \/ RenderWallet
  BY <1>11 DEF WalletChanges, RenderWallet
<1>12. CASE ValidatePool \/ RefetchState \/ (\E n \in Sends : Mine(n)) \/ UNCHANGED vars
  BY <1>12 DEF ValidatePool, RefetchState, Mine, vars
<1> QED
  BY <1>1, <1>2, <1>3, <1>4, <1>5, <1>6, <1>7, <1>8, <1>9, <1>10, <1>11, <1>12 DEF Next

-----------------------------------------------------------------------------
(* The other conjuncts *)

\* Steps of the user, the quotes, the wallet and the allowance: none sends, and none
\* disturbs a swap under way or the outcome on display.
LEMMA QuietStep ==
  ASSUME IInv,
         \/ Edit \/ RequestQuote \/ OpenReview \/ CloseModal \/ SubmitStale
         \/ \E q \in Quote : Answer(q)
         \/ ValidatePool \/ RefetchState \/ WalletChanges \/ RenderWallet
         \/ UNCHANGED vars
  PROVE  (Numbered /\ TxsType /\ JobInv /\ SendInv /\ StatusInv
          /\ ConfirmedIsTheReviewedSwap)'
<1> USE DEF IInv, page, outside, display, ledger, Running, MaySubmit, SetStatus, Phase,
            Numbered, TxsType, JobInv, SendInv, StatusInv, ConfirmedIsTheReviewedSwap
<1>1. CASE Edit
  BY <1>1 DEF Edit
<1>2. CASE RequestQuote
  BY <1>2 DEF RequestQuote
<1>3. CASE OpenReview
  BY <1>3 DEF OpenReview
<1>4. CASE CloseModal
  BY <1>4 DEF CloseModal
<1>5. CASE SubmitStale
  BY <1>5 DEF SubmitStale
<1>6. CASE \E q \in Quote : Answer(q)
  BY <1>6 DEF Answer
<1>7. CASE ValidatePool \/ RefetchState \/ WalletChanges \/ RenderWallet \/ UNCHANGED vars
  BY <1>7 DEF ValidatePool, RefetchState, WalletChanges, RenderWallet, vars
<1> QED
  BY <1>1, <1>2, <1>3, <1>4, <1>5, <1>6, <1>7

\* Steps of submit that send nothing.
LEMMA SubmitStep ==
  ASSUME IInv,
         \/ Submit \/ Approved \/ Reread \/ Swapped \/ Refreshed
         \/ GiveUp /\ Running /\ UNCHANGED txs
  PROVE  (Numbered /\ TxsType /\ JobInv /\ SendInv /\ StatusInv
          /\ ConfirmedIsTheReviewedSwap)'
<1> USE DEF IInv, page, outside, display, ledger, Running, SetStatus, Phase,
            Numbered, TxsType, JobInv, SendInv, StatusInv, ConfirmedIsTheReviewedSwap
<1>1. CASE Submit
  BY <1>1 DEF Submit, MaySubmit, quoteIsFresh
<1>2. CASE Approved
  BY <1>2 DEF Approved, Succeeded, SwapType, Job
<1>3. CASE Reread
  BY <1>3 DEF Reread, SwapType, Job
<1>4. CASE Swapped
  BY <1>4 DEF Swapped, Succeeded, SwapType, Job
<1>5. CASE Refreshed
  BY <1>5 DEF Refreshed
<1>6. CASE GiveUp /\ Running /\ UNCHANGED txs
  BY <1>6 DEF GiveUp
<1> QED
  BY <1>1, <1>2, <1>3, <1>4, <1>5, <1>6

LEMMA NewTxType ==
  ASSUME IInv, job # None, NEW kind \in {"approve", "swap"}
  PROVE  NewTx(kind) \in Tx /\ NewTx(kind).kind = kind
         /\ NewTx(kind).review = job.review /\ NewTx(kind).by = job.wallet
  BY DEF IInv, SwapType, Job, Review, NewTx, Tx

\* What sending leaves as it was, and what it adds.
LEMMA Sending ==
  ASSUME IInv, job # None, NEW kind \in {"approve", "swap"}, txs' = Sent(NewTx(kind))
  PROVE  /\ Numbered' /\ TxsType'
         /\ Latest \in DOMAIN txs'
         /\ txs'[Latest].kind = kind
         /\ txs'[Latest].review = job.review /\ txs'[Latest].by = job.wallet
         /\ \A n \in DOMAIN txs : n \in DOMAIN txs' /\ txs'[n] = txs[n]
<1>1. /\ Numbered' /\ DOMAIN txs' = DOMAIN txs \cup {Latest}
      /\ txs'[Latest] = NewTx(kind)
      /\ \A n \in DOMAIN txs : txs'[n] = txs[n]
  BY SentAdds DEF IInv
<1> HIDE DEF Latest
<1> QED
  BY <1>1, NewTxType DEF IInv, TxsType

LEMMA ApproveStep ==
  ASSUME IInv, Approve
  PROVE  (Numbered /\ TxsType /\ JobInv /\ SendInv /\ StatusInv
          /\ ConfirmedIsTheReviewedSwap)'
<1>1. job # None /\ txs' = Sent(NewTx("approve"))
  BY DEF Approve
<1>2. /\ Numbered' /\ TxsType'
      /\ Latest \in DOMAIN txs'
      /\ \A n \in DOMAIN txs : n \in DOMAIN txs' /\ txs'[n] = txs[n]
  BY <1>1, Sending
<1> HIDE DEF Latest
<1> QED
  BY <1>2 DEF Approve, IInv, page, outside, Running, SetStatus, Phase, JobInv, SendInv,
              StatusInv, ConfirmedIsTheReviewedSwap, SwapType, Job

LEMMA SendStep ==
  ASSUME IInv, Send
  PROVE  (Numbered /\ TxsType /\ JobInv /\ SendInv /\ StatusInv
          /\ ConfirmedIsTheReviewedSwap)'
<1>1. job # None /\ txs' = Sent(NewTx("swap"))
  BY DEF Send
<1>2. /\ Numbered' /\ TxsType'
      /\ Latest \in DOMAIN txs'
      /\ txs'[Latest].kind = "swap"
      /\ txs'[Latest].review = job.review /\ txs'[Latest].by = job.wallet
      /\ \A n \in DOMAIN txs : n \in DOMAIN txs' /\ txs'[n] = txs[n]
  BY <1>1, Sending
<1> HIDE DEF Latest
<1> QED
  BY <1>2 DEF Send, IInv, page, outside, Running, SetStatus, Phase, JobInv, SendInv,
              StatusInv, ConfirmedIsTheReviewedSwap, SwapType, Job

\* The wallet fails, having sent what it was asked to send.
LEMMA GiveUpStep ==
  ASSUME IInv, GiveUp, Running, NEW kind \in {"approve", "swap"},
         txs' = Sent(NewTx(kind))
  PROVE  (Numbered /\ TxsType /\ JobInv /\ SendInv /\ StatusInv
          /\ ConfirmedIsTheReviewedSwap)'
<1>1. /\ Numbered' /\ TxsType'
      /\ \A n \in DOMAIN txs : n \in DOMAIN txs' /\ txs'[n] = txs[n]
  BY Sending DEF Running
<1> QED
  BY <1>1 DEF GiveUp, IInv, page, Running, SetStatus, Phase, JobInv, SendInv, StatusInv,
              ConfirmedIsTheReviewedSwap

\* A block settles a transaction once: a mined one stays what it is.
LEMMA MineStep ==
  ASSUME IInv, NEW n \in Sends, Mine(n)
  PROVE  (Numbered /\ TxsType /\ JobInv /\ SendInv /\ StatusInv
          /\ ConfirmedIsTheReviewedSwap)'
<1>1. /\ n \in DOMAIN txs /\ txs[n].fate = "pooled"
      /\ UNCHANGED <<form, requests, quote, reviewed, status, modal, hash, job>>
  BY DEF Mine, page, display
<1>2. PICK f \in {"mined", "replaced", "reverted"} : txs' = [txs EXCEPT ![n].fate = f]
  BY DEF Mine
<1>3. DOMAIN txs' = DOMAIN txs
  BY <1>2
<1>4. ASSUME NEW m \in DOMAIN txs
      PROVE  /\ txs'[m] \in Tx
             /\ txs'[m].kind = txs[m].kind /\ txs'[m].review = txs[m].review
             /\ txs'[m].by = txs[m].by
             /\ txs[m].fate # "pooled" => txs'[m].fate = txs[m].fate
  BY <1>1, <1>2, <1>4 DEF IInv, TxsType, Tx
<1> QED
  BY <1>1, <1>3, <1>4
     DEF IInv, Numbered, TxsType, JobInv, SendInv, StatusInv, ConfirmedIsTheReviewedSwap,
         Running

LEMMA NextInv == IInv /\ [Next]_vars => IInv'
<1> SUFFICES ASSUME IInv, [Next]_vars
             PROVE  (Numbered /\ TxsType /\ JobInv /\ SendInv /\ StatusInv
                     /\ ConfirmedIsTheReviewedSwap)'
  BY TypeStep DEF IInv
<1>1. CASE Approve
  BY <1>1, ApproveStep
<1>2. CASE Send
  BY <1>2, SendStep
<1>3. CASE WalletFails
  <2>1. GiveUp /\ Running
    BY <1>3 DEF WalletFails, Running
  <2>2. CASE UNCHANGED txs
    BY <2>1, <2>2, SubmitStep
  <2>3. CASE txs' = Sent(NewTx("approve"))
    BY <2>1, <2>3, GiveUpStep
  <2>4. CASE txs' = Sent(NewTx("swap"))
    BY <2>1, <2>4, GiveUpStep
  <2> QED
    BY <1>3, <2>2, <2>3, <2>4 DEF WalletFails
<1>4. CASE ReceiptFails \/ ReadFails
  BY <1>4, SubmitStep DEF ReceiptFails, ReadFails, Running
<1>5. CASE \E n \in Sends : Mine(n)
  BY <1>5, MineStep
<1> QED
  BY <1>1, <1>2, <1>3, <1>4, <1>5, QuietStep, SubmitStep DEF Next

-----------------------------------------------------------------------------

\* submit, busy and the modal's phase: for any wallets, amounts and number of
\* transactions, from the confirmation to the outcome the modal is busy with the swap
\* that was reviewed.
THEOREM ModalStaysWithTheSwap == Spec => []ModalFollowsTheSwap
<1>1. IInv => ModalFollowsTheSwap
  BY DEF IInv, JobInv, Running, ModalFollowsTheSwap
<1> QED
  BY <1>1, InitInv, NextInv, PTL DEF Spec

\* submit and closeModal, which write hash and status: for any wallets, amounts and
\* number of transactions, a confirmed modal links to a swap, mined or replaced in the
\* wallet, of the quote that was reviewed and by the account that quote was made for.
THEOREM OnlyTheReviewedSwapIsConfirmed == Spec => []ConfirmedIsTheReviewedSwap
<1>1. IInv => ConfirmedIsTheReviewedSwap
  BY DEF IInv
<1> QED
  BY <1>1, InitInv, NextInv, PTL DEF Spec
=============================================================================
