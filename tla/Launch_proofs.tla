---------------------------- MODULE Launch_proofs ----------------------------
(***************************************************************************)
(* Theorems about Launch: the API's FinalizeMetadata and the indexer's      *)
(* reconcileLinkedMetadata never leave a stored, linked token without its   *)
(* metadata, and what the page says of a launch and of its dev buy is so,   *)
(* for any number of launches, dev buys, reorganisations and failures.      *)
(***************************************************************************)
EXTENDS Launch, TLAPS

-----------------------------------------------------------------------------
(* The invariant *)

Requests == [stage : {"none", "link", "read", "commit", "answered"},
             lock : BOOLEAN, seen : BOOLEAN,
             answer : {"none", "token", "not_indexed", "error"}]

Transactions == [n : Launches, metadata : {"unread", "found", "missing", "failed"}]

ServicesType ==
    /\ linked \subseteq Launches
    /\ row \in [Launches -> {"none", "canonical", "orphaned"}]
    /\ request \in [Launches -> Requests]
    /\ indexing \in Transactions \cup {None}
    /\ unreconciled \subseteq Launches

\* The lock on the identity of a launch: the API holds it from the link to the end of
\* its transaction, and never while the indexer does.
LockIsExclusive(n) ==
    Holds(n) => request[n].stage \in {"read", "commit"} /\ ~IndexerHolds(n)

\* The API goes on without the lock only for a link that is committed.
LinkedWithoutLock(n) ==
    request[n].stage \in {"read", "commit"} /\ ~Holds(n) => n \in linked

\* What the API has read stays true while it holds the lock: the launch that was not
\* stored is not stored before the link is, but by an indexer that did without the lock.
UnseenIsUnstored(n) ==
    Holds(n) /\ request[n].stage = "commit" /\ ~request[n].seen =>
      row[n] # "canonical" \/ n \in unreconciled

\* What the indexer has read stays true while it holds the lock.
UnfoundIsUnlinked(n) == IndexerHolds(n) /\ indexing.metadata = "missing" => n \notin linked

Described(n) == n \in linked \ unreconciled /\ row[n] = "canonical" => n \in described

LaunchInv(n) ==
    /\ LockIsExclusive(n) /\ LinkedWithoutLock(n)
    /\ UnseenIsUnstored(n) /\ UnfoundIsUnlinked(n) /\ Described(n)

IInv == ServicesType /\ \A n \in Launches : LaunchInv(n)

LEMMA InitInv == Init => IInv
  BY DEF Init, IInv, ServicesType, Requests, LaunchInv, LockIsExclusive, LinkedWithoutLock,
         UnseenIsUnstored, UnfoundIsUnlinked, Described, NoRequest, Holds, IndexerHolds

-----------------------------------------------------------------------------
(* Steps *)

\* The page only ever begins a request or takes its answer, and neither is in the
\* middle of the API's transaction.
LEMMA PageStep ==
  ASSUME IInv, Claim \/ Answer \/ Retry
  PROVE  IInv'
<1> DEFINE fresh == [NoRequest EXCEPT !.stage = "link"]
<1>1. UNCHANGED <<linked, row, described, indexing, unreconciled>>
  BY DEF Claim, Answer, Retry
<1>2. \/ request' = [request EXCEPT ![page.n] = fresh]
      \/ request' = [request EXCEPT ![page.n] = NoRequest]
      \/ request' = request
  BY DEF Claim, Answer, Retry
<1>3. /\ fresh \in Requests /\ NoRequest \in Requests
      /\ ~fresh.lock /\ fresh.stage = "link"
      /\ ~NoRequest.lock /\ NoRequest.stage = "none"
  BY DEF Requests, NoRequest
<1> HIDE DEF fresh
<1>4. ServicesType'
  BY <1>1, <1>2, <1>3 DEF IInv, ServicesType
<1>5. ASSUME NEW n \in Launches
      PROVE  \/ request'[n] = request[n]
             \/ ~request'[n].lock /\ request'[n].stage \in {"none", "link"}
  BY <1>2, <1>3 DEF IInv, ServicesType
<1>6. ASSUME NEW n \in Launches
      PROVE  LaunchInv(n)'
  <2>1. LaunchInv(n)
    BY DEF IInv
  <2> QED
    BY <2>1, <1>1, <1>5
       DEF LaunchInv, LockIsExclusive, LinkedWithoutLock, UnseenIsUnstored,
           UnfoundIsUnlinked, Described, Holds, IndexerHolds
<1> QED
  BY <1>4, <1>6 DEF IInv

\* The steps of the API's transaction, and its failure.
LEMMA ApiStep ==
  ASSUME IInv, NEW k \in Launches, Api(k) \/ LoseRequest(k)
  PROVE  IInv'
<1> USE DEF SetRequest, Answered
<1>1. UNCHANGED <<row, indexing, unreconciled>>
  BY DEF Api, Link, ReadToken, CommitRequest, LoseRequest
<1>2. PICK r \in Requests : request' = [request EXCEPT ![k] = r]
  BY DEF Api, Link, ReadToken, CommitRequest, LoseRequest, IInv, ServicesType, Requests,
         NoRequest
<1>3. linked' = linked \/ linked' = linked \cup {k}
  BY DEF Api, Link, ReadToken, CommitRequest, LoseRequest
<1>4. described' = described \/ described' = described \cup {k}
  BY DEF Api, Link, ReadToken, CommitRequest, LoseRequest
<1>5. ServicesType'
  BY <1>1, <1>2, <1>3 DEF IInv, ServicesType
<1>6. LaunchInv(k) /\ request[k] \in Requests
  BY DEF IInv, ServicesType
<1>7. ASSUME NEW n \in Launches, n # k
      PROVE  LaunchInv(n)'
  <2>1. LaunchInv(n) /\ request'[n] = request[n]
    BY <1>2, <1>7 DEF IInv, ServicesType
  <2> QED
    BY <2>1, <1>1, <1>3, <1>4, <1>7
       DEF LaunchInv, LockIsExclusive, LinkedWithoutLock, UnseenIsUnstored,
           UnfoundIsUnlinked, Described, Holds, IndexerHolds
<1>8. CommitRequest(k) \/ LoseRequest(k) =>
        ~request'[k].lock /\ request'[k].stage = "answered"
  <2>1. ASSUME NEW a, Answered(k, a)
        PROVE  ~request'[k].lock /\ request'[k].stage = "answered"
    <3> DEFINE q == [NoRequest EXCEPT !.stage = "answered", !.answer = a]
    <3>1. ~q.lock /\ q.stage = "answered"
      BY DEF NoRequest
    <3>2. request' = [request EXCEPT ![k] = q]
      BY <2>1
    <3> HIDE DEF q
    <3> QED
      BY <3>1, <3>2 DEF IInv, ServicesType
  <2>2. CommitRequest(k) \/ LoseRequest(k) =>
          Answered(k, "token") \/ Answered(k, "not_indexed") \/ Answered(k, "error")
    BY DEF CommitRequest, LoseRequest
  <2> QED
    BY <2>1, <2>2
<1>9. LaunchInv(k)'
  <2> USE <1>1, <1>6
      DEF LaunchInv, LockIsExclusive, LinkedWithoutLock, UnseenIsUnstored,
          UnfoundIsUnlinked, Described, Holds, IndexerHolds, Requests
  <2>1. request'[k] = r
    BY <1>2 DEF IInv, ServicesType
  <2>2. CASE Link(k)
    <3>1. /\ request'[k].stage = "read"
          /\ \/ k \in linked /\ request'[k].lock = request[k].lock
             \/ request'[k].lock /\ ~IndexerHolds(k)
      <4>1. CASE k \in linked
        <5>1. request' = [request EXCEPT ![k] = [request[k] EXCEPT !.stage = "read"]]
          BY <2>2, <4>1 DEF Link
        <5> QED
          BY <4>1, <5>1 DEF IInv, ServicesType
      <4>2. CASE k \notin linked
        <5>1. /\ ~IndexerHolds(k)
              /\ request' = [request EXCEPT ![k] = [request[k] EXCEPT
                                                     !.stage = "read", !.lock = TRUE]]
          BY <2>2, <4>2 DEF Link
        <5> QED
          BY <5>1 DEF IInv, ServicesType
      <4> QED
        BY <4>1, <4>2
    <3>2. request[k].stage = "link" /\ UNCHANGED <<linked, described>>
      BY <2>2 DEF Link
    <3> QED
      BY <3>1, <3>2
  <2>3. CASE ReadToken(k)
    <3> DEFINE stored == row[k] = "canonical"
    <3>1. ASSUME NEW c \in BOOLEAN
          PROVE  LET q == [request[k] EXCEPT !.stage = "commit", !.seen = c]
                 IN  q.lock = request[k].lock /\ q.stage = "commit" /\ q.seen = c
      OBVIOUS
    <3>2. stored \in BOOLEAN
      OBVIOUS
    <3>3. request' = [request EXCEPT ![k] = [request[k] EXCEPT
                                               !.stage = "commit", !.seen = stored]]
      BY <2>3 DEF ReadToken
    <3>4. request'[k] = [request[k] EXCEPT !.stage = "commit", !.seen = stored]
      BY <3>3, Zenon DEF IInv, ServicesType
    <3>5. /\ request'[k].lock = request[k].lock /\ request'[k].stage = "commit"
          /\ request'[k].seen = stored
      BY <3>1, <3>2, <3>4, Zenon
    <3>6. request[k].stage = "read" /\ UNCHANGED <<linked, described>>
      BY <2>3 DEF ReadToken
    <3> QED
      BY <3>5, <3>6
  <2>4. CASE CommitRequest(k)
    <3>1. request[k].stage = "commit"
      BY <2>4 DEF CommitRequest
    <3>2. UnfoundIsUnlinked(k)'
      BY <3>1, <1>3
    <3>3. Described(k)'
      BY <2>4, <3>1 DEF CommitRequest
    <3> QED
      BY <2>4, <3>2, <3>3, <1>8
  <2>5. CASE LoseRequest(k)
    BY <2>5, <1>8 DEF LoseRequest
  <2> QED
    BY <2>2, <2>3, <2>4, <2>5 DEF Api
<1> QED
  BY <1>5, <1>7, <1>9 DEF IInv

\* The indexer's transaction, its failure, and the rewinding of a launch.
LEMMA IndexerStep ==
  ASSUME IInv, Indexer \/ AbortLaunch \/ ReconcileFails
  PROVE  IInv'
<1> USE DEF LaunchInv, LockIsExclusive, LinkedWithoutLock, UnseenIsUnstored,
            UnfoundIsUnlinked, Described, Holds, IndexerHolds, IInv, ServicesType
<1>1. CASE \E n \in Launches : StoreLaunch(n)
  <2>1. PICK m \in Launches : StoreLaunch(m)
    BY <1>1
  <2>2. /\ indexing' \in Transactions
        /\ indexing'.metadata = "unread"
    BY <2>1 DEF StoreLaunch, Transactions
  <2>3. UNCHANGED <<linked, row, described, request, unreconciled>>
    BY <2>1 DEF StoreLaunch
  <2>4. ServicesType'
    BY <2>2, <2>3
  <2>5. ASSUME NEW n \in Launches
        PROVE  LaunchInv(n)'
    BY <2>2, <2>3
  <2> QED
    BY <2>4, <2>5
<1>2. CASE \E n \in Launches : Rewind(n)
  BY <1>2 DEF Rewind
<1>3. CASE Reconcile
  <2>1. indexing \in Transactions
    BY <1>3 DEF Reconcile
  <2>2. /\ indexing' \in Transactions /\ indexing'.n = indexing.n
        /\ indexing'.metadata = IF indexing.n \in linked THEN "found" ELSE "missing"
    <3>1. CASE indexing.n \in linked
      <4>1. indexing' = [indexing EXCEPT !.metadata = "found"]
        BY <1>3, <3>1 DEF Reconcile
      <4> QED
        BY <2>1, <3>1, <4>1 DEF Transactions
    <3>2. CASE indexing.n \notin linked
      <4>1. indexing' = [indexing EXCEPT !.metadata = "missing"]
        BY <1>3, <3>2 DEF Reconcile
      <4> QED
        BY <2>1, <3>2, <4>1 DEF Transactions
    <3> QED
      BY <3>1, <3>2
  <2>3. ~Holds(indexing.n)
    BY <1>3 DEF Reconcile
  <2>4. UNCHANGED <<linked, row, described, request, unreconciled>>
    BY <1>3 DEF Reconcile
  <2>5. ServicesType'
    BY <2>2, <2>4
  <2>6. ASSUME NEW n \in Launches
        PROVE  LaunchInv(n)'
    BY <2>1, <2>2, <2>3, <2>4
  <2> QED
    BY <2>5, <2>6
<1>4. CASE CommitLaunch
  <2>1. indexing \in Transactions
    BY <1>4 DEF CommitLaunch
  <2>2. ServicesType'
    <3>1. indexing.n \in Launches
      BY <2>1 DEF Transactions
    <3>2. unreconciled' \subseteq Launches
      BY <1>4, <3>1 DEF CommitLaunch
    <3> QED
      BY <1>4, <3>1, <3>2 DEF CommitLaunch
  <2>3. ASSUME NEW n \in Launches
        PROVE  LaunchInv(n)'
    <3>1. CASE n = indexing.n
      <4>1. /\ UNCHANGED <<linked, request>> /\ indexing' = None /\ indexing # None
            /\ indexing.metadata \in {"found", "missing", "failed"}
            /\ indexing.metadata = "found" => n \in described'
            /\ indexing.metadata = "failed" <=> n \in unreconciled'
        BY <1>4, <2>1, <3>1 DEF CommitLaunch, Transactions
      <4>2. LaunchInv(n)
        OBVIOUS
      <4>3. CASE indexing.metadata = "failed"
        BY <3>1, <4>1, <4>2, <4>3
      <4>4. CASE indexing.metadata # "failed"
        <5>1. IndexerHolds(n) /\ ~Holds(n)
          BY <3>1, <4>1, <4>2, <4>4
        <5> QED
          BY <3>1, <4>1, <4>2, <4>4, <5>1
      <4> QED
        BY <4>3, <4>4
    <3>2. CASE n # indexing.n
      BY <1>4, <2>1, <3>2 DEF CommitLaunch
    <3> QED
      BY <3>1, <3>2
  <2> QED
    BY <2>2, <2>3
<1>5. CASE AbortLaunch
  BY <1>5 DEF AbortLaunch
<1>6. CASE ReconcileFails
  <2>1. /\ indexing' \in Transactions /\ indexing'.metadata = "failed"
        /\ UNCHANGED <<linked, row, described, request, unreconciled>>
    <3>1. indexing \in Transactions /\ indexing' = [indexing EXCEPT !.metadata = "failed"]
      BY <1>6 DEF ReconcileFails
    <3> QED
      BY <1>6, <3>1 DEF Transactions, ReconcileFails
  <2> QED
    BY <2>1
<1> QED
  BY <1>1, <1>2, <1>3, <1>4, <1>5, <1>6 DEF Indexer

\* Nothing else touches the services.
LEMMA OtherStep ==
  ASSUME IInv, UNCHANGED services
  PROVE  IInv'
  BY DEF services, IInv, ServicesType, LaunchInv, LockIsExclusive, LinkedWithoutLock,
         UnseenIsUnstored, UnfoundIsUnlinked, Described, Holds, IndexerHolds

LEMMA NextInv == IInv /\ [Next]_vars => IInv'
<1> SUFFICES ASSUME IInv, [Next]_vars
             PROVE  IInv'
  OBVIOUS
<1>1. CASE Claim \/ Answer \/ Retry
  BY <1>1, PageStep
<1>2. CASE \E n \in Launches : Api(n) \/ LoseRequest(n)
  BY <1>2, ApiStep
<1>3. CASE Indexer \/ AbortLaunch \/ ReconcileFails
  BY <1>3, IndexerStep
<1>4. CASE UNCHANGED services
  BY <1>4, OtherStep
<1>5. Form => Claim \/ Answer \/ Retry \/ UNCHANGED services
  BY DEF Form, Edit, openReview, BackToEdit, Submit, Upload, Simulate, Sign, FailSigning,
         Confirm, RejectClaim, Fail, AskBuy, RefuseBuy, SignBuy, FailSigningBuy, ConfirmBuy,
         LoseBuy, RetryDevBuy, LeavePage
<1>6. Environment =>
        (\E n \in Launches : LoseRequest(n)) \/ AbortLaunch \/ ReconcileFails
          \/ UNCHANGED services
  BY DEF Environment, MineLaunch, Orphan, MineBuy, PromptAnswered
<1> QED
  BY <1>1, <1>2, <1>3, <1>4, <1>5, <1>6 DEF Next, vars

-----------------------------------------------------------------------------

\* FinalizeMetadata and reconcileLinkedMetadata: for any number of launches, and of
\* failures and reorganisations in any order, a token that is stored and whose draft is
\* linked has the metadata of the draft, or was last stored after a reconciliation that
\* failed in its savepoint (store.go:598).
THEOREM MetadataIsNeverLost == Spec => []LinkedMetadataIsNotLost
<1>1. IInv => LinkedMetadataIsNotLost
  BY DEF IInv, ServicesType, LaunchInv, Described, LinkedMetadataIsNotLost
<1> QED
  BY <1>1, InitInv, NextInv, PTL DEF Spec

\* The lock on a launch's identity: the API and the indexer never hold it at once, so
\* what either has read of the other stays true until its own transaction commits.
THEOREM OneSideHoldsTheLaunch ==
  Spec => [](\A n \in Launches : ~(Holds(n) /\ IndexerHolds(n)))
<1>1. IInv => \A n \in Launches : ~(Holds(n) /\ IndexerHolds(n))
  BY DEF IInv, LaunchInv, LockIsExclusive
<1> QED
  BY <1>1, InitInv, NextInv, PTL DEF Spec

-----------------------------------------------------------------------------
(* What the page says *)

PageType ==
    [input : Inputs, review : BOOLEAN, stage : Stages, status : Status,
     n : 0 .. MaxLaunches, devBuy : BOOLEAN, buy : 0 .. MaxBuys, again : BOOLEAN,
     token : BOOLEAN, attempts : 0 .. MaxAttempts,
     result : {"none", "created", "pending"}, failure : Failures]

\* The chain's answers outlive a reorganisation in `receipts', and what the API
\* answered is committed.
AnswersAreKept ==
    /\ fate \in [Launches -> Fates] /\ buyFate \in [Buys -> Fates]
    /\ \A n \in Launches : fate[n] = "mined" => <<"launch", n>> \in receipts
    /\ \A b \in Buys : buyFate[b] = "mined" => <<"buy", b>> \in receipts
    /\ \A n \in Launches :
         request[n].stage = "answered" =>
           /\ request[n].answer # "error" => n \in linked
           /\ request[n].answer = "token" => n \in described

\* A launch the form works on is in the chain, from the claim of its metadata on.
SinceLaunch == {"claim", "finalize", "buy", "signBuy", "confirmBuy", "pause", "retry"}

\* Its draft is linked, from the first answer of the API on.
SinceLinked == {"buy", "signBuy", "confirmBuy", "pause", "retry"}

\* What the operation under way has established, and what the page shows of it.
PageKnows(p) ==
    /\ p.stage # "none" =>
         /\ p.n \in Launches
         /\ \/ p.status = "busy"
            \/ p.status = "dev_buy_confirmed" /\ p.stage \in {"pause", "retry"}
    /\ p.stage \in {"signBuy", "confirmBuy"} => p.buy \in Buys
    /\ p.stage \in SinceLaunch \/ p.result # "none" \/ p.failure # "none"
         => <<"launch", p.n>> \in receipts
    /\ p.again \/ p.failure # "none" => p.n \in Launches /\ p.result # "none"
    /\ (p.stage \in SinceLinked /\ ~p.again) \/ p.result = "pending" => p.n \in linked
    /\ p.again => p.stage \in {"none", "buy", "signBuy", "confirmBuy"}
    /\ p.token => p.n \in linked \cap described
    /\ p.status = "confirmed" /\ p.result = "created" => p.token
    /\ p.status = "dev_buy_confirmed" => <<"buy", p.buy>> \in receipts

PageInv == page \in PageType /\ PageKnows(page) /\ AnswersAreKept

\* The fields the form sets keep their types.
LEMMA PageUpdates ==
    ASSUME page \in PageType
    PROVE  \A s \in Stages :
             /\ [page EXCEPT !.stage = s] \in PageType
             /\ \A m \in 0 .. MaxBuys : [page EXCEPT !.stage = s, !.buy = m] \in PageType
             /\ \A b \in BOOLEAN : [page EXCEPT !.stage = s, !.token = b] \in PageType
             /\ \A t \in Status :
                  /\ [page EXCEPT !.stage = s, !.status = t] \in PageType
                  /\ [page EXCEPT !.stage = s, !.status = t, !.again = TRUE] \in PageType
                  /\ \A f \in Failures :
                       [page EXCEPT !.stage = s, !.status = t, !.failure = f] \in PageType
                  /\ \A b \in BOOLEAN, r \in {"created", "pending"} :
                       [page EXCEPT !.stage = s, !.status = t, !.token = b, !.result = r]
                         \in PageType
                  /\ \A r \in {"none", "created", "pending"}, f \in Failures :
                       [page EXCEPT !.stage = s, !.status = t, !.result = r, !.failure = f]
                         \in PageType
<1> TAKE s \in Stages
<1>1. /\ [page EXCEPT !.stage = s] \in PageType
      /\ \A m \in 0 .. MaxBuys : [page EXCEPT !.stage = s, !.buy = m] \in PageType
      /\ \A b \in BOOLEAN : [page EXCEPT !.stage = s, !.token = b] \in PageType
    BY DEF PageType
<1>2. ASSUME NEW t \in Status
      PROVE  /\ [page EXCEPT !.stage = s, !.status = t] \in PageType
             /\ [page EXCEPT !.stage = s, !.status = t, !.again = TRUE] \in PageType
    BY DEF PageType
<1>3. ASSUME NEW t \in Status, NEW f \in Failures
      PROVE  /\ [page EXCEPT !.stage = s, !.status = t, !.failure = f] \in PageType
             /\ \A r \in {"none", "created", "pending"} :
                  [page EXCEPT !.stage = s, !.status = t, !.result = r, !.failure = f]
                    \in PageType
    BY DEF PageType
<1>4. ASSUME NEW t \in Status, NEW b \in BOOLEAN, NEW r \in {"created", "pending"}
      PROVE  [page EXCEPT !.stage = s, !.status = t, !.token = b, !.result = r] \in PageType
    BY DEF PageType
<1> QED
    BY <1>1, <1>2, <1>3, <1>4

\* The page as it is opened.
LEMMA EmptyPageType == EmptyPage \in PageType
<1>1. /\ 0 \in 0 .. MaxLaunches /\ 0 \in 0 .. MaxBuys /\ 0 \in 0 .. MaxAttempts
    <2>1. MaxLaunches \in Nat /\ MaxBuys \in Nat /\ MaxAttempts \in Nat
        BY LaunchConstants
    <2> QED
        BY <2>1
<1>2. [definition |-> None, devBuy |-> ""] \in Inputs
    BY LaunchConstants DEF Inputs
<1>3. "none" \in Stages /\ "idle" \in Status /\ "none" \in Failures
    BY DEF Stages, Status, Failures
<1> QED
    BY <1>1, <1>2, <1>3 DEF EmptyPage, PageType

\* It says nothing.
LEMMA PageInitHolds == Init => PageInv
<1> SUFFICES ASSUME Init PROVE PageInv
    OBVIOUS
<1>1. page \in PageType
    BY EmptyPageType DEF Init
<1>2. PageKnows(page)
    BY DEF Init, EmptyPage, PageKnows, SinceLaunch, SinceLinked
<1>3. AnswersAreKept
    BY DEF Init, AnswersAreKept, Fates, NoRequest
<1> QED
    BY <1>1, <1>2, <1>3 DEF PageInv

\* A page that knows no more of a chain and a database that forget nothing.
LEMMA PageKeeps ==
    ASSUME PageInv, UNCHANGED page, receipts \subseteq receipts',
           linked \subseteq linked', described \subseteq described', AnswersAreKept'
    PROVE  PageInv'
BY DEF PageInv, PageKnows

\* The steps of the services: an answer follows its commit.
LEMMA ServicesKeepPage ==
    ASSUME IInv, PageInv,
           \/ \E n \in Launches : Api(n) \/ LoseRequest(n)
           \/ Indexer \/ AbortLaunch \/ ReconcileFails
    PROVE  PageInv'
<1>1. CASE \E n \in Launches : Api(n) \/ LoseRequest(n)
    <2>1. PICK k \in Launches : Api(k) \/ LoseRequest(k)
        BY <1>1
    <2>2. /\ UNCHANGED <<page, fate, buyFate, receipts>>
          /\ linked \subseteq linked' /\ described \subseteq described'
        BY <2>1 DEF Api, Link, ReadToken, CommitRequest, LoseRequest, chain
    <2>3. \E r : /\ request' = [request EXCEPT ![k] = r]
                 /\ r.stage = "answered" =>
                      /\ r.answer # "error" => k \in linked'
                      /\ r.answer = "token" => k \in described'
        <3> USE DEF SetRequest
        <3>0. request[k] \in Requests
            BY DEF IInv, ServicesType
        <3>1. CASE Link(k)
            <4>1. PICK r \in Requests : /\ request' = [request EXCEPT ![k] = r]
                                         /\ r.stage = "read"
                <5>1. /\ [request[k] EXCEPT !.stage = "read"] \in Requests
                      /\ [request[k] EXCEPT !.stage = "read"].stage = "read"
                      /\ [request[k] EXCEPT !.stage = "read", !.lock = TRUE] \in Requests
                      /\ [request[k] EXCEPT !.stage = "read", !.lock = TRUE].stage = "read"
                    BY <3>0 DEF Requests
                <5> QED
                    BY <3>1, <5>1 DEF Link
            <4> QED
                BY <4>1
        <3>2. CASE ReadToken(k)
            <4>1. PICK c : request' = [request EXCEPT ![k] =
                                         [request[k] EXCEPT !.stage = "commit", !.seen = c]]
                BY <3>2 DEF ReadToken
            <4>2. [request[k] EXCEPT !.stage = "commit", !.seen = c].stage = "commit"
                BY <3>0 DEF Requests
            <4> QED
                BY <4>1, <4>2
        <3>3. ASSUME NEW a, Answered(k, a),
                     a # "error" => k \in linked',
                     a = "token" => k \in described'
              PROVE  \E r : /\ request' = [request EXCEPT ![k] = r]
                            /\ r.stage = "answered" =>
                                 /\ r.answer # "error" => k \in linked'
                                 /\ r.answer = "token" => k \in described'
            <4> DEFINE q == [NoRequest EXCEPT !.stage = "answered", !.answer = a]
            <4>1. q.stage = "answered" /\ q.answer = a
                BY DEF NoRequest
            <4>2. request' = [request EXCEPT ![k] = q]
                BY <3>3 DEF Answered
            <4> HIDE DEF q
            <4> QED
                BY <3>3, <4>1, <4>2
        <3>4. CASE CommitRequest(k) \/ LoseRequest(k)
            <4>1. \/ Answered(k, "not_indexed") /\ k \in linked'
                  \/ Answered(k, "token") /\ k \in linked' /\ k \in described'
                  \/ Answered(k, "error")
                BY <3>4 DEF CommitRequest, LoseRequest
            <4> QED
                BY <3>3, <4>1
        <3> QED
            BY <2>1, <3>1, <3>2, <3>4 DEF Api
    <2>4. AnswersAreKept'
        BY <2>2, <2>3 DEF PageInv, AnswersAreKept, IInv, ServicesType
    <2> QED
        BY <2>2, <2>4, PageKeeps
<1>2. CASE Indexer \/ AbortLaunch \/ ReconcileFails
    <2>1. /\ UNCHANGED <<page, fate, buyFate, receipts, linked, request>>
          /\ described \subseteq described'
        BY <1>2 DEF Indexer, StoreLaunch, Rewind, Reconcile, CommitLaunch, AbortLaunch,
                      ReconcileFails, chain
    <2>2. AnswersAreKept'
        BY <2>1 DEF PageInv, AnswersAreKept
    <2> QED
        BY <2>1, <2>2, PageKeeps
<1> QED
    BY <1>1, <1>2

\* The chain: a receipt once seen stays in `receipts'.
LEMMA ChainKeepsPage ==
    ASSUME PageInv,
           \/ \E n \in Launches : MineLaunch(n) \/ Orphan(n)
           \/ \E b \in Buys : MineBuy(b)
           \/ PromptAnswered
    PROVE  PageInv'
<1>1. UNCHANGED <<page, linked, described, request>> /\ receipts \subseteq receipts'
    BY DEF MineLaunch, Orphan, MineBuy, PromptAnswered, services
<1>2. AnswersAreKept'
    <2>1. ASSUME NEW n \in Launches, MineLaunch(n) PROVE AnswersAreKept'
        BY <1>1, <2>1 DEF MineLaunch, PageInv, AnswersAreKept, Fates
    <2>2. ASSUME NEW n \in Launches, Orphan(n) PROVE AnswersAreKept'
        BY <1>1, <2>2 DEF Orphan, PageInv, AnswersAreKept, Fates
    <2>3. ASSUME NEW b \in Buys, MineBuy(b) PROVE AnswersAreKept'
        BY <1>1, <2>3 DEF MineBuy, PageInv, AnswersAreKept, Fates
    <2>4. CASE PromptAnswered
        <3>1. UNCHANGED receipts
            BY <2>4 DEF PromptAnswered
        <3>2. CASE \E n \in Launches, f \in {"pooled", "dropped"} :
                     fate' = [fate EXCEPT ![n] = f] /\ UNCHANGED buyFate
            BY <1>1, <3>1, <3>2 DEF PageInv, AnswersAreKept, Fates
        <3>3. CASE \E b \in Buys, f \in {"pooled", "dropped"} :
                     buyFate' = [buyFate EXCEPT ![b] = f] /\ UNCHANGED fate
            BY <1>1, <3>1, <3>3 DEF PageInv, AnswersAreKept, Fates
        <3> QED
            BY <2>4, <3>2, <3>3 DEF PromptAnswered
    <2> QED
        BY <2>1, <2>2, <2>3, <2>4
<1> QED
    BY <1>1, <1>2, PageKeeps

\* Editing, submitting and leaving: a page that knows nothing yet.
LEMMA FormKeepsPage ==
    ASSUME PageInv,
           \/ \E input \in Inputs : Edit(input)
           \/ openReview \/ BackToEdit \/ Submit \/ Upload \/ LeavePage
    PROVE  PageInv'
<1>1. /\ UNCHANGED <<fate, buyFate, receipts, linked, described, request>>
    BY DEF Edit, openReview, BackToEdit, Submit, Upload, LeavePage, chain, services
<1>2. AnswersAreKept'
    BY <1>1 DEF PageInv, AnswersAreKept
<1>3. CASE \E input \in Inputs : page' = [page EXCEPT !.input = input]
    BY <1>1, <1>2, <1>3 DEF PageInv, PageType, PageKnows
<1>4. CASE \E b \in BOOLEAN : page' = [page EXCEPT !.review = b]
    BY <1>1, <1>2, <1>4 DEF PageInv, PageType, PageKnows
<1>5. CASE Submit
    <2>1. PICK n \in Launches :
            page' = [EmptyPage EXCEPT !.input = page.input, !.review = TRUE, !.n = n,
                                      !.stage = "upload", !.status = "busy",
                                      !.devBuy = hasDevBuy(page.input)]
        BY <1>5 DEF Submit
    <2>2. hasDevBuy(page.input) \in BOOLEAN
        BY DEF hasDevBuy
    <2>3. /\ page'.n = n /\ page'.stage = "upload" /\ page'.status = "busy"
          /\ page'.result = "none" /\ page'.failure = "none" /\ ~page'.again /\ ~page'.token
        BY <2>1 DEF EmptyPage
    <2>4. page' \in PageType
        <3>1. /\ page.input \in Inputs /\ n \in 0 .. MaxLaunches
              /\ "upload" \in Stages /\ "busy" \in Status
            BY DEF PageInv, PageType, Launches, Stages, Status
        <3> QED
            BY <2>1, <2>2, <3>1, EmptyPageType DEF PageType
    <2>5. PageKnows(page)'
        BY <2>3 DEF PageKnows, SinceLaunch, SinceLinked
    <2> QED
        BY <1>2, <2>4, <2>5 DEF PageInv
<1>6. CASE Upload
    BY <1>1, <1>2, <1>6
    DEF Upload, At, Go, PageInv, PageType, PageKnows, Stages, SinceLaunch, SinceLinked
<1>7. CASE LeavePage
    <2>1. page' \in PageType
        BY <1>7, EmptyPageType DEF LeavePage
    <2>2. PageKnows(page)'
        BY <1>7 DEF LeavePage, EmptyPage, PageKnows, SinceLaunch, SinceLinked
    <2> QED
        BY <1>2, <2>1, <2>2 DEF PageInv
<1> QED
    BY <1>3, <1>4, <1>5, <1>6, <1>7 DEF Edit, openReview, BackToEdit

\* Up to the receipt, and the claim of the metadata.
LEMMA LaunchingKeepsPage ==
    ASSUME IInv, PageInv,
           Simulate \/ Sign \/ FailSigning \/ Confirm \/ Claim \/ RejectClaim \/ Fail
    PROVE  PageInv'
<1>1. UNCHANGED <<buyFate, receipts, linked, described>>
    BY DEF Simulate, Sign, FailSigning, Confirm, Claim, RejectClaim, Fail, chain, services
<1>2. AnswersAreKept'
    <2>1. \/ UNCHANGED <<fate, request>>
          \/ /\ UNCHANGED request
             /\ \E f \in {"asked", "pooled", "dropped"} : fate' = [fate EXCEPT ![page.n] = f]
          \/ /\ UNCHANGED fate
             /\ request' = [request EXCEPT ![page.n] = [NoRequest EXCEPT !.stage = "link"]]
        BY DEF Simulate, Sign, FailSigning, Confirm, Claim, RejectClaim, Fail, chain, services
    <2>2. CASE UNCHANGED <<fate, request>>
        BY <1>1, <2>2 DEF PageInv, AnswersAreKept
    <2>3. CASE /\ UNCHANGED request
               /\ \E f \in {"asked", "pooled", "dropped"} : fate' = [fate EXCEPT ![page.n] = f]
        BY <1>1, <2>3 DEF PageInv, AnswersAreKept, Fates
    <2>4. CASE /\ UNCHANGED fate
               /\ request' = [request EXCEPT ![page.n] = [NoRequest EXCEPT !.stage = "link"]]
        <3>1. [NoRequest EXCEPT !.stage = "link"].stage = "link"
            BY DEF NoRequest
        <3> QED
            BY <1>1, <2>4, <3>1 DEF PageInv, AnswersAreKept, IInv, ServicesType
    <2> QED
        BY <2>1, <2>2, <2>3, <2>4
<1>3. page' \in PageType
    <2>1. \/ \E s \in Stages : Go(s)
          \/ \E t \in Status : End(t)
        BY DEF Simulate, Sign, FailSigning, Confirm, Claim, RejectClaim, Fail, Stages, Status
    <2>2. "none" \in Stages /\ page \in PageType
        BY DEF Stages, PageInv
    <2>3. ASSUME NEW s \in Stages, Go(s) PROVE page' \in PageType
        BY <2>2, <2>3, PageUpdates DEF Go
    <2>4. ASSUME NEW t \in Status, End(t) PROVE page' \in PageType
        BY <2>2, <2>4, PageUpdates DEF End
    <2> QED
        BY <2>1, <2>3, <2>4
<1>4. PageKnows(page)'
    <2> USE <1>1 DEF At, Go, End, PageInv, PageType, PageKnows, SinceLaunch, SinceLinked
    <2>1. CASE Simulate \/ Sign
        BY <2>1 DEF Simulate, Sign
    <2>2. CASE FailSigning \/ RejectClaim \/ Fail
        BY <2>2 DEF FailSigning, RejectClaim, Fail
    <2>3. CASE Confirm
        BY <2>3 DEF Confirm, parseTokenLaunchedReceipt, AnswersAreKept
    <2>4. CASE Claim
        BY <2>4 DEF Claim
    <2> QED
        BY <2>1, <2>2, <2>3, <2>4
<1> QED
    BY <1>2, <1>3, <1>4 DEF PageInv

\* The answers of the API: what the page takes from one is committed.
LEMMA FinalizingKeepsPage ==
    ASSUME IInv, PageInv, Answer \/ Retry
    PROVE  PageInv'
<1>1. UNCHANGED <<fate, buyFate, receipts, linked, described>>
    BY DEF Answer, Retry, chain
<1>2. AnswersAreKept'
    <2> DEFINE fresh == [NoRequest EXCEPT !.stage = "link"]
    <2>1. fresh.stage = "link" /\ NoRequest.stage = "none"
        BY DEF NoRequest
    <2>2. \/ request' = [request EXCEPT ![page.n] = fresh]
          \/ request' = [request EXCEPT ![page.n] = NoRequest]
          \/ request' = request
        BY DEF Answer, Retry
    <2> HIDE DEF fresh
    <2> QED
        BY <1>1, <2>1, <2>2 DEF PageInv, AnswersAreKept, IInv, ServicesType
<1>3. /\ page.n \in Launches
      /\ \/ page.status = "busy"
         \/ page.status = "dev_buy_confirmed" /\ page.stage \in {"pause", "retry"}
      /\ <<"launch", page.n>> \in receipts
      /\ page.stage \in {"finalize", "pause", "retry"}
      /\ ~page.again /\ (page.stage \in {"pause", "retry"} => page.n \in linked)
    BY DEF Answer, Retry, At, PageInv, PageKnows, SinceLaunch, SinceLinked
<1>4. CASE Answer
    <2> DEFINE a == request[page.n].answer
    <2>1. /\ page.stage \in {"finalize", "retry"}
          /\ request[page.n].stage = "answered"
          /\ IF a = "error" THEN End("failed") ELSE AfterFinalize(a = "token")
        BY <1>4 DEF Answer
    <2>2. /\ a # "error" => page.n \in linked
          /\ a = "token" => page.n \in described
        BY <1>3, <2>1 DEF PageInv, AnswersAreKept
    <2> HIDE DEF a
    <2>3. \/ End("failed")
          \/ /\ a # "error" /\ page.stage = "finalize"
             /\ \/ a = "token" /\ page' = [page EXCEPT !.stage = "buy", !.token = TRUE]
                \/ page' = [page EXCEPT !.stage = "buy", !.token = FALSE]
          \/ a = "token" /\ Done(TRUE)
          \/ a # "error" /\ Go("pause")
        <3>1. CASE a = "error"
            BY <2>1, <3>1
        <3>2. CASE a = "token"
            <4>1. AfterFinalize(TRUE)
                BY <2>1, <3>2
            <4>2. CASE At("finalize") /\ page.devBuy
                BY <3>2, <4>1, <4>2 DEF AfterFinalize, At
            <4>3. CASE At("retry") \/ ~page.devBuy
                BY <2>1, <3>2, <4>1, <4>3 DEF AfterFinalize, At
            <4> QED
                BY <2>1, <4>2, <4>3 DEF At
        <3>3. CASE a \notin {"error", "token"}
            <4>1. AfterFinalize(FALSE)
                BY <2>1, <3>3
            <4>2. CASE At("finalize") /\ page.devBuy
                BY <3>3, <4>1, <4>2 DEF AfterFinalize, At
            <4>3. CASE At("retry") \/ ~page.devBuy
                BY <2>1, <3>3, <4>1, <4>3 DEF AfterFinalize, At
            <4> QED
                BY <2>1, <4>2, <4>3 DEF At
        <3> QED
            BY <3>1, <3>2, <3>3
    <2>4. page' \in PageType
        <3>1. /\ "none" \in Stages /\ "buy" \in Stages /\ "pause" \in Stages /\ "failed" \in Status /\ "confirmed" \in Status
              /\ page \in PageType
            BY DEF Stages, Status, PageInv
        <3>2. [page EXCEPT !.stage = "none", !.status = "failed"] \in PageType
            BY <3>1, PageUpdates
        <3>3. [page EXCEPT !.stage = "none", !.status = "confirmed", !.token = TRUE,
                           !.result = "created"] \in PageType
            BY <3>1, PageUpdates
        <3>4. Go("pause") => page' \in PageType
            BY <3>1, PageUpdates, Zenon DEF Go
        <3>5. page' \in {[page EXCEPT !.stage = "buy", !.token = b] : b \in BOOLEAN}
                => page' \in PageType
            BY <3>1, PageUpdates
        <3> QED
            BY <2>3, <3>2, <3>3, <3>4, <3>5, Zenon DEF End, Done
    <2>5. PageKnows(page)'
        <3> USE DEF PageInv, PageType, PageKnows, SinceLaunch, SinceLinked
        <3>1. End("failed") => PageKnows(page)'
            BY <1>1, <1>3, <2>1, <2>2 DEF End
        <3>2. a = "token" /\ Done(TRUE) => PageKnows(page)'
            BY <1>1, <1>3, <2>1, <2>2 DEF Done
        <3>3. a # "error" /\ Go("pause") => PageKnows(page)'
            BY <1>1, <1>3, <2>1, <2>2 DEF Go
        <3>4. ASSUME a # "error", page.stage = "finalize",
                     \/ a = "token" /\ page' = [page EXCEPT !.stage = "buy", !.token = TRUE]
                     \/ page' = [page EXCEPT !.stage = "buy", !.token = FALSE]
              PROVE  PageKnows(page)'
            BY <1>1, <1>3, <2>1, <2>2, <3>4
        <3> QED
            BY <2>3, <3>1, <3>2, <3>3, <3>4
    <2> QED
        BY <1>2, <2>4, <2>5 DEF PageInv
<1>5. CASE Retry
    <2>1. page.stage = "pause"
        BY <1>5 DEF Retry, At
    <2>2. CASE Done(FALSE)
        <3>1. page' \in PageType
            <4>1. "none" \in Stages /\ "confirmed" \in Status
                BY DEF Stages, Status
            <4> QED
                BY <2>2, <4>1, PageUpdates DEF PageInv, Done
        <3>2. PageKnows(page)'
            BY <1>1, <1>3, <2>1, <2>2
            DEF PageInv, PageType, PageKnows, SinceLaunch, SinceLinked, Done
        <3> QED
            BY <1>2, <3>1, <3>2 DEF PageInv
    <2>3. CASE /\ page.attempts < MaxAttempts
               /\ page' = [page EXCEPT !.stage = "retry", !.attempts = @ + 1]
        <3>1. page' \in PageType
            <4>1. page.attempts + 1 \in 0 .. MaxAttempts /\ "retry" \in Stages
                <5>1. MaxAttempts \in Nat
                    BY LaunchConstants
                <5> QED
                    BY <2>3, <5>1 DEF PageInv, PageType, Stages
            <4> QED
                BY <2>3, <4>1 DEF PageInv, PageType
        <3>2. PageKnows(page)'
            BY <1>1, <1>3, <2>1, <2>3
            DEF PageInv, PageType, PageKnows, SinceLaunch, SinceLinked
        <3> QED
            BY <1>2, <3>1, <3>2 DEF PageInv
    <2> QED
        BY <1>5, <2>2, <2>3 DEF Retry
<1> QED
    BY <1>4, <1>5

\* The dev buy, and its retry.
LEMMA BuyingKeepsPage ==
    ASSUME PageInv,
           \/ AskBuy \/ RefuseBuy \/ SignBuy \/ FailSigningBuy \/ ConfirmBuy \/ LoseBuy
           \/ RetryDevBuy
    PROVE  PageInv'
<1>1. UNCHANGED <<fate, receipts, linked, described, request>>
    BY DEF AskBuy, RefuseBuy, SignBuy, FailSigningBuy, ConfirmBuy, LoseBuy, RetryDevBuy,
           chain, services
<1>2. AnswersAreKept'
    <2>1. \/ UNCHANGED buyFate
          \/ \E b \in Buys, f \in {"asked", "pooled", "dropped"} :
                buyFate' = [buyFate EXCEPT ![b] = f]
        BY DEF AskBuy, RefuseBuy, SignBuy, FailSigningBuy, ConfirmBuy, LoseBuy, RetryDevBuy,
               chain, At, PageInv, PageKnows
    <2> QED
        BY <1>1, <2>1 DEF PageInv, AnswersAreKept, Fates
<1>3. page.stage \in {"buy", "signBuy", "confirmBuy"} =>
        /\ page.n \in Launches /\ page.status = "busy"
        /\ <<"launch", page.n>> \in receipts
        /\ page.again => page.result # "none"
        /\ ~page.again => page.n \in linked
    BY DEF PageInv, PageKnows, SinceLaunch, SinceLinked
<1>4. ASSUME NEW retryable \in BOOLEAN, NEW rejected \in BOOLEAN, FailBuy(retryable, rejected),
             page.stage \in {"buy", "signBuy", "confirmBuy"}
      PROVE  PageInv'
    <2>1. PICK t \in {"dev_buy_rejected", "dev_buy_failed", "dev_buy_confirming"},
               r \in {"none", "created", "pending"}, f \in Failures :
            /\ page' = [page EXCEPT !.stage = "none", !.status = t, !.result = r,
                                    !.failure = f]
            /\ (r = page.result /\ page.again) \/ r = "created"
        BY <1>4 DEF FailBuy, PageInv, PageType, Failures
    <2>2. page' \in PageType
        <3>1. "none" \in Stages /\ t \in Status
            BY DEF Stages, Status
        <3> QED
            BY <2>1, <3>1, PageUpdates DEF PageInv
    <2>3. PageKnows(page)'
        BY <1>1, <1>3, <1>4, <2>1
        DEF PageInv, PageType, PageKnows, SinceLaunch, SinceLinked
    <2> QED
        BY <1>2, <2>2, <2>3 DEF PageInv
<1>5. CASE RefuseBuy \/ LoseBuy
    BY <1>4, <1>5 DEF RefuseBuy, LoseBuy, At
<1>6. CASE FailSigningBuy
    BY <1>4, <1>6 DEF FailSigningBuy, At
<1>7. CASE ConfirmBuy /\ buyFate[page.buy] = "reverted"
    BY <1>4, <1>7 DEF ConfirmBuy, At
<1>8. CASE AskBuy \/ SignBuy \/ RetryDevBuy
    <2>1. \/ /\ page.stage = "buy"
             /\ \E b \in Buys : page' = [page EXCEPT !.stage = "signBuy", !.buy = b]
          \/ page.stage = "signBuy" /\ page' = [page EXCEPT !.stage = "confirmBuy"]
          \/ /\ page.failure = "retryable"
             /\ page' = [page EXCEPT !.stage = "buy", !.status = "busy", !.again = TRUE]
        BY <1>8 DEF AskBuy, SignBuy, RetryDevBuy, At, Go
    <2>2. page' \in PageType
        <3>1. /\ Buys \subseteq 0 .. MaxBuys /\ "busy" \in Status
              /\ "buy" \in Stages /\ "signBuy" \in Stages /\ "confirmBuy" \in Stages
            <4>1. MaxBuys \in Nat
                BY LaunchConstants
            <4> QED
                BY <4>1 DEF Buys, Stages, Status
        <3>2. /\ \A b \in Buys : [page EXCEPT !.stage = "signBuy", !.buy = b] \in PageType
              /\ [page EXCEPT !.stage = "confirmBuy"] \in PageType
              /\ [page EXCEPT !.stage = "buy", !.status = "busy", !.again = TRUE] \in PageType
            BY <3>1, PageUpdates DEF PageInv
        <3> QED
            BY <2>1, <3>2, Zenon
    <2>3. PageKnows(page)'
        BY <1>1, <1>3, <2>1 DEF PageInv, PageType, PageKnows, SinceLaunch, SinceLinked
    <2> QED
        BY <1>2, <2>2, <2>3 DEF PageInv
<1>9. CASE ConfirmBuy /\ buyFate[page.buy] = "mined"
    <2>1. page.stage = "confirmBuy" /\ <<"buy", page.buy>> \in receipts
        BY <1>9 DEF ConfirmBuy, At, PageInv, PageKnows, AnswersAreKept
    <2>2. \/ /\ page.again
             /\ page' = [page EXCEPT !.stage = "none", !.status = "dev_buy_confirmed",
                                     !.failure = "none"]
          \/ ~page.again /\ page.token /\ Done(TRUE)
          \/ /\ ~page.again
             /\ page' = [page EXCEPT !.stage = "pause", !.status = "dev_buy_confirmed"]
        BY <1>9 DEF ConfirmBuy
    <2>3. page' \in PageType
        <3>1. /\ "none" \in Stages /\ "pause" \in Stages /\ "none" \in Failures
              /\ "confirmed" \in Status /\ "dev_buy_confirmed" \in Status
            BY DEF Stages, Status, Failures
        <3>2. /\ [page EXCEPT !.stage = "none", !.status = "dev_buy_confirmed",
                               !.failure = "none"] \in PageType
              /\ [page EXCEPT !.stage = "none", !.status = "confirmed", !.token = TRUE,
                               !.result = "created"] \in PageType
              /\ [page EXCEPT !.stage = "pause", !.status = "dev_buy_confirmed"] \in PageType
            BY <3>1, PageUpdates DEF PageInv
        <3> QED
            BY <2>2, <3>2, Zenon DEF Done
    <2>4. PageKnows(page)'
        BY <1>1, <1>3, <2>1, <2>2
        DEF PageInv, PageType, PageKnows, SinceLaunch, SinceLinked, Done
    <2> QED
        BY <1>2, <2>3, <2>4 DEF PageInv
<1> QED
    BY <1>5, <1>6, <1>7, <1>8, <1>9 DEF ConfirmBuy

\* What the form says of a launch is so in the chain and in the database: a result has a
\* receipt, "safely linked" a committed link, a finished launch its metadata on the row
\* and a confirmed dev buy a receipt of its own, through any number of attempts, lost
\* answers, reorganisations and dev buys.
THEOREM PageIsTruthful == Spec => []PageTellsTheTruth
<1>1. PageInv => PageTellsTheTruth
    BY DEF PageInv, PageKnows, PageTellsTheTruth
<1>2. IInv /\ PageInv /\ [Next]_vars => PageInv'
    <2> SUFFICES ASSUME IInv, PageInv, [Next]_vars PROVE PageInv'
        OBVIOUS
    <2>1. CASE Form
        BY <2>1, FormKeepsPage, LaunchingKeepsPage, FinalizingKeepsPage, BuyingKeepsPage
        DEF Form
    <2>2. CASE (\E n \in Launches : Api(n)) \/ Indexer
        BY <2>2, ServicesKeepPage
    <2>3. CASE Environment
        BY <2>3, ServicesKeepPage, ChainKeepsPage DEF Environment
    <2>4. CASE UNCHANGED vars
        BY <2>4 DEF vars, chain, services, PageInv, PageType, PageKnows, AnswersAreKept
    <2> QED
        BY <2>1, <2>2, <2>3, <2>4 DEF Next
<1> QED
    BY <1>1, <1>2, InitInv, NextInv, PageInitHolds, PTL DEF Spec
=============================================================================
