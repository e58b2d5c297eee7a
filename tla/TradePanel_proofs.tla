------------------------- MODULE TradePanel_proofs -------------------------
(***************************************************************************)
(* Theorems about TradePanel: the panel implements the one-trade-at-a-time *)
(* slot of TradeSlot, and shows as final only what the chain decided, for  *)
(* any tabs, accounts, number of trades, height of the chain and number of *)
(* account changes and reloads.                                            *)
(***************************************************************************)
EXTENDS TradePanel, TLAPS

\* The awaits before the wallet is asked for the trade, and those after its answer.
Before == {"allowance", "approve", "approved", "sell", "buy"}
Late == {"capture", "wait", "check", "scan"}

TradeFate(i) == fate[<<i, "trade">>]
ApproveFate(i) == fate[<<i, "approve">>]
Recorded(a, i) == stored[a] # None /\ stored[a].by = i

JobType(j) ==
  /\ j \in Job
  /\ j.stage = "scan" => j.rec \in Heights
  /\ j.kind = "recover" => j.stage \in {"wait", "check", "scan"}
  /\ j.kind = "recover" \/ j.stage \in Late => j.tx \in Tx

JobsType == \A j \in jobs : JobType(j)

\* An approval whose fate is open, or which failed, was not followed by its trade.
FatesInOrder ==
  \A i \in Trades :
    /\ owner[i] = None => TradeFate(i) = "none" /\ ApproveFate(i) = "none"
    /\ ApproveFate(i) \notin {"none", "mined"} => TradeFate(i) = "none"

TradeJob(j) ==
  j.kind = "trade" =>
    /\ owner[j.op] = j.acct
    /\ j.stage \in Late => j.tx = <<j.op, "trade">>
    /\ j.stage \in Before => TradeFate(j.op) = "none"
    /\ j.stage \in {"allowance", "approve", "buy"} => ApproveFate(j.op) = "none"
    /\ j.stage = "sell" => ApproveFate(j.op) \in {"none", "mined"}

\* Until the wallet is asked the record is the trade's own, except when another tab
\* has found the approval it waits for replaced or reverted: then it never asks.
HoldsSlot(j) ==
  j.kind = "trade" /\ j.stage \in Before /\ j.acct \notin waived =>
    \/ Recorded(j.acct, j.op)
    \/ j.stage = "approved" /\ ApproveFate(j.op) \in {"reverted", "replaced"}

RecoverJob(j) == j.kind = "recover" /\ j.acct \notin waived => j.tx[1] = j.op

\* A panel that waits for its trade has the hash, and so has the record.
KnowsItsHash(j) ==
  /\ j.kind = "trade" /\ j.stage \in Late /\ Current(j) /\ j.acct \notin waived
  /\ j.op \in OpenTrades(j.acct)
  => tabs[j.tab].sent # None /\ stored[j.acct] # None /\ stored[j.acct].hash # None

JobInv(j) == TradeJob(j) /\ HoldsSlot(j) /\ RecoverJob(j) /\ KnowsItsHash(j)
JobsInv == \A j \in jobs : JobInv(j)

OneJobPerTrade ==
  \A j, k \in jobs : j.kind = "trade" /\ k.kind = "trade" /\ j.op = k.op => j = k

\* A trade that may still be mined is the one its account's record is about.
OpenIsRecorded ==
  \A a \in Accounts : \A i \in Trades :
    a \notin waived /\ i \in OpenTrades(a) => Recorded(a, i)

IInv == TypeOK /\ JobsType /\ FatesInOrder /\ JobsInv /\ OneJobPerTrade /\ OpenIsRecorded

-----------------------------------------------------------------------------
(* Types *)

LEMMA MountedType ==
  ASSUME TypeOK, NEW acct \in Accounts \cup {None}
  PROVE  Mounted(acct) \in Tab /\ Mounted(acct).acct = acct
<1> DEFINE pending == ReadPending(acct)
<1>1. pending \in Pending \cup {None}
  BY DEF TypeOK, ReadPending
<1> HIDE DEF pending
<1>2. CASE pending = None
  BY <1>2 DEF Mounted, pending, Tab, Status, Recovery
<1>3. CASE pending # None
  <2>1. pending.hash \in Tx \cup {None} /\ pending.rec \in Recovery
    BY <1>1, <1>3 DEF Pending
  <2> QED
    BY <1>3, <2>1 DEF Mounted, pending, Tab, Status, Recovery
<1> QED
  BY <1>2, <1>3

LEMMA InitInv == Init => IInv
<1> SUFFICES ASSUME Init
             PROVE  IInv
  OBVIOUS
<1>1. TypeOK
  <2>1. wallet \in Accounts \cup {None} /\ stored \in [Accounts -> Pending \cup {None}]
    BY DEF Init
  <2>2. Mounted(wallet) \in Tab
    BY <2>1 DEF Init, Mounted, ReadPending, Tab, Status, Recovery
  <2> QED
    BY <2>1, <2>2, PanelConstants DEF Init, TypeOK, Fates, Heights
<1>2. FatesInOrder
  BY DEF Init, FatesInOrder, TradeFate, ApproveFate, Tx
<1>3. OpenIsRecorded
  BY DEF Init, OpenIsRecorded, OpenTrades, Tx
<1> QED
  BY <1>1, <1>2, <1>3 DEF Init, IInv, JobsType, JobsInv, OneJobPerTrade

LEMMA ReportedType ==
  ASSUME NEW j, NEW tab \in Tab, NEW hash \in Tx \cup {None}
  PROVE  /\ Reported(j, tab, hash) \in Tab
         /\ Reported(j, tab, hash).acct = tab.acct
         /\ Reported(j, tab, hash).sent = tab.sent
<1> DEFINE status == IF Current(j) THEN "busy" ELSE tab.status
           shown == IF Current(j) /\ hash # None THEN hash ELSE tab.hash
<1>1. status \in Status /\ shown \in Tx \cup {None}
  BY DEF Tab, Status
<1>2. Reported(j, tab, hash) = [tab EXCEPT !.status = status, !.hash = shown]
  BY DEF Reported, Tab
<1> HIDE DEF status, shown
<1> QED
  BY <1>1, <1>2 DEF Tab

LEMMA PersistType ==
  ASSUME TypeOK, NEW a \in Accounts, NEW op \in Trades, NEW hash \in Tx \cup {None},
         NEW rec \in Recovery, Persist(a, op, hash, rec)
  PROVE  /\ stored' \in [Accounts -> Pending \cup {None}] /\ waived' \subseteq Accounts
         /\ stored'[a] # None /\ stored'[a].by = op /\ stored'[a].hash = hash
<1> DEFINE record == [by |-> op, hash |-> hash, rec |-> rec]
<1>1. record \in Pending
  BY DEF Pending
<1>2. record # None /\ record.by = op /\ record.hash = hash
  BY <1>1, NoneIsNoRecord
<1>3. stored' = [stored EXCEPT ![a] = record]
  BY DEF Persist, persistPendingTrade
<1> HIDE DEF record
<1>4. waived' \subseteq Accounts
  BY DEF Persist, TypeOK
<1> QED
  BY <1>1, <1>2, <1>3, <1>4 DEF TypeOK

LEMMA ForgetType ==
  ASSUME TypeOK, NEW a \in Accounts, NEW op, NEW w, Forget(a, op, w)
  PROVE  /\ stored' \in [Accounts -> Pending \cup {None}] /\ waived' \subseteq Accounts
         /\ stored'[a] = None
  BY DEF TypeOK, Forget

-----------------------------------------------------------------------------
(* A job's step *)

\* Trade op writes or clears the record of account a, and unless a is waived it does
\* so to no other trade's record.
RecordStep(a, op) ==
  /\ stored' \in [Accounts -> Pending \cup {None}]
  /\ waived \subseteq waived' /\ waived' \subseteq Accounts
  /\ \A b \in Accounts : b # a => stored'[b] = stored[b] /\ (b \in waived' => b \in waived)
  /\ a \notin waived' =>
       \/ stored'[a] = stored[a]
       \/ /\ stored[a] = None \/ stored[a].by = op
          /\ stored'[a] = None \/ stored'[a].by = op

\* No tab changes its account, and a tab forgets a hash only with the record.
TabsStep(a) ==
  /\ tabs' \in [Tabs -> Tab]
  /\ \A t \in Tabs :
       /\ tabs'[t].acct = tabs[t].acct
       /\ tabs[t].sent # None =>
            tabs'[t].sent # None \/ (tabs[t].acct = a /\ stored'[a] = None)

\* The job's trade is over: not by what became of its approval, if it still runs.
Settled(j) ==
  /\ TradeFate(j.op)' \notin {"asked", "pooled"}
  /\ j.kind = "recover" =>
       TradeFate(j.op)' # "none" \/ ApproveFate(j.op)' \in {"reverted", "replaced"}

Effect(j) ==
  /\ RecordStep(j.acct, j.op) /\ TabsStep(j.acct)
  /\ j.acct \notin waived' =>
       \/ stored'[j.acct] = stored[j.acct]
       \/ stored'[j.acct] = None /\ Settled(j)
       \/ stored'[j.acct] # None /\ (stored'[j.acct].hash = None => j.kind = "trade")

\* Only the transactions of the job's own trade are touched, and one is open only if
\* it was before or the record is the trade's.
FateStep(j) ==
  /\ owner' = owner /\ fate' \in [Tx -> Fates]
  /\ \A x \in Tx : fate'[x] # fate[x] => x[1] = j.op /\ j.kind = "trade"
  /\ TradeFate(j.op)' \in {"asked", "pooled"} /\ j.acct \notin waived =>
       \/ TradeFate(j.op) \in {"asked", "pooled"}
       \/ Recorded(j.acct, j.op) /\ stored' = stored

\* What a job does in a step: it returns, or goes on to another await as k.
JobMove(j) ==
  /\ FateStep(j) /\ Effect(j) /\ FatesInOrder'
  /\ UNCHANGED <<block, head, environment>>
  /\ \/ Finish(j)
     \/ \E k : /\ Advance(j, k) /\ JobType(k)
               /\ k.op = j.op /\ k.kind = j.kind
               /\ JobInv(k)'

\* The record stays about the trade that is open.
LEMMA OpenStep ==
  ASSUME IInv, NEW j \in jobs, FateStep(j), Effect(j)
  PROVE  OpenIsRecorded'
<1> SUFFICES ASSUME NEW a \in Accounts, NEW i \in Trades, a \notin waived', i \in OpenTrades(a)'
             PROVE  Recorded(a, i)'
  BY DEF OpenIsRecorded
<1>1. a \notin waived /\ j \in Job
  BY DEF Effect, RecordStep, IInv, JobsType, JobType
<1>2. j.acct \in Accounts /\ j.op \in Trades
  BY <1>1 DEF Job
<1>3. <<i, "trade">> \in Tx /\ owner[i] = a /\ fate'[<<i, "trade">>] \in {"asked", "pooled"}
  BY DEF OpenTrades, Tx, FateStep
<1>4. CASE i \in OpenTrades(a)
  <2>1. Recorded(a, i)
    BY <1>1, <1>4 DEF IInv, OpenIsRecorded
  <2>2. CASE a # j.acct
    BY <1>2, <2>1, <2>2 DEF Effect, RecordStep, Recorded
  <2>3. CASE a = j.acct
    BY <1>2, <1>3, <2>1, <2>3 DEF Effect, RecordStep, Recorded, Settled, TradeFate
  <2> QED
    BY <2>2, <2>3
<1>5. CASE i \notin OpenTrades(a)
  <2>1. fate'[<<i, "trade">>] # fate[<<i, "trade">>]
    BY <1>3, <1>5 DEF OpenTrades
  <2>2. i = j.op /\ j.kind = "trade"
    BY <1>3, <2>1 DEF FateStep
  <2>3. owner[j.op] = j.acct
    BY <2>2 DEF IInv, JobsInv, JobInv, TradeJob
  <2> QED
    BY <1>1, <1>3, <1>5, <2>2, <2>3 DEF FateStep, TradeFate, OpenTrades, Recorded
<1> QED
  BY <1>4, <1>5

\* The other jobs keep what they know.
LEMMA OthersKeep ==
  ASSUME IInv, NEW j \in jobs, FateStep(j), Effect(j), OpenIsRecorded', NEW k \in jobs, k # j
  PROVE  JobInv(k)'
<1>1. j \in Job /\ k \in Job /\ JobType(j) /\ JobType(k) /\ JobInv(j) /\ JobInv(k)
  BY DEF IInv, JobsType, JobType, JobsInv
<1>2. /\ j.acct \in Accounts /\ j.op \in Trades /\ k.acct \in Accounts /\ k.op \in Trades
      /\ k.tab \in Tabs /\ k.kind \in {"trade", "recover"}
  BY <1>1 DEF Job
<1>3. k.acct \notin waived' => k.acct \notin waived
  BY <1>2 DEF Effect, RecordStep
<1>4. k.kind = "trade" /\ j.kind = "trade" => k.op # j.op
  BY DEF IInv, OneJobPerTrade
<1>5. k.kind = "trade" => TradeFate(k.op)' = TradeFate(k.op) /\ ApproveFate(k.op)' = ApproveFate(k.op)
  BY <1>2, <1>4 DEF FateStep, TradeFate, ApproveFate, Tx
<1>6. TradeJob(k)'
  BY <1>1, <1>5 DEF JobInv, TradeJob, FateStep
<1>7. RecoverJob(k)'
  BY <1>1, <1>3 DEF JobInv, RecoverJob
<1>8. HoldsSlot(k)'
  <2> SUFFICES ASSUME k.kind = "trade", k.stage \in Before, k.acct \notin waived',
                      ~(k.stage = "approved" /\ ApproveFate(k.op) \in {"reverted", "replaced"})
               PROVE  Recorded(k.acct, k.op)'
    BY <1>5 DEF HoldsSlot
  <2>1. Recorded(k.acct, k.op) /\ TradeFate(k.op) = "none"
    BY <1>1, <1>3 DEF JobInv, HoldsSlot, TradeJob
  <2>2. CASE k.acct # j.acct
    BY <1>2, <2>1, <2>2 DEF Effect, RecordStep, Recorded
  <2>3. CASE k.acct = j.acct /\ stored'[j.acct] = stored[j.acct]
    BY <2>1, <2>3 DEF Recorded
  <2>4. CASE k.acct = j.acct /\ stored'[j.acct] # stored[j.acct]
    <3>1. k.op = j.op
      BY <2>1, <2>4 DEF Effect, RecordStep, Recorded
    <3>2. ~Settled(j)
      <4>1. j.kind = "recover"
        BY <1>1, <1>4, <3>1 DEF Job
      <4>2. ApproveFate(k.op) \notin {"reverted", "replaced"}
        BY <1>1 DEF JobInv, TradeJob, Before
      <4> QED
        BY <1>5, <2>1, <3>1, <4>1, <4>2 DEF Settled
    <3> QED
      BY <2>4, <3>1, <3>2 DEF Effect, RecordStep, Recorded
  <2> QED
    BY <2>2, <2>3, <2>4
<1>9. KnowsItsHash(k)'
  <2> SUFFICES ASSUME k.kind = "trade", k.stage \in Late, Current(k)', k.acct \notin waived',
                      k.op \in OpenTrades(k.acct)'
               PROVE  tabs'[k.tab].sent # None /\ stored'[k.acct] # None
                      /\ stored'[k.acct].hash # None
    BY DEF KnowsItsHash
  <2>1. Current(k)
    BY <1>2 DEF Current, SameIdentity, Effect, TabsStep
  <2>2. k.op \in OpenTrades(k.acct)
    BY <1>5 DEF OpenTrades, TradeFate, FateStep
  <2>3. /\ tabs[k.tab].sent # None /\ stored[k.acct] # None /\ stored[k.acct].hash # None
        /\ Recorded(k.acct, k.op)'
    BY <1>1, <1>2, <1>3, <2>1, <2>2 DEF JobInv, KnowsItsHash, OpenIsRecorded
  <2>4. tabs'[k.tab].sent # None
    BY <1>2, <2>1, <2>3 DEF Effect, TabsStep, Current, SameIdentity, Recorded
  <2>5. stored'[k.acct].hash # None
    <3>1. CASE stored'[k.acct] = stored[k.acct]
      BY <2>3, <3>1
    <3>2. CASE stored'[k.acct] # stored[k.acct]
      <4>1. k.acct = j.acct /\ k.op = j.op
        BY <1>2, <2>3, <3>2 DEF Effect, RecordStep, Recorded
      <4> QED
        BY <1>4, <2>3, <3>2, <4>1 DEF Effect, Recorded
    <3> QED
      BY <3>1, <3>2
  <2> QED
    BY <2>3, <2>4, <2>5 DEF Recorded
<1> QED
  BY <1>6, <1>7, <1>8, <1>9 DEF JobInv

\* A job that returns, or goes on to another await, leaves the invariant as it was if
\* what it then knows is true.
LEMMA JobStep ==
  ASSUME IInv, NEW j \in jobs, JobMove(j)
  PROVE  IInv'
<1>1. OpenIsRecorded'
  BY OpenStep DEF JobMove
<1>2. \A k \in jobs : k # j => JobInv(k)'
  BY <1>1, OthersKeep DEF JobMove
<1>3. TypeOK /\ JobsType /\ OneJobPerTrade /\ FatesInOrder'
  BY DEF IInv, JobMove
<1>4. /\ wallet' \in Accounts \cup {None} /\ tabs' \in [Tabs -> Tab]
      /\ stored' \in [Accounts -> Pending \cup {None}] /\ waived' \subseteq Accounts
      /\ owner' \in [Trades -> Accounts \cup {None}] /\ fate' \in [Tx -> Fates]
      /\ block' \in [Tx -> Heights] /\ head' \in Heights
      /\ disturbances' \in 0 .. MaxDisturbances
  BY <1>3 DEF TypeOK, JobMove, Effect, TabsStep, RecordStep, FateStep, environment
<1>5. CASE Finish(j)
  <2>1. jobs' = jobs \ {j}
    BY <1>5 DEF Finish
  <2>2. JobsType' /\ OneJobPerTrade' /\ JobsInv'
    BY <1>2, <1>3, <2>1 DEF JobsType, OneJobPerTrade, JobsInv, JobType
  <2>3. jobs' \subseteq Job
    BY <1>3, <2>1 DEF TypeOK
  <2> QED
    BY <1>1, <1>3, <1>4, <2>2, <2>3 DEF IInv, TypeOK
<1>6. CASE \E k : /\ Advance(j, k) /\ JobType(k)
                  /\ k.op = j.op /\ k.kind = j.kind
                  /\ JobInv(k)'
  <2>1. PICK k : /\ Advance(j, k) /\ JobType(k)
                 /\ k.op = j.op /\ k.kind = j.kind
                 /\ JobInv(k)'
    BY <1>6
  <2>2. jobs' = (jobs \ {j}) \cup {k} /\ JobInv(k)'
    BY <2>1 DEF Advance
  <2>3. JobsType' /\ JobsInv' /\ OneJobPerTrade'
    <3>1. JobsType'
      BY <1>3, <2>1, <2>2 DEF JobsType, JobType
    <3>2. JobsInv'
      BY <1>2, <2>2 DEF JobsInv
    <3>3. OneJobPerTrade'
      BY <1>3, <2>1, <2>2 DEF OneJobPerTrade
    <3> QED
      BY <3>1, <3>2, <3>3
  <2>4. jobs' \subseteq Job
    BY <1>3, <2>1, <2>2 DEF TypeOK, JobType
  <2> QED
    BY <1>1, <1>3, <1>4, <2>3, <2>4 DEF IInv, TypeOK
<1> QED
  BY <1>5, <1>6 DEF JobMove

\* What writing and clearing a record do: the history of waiving says whose it was.
LEMMA PersistStep ==
  ASSUME IInv, NEW a \in Accounts, NEW op \in Trades, NEW hash \in Tx \cup {None},
         NEW rec \in Recovery, Persist(a, op, hash, rec)
  PROVE  /\ RecordStep(a, op)
         /\ stored'[a] # None /\ stored'[a].hash = hash
         /\ a \notin waived' => hash = None \/ hash[1] = op
<1>1. /\ stored' \in [Accounts -> Pending \cup {None}] /\ waived' \subseteq Accounts
      /\ stored'[a] # None /\ stored'[a].by = op /\ stored'[a].hash = hash
  BY PersistType DEF IInv
<1>2. \A b \in Accounts : b # a => stored'[b] = stored[b]
  BY DEF Persist, persistPendingTrade, IInv, TypeOK
<1>3. waived' = IF Meddles(a, op, hash) THEN waived \cup {a} ELSE waived
  BY DEF Persist
<1> QED
  BY <1>1, <1>2, <1>3 DEF RecordStep, Meddles

LEMMA ForgetStep ==
  ASSUME IInv, NEW a \in Accounts, NEW op, NEW w, Forget(a, op, w)
  PROVE  /\ RecordStep(a, op) /\ stored'[a] = None
         /\ w => a \in waived'
<1>1. /\ stored' \in [Accounts -> Pending \cup {None}] /\ waived' \subseteq Accounts
      /\ stored'[a] = None
  BY ForgetType DEF IInv
<1>2. \A b \in Accounts : b # a => stored'[b] = stored[b]
  BY DEF Forget, IInv, TypeOK
<1>3. waived' = IF w \/ Meddles(a, op, None) THEN waived \cup {a} ELSE waived
  BY DEF Forget
<1> QED
  BY <1>1, <1>2, <1>3 DEF RecordStep, Meddles

LEMMA KeepStep ==
  ASSUME IInv, NEW a, NEW op, KeepRecord
  PROVE  RecordStep(a, op)
  BY DEF KeepRecord, RecordStep, IInv, TypeOK

\* What is known of a job, of its tab and of the chain by their types.
LEMMA JobFacts ==
  ASSUME IInv, NEW j \in jobs
  PROVE  /\ j \in Job /\ JobType(j) /\ JobInv(j) /\ tabs[j.tab] \in Tab
         /\ j.tab \in Tabs /\ j.acct \in Accounts /\ j.op \in Trades
         /\ j.kind \in {"trade", "recover"} /\ j.rec \in Recovery
         /\ <<j.op, "trade">> \in Tx /\ <<j.op, "approve">> \in Tx
  BY DEF IInv, TypeOK, JobsType, JobsInv, JobType, Job, Tx

LEMMA SetTabStep ==
  ASSUME IInv, NEW t \in Tabs, NEW new \in Tab, NEW a, SetTab(t, new),
         new.acct = tabs[t].acct,
         tabs[t].sent # None => new.sent # None \/ (tabs[t].acct = a /\ stored'[a] = None)
  PROVE  TabsStep(a)
  BY DEF IInv, TypeOK, SetTab, TabsStep

LEMMA SameTabs == ASSUME IInv, NEW a, UNCHANGED tabs PROVE TabsStep(a)
  BY DEF IInv, TypeOK, TabsStep

\* A handler that returns without a word.
LEMMA SilentEffect ==
  ASSUME IInv, NEW j \in jobs, KeepRecord, TabsStep(j.acct)
  PROVE  Effect(j)
  BY KeepStep DEF Effect, KeepRecord

\* applyResolution: what is over is the job's own trade.
LEMMA ResolveEffect ==
  ASSUME IInv, NEW j \in jobs, j.stage \in {"wait", "check", "scan"},
         NEW status \in Status, NEW rec \in Recovery, Resolve(j, status, rec),
         owner' = owner, fate' = fate,
         \/ status = "unknown"
         \/ fate[j.tx] \in {"reverted", "replaced"}
         \/ fate[j.tx] = "mined" /\ IsTradeReceipt(j)
  PROVE  Effect(j) /\ Finish(j)
<1> DEFINE t == tabs[j.tab]
           busy == t.busy /\ ~j.current
           pending == [t EXCEPT !.hash = j.tx, !.sent = j.tx, !.rec = rec,
                                !.status = status, !.busy = busy]
           final == [t EXCEPT !.hash = j.tx, !.sent = None, !.rec = None,
                              !.quote = FALSE, !.status = status, !.busy = busy]
<1>1. /\ t \in Tab /\ j.tab \in Tabs /\ j.acct \in Accounts /\ j.op \in Trades
      /\ j.tx \in Tx /\ j.kind \in {"trade", "recover"} /\ JobInv(j)
  BY JobFacts DEF JobType, Late
<1>2. None \in Recovery /\ None \notin Tx /\ busy \in BOOLEAN
  BY PanelConstants DEF Recovery
<1> HIDE DEF busy
<1>3. pending \in Tab /\ pending.acct = t.acct /\ pending.sent = j.tx
  <2> HIDE DEF t
  <2> QED
    BY <1>1, <1>2 DEF Tab
<1>4. final \in Tab /\ final.acct = t.acct
  <2> HIDE DEF t
  <2> QED
    BY <1>1, <1>2 DEF Tab
<1>5. CASE ~SameIdentity(j) /\ KeepRecord /\ UNCHANGED tabs
  BY <1>5, SameTabs, SilentEffect DEF Resolve
<1>6. CASE /\ SameIdentity(j) /\ SetTab(j.tab, pending)
           /\ Persist(j.acct, j.op, j.tx, rec)
  <2>1. RecordStep(j.acct, j.op) /\ stored'[j.acct] # None /\ stored'[j.acct].hash = j.tx
    BY <1>1, <1>6, PersistStep
  <2>2. TabsStep(j.acct)
    BY <1>1, <1>2, <1>3, <1>6, SetTabStep
  <2> QED
    BY <1>1, <1>2, <2>1, <2>2 DEF Effect, Resolve
<1>7. CASE /\ SameIdentity(j) /\ status # "unknown" /\ SetTab(j.tab, final)
           /\ Forget(j.acct, j.op, FALSE)
  <2>1. RecordStep(j.acct, j.op) /\ stored'[j.acct] = None
    BY <1>1, <1>7, ForgetStep
  <2>2. TabsStep(j.acct)
    BY <1>1, <1>4, <1>7, <2>1, SetTabStep DEF SameIdentity
  <2>3. ASSUME j.acct \notin waived'
        PROVE  Settled(j)
    <3>1. j.acct \notin waived
      BY <2>1, <2>3 DEF RecordStep
    <3>2. j.tx \in {<<j.op, "trade">>, <<j.op, "approve">>}
      BY <1>1, <3>1 DEF JobInv, TradeJob, RecoverJob, Late, Tx
    <3>3. CASE j.tx = <<j.op, "trade">>
      BY <1>7, <3>3 DEF Settled, TradeFate
    <3>4. CASE j.tx = <<j.op, "approve">>
      BY <1>1, <1>7, <3>4 DEF Settled, TradeFate, ApproveFate, IsTradeReceipt, JobInv, TradeJob,
                              IInv, FatesInOrder, Late
    <3> QED
      BY <3>2, <3>3, <3>4
  <2> QED
    BY <2>1, <2>2, <2>3 DEF Effect, Resolve
<1>8. Resolve(j, status, rec) =>
        \/ ~SameIdentity(j) /\ KeepRecord /\ UNCHANGED tabs
        \/ SameIdentity(j) /\ SetTab(j.tab, pending) /\ Persist(j.acct, j.op, j.tx, rec)
        \/ /\ SameIdentity(j) /\ status # "unknown" /\ SetTab(j.tab, final)
           /\ Forget(j.acct, j.op, FALSE)
  BY DEF Resolve, busy
<1> QED
  BY <1>5, <1>6, <1>7, <1>8

\* The catch clause of submit: the record is cleared only if the trade was not asked
\* for, or its tab would know a hash, or the account is waived by it.
LEMMA CatchTradeEffect ==
  ASSUME IInv, NEW j \in jobs, j.kind = "trade",
         NEW definitive \in BOOLEAN, NEW open \in BOOLEAN, CatchTrade(j, definitive, open),
         \/ TradeFate(j.op)' \notin {"asked", "pooled"}
         \/ open
         \/ j.stage \in Late /\ fate' = fate
  PROVE  Effect(j)
<1> DEFINE t == tabs[j.tab]
           shown == IF t.approved # None THEN t.approved ELSE t.hash
           known == [t EXCEPT !.status = "unknown", !.hash = t.sent, !.busy = FALSE]
           uncertain == [t EXCEPT !.status = "unknown", !.busy = FALSE, !.hash = shown]
           free == [t EXCEPT !.status = "idle", !.busy = FALSE]
<1>1. /\ t \in Tab /\ j.tab \in Tabs /\ j.acct \in Accounts /\ j.op \in Trades
      /\ JobInv(j)
  BY JobFacts
<1>2. /\ t.sent \in Tx \cup {None} /\ t.rec \in Recovery /\ shown \in Tx \cup {None}
      /\ None \in Recovery
  BY <1>1 DEF Tab, Recovery
<1> HIDE DEF shown
<1>3. /\ known \in Tab /\ known.acct = t.acct /\ known.sent = t.sent
      /\ uncertain \in Tab /\ uncertain.acct = t.acct /\ uncertain.sent = t.sent
      /\ free \in Tab /\ free.acct = t.acct /\ free.sent = t.sent
  <2> HIDE DEF t
  <2> QED
    BY <1>1, <1>2 DEF Tab, Status
<1>4. CASE ~Current(j) /\ KeepRecord /\ UNCHANGED tabs
  BY <1>4, SameTabs, SilentEffect
<1>5. CASE t.sent # None /\ Persist(j.acct, j.op, t.sent, t.rec) /\ SetTab(j.tab, known)
  <2>1. /\ RecordStep(j.acct, j.op) /\ stored'[j.acct] # None
        /\ stored'[j.acct].hash = t.sent
    BY <1>1, <1>2, <1>5, PersistStep
  <2>2. TabsStep(j.acct)
    BY <1>1, <1>3, <1>5, SetTabStep
  <2> QED
    BY <1>5, <2>1, <2>2 DEF Effect
<1>6. CASE Persist(j.acct, j.op, None, None) /\ SetTab(j.tab, uncertain)
  <2>1. RecordStep(j.acct, j.op) /\ stored'[j.acct] # None
    BY <1>1, <1>2, <1>6, PersistStep
  <2>2. TabsStep(j.acct)
    BY <1>1, <1>3, <1>6, SetTabStep
  <2> QED
    BY <2>1, <2>2 DEF Effect
<1>7. CASE /\ Current(j) /\ t.sent = None
           /\ Forget(j.acct, j.op, open) /\ SetTab(j.tab, free)
  <2>1. RecordStep(j.acct, j.op) /\ stored'[j.acct] = None /\ (open => j.acct \in waived')
    BY <1>1, <1>7, ForgetStep
  <2>2. TabsStep(j.acct)
    BY <1>1, <1>3, <1>7, SetTabStep
  <2>3. ASSUME j.acct \notin waived'
        PROVE  Settled(j)
    <3> SUFFICES ASSUME TradeFate(j.op)' \in {"asked", "pooled"}
                 PROVE  FALSE
      BY DEF Settled
    <3>1. j.acct \notin waived /\ j.stage \in Late /\ fate' = fate
      BY <2>1, <2>3 DEF RecordStep
    <3>2. j.op \in OpenTrades(j.acct)
      BY <1>1, <3>1 DEF OpenTrades, JobInv, TradeJob, TradeFate
    <3> QED
      BY <1>1, <1>7, <3>1, <3>2 DEF JobInv, KnowsItsHash
  <2> QED
    BY <2>1, <2>2, <2>3 DEF Effect
<1> QED
  BY <1>4, <1>5, <1>6, <1>7 DEF CatchTrade, shown

\* The catch clauses of a confirmation.
LEMMA ThrowEffect ==
  ASSUME IInv, NEW j \in jobs, j.stage \in {"wait", "check", "scan"},
         Throw(j), fate' = fate
  PROVE  Effect(j)
<1> DEFINE t == tabs[j.tab]
           known == [t EXCEPT !.status = "unknown", !.busy = FALSE]
<1>1. /\ t \in Tab /\ j.tab \in Tabs /\ j.acct \in Accounts /\ j.op \in Trades
      /\ j.kind \in {"trade", "recover"} /\ j.tx \in Tx
  BY JobFacts DEF JobType, Late
<1>2. CASE j.kind = "trade"
  BY <1>2, CatchTradeEffect DEF Throw, Late
<1>3. CASE j.kind = "recover"
  <2>1. /\ known \in Tab /\ known.acct = t.acct /\ known.sent = t.sent
        /\ t.rec \in Recovery
    <3> HIDE DEF t
    <3> QED
      BY <1>1 DEF Tab, Status
  <2>2. \/ KeepRecord /\ UNCHANGED tabs
        \/ Persist(j.acct, j.op, j.tx, t.rec) /\ SetTab(j.tab, known)
    BY <1>3 DEF Throw, CatchRecover
  <2>3. CASE KeepRecord /\ UNCHANGED tabs
    BY <2>3, SameTabs, SilentEffect
  <2>4. CASE Persist(j.acct, j.op, j.tx, t.rec) /\ SetTab(j.tab, known)
    <3>1. /\ RecordStep(j.acct, j.op) /\ stored'[j.acct] # None
          /\ stored'[j.acct].hash = j.tx
      BY <1>1, <2>1, <2>4, PersistStep
    <3>2. TabsStep(j.acct)
      BY <1>1, <2>1, <2>4, SetTabStep
    <3> QED
      BY <1>1, <3>1, <3>2, PanelConstants DEF Effect
  <2> QED
    BY <2>2, <2>3, <2>4
<1> QED
  BY <1>1, <1>2, <1>3

-----------------------------------------------------------------------------
(* The awaits of submit *)

\* A move that leaves the record alone, to another await before the wallet is asked
\* or to the prompt.
LEMMA QuietMove ==
  ASSUME IInv, NEW j \in jobs, j.kind = "trade", j.stage \in Before,
         NEW stage \in Before \cup {"sign"}, NEW k, k = [j EXCEPT !.stage = stage], Advance(j, k),
         KeepRecord, TabsStep(j.acct), FateStep(j), FatesInOrder',
         UNCHANGED <<block, head, environment>>,
         stage \in Before => TradeFate(j.op)' = "none",
         stage \in {"allowance", "approve", "buy"} => ApproveFate(j.op)' = "none",
         stage = "sell" => ApproveFate(j.op)' \in {"none", "mined"},
         j.stage = "approved" => ApproveFate(j.op) \notin {"reverted", "replaced"}
  PROVE  JobMove(j)
<1>1. j \in Job /\ JobInv(j) /\ j.rec \in Recovery /\ j.tx \in Tx \cup {None}
  BY JobFacts DEF Job
<1>2. stage \in Stages /\ stage \notin Late /\ stage # "scan"
  BY DEF Before, Stages, Late
<1>3. /\ k \in Job /\ k.stage = stage /\ k.kind = j.kind /\ k.tab = j.tab
      /\ k.acct = j.acct /\ k.op = j.op
  BY <1>1, <1>2 DEF Job
<1>4. JobType(k)
  BY <1>2, <1>3 DEF JobType
<1>5. JobInv(k)'
  <2>1. TradeJob(k)'
    BY <1>1, <1>2, <1>3 DEF JobInv, TradeJob, FateStep
  <2>2. HoldsSlot(k)'
    BY <1>1, <1>3 DEF JobInv, HoldsSlot, KeepRecord, Recorded
  <2> QED
    BY <1>2, <1>3, <2>1, <2>2 DEF JobInv, RecoverJob, KnowsItsHash
<1> QED
  BY <1>3, <1>4, <1>5, SilentEffect DEF JobMove

LEMMA SameFates ==
  ASSUME IInv, NEW j \in jobs, UNCHANGED <<owner, fate>>
  PROVE  FateStep(j) /\ FatesInOrder'
  BY DEF IInv, TypeOK, FateStep, FatesInOrder, TradeFate, ApproveFate

LEMMA ReportedStep ==
  ASSUME IInv, NEW j \in jobs, NEW new \in Tab, NEW hash \in Tx \cup {None},
         new.acct = tabs[j.tab].acct,
         tabs[j.tab].sent # None => new.sent # None,
         SetTab(j.tab, Reported(j, new, hash))
  PROVE  TabsStep(j.acct)
<1>1. /\ Reported(j, new, hash) \in Tab
      /\ Reported(j, new, hash).acct = new.acct
      /\ Reported(j, new, hash).sent = new.sent
  BY ReportedType
<1>2. j.tab \in Tabs
  BY JobFacts
<1> QED
  BY <1>1, <1>2, SetTabStep

LEMMA ReadAllowanceMove ==
  ASSUME IInv, NEW j \in jobs, ReadAllowance(j)
  PROVE  JobMove(j)
<1>1. /\ j.kind = "trade" /\ j.stage = "allowance" /\ KeepRecord /\ JobInv(j)
      /\ UNCHANGED <<owner, fate, block, head, environment>> /\ tabs[j.tab] \in Tab
  BY JobFacts DEF ReadAllowance, chain
<1>2. FateStep(j) /\ FatesInOrder'
  BY <1>1, SameFates
<1>3. /\ TradeFate(j.op)' = "none" /\ ApproveFate(j.op)' = "none"
  BY <1>1 DEF JobInv, TradeJob, Before, TradeFate, ApproveFate
<1>4. CASE /\ Advance(j, [j EXCEPT !.stage = "sell"])
           /\ SetTab(j.tab, Reported(j, tabs[j.tab], None))
  <2>1. TabsStep(j.acct)
    BY <1>1, <1>4, ReportedStep
  <2> QED
    BY <1>1, <1>2, <1>3, <1>4, <2>1, QuietMove DEF Before
<1>5. CASE /\ Advance(j, [j EXCEPT !.stage = "approve"])
           /\ SetTab(j.tab, Reported(j, [tabs[j.tab] EXCEPT !.asked = TRUE], None))
  <2> DEFINE t == tabs[j.tab]
             new == [t EXCEPT !.asked = TRUE]
  <2>1. new \in Tab /\ new.acct = t.acct /\ new.sent = t.sent
    <3>1. t \in Tab
      BY <1>1
    <3> HIDE DEF t
    <3> QED
      BY <3>1 DEF Tab
  <2>2. TabsStep(j.acct)
    BY <1>5, <2>1, ReportedStep
  <2> QED
    BY <1>1, <1>2, <1>3, <1>5, <2>2, QuietMove DEF Before
<1> QED
  BY <1>4, <1>5 DEF ReadAllowance

LEMMA ApprovalMinedMove ==
  ASSUME IInv, NEW j \in jobs, ApprovalMined(j)
  PROVE  JobMove(j)
<1>1. /\ j.stage = "approved" /\ KeepRecord /\ JobInv(j) /\ JobType(j)
      /\ UNCHANGED <<owner, fate, block, head, environment>> /\ tabs[j.tab] \in Tab
      /\ j.kind \in {"trade", "recover"} /\ ApproveFate(j.op) = "mined"
  BY JobFacts DEF ApprovalMined, ApprovalShows, ApproveFate, chain
<1>2. j.kind = "trade"
  BY <1>1 DEF JobType
<1>3. FateStep(j) /\ FatesInOrder'
  BY <1>1, SameFates
<1>4. TradeFate(j.op)' = "none" /\ ApproveFate(j.op)' = "mined"
  BY <1>1, <1>2 DEF JobInv, TradeJob, Before, TradeFate, ApproveFate
<1>5. TabsStep(j.acct)
  BY <1>1, ReportedStep DEF ApprovalMined
<1>6. Advance(j, [j EXCEPT !.stage = "sell"])
  BY DEF ApprovalMined
<1> QED
  BY <1>1, <1>2, <1>3, <1>4, <1>5, <1>6, QuietMove DEF Before

\* The fate of one transaction of the job's trade changes.
LEMMA FateChange ==
  ASSUME IInv, NEW j \in jobs, j.kind = "trade", NEW kind \in {"approve", "trade"},
         NEW f \in Fates, fate' = [fate EXCEPT ![<<j.op, kind>>] = f], owner' = owner,
         kind = "approve" => TradeFate(j.op) = "none",
         kind = "trade" =>
           /\ ApproveFate(j.op) \in {"none", "mined"}
           /\ f \in {"asked", "pooled"} =>
                \/ j.acct \in waived \/ TradeFate(j.op) \in {"asked", "pooled"}
                \/ Recorded(j.acct, j.op) /\ stored' = stored
  PROVE  /\ FateStep(j) /\ FatesInOrder'
         /\ TradeFate(j.op)' = IF kind = "trade" THEN f ELSE TradeFate(j.op)
         /\ ApproveFate(j.op)' = IF kind = "approve" THEN f ELSE ApproveFate(j.op)
<1>1. /\ fate \in [Tx -> Fates] /\ j.op \in Trades /\ FatesInOrder
      /\ owner[j.op] = j.acct /\ j.acct \in Accounts
  BY JobFacts DEF IInv, TypeOK, JobInv, TradeJob
<1>2. \A i \in Trades : <<i, "trade">> \in Tx /\ <<i, "approve">> \in Tx
  BY DEF Tx
<1>3. fate' \in [Tx -> Fates]
  BY <1>1
<1>4. /\ TradeFate(j.op)' = IF kind = "trade" THEN f ELSE TradeFate(j.op)
      /\ ApproveFate(j.op)' = IF kind = "approve" THEN f ELSE ApproveFate(j.op)
  BY <1>1, <1>2 DEF TradeFate, ApproveFate
<1>5. \A i \in Trades : i # j.op =>
        TradeFate(i)' = TradeFate(i) /\ ApproveFate(i)' = ApproveFate(i)
  BY <1>1, <1>2 DEF TradeFate, ApproveFate
<1>6. \A x \in Tx : fate'[x] # fate[x] => x[1] = j.op
  BY <1>1
<1>7. FateStep(j)
  BY <1>3, <1>4, <1>6 DEF FateStep
<1>8. FatesInOrder'
  BY <1>1, <1>4, <1>5, PanelConstants DEF FatesInOrder
<1> QED
  BY <1>4, <1>7, <1>8

LEMMA ApproveMove ==
  ASSUME IInv, NEW j \in jobs, Approve(j)
  PROVE  JobMove(j)
<1> DEFINE tx == <<j.op, "approve">>
           t == tabs[j.tab]
           new == [t EXCEPT !.approved = tx]
<1>1. /\ j.stage = "approve" /\ KeepRecord /\ JobInv(j) /\ JobType(j)
      /\ UNCHANGED <<owner, block, head, environment>> /\ t \in Tab /\ tx \in Tx
      /\ j.kind \in {"trade", "recover"}
  BY JobFacts DEF Approve
<1>2. j.kind = "trade"
  BY <1>1 DEF JobType
<1>3. TradeFate(j.op) = "none"
  BY <1>1, <1>2 DEF JobInv, TradeJob, Before
<1>4. fate' = [fate EXCEPT ![tx] = "pooled"]
  BY DEF Approve
<1>5. FateStep(j) /\ FatesInOrder' /\ TradeFate(j.op)' = "none"
  BY <1>1, <1>2, <1>3, <1>4, FateChange DEF Fates
<1>6. new \in Tab /\ new.acct = t.acct /\ new.sent = t.sent
  <2>1. t \in Tab /\ tx \in Tx
    BY <1>1
  <2> HIDE DEF t, tx
  <2> QED
    BY <2>1 DEF Tab
<1>7. TabsStep(j.acct)
  BY <1>1, <1>6, ReportedStep DEF Approve
<1>8. Advance(j, [j EXCEPT !.stage = "approved"])
  BY DEF Approve
<1> QED
  BY <1>1, <1>2, <1>5, <1>7, <1>8, QuietMove DEF Before

LEMMA RequestMove ==
  ASSUME IInv, NEW j \in jobs, RequestBuy(j) \/ RequestSell(j)
  PROVE  JobMove(j)
<1>1. /\ j.stage \in {"buy", "sell"} /\ KeepRecord /\ JobInv(j) /\ JobType(j)
      /\ UNCHANGED <<owner, block, head, environment>>
      /\ fate' = [fate EXCEPT ![<<j.op, "trade">>] = "asked"]
      /\ j.kind \in {"trade", "recover"} /\ tabs[j.tab] \in Tab
      /\ Advance(j, [j EXCEPT !.stage = "sign"])
  BY JobFacts DEF RequestBuy, RequestSell, Request
<1>2. j.kind = "trade"
  BY <1>1 DEF JobType
<1>3. j.acct \in waived \/ Recorded(j.acct, j.op)
  BY <1>1, <1>2 DEF JobInv, HoldsSlot, Before
<1>4. ApproveFate(j.op) \in {"none", "mined"}
  BY <1>1, <1>2 DEF JobInv, TradeJob
<1>5. FateStep(j) /\ FatesInOrder'
  BY <1>1, <1>2, <1>3, <1>4, FateChange DEF Fates, KeepRecord
<1>6. TabsStep(j.acct)
  <2>1. CASE RequestBuy(j)
    BY <2>1, SameTabs DEF RequestBuy
  <2>2. CASE RequestSell(j)
    BY <1>1, <2>2, ReportedStep DEF RequestSell
  <2> QED
    BY <2>1, <2>2
<1> QED
  BY <1>1, <1>2, <1>5, <1>6, QuietMove DEF Before

\* The wallet's answer, and what is then read of the transaction, go into the record.
LEMMA SignMove ==
  ASSUME IInv, NEW j \in jobs, Sign(j)
  PROVE  JobMove(j)
<1> DEFINE tx == <<j.op, "trade">>
           t == tabs[j.tab]
           new == [t EXCEPT !.sent = tx]
           k == [j EXCEPT !.stage = "capture", !.tx = tx]
<1>1. /\ j.stage = "sign" /\ JobInv(j) /\ JobType(j) /\ j \in Job
      /\ fate[tx] = "asked" /\ fate' = [fate EXCEPT ![tx] = "pooled"]
      /\ UNCHANGED <<owner, block, head, environment>>
      /\ j.kind \in {"trade", "recover"} /\ t \in Tab /\ tx \in Tx
      /\ j.acct \in Accounts /\ j.op \in Trades /\ j.tab \in Tabs /\ j.rec \in Recovery
  BY JobFacts DEF Sign
<1>2. j.kind = "trade"
  BY <1>1 DEF JobType
<1>3. ApproveFate(j.op) \in {"none", "mined"} /\ TradeFate(j.op) = "asked"
  BY <1>1 DEF IInv, FatesInOrder, TradeFate
<1>4. FateStep(j) /\ FatesInOrder'
  BY <1>1, <1>2, <1>3, FateChange DEF Fates
<1>5. new \in Tab /\ new.acct = t.acct /\ new.sent = tx /\ t.rec \in Recovery
  <2> HIDE DEF t, tx
  <2> QED
    BY <1>1 DEF Tab
<1>6. /\ RecordStep(j.acct, j.op)
      /\ stored'[j.acct] # None /\ stored'[j.acct].hash = tx
  <2>1. Persist(j.acct, j.op, tx, t.rec)
    BY DEF Sign
  <2> HIDE DEF tx, t
  <2> QED
    BY <1>1, <1>5, <2>1, PersistStep
<1>7. /\ Reported(j, new, tx) \in Tab /\ Reported(j, new, tx).acct = t.acct
      /\ Reported(j, new, tx).sent = tx
  <2> HIDE DEF tx, new
  <2> QED
    BY <1>1, <1>5, ReportedType
<1>8. tabs'[j.tab].sent = tx /\ TabsStep(j.acct)
  <2>1. SetTab(j.tab, Reported(j, new, tx))
    BY DEF Sign
  <2>2. tx # None
    BY <1>1, PanelConstants
  <2> HIDE DEF tx, new
  <2>3. TabsStep(j.acct)
    BY <1>1, <1>7, <2>1, <2>2, SetTabStep
  <2> QED
    BY <1>1, <1>7, <2>1, <2>3 DEF SetTab, IInv, TypeOK
<1>9. Effect(j)
  BY <1>2, <1>6, <1>8 DEF Effect
<1>10. /\ k \in Job /\ k.stage = "capture" /\ k.tx = tx /\ k.kind = j.kind
       /\ k.tab = j.tab /\ k.acct = j.acct /\ k.op = j.op
  <2> HIDE DEF tx
  <2> QED
    BY <1>1 DEF Job, Stages
<1>11. JobType(k) /\ Advance(j, k)
  BY <1>1, <1>2, <1>10 DEF JobType, Sign
<1>12. JobInv(k)'
  <2>1. tx # None
    BY <1>1, PanelConstants
  <2>2. TradeJob(k)'
    <3> HIDE DEF k
    <3> QED
      BY <1>1, <1>2, <1>10 DEF TradeJob, Late, Before, JobInv
  <2>3. KnowsItsHash(k)'
    <3> HIDE DEF k, tx
    <3> QED
      BY <1>6, <1>8, <1>10, <2>1 DEF KnowsItsHash
  <2> HIDE DEF k
  <2> QED
    BY <1>2, <1>10, <2>2, <2>3 DEF JobInv, HoldsSlot, RecoverJob, Before
<1> QED
  <2> HIDE DEF k
  <2> QED
    BY <1>1, <1>4, <1>9, <1>10, <1>11, <1>12 DEF JobMove

LEMMA StartType ==
  ASSUME IInv, NEW tx \in Tx
  PROVE  StartOfScan(tx) \in Recovery
  BY DEF IInv, TypeOK, StartOfScan, Recovery

LEMMA CaptureMove ==
  ASSUME IInv, NEW j \in jobs, Capture(j)
  PROVE  JobMove(j)
<1> DEFINE t == tabs[j.tab]
<1>1. /\ j.stage = "capture" /\ JobInv(j) /\ JobType(j) /\ j \in Job
      /\ UNCHANGED <<owner, fate, block, head, environment>>
      /\ j.kind \in {"trade", "recover"} /\ t \in Tab
      /\ j.acct \in Accounts /\ j.op \in Trades /\ j.tab \in Tabs
  BY JobFacts DEF Capture, chain
<1>2. j.kind = "trade" /\ j.tx \in Tx /\ j.tx # None
  BY <1>1, PanelConstants DEF JobType, Late
<1>3. PICK rec \in {StartOfScan(j.tx), None} :
        LET kept == IF rec = None THEN t.rec ELSE rec
        IN  /\ SetTab(j.tab, Reported(j, [t EXCEPT !.rec = kept, !.sent = j.tx], j.tx))
            /\ Persist(j.acct, j.op, j.tx, kept)
            /\ Advance(j, [j EXCEPT !.stage = "wait", !.rec = rec])
  BY DEF Capture
<1> DEFINE kept == IF rec = None THEN t.rec ELSE rec
           new == [t EXCEPT !.rec = kept, !.sent = j.tx]
           k == [j EXCEPT !.stage = "wait", !.rec = rec]
<1>4. rec \in Recovery /\ kept \in Recovery
  BY <1>1, <1>2, StartType DEF Recovery, Tab
<1> HIDE DEF kept
<1>5. new \in Tab /\ new.acct = t.acct /\ new.sent = j.tx
  <2>1. t \in Tab
    BY <1>1
  <2> HIDE DEF t
  <2> QED
    BY <1>2, <1>4, <2>1 DEF Tab
<1>6. SetTab(j.tab, Reported(j, new, j.tx)) /\ Persist(j.acct, j.op, j.tx, kept)
  BY <1>3 DEF kept
<1> HIDE DEF new
<1>7. /\ RecordStep(j.acct, j.op)
      /\ stored'[j.acct] # None /\ stored'[j.acct].hash = j.tx
  BY <1>1, <1>2, <1>4, <1>6, PersistStep
<1>8. /\ Reported(j, new, j.tx) \in Tab /\ Reported(j, new, j.tx).acct = t.acct
      /\ Reported(j, new, j.tx).sent = j.tx
  BY <1>2, <1>5, ReportedType
<1>9. tabs'[j.tab].sent = j.tx /\ TabsStep(j.acct)
  <2>1. TabsStep(j.acct)
    BY <1>1, <1>2, <1>6, <1>8, SetTabStep
  <2> QED
    BY <1>1, <1>6, <1>8, <2>1 DEF SetTab, IInv, TypeOK
<1>10. Effect(j)
  BY <1>2, <1>7, <1>9 DEF Effect
<1>11. /\ k \in Job /\ k.stage = "wait" /\ k.tx = j.tx /\ k.kind = j.kind
       /\ k.tab = j.tab /\ k.acct = j.acct /\ k.op = j.op
  BY <1>1, <1>4 DEF Job, Stages
<1>12. JobType(k) /\ Advance(j, k)
  BY <1>2, <1>3, <1>11 DEF JobType
<1> HIDE DEF k
<1>13. JobInv(k)'
  <2>1. TradeJob(k)'
    BY <1>1, <1>2, <1>11 DEF TradeJob, Late, Before, JobInv
  <2>2. KnowsItsHash(k)'
    BY <1>2, <1>7, <1>9, <1>11 DEF KnowsItsHash
  <2> QED
    BY <1>2, <1>11, <2>1, <2>2 DEF JobInv, HoldsSlot, RecoverJob, Before
<1> QED
  BY <1>1, <1>10, <1>11, <1>12, <1>13, SameFates DEF JobMove

\* The failures of submit before there is a hash.
LEMMA FailUnsentMove ==
  ASSUME IInv, NEW j \in jobs, FailUnsent(j)
  PROVE  JobMove(j)
<1>1. /\ j.stage \in Before /\ JobInv(j) /\ JobType(j) /\ j.kind \in {"trade", "recover"}
      /\ UNCHANGED <<owner, fate, block, head, environment>> /\ Finish(j)
  BY JobFacts DEF FailUnsent, chain, Before
<1>2. j.kind = "trade" /\ TradeFate(j.op)' = "none"
  BY <1>1 DEF JobType, JobInv, TradeJob, Before, TradeFate
<1>3. PICK definitive \in BOOLEAN : CatchTrade(j, definitive, FALSE)
  BY DEF FailUnsent
<1>4. Effect(j)
  BY <1>2, <1>3, CatchTradeEffect
<1> QED
  BY <1>1, <1>4, SameFates DEF JobMove

LEMMA ApprovalLostMove ==
  ASSUME IInv, NEW j \in jobs, ApprovalLost(j)
  PROVE  JobMove(j)
<1>1. /\ j.stage = "approve" /\ JobInv(j) /\ JobType(j) /\ j.kind \in {"trade", "recover"}
      /\ UNCHANGED <<owner, block, head, environment>> /\ Finish(j)
      /\ fate' = [fate EXCEPT ![<<j.op, "approve">>] = "pooled"]
      /\ CatchTrade(j, FALSE, FALSE)
  BY JobFacts DEF ApprovalLost
<1>2. j.kind = "trade" /\ TradeFate(j.op) = "none"
  BY <1>1 DEF JobType, JobInv, TradeJob, Before
<1>3. FateStep(j) /\ FatesInOrder' /\ TradeFate(j.op)' = "none"
  BY <1>1, <1>2, FateChange DEF Fates
<1>4. Effect(j)
  BY <1>1, <1>2, <1>3, CatchTradeEffect
<1> QED
  BY <1>1, <1>3, <1>4 DEF JobMove

LEMMA FailSigningMove ==
  ASSUME IInv, NEW j \in jobs, FailSigning(j)
  PROVE  JobMove(j)
<1>1. /\ j.stage = "sign" /\ JobInv(j) /\ JobType(j) /\ j.kind \in {"trade", "recover"}
      /\ UNCHANGED <<owner, block, head, environment>> /\ Finish(j)
      /\ TradeFate(j.op) = "asked" /\ j.op \in Trades
  BY JobFacts DEF FailSigning, TradeFate
<1>2. j.kind = "trade" /\ ApproveFate(j.op) \in {"none", "mined"}
  BY <1>1 DEF JobType, IInv, FatesInOrder
<1>3. PICK f \in {"pooled", "dropped"}, definitive \in BOOLEAN :
        /\ fate' = [fate EXCEPT ![<<j.op, "trade">>] = f]
        /\ CatchTrade(j, definitive, f = "pooled")
  <2>1. CASE /\ fate' = [fate EXCEPT ![<<j.op, "trade">>] = "dropped"]
             /\ CatchTrade(j, TRUE, FALSE)
    <3>1. ("dropped" = "pooled") = FALSE
      OBVIOUS
    <3> QED
      BY <2>1, <3>1
  <2> QED
    BY <2>1 DEF FailSigning
<1>4. FateStep(j) /\ FatesInOrder' /\ TradeFate(j.op)' = f
  BY <1>1, <1>2, <1>3, FateChange DEF Fates
<1>5. Effect(j)
  <2> DEFINE open == f = "pooled"
  <2>1. open \in BOOLEAN /\ (TradeFate(j.op)' \notin {"asked", "pooled"} \/ open)
    BY <1>3, <1>4
  <2>2. CatchTrade(j, definitive, open)
    BY <1>3
  <2> HIDE DEF open
  <2> QED
    BY <1>2, <2>1, <2>2, CatchTradeEffect
<1> QED
  BY <1>1, <1>4, <1>5 DEF JobMove

-----------------------------------------------------------------------------
(* Confirmation *)

\* A job that looks on: another stage of the same confirmation.
LEMMA LookOn ==
  ASSUME IInv, NEW j \in jobs, j.stage \in {"wait", "check", "scan"},
         NEW stage \in {"check", "scan"}, NEW rec \in Recovery,
         stage = "scan" => rec \in Heights,
         NEW k, k = [j EXCEPT !.stage = stage, !.rec = rec], Advance(j, k),
         KeepRecord, UNCHANGED <<tabs, owner, chain, environment>>
  PROVE  JobMove(j)
<1>1. j \in Job /\ JobInv(j) /\ JobType(j)
  BY JobFacts
<1>2. /\ k \in Job /\ k.stage = stage /\ k.rec = rec /\ k.kind = j.kind /\ k.tab = j.tab
      /\ k.acct = j.acct /\ k.op = j.op /\ k.tx = j.tx /\ k.current = j.current
  BY <1>1 DEF Job, Stages
<1>3. JobType(k)
  BY <1>1, <1>2 DEF JobType, Late
<1>4. FateStep(j) /\ FatesInOrder' /\ Effect(j)
  BY SameFates, SameTabs, SilentEffect DEF chain
<1>5. JobInv(k)'
  <2>1. TradeJob(k)' /\ HoldsSlot(k)' /\ RecoverJob(k)'
    BY <1>1, <1>2 DEF JobInv, TradeJob, HoldsSlot, RecoverJob, KeepRecord, Before, Late
  <2>2. KnowsItsHash(k)'
    BY <1>1, <1>2 DEF JobInv, KnowsItsHash, KeepRecord, chain, Current, SameIdentity, OpenTrades,
                      Late
  <2> QED
    BY <2>1, <2>2 DEF JobInv
<1> QED
  BY <1>2, <1>3, <1>4, <1>5 DEF JobMove, chain

LEMMA Returned ==
  ASSUME IInv, NEW j \in jobs, Effect(j), Finish(j), UNCHANGED <<owner, chain, environment>>
  PROVE  JobMove(j)
  BY SameFates DEF JobMove, chain

LEMMA ReceiptMove ==
  ASSUME IInv, NEW j \in jobs, j.stage \in {"wait", "check", "scan"}, ReceiptFound(j),
         UNCHANGED <<owner, chain, environment>>
  PROVE  JobMove(j)
<1>1. None \in Recovery /\ "reverted" \in Status /\ "confirmed" \in Status
      /\ owner' = owner /\ fate' = fate
  BY DEF Recovery, Status, chain
<1>2. CASE fate[j.tx] = "reverted" /\ Resolve(j, "reverted", None)
  <2>1. Effect(j) /\ Finish(j)
    BY <1>1, <1>2, ResolveEffect
  <2> QED
    BY <2>1, Returned
<1>3. CASE fate[j.tx] = "mined" /\ IsTradeReceipt(j) /\ Resolve(j, "confirmed", None)
  <2>1. Effect(j) /\ Finish(j)
    BY <1>1, <1>3, ResolveEffect
  <2> QED
    BY <2>1, Returned
<1>4. CASE Throw(j) /\ Finish(j)
  BY <1>1, <1>4, ThrowEffect, Returned
<1> QED
  BY <1>2, <1>3, <1>4 DEF ReceiptFound

LEMMA PendingMove ==
  ASSUME IInv, NEW j \in jobs, j.stage \in {"wait", "check", "scan"}, NEW rec \in Recovery,
         StillPending(j, rec), UNCHANGED <<owner, chain, environment>>
  PROVE  JobMove(j)
<1>1. "unknown" \in Status /\ owner' = owner /\ fate' = fate
  BY DEF Status, chain
<1>2. Effect(j) /\ Finish(j)
  BY <1>1, ResolveEffect DEF StillPending
<1> QED
  BY <1>2, Returned

LEMMA ReplacedMove ==
  ASSUME IInv, NEW j \in jobs, j.stage \in {"wait", "check", "scan"},
         fate[j.tx] = "replaced", Resolve(j, "replaced", None),
         UNCHANGED <<owner, chain, environment>>
  PROVE  JobMove(j)
<1>1. "replaced" \in Status /\ owner' = owner /\ fate' = fate /\ None \in Recovery
  BY DEF Status, chain, Recovery
<1>2. Effect(j) /\ Finish(j)
  BY <1>1, ResolveEffect
<1> QED
  BY <1>2, Returned

LEMMA WaitMove ==
  ASSUME IInv, NEW j \in jobs, Wait(j)
  PROVE  JobMove(j)
<1>1. j.stage = "wait" /\ UNCHANGED <<owner, chain, environment>>
  BY DEF Wait
<1>2. CASE ReceiptFound(j)
  BY <1>1, <1>2, ReceiptMove
<1>3. CASE fate[j.tx] = "replaced" /\ Resolve(j, "replaced", None)
  BY <1>1, <1>3, ReplacedMove
<1>4. CASE Throw(j) /\ Finish(j)
  BY <1>1, <1>4, ThrowEffect, Returned DEF chain
<1>5. CASE Advance(j, [j EXCEPT !.stage = "check"]) /\ KeepRecord /\ UNCHANGED tabs
  <2>1. j \in Job /\ j.rec \in Recovery
    BY JobFacts
  <2>2. [j EXCEPT !.stage = "check"] = [j EXCEPT !.stage = "check", !.rec = j.rec]
    BY <2>1 DEF Job
  <2>3. UNCHANGED <<tabs, owner, chain, environment>>
    BY <1>1, <1>5
  <2> QED
    BY <1>1, <1>5, <2>1, <2>2, <2>3, LookOn
<1> QED
  BY <1>2, <1>3, <1>4, <1>5 DEF Wait

LEMMA CheckMove ==
  ASSUME IInv, NEW j \in jobs, Check(j)
  PROVE  JobMove(j)
<1>1. j.stage = "check" /\ UNCHANGED <<owner, chain, environment>>
  BY DEF Check
<1>2. j \in Job /\ j.rec \in Recovery /\ j.tx \in Tx
  BY <1>1, JobFacts DEF JobType, Late, Check
<1>3. CASE ReceiptFound(j)
  BY <1>1, <1>3, ReceiptMove
<1>4. CASE Throw(j) /\ Finish(j)
  BY <1>1, <1>4, ThrowEffect, Returned DEF chain
<1>5. CASE /\ j.rec # None
           /\ Advance(j, [j EXCEPT !.stage = "scan"]) /\ KeepRecord /\ UNCHANGED tabs
  <2>1. [j EXCEPT !.stage = "scan"] = [j EXCEPT !.stage = "scan", !.rec = j.rec]
    BY <1>2 DEF Job
  <2>2. UNCHANGED <<tabs, owner, chain, environment>>
    BY <1>1, <1>5
  <2> QED
    BY <1>1, <1>2, <1>5, <2>1, <2>2, LookOn DEF Recovery
<1>6. CASE /\ StartOfScan(j.tx) # None
           /\ Advance(j, [j EXCEPT !.stage = "scan", !.rec = StartOfScan(j.tx)])
           /\ KeepRecord /\ UNCHANGED tabs
  <2>1. StartOfScan(j.tx) \in Recovery
    BY <1>2, StartType
  <2>2. UNCHANGED <<tabs, owner, chain, environment>>
    BY <1>1, <1>6
  <2> QED
    BY <1>1, <1>6, <2>1, <2>2, LookOn DEF Recovery
<1>7. CASE StillPending(j, None)
  BY <1>1, <1>7, PendingMove DEF Recovery
<1> QED
  BY <1>3, <1>4, <1>5, <1>6, <1>7 DEF Check

LEMMA ScanMove ==
  ASSUME IInv, NEW j \in jobs, Scan(j)
  PROVE  JobMove(j)
<1> DEFINE last == IF j.rec + ScanBatch - 1 < head THEN j.rec + ScanBatch - 1 ELSE head
<1>1. j.stage = "scan" /\ UNCHANGED <<owner, chain, environment>>
  BY DEF Scan
<1>2. j.rec \in Heights /\ j.rec \in Recovery
  BY <1>1, JobFacts DEF JobType
<1>3. CASE StillPending(j, j.rec)
  BY <1>1, <1>2, <1>3, PendingMove
<1>4. CASE ReceiptFound(j)
  BY <1>1, <1>4, ReceiptMove
<1>5. CASE fate[j.tx] = "replaced" /\ Resolve(j, "replaced", None)
  BY <1>1, <1>5, ReplacedMove
<1>6. CASE last < head /\ StillPending(j, last + 1)
  <2>1. head \in Heights
    BY DEF IInv, TypeOK
  <2>2. last + 1 \in Heights
    BY <1>2, <1>6, <2>1, PanelConstants DEF Heights
  <2> QED
    BY <1>1, <1>6, <2>2, PendingMove DEF Recovery
<1>7. CASE Throw(j) /\ Finish(j)
  BY <1>1, <1>7, ThrowEffect, Returned DEF chain
<1> QED
  BY <1>3, <1>4, <1>5, <1>6, <1>7 DEF Scan

-----------------------------------------------------------------------------
(* The page, its user and the chain *)

\* What the panel does outside a job, with the record of account a for trade op.
PageStep(a, op) ==
  /\ RecordStep(a, op)
  /\ tabs' \in [Tabs -> Tab]
  /\ fate' = fate /\ owner' \in [Trades -> Accounts \cup {None}]
  /\ \A i \in Trades : owner[i] # None => owner'[i] = owner[i]
  /\ a \notin waived' =>
       \/ stored'[a] = stored[a]
       \/ stored'[a] # None /\ (stored'[a].hash # None \/ stored[a] = None)
  /\ \A t \in Tabs :
       /\ tabs'[t].acct = tabs[t].acct
       /\ tabs[t].sent # None /\ tabs'[t].sent = None =>
            /\ tabs[t].acct = a
            /\ a \in waived' \/ stored[a] = None \/ stored[a].hash = None

LEMMA PageKeeps ==
  ASSUME IInv, NEW a, NEW op, PageStep(a, op)
  PROVE  FatesInOrder' /\ OpenIsRecorded' /\ \A k \in jobs : JobInv(k)'
<1>1. FatesInOrder'
  BY DEF IInv, TypeOK, FatesInOrder, PageStep, TradeFate, ApproveFate
<1>2. \A b \in Accounts : b \notin waived' => b \notin waived
  BY DEF PageStep, RecordStep
<1>3. \A b \in Accounts : OpenTrades(b)' = OpenTrades(b)
  <2>1. \A i \in Trades : fate[<<i, "trade">>] \in {"asked", "pooled"} => owner'[i] = owner[i]
    BY DEF IInv, FatesInOrder, TradeFate, PageStep
  <2> QED
    BY <2>1 DEF OpenTrades, PageStep
<1>4. \A b \in Accounts, i \in Trades :
        b \notin waived' /\ Recorded(b, i) =>
          \/ Recorded(b, i)'
          \/ b = a /\ i = op /\ stored'[a] = None
  BY DEF PageStep, RecordStep, Recorded
<1>5. \A b \in Accounts, i \in Trades : b \notin waived' /\ Recorded(b, i) => Recorded(b, i)'
  BY <1>4 DEF PageStep, Recorded
<1>6. OpenIsRecorded'
  BY <1>2, <1>3, <1>5 DEF IInv, OpenIsRecorded, OpenTrades
<1>7. ASSUME NEW k \in jobs
      PROVE  JobInv(k)'
  <2>1. JobInv(k) /\ k.acct \in Accounts /\ k.op \in Trades /\ k.tab \in Tabs
    BY JobFacts
  <2>2. TradeJob(k)'
    BY <2>1, PanelConstants DEF JobInv, TradeJob, PageStep, TradeFate, ApproveFate
  <2>3. HoldsSlot(k)'
    BY <1>2, <1>5, <2>1 DEF JobInv, HoldsSlot, PageStep, ApproveFate
  <2>4. RecoverJob(k)'
    BY <1>2, <2>1 DEF JobInv, RecoverJob
  <2>5. KnowsItsHash(k)'
    <3> SUFFICES ASSUME k.kind = "trade", k.stage \in Late, Current(k)', k.acct \notin waived',
                        k.op \in OpenTrades(k.acct)'
                 PROVE  tabs'[k.tab].sent # None /\ stored'[k.acct] # None
                        /\ stored'[k.acct].hash # None
      BY DEF KnowsItsHash
    <3>1. Current(k)
      BY <2>1 DEF Current, SameIdentity, PageStep
    <3>2. k.acct \notin waived /\ k.op \in OpenTrades(k.acct)
      BY <1>2, <1>3, <2>1
    <3>3. tabs[k.tab].sent # None /\ stored[k.acct] # None /\ stored[k.acct].hash # None
      BY <2>1, <3>1, <3>2 DEF JobInv, KnowsItsHash
    <3>4. Recorded(k.acct, k.op)'
      BY <1>5, <2>1, <3>2 DEF IInv, OpenIsRecorded
    <3>5. tabs'[k.tab].sent # None
      BY <2>1, <3>1, <3>3 DEF PageStep, Current, SameIdentity
    <3>6. stored'[k.acct].hash # None
      BY <2>1, <3>3 DEF PageStep, RecordStep
    <3> QED
      BY <3>4, <3>5, <3>6 DEF Recorded
  <2> QED
    BY <2>2, <2>3, <2>4, <2>5 DEF JobInv
<1> QED
  BY <1>1, <1>6, <1>7

\* A step of the panel that begins no job.
LEMMA NoNewJob ==
  ASSUME IInv, NEW a, NEW op, PageStep(a, op),
         UNCHANGED <<jobs, block, head>>,
         wallet' \in Accounts \cup {None}, disturbances' \in 0 .. MaxDisturbances
  PROVE  IInv'
<1>1. FatesInOrder' /\ OpenIsRecorded' /\ \A k \in jobs : JobInv(k)'
  BY PageKeeps
<1>2. TypeOK'
  BY DEF IInv, TypeOK, PageStep, RecordStep
<1>3. JobsType' /\ OneJobPerTrade' /\ JobsInv'
  BY <1>1 DEF IInv, JobsType, JobType, OneJobPerTrade, JobsInv
<1> QED
  BY <1>1, <1>2, <1>3 DEF IInv

\* A step of the panel that begins job k.
LEMMA NewJob ==
  ASSUME IInv, NEW a, NEW op, PageStep(a, op),
         UNCHANGED <<block, head, environment>>,
         NEW k, jobs' = jobs \cup {k}, JobType(k), JobInv(k)',
         k.kind = "trade" => \A j \in jobs : j.kind = "trade" => j.op # k.op
  PROVE  IInv'
<1>1. FatesInOrder' /\ OpenIsRecorded' /\ \A j \in jobs : JobInv(j)'
  BY PageKeeps
<1>2. jobs' \subseteq Job
  BY DEF IInv, TypeOK, JobType
<1>3. TypeOK'
  BY <1>2 DEF IInv, TypeOK, PageStep, RecordStep, environment
<1>4. JobsType'
  BY DEF IInv, JobsType, JobType
<1>5. OneJobPerTrade'
  BY DEF IInv, OneJobPerTrade
<1>6. JobsInv'
  BY <1>1 DEF JobsInv
<1> QED
  BY <1>1, <1>3, <1>4, <1>5, <1>6 DEF IInv

LEMMA QuietPage ==
  ASSUME IInv, NEW t \in Tabs, NEW new \in Tab, SetTab(t, new),
         new.acct = tabs[t].acct,
         tabs[t].sent # None /\ new.sent = None =>
           stored[tabs[t].acct] = None \/ stored[tabs[t].acct].hash = None,
         UNCHANGED <<jobs, stored, owner, chain, environment, waived>>
  PROVE  IInv'
<1> DEFINE a == tabs[t].acct
<1>1. RecordStep(a, 1)
  BY KeepStep DEF KeepRecord
<1>2. PageStep(a, 1)
  BY <1>1 DEF PageStep, SetTab, IInv, TypeOK, chain
<1> QED
  BY <1>2, NoNewJob DEF IInv, TypeOK, chain, environment

LEMMA GetQuoteStep ==
  ASSUME IInv, NEW t \in Tabs, GetQuote(t)
  PROVE  IInv'
<1> DEFINE tab == tabs[t]
           new == [tab EXCEPT !.quote = TRUE, !.status = "idle"]
<1>1. tab \in Tab
  BY DEF IInv, TypeOK
<1>2. new \in Tab /\ new.acct = tab.acct /\ new.sent = tab.sent
  <2> HIDE DEF tab
  <2> QED
    BY <1>1 DEF Tab, Status
<1> QED
  BY <1>2, QuietPage DEF GetQuote

LEMMA EditStep ==
  ASSUME IInv, NEW t \in Tabs, Edit(t)
  PROVE  IInv'
<1> DEFINE tab == tabs[t]
<1>1. PICK hash \in {tab.hash, None} :
        SetTab(t, [tab EXCEPT !.quote = FALSE, !.status = "idle", !.hash = hash])
  BY DEF Edit
<1> DEFINE new == [tab EXCEPT !.quote = FALSE, !.status = "idle", !.hash = hash]
<1>2. tab \in Tab
  BY DEF IInv, TypeOK
<1>3. new \in Tab /\ new.acct = tab.acct /\ new.sent = tab.sent
  <2> HIDE DEF tab
  <2> QED
    BY <1>2 DEF Tab, Status
<1> QED
  BY <1>1, <1>3, QuietPage DEF Edit

LEMMA SubmitOutdatedStep ==
  ASSUME IInv, NEW t \in Tabs, SubmitOutdated(t)
  PROVE  IInv'
<1> DEFINE tab == tabs[t]
           new == [tab EXCEPT !.status = "idle", !.quote = FALSE]
<1>1. tab \in Tab
  BY DEF IInv, TypeOK
<1>2. new \in Tab /\ new.acct = tab.acct /\ new.sent = tab.sent
  <2> HIDE DEF tab
  <2> QED
    BY <1>1 DEF Tab, Status
<1> QED
  BY <1>2, QuietPage DEF SubmitOutdated

\* The panel shows what the record knows: it loses a hash only with the record's.
LEMMA SubmitBlockedStep ==
  ASSUME IInv, NEW t \in Tabs, SubmitBlocked(t)
  PROVE  IInv'
<1> DEFINE tab == tabs[t]
           hash == stored[tab.acct].hash
           new == [tab EXCEPT !.status = "unknown", !.hash = hash, !.sent = hash]
<1>1. tab \in Tab /\ tab.acct \in Accounts
  <2>1. tabs[t] \in Tab
    BY DEF IInv, TypeOK
  <2>2. tabs[t].acct \in Accounts \cup {None}
    BY <2>1 DEF Tab
  <2> QED
    BY <2>1, <2>2 DEF SubmitBlocked, MaySubmit
<1>2. stored[tab.acct] # None /\ SetTab(t, new)
      /\ UNCHANGED <<jobs, stored, owner, chain, environment, waived>>
  BY DEF SubmitBlocked, ReadPending, MaySubmit
<1>3. hash \in Tx \cup {None}
  <2>1. stored[tab.acct] \in Pending
    BY <1>1, <1>2 DEF IInv, TypeOK
  <2> QED
    BY <2>1 DEF Pending
<1>4. new \in Tab /\ new.acct = tab.acct /\ new.sent = hash
  <2> HIDE DEF tab, hash
  <2> QED
    BY <1>1, <1>3 DEF Tab, Status
<1> QED
  BY <1>2, <1>4, QuietPage

\* A trade is begun only by a panel that finds no record, and the record is its own.
LEMMA SubmitStep ==
  ASSUME IInv, NEW t \in Tabs, Submit(t)
  PROVE  IInv' /\ \E a \in Accounts, op \in Nat : PageStep(a, op)
<1> DEFINE tab == tabs[t]
           acct == tab.acct
<1>1. tab \in Tab /\ acct \in Accounts /\ stored[acct] = None
  <2>1. tabs[t] \in Tab
    BY DEF IInv, TypeOK
  <2>2. tabs[t].acct \in Accounts \cup {None} /\ tabs[t].acct # None
    BY <2>1 DEF Tab, Submit, MaySubmit
  <2> QED
    BY <2>1, <2>2 DEF Submit, ReadPending
<1>2. PICK i \in Trades, side \in Sides :
        /\ owner[i] = None
        /\ owner' = [owner EXCEPT ![i] = acct]
        /\ SetTab(t, [tab EXCEPT !.busy = TRUE, !.status = "busy",
                                 !.asked = side = "buy", !.approved = None])
        /\ Persist(acct, i, None, None)
        /\ jobs' = jobs \cup
             {[kind |-> "trade", tab |-> t, acct |-> acct, op |-> i,
               tx |-> None, rec |-> None, current |-> TRUE,
               stage |-> IF side = "buy" THEN "buy" ELSE "allowance"]}
  BY DEF Submit
<1> DEFINE asked == side = "buy"
           stage == IF side = "buy" THEN "buy" ELSE "allowance"
           new == [tab EXCEPT !.busy = TRUE, !.status = "busy",
                             !.asked = asked, !.approved = None]
           job == [kind |-> "trade", tab |-> t, acct |-> acct, op |-> i,
                   tx |-> None, rec |-> None, current |-> TRUE, stage |-> stage]
<1>3. UNCHANGED <<chain, environment>>
  BY DEF Submit
<1>4. asked \in BOOLEAN /\ stage \in {"buy", "allowance"}
  OBVIOUS
<1>5. SetTab(t, new) /\ jobs' = jobs \cup {job}
  BY <1>2
<1> HIDE DEF asked, stage
<1>6. new \in Tab /\ new.acct = tab.acct /\ new.sent = tab.sent
  <2> HIDE DEF tab
  <2> QED
    BY <1>1, <1>4 DEF Tab, Status
<1>7. RecordStep(acct, i) /\ stored'[acct] # None /\ stored'[acct].by = i
  <2>1. None \in Recovery
    BY DEF Recovery
  <2> HIDE DEF acct
  <2> QED
    BY <1>1, <1>2, <2>1, PersistStep, PersistType DEF IInv
<1>8. /\ tabs' \in [Tabs -> Tab]
      /\ \A u \in Tabs : tabs'[u].acct = tabs[u].acct /\ tabs'[u].sent = tabs[u].sent
  <2> HIDE DEF new
  <2> QED
    BY <1>5, <1>6 DEF SetTab, IInv, TypeOK
<1>9. /\ owner' \in [Trades -> Accounts \cup {None}] /\ owner'[i] = acct
      /\ \A n \in Trades : owner[n] # None => owner'[n] = owner[n]
  <2> HIDE DEF acct
  <2> QED
    BY <1>1, <1>2 DEF IInv, TypeOK
<1>10. PageStep(acct, i)
  <2> HIDE DEF acct
  <2> QED
    BY <1>1, <1>3, <1>7, <1>8, <1>9 DEF PageStep, chain
<1>11. PICK k \in Job : /\ k.kind = "trade" /\ k.stage = stage /\ k.acct = acct /\ k.op = i
                       /\ jobs' = jobs \cup {k}
  <2>1. /\ job \in Job /\ job.kind = "trade" /\ job.stage = stage /\ job.acct = acct
        /\ job.op = i
    <3> HIDE DEF acct
    <3> QED
      BY <1>1, <1>4 DEF Job, Stages, Recovery
  <2> HIDE DEF job
  <2> QED
    BY <1>5, <2>1
<1>12. JobType(k)
  BY <1>4, <1>11 DEF JobType, Late
<1>13. JobInv(k)'
  <2>1. TradeFate(i)' = "none" /\ ApproveFate(i)' = "none"
    BY <1>2, <1>3 DEF IInv, FatesInOrder, TradeFate, ApproveFate, chain
  <2>2. TradeJob(k)'
    BY <1>4, <1>9, <1>11, <2>1 DEF TradeJob, Late
  <2>3. HoldsSlot(k)'
    BY <1>7, <1>11 DEF HoldsSlot, Recorded
  <2> QED
    BY <1>4, <1>11, <2>2, <2>3 DEF JobInv, RecoverJob, KnowsItsHash, Late
<1>14. \A j \in jobs : j.kind = "trade" => j.op # k.op
  <2> SUFFICES ASSUME NEW j \in jobs, j.kind = "trade"
               PROVE  owner[j.op] # None
    BY <1>2, <1>11
  <2> QED
    BY JobFacts, PanelConstants DEF JobInv, TradeJob
<1>15. IInv'
  <2> HIDE DEF acct
  <2> QED
    BY <1>1, <1>3, <1>10, <1>11, <1>12, <1>13, <1>14, NewJob DEF chain
<1> QED
  BY <1>1, <1>10, <1>15 DEF Trades

\* A recovery under a record is about that record, or the account is waived by it.
LEMMA RecoverStep ==
  ASSUME IInv, NEW t \in Tabs, Recover(t)
  PROVE  IInv' /\ \E a \in Accounts, op \in Nat : PageStep(a, op)
<1> DEFINE tab == tabs[t]
           acct == tab.acct
           op == IF stored[acct] = None THEN tab.hash[1] ELSE stored[acct].by
           new == [tab EXCEPT !.busy = TRUE, !.status = "busy"]
<1>1. tab \in Tab
  BY DEF IInv, TypeOK
<1>2. /\ acct \in Accounts /\ tab.hash \in Tx /\ tab.hash # None /\ tab.rec \in Recovery
  <2> HIDE DEF tab
  <2>1. tab.acct # None /\ tab.hash # None
    BY DEF Recover, tab
  <2> QED
    BY <1>1, <2>1 DEF Tab
<1>3. op \in Trades
  <2>1. stored[acct] \in Pending \cup {None}
    BY <1>2 DEF IInv, TypeOK
  <2>2. stored[acct] # None => stored[acct].by \in Trades
    BY <2>1 DEF Pending
  <2>3. tab.hash[1] \in Trades
    BY <1>2 DEF Tx
  <2> QED
    BY <2>2, <2>3
<1>4. /\ Persist(acct, op, tab.hash, tab.rec) /\ SetTab(t, new)
      /\ UNCHANGED <<owner, chain, environment>>
  BY DEF Recover
<1>5. PICK stage \in {"wait", "check"} :
        jobs' = jobs \cup
          {[kind |-> "recover", tab |-> t, acct |-> acct, op |-> op,
            tx |-> tab.hash, rec |-> tab.rec, current |-> TRUE, stage |-> stage]}
  BY DEF Recover
<1> DEFINE job == [kind |-> "recover", tab |-> t, acct |-> acct, op |-> op,
                   tx |-> tab.hash, rec |-> tab.rec, current |-> TRUE, stage |-> stage]
<1> HIDE DEF op
<1>6. new \in Tab /\ new.acct = tab.acct /\ new.sent = tab.sent
  <2> HIDE DEF tab
  <2> QED
    BY <1>1 DEF Tab, Status
<1>7. /\ RecordStep(acct, op) /\ stored'[acct] # None /\ stored'[acct].hash = tab.hash
      /\ acct \notin waived' => tab.hash[1] = op
  <2> HIDE DEF tab, acct
  <2> QED
    BY <1>2, <1>3, <1>4, PersistStep
<1>8. /\ tabs' \in [Tabs -> Tab]
      /\ \A u \in Tabs : tabs'[u].acct = tabs[u].acct /\ tabs'[u].sent = tabs[u].sent
  <2> HIDE DEF new
  <2> QED
    BY <1>4, <1>6 DEF SetTab, IInv, TypeOK
<1>9. PageStep(acct, op)
  <2> HIDE DEF acct
  <2> QED
    BY <1>2, <1>4, <1>7, <1>8 DEF PageStep, chain, IInv, TypeOK
<1>10. jobs' = jobs \cup {job}
  BY <1>5
<1>11. PICK k \in Job : /\ k.kind = "recover" /\ k.stage = stage /\ k.acct = acct /\ k.op = op
                       /\ k.tx = tab.hash /\ jobs' = jobs \cup {k}
  <2>1. /\ job \in Job /\ job.kind = "recover" /\ job.stage = stage /\ job.acct = acct
        /\ job.op = op /\ job.tx = tab.hash
    <3> HIDE DEF tab, acct
    <3> QED
      BY <1>2, <1>3 DEF Job, Stages
  <2> HIDE DEF job
  <2> QED
    BY <1>10, <2>1
<1>12. JobType(k)
  BY <1>2, <1>11 DEF JobType
<1>13. JobInv(k)'
  BY <1>7, <1>11 DEF JobInv, TradeJob, HoldsSlot, RecoverJob, KnowsItsHash
<1>14. IInv'
  <2> HIDE DEF acct
  <2> QED
    BY <1>2, <1>3, <1>4, <1>9, <1>11, <1>12, <1>13, NewJob DEF chain
<1> QED
  BY <1>2, <1>3, <1>9, <1>14 DEF Trades

LEMMA AbandonStep ==
  ASSUME IInv, NEW t \in Tabs, Abandon(t)
  PROVE  IInv' /\ \E a \in Accounts, op \in Nat : PageStep(a, op)
<1> DEFINE tab == tabs[t]
           acct == tab.acct
           new == [tab EXCEPT !.busy = FALSE, !.asked = FALSE, !.approved = None,
                              !.sent = None, !.rec = None, !.status = "idle",
                              !.hash = None, !.quote = FALSE]
<1>1. tab \in Tab
  BY DEF IInv, TypeOK
<1>2. acct \in Accounts
  <2> HIDE DEF tab
  <2>1. tab.acct # None
    BY DEF Abandon, tab
  <2> QED
    BY <1>1, <2>1 DEF Tab
<1>3. /\ Forget(acct, 1, TRUE) /\ SetTab(t, new)
      /\ UNCHANGED <<jobs, owner, chain, environment>>
  BY DEF Abandon
<1>4. new \in Tab /\ new.acct = tab.acct
  <2> HIDE DEF tab
  <2> QED
    BY <1>1 DEF Tab, Status, Recovery
<1>5. RecordStep(acct, 1) /\ acct \in waived'
  <2> HIDE DEF acct
  <2> QED
    BY <1>2, <1>3, ForgetStep
<1>6. /\ tabs' \in [Tabs -> Tab]
      /\ \A u \in Tabs : tabs'[u].acct = tabs[u].acct
      /\ \A u \in Tabs : u # t => tabs'[u].sent = tabs[u].sent
  <2> HIDE DEF new
  <2> QED
    BY <1>3, <1>4 DEF SetTab, IInv, TypeOK
<1>7. PageStep(acct, 1)
  BY <1>3, <1>5, <1>6 DEF PageStep, chain, IInv, TypeOK
<1>8. IInv'
  <2> HIDE DEF acct
  <2> QED
    BY <1>3, <1>7, NoNewJob DEF IInv, TypeOK, chain, environment
<1> QED
  BY <1>2, <1>7, <1>8

LEMMA WalletChangesStep == IInv /\ WalletChanges => IInv'
<1> SUFFICES ASSUME IInv, WalletChanges
             PROVE  IInv'
  OBVIOUS
<1>1. UNCHANGED <<tabs, jobs, stored, owner, fate, block, head, waived>>
  BY DEF WalletChanges, chain
<1>2. RecordStep(None, 1)
  BY <1>1, KeepStep DEF KeepRecord
<1>3. PageStep(None, 1)
  BY <1>1, <1>2 DEF PageStep, IInv, TypeOK
<1>4. wallet' \in Accounts \cup {None} /\ disturbances' \in 0 .. MaxDisturbances
  BY PanelConstants DEF WalletChanges, IInv, TypeOK
<1> QED
  BY <1>1, <1>3, <1>4, NoNewJob

\* A panel that starts over takes nobody's record: its jobs are of another generation.
LEMMA RenderWalletStep ==
  ASSUME IInv, NEW t \in Tabs, RenderWallet(t)
  PROVE  IInv'
<1>1. /\ tabs' = [tabs EXCEPT ![t] = Mounted(wallet)]
      /\ jobs' = {[j EXCEPT !.current = j.current /\ j.tab # t] : j \in jobs}
      /\ UNCHANGED <<stored, owner, fate, block, head, wallet, disturbances, waived>>
  BY DEF RenderWallet, SetTab, chain, environment
<1>2. tabs' \in [Tabs -> Tab]
  <2>1. Mounted(wallet) \in Tab
    BY MountedType DEF IInv, TypeOK
  <2> QED
    BY <1>1, <2>1 DEF IInv, TypeOK
<1>3. ASSUME NEW k \in jobs'
      PROVE  \E j \in jobs :
               /\ k \in Job /\ k.kind = j.kind /\ k.tab = j.tab /\ k.acct = j.acct
               /\ k.op = j.op /\ k.tx = j.tx /\ k.rec = j.rec /\ k.stage = j.stage
               /\ k.current => j.current /\ j.tab # t
               /\ k = [j EXCEPT !.current = j.current /\ j.tab # t]
  <2>1. PICK j \in jobs : k = [j EXCEPT !.current = j.current /\ j.tab # t]
    BY <1>1
  <2>2. j \in Job
    BY JobFacts
  <2>3. ASSUME NEW current \in BOOLEAN, k = [j EXCEPT !.current = current]
        PROVE  /\ k \in Job /\ k.kind = j.kind /\ k.tab = j.tab /\ k.acct = j.acct
               /\ k.op = j.op /\ k.tx = j.tx /\ k.rec = j.rec /\ k.stage = j.stage
               /\ k.current = current
    BY <2>2, <2>3 DEF Job
  <2>4. (j.current /\ j.tab # t) \in BOOLEAN
    OBVIOUS
  <2> QED
    BY <2>1, <2>3, <2>4, Zenon
<1>4. TypeOK' /\ JobsType'
  <2>1. jobs' \subseteq Job
    BY <1>3
  <2>2. JobsType'
    BY <1>3 DEF IInv, JobsType, JobType
  <2> QED
    BY <1>1, <1>2, <2>1, <2>2 DEF IInv, TypeOK
<1>5. FatesInOrder' /\ OpenIsRecorded'
  BY <1>1 DEF IInv, FatesInOrder, TradeFate, ApproveFate, OpenIsRecorded, OpenTrades, Recorded
<1>6. OneJobPerTrade'
  BY <1>3 DEF IInv, OneJobPerTrade
<1>7. ASSUME NEW k \in jobs'
      PROVE  JobInv(k)'
  <2>1. PICK j \in jobs :
               /\ k.kind = j.kind /\ k.tab = j.tab /\ k.acct = j.acct
               /\ k.op = j.op /\ k.tx = j.tx /\ k.stage = j.stage
               /\ k.current => j.current /\ j.tab # t
    BY <1>3
  <2>2. JobInv(j) /\ j.tab \in Tabs
    BY JobFacts
  <2>3. TradeJob(k)' /\ HoldsSlot(k)' /\ RecoverJob(k)'
    BY <1>1, <2>1, <2>2 DEF JobInv, TradeJob, HoldsSlot, RecoverJob, TradeFate, ApproveFate, Recorded
  <2>4. k.current => tabs'[k.tab] = tabs[j.tab]
    BY <1>1, <2>1, <2>2 DEF IInv, TypeOK
  <2>5. KnowsItsHash(k)'
    BY <1>1, <2>1, <2>2, <2>4 DEF JobInv, KnowsItsHash, Current, SameIdentity, OpenTrades
  <2> QED
    BY <2>3, <2>5 DEF JobInv
<1> QED
  BY <1>4, <1>5, <1>6, <1>7 DEF IInv, JobsInv

LEMMA ReloadStep ==
  ASSUME IInv, NEW t \in Tabs, Reload(t)
  PROVE  IInv'
<1>1. /\ tabs' = [tabs EXCEPT ![t] = Mounted(wallet)]
      /\ jobs' = {j \in jobs : j.tab # t}
      /\ UNCHANGED <<stored, owner, fate, block, head, wallet, waived>>
      /\ disturbances < MaxDisturbances /\ disturbances' = disturbances + 1
  BY DEF Reload, SetTab, chain
<1>2. tabs' \in [Tabs -> Tab]
  <2>1. Mounted(wallet) \in Tab
    BY MountedType DEF IInv, TypeOK
  <2> QED
    BY <1>1, <2>1 DEF IInv, TypeOK
<1>3. disturbances' \in 0 .. MaxDisturbances
  BY <1>1, PanelConstants DEF IInv, TypeOK
<1>4. TypeOK' /\ JobsType' /\ OneJobPerTrade'
  BY <1>1, <1>2, <1>3 DEF IInv, TypeOK, JobsType, JobType, OneJobPerTrade
<1>5. FatesInOrder' /\ OpenIsRecorded'
  BY <1>1 DEF IInv, FatesInOrder, TradeFate, ApproveFate, OpenIsRecorded, OpenTrades, Recorded
<1>6. ASSUME NEW j \in jobs'
      PROVE  JobInv(j)'
  <2>1. j \in jobs /\ j.tab # t
    BY <1>1
  <2>2. JobInv(j) /\ j.tab \in Tabs
    BY <2>1, JobFacts
  <2>3. tabs'[j.tab] = tabs[j.tab]
    BY <1>1, <2>1, <2>2 DEF IInv, TypeOK
  <2>4. TradeJob(j)' /\ HoldsSlot(j)' /\ RecoverJob(j)'
    BY <1>1, <2>2 DEF JobInv, TradeJob, HoldsSlot, RecoverJob, TradeFate, ApproveFate, Recorded
  <2>5. KnowsItsHash(j)'
    BY <1>1, <2>2, <2>3 DEF JobInv, KnowsItsHash, Current, SameIdentity, OpenTrades
  <2> QED
    BY <2>4, <2>5 DEF JobInv
<1> QED
  BY <1>4, <1>5, <1>6 DEF IInv, JobsInv

\* A transaction the wallet has, or the chain, meets its fate.
LEMMA ChainStep ==
  ASSUME IInv, NEW x \in Tx, fate[x] \in {"asked", "pooled"},
         NEW f \in Fates \ {"none", "asked"}, f = "pooled" => fate[x] = "asked",
         fate' = [fate EXCEPT ![x] = f], block' \in [Tx -> Heights], head' \in Heights,
         UNCHANGED <<tabs, jobs, stored, owner, environment, waived>>
  PROVE  IInv'
<1>1. fate \in [Tx -> Fates] /\ fate' \in [Tx -> Fates]
  BY DEF IInv, TypeOK
<1>2. \A i \in Trades : <<i, "trade">> \in Tx /\ <<i, "approve">> \in Tx
  BY DEF Tx
<1>3. \A y \in Tx : fate'[y] # fate[y] =>
        y = x /\ fate[y] \in {"asked", "pooled"} /\ fate'[y] \notin {"none", "asked"}
  BY <1>1
<1>4. \A i \in Trades :
        /\ TradeFate(i)' # TradeFate(i) =>
             /\ TradeFate(i) \in {"asked", "pooled"} /\ TradeFate(i)' \notin {"none", "asked"}
             /\ ApproveFate(i)' = ApproveFate(i)
        /\ ApproveFate(i)' # ApproveFate(i) => ApproveFate(i) \in {"asked", "pooled"}
  <2> SUFFICES ASSUME NEW i \in Trades
               PROVE  /\ TradeFate(i)' # TradeFate(i) =>
                           /\ TradeFate(i) \in {"asked", "pooled"}
                           /\ TradeFate(i)' \notin {"none", "asked"}
                           /\ ApproveFate(i)' = ApproveFate(i)
                      /\ ApproveFate(i)' # ApproveFate(i) =>
                           ApproveFate(i) \in {"asked", "pooled"}
    OBVIOUS
  <2>1. <<i, "trade">> # <<i, "approve">>
    OBVIOUS
  <2>2. /\ TradeFate(i)' # TradeFate(i) =>
             /\ <<i, "trade">> = x /\ TradeFate(i) \in {"asked", "pooled"}
             /\ TradeFate(i)' \notin {"none", "asked"}
        /\ ApproveFate(i)' # ApproveFate(i) =>
             <<i, "approve">> = x /\ ApproveFate(i) \in {"asked", "pooled"}
    BY <1>2, <1>3 DEF TradeFate, ApproveFate
  <2> QED
    BY <2>1, <2>2
<1>5. FatesInOrder'
  BY <1>4 DEF IInv, FatesInOrder
<1>6. \A a \in Accounts : OpenTrades(a)' \subseteq OpenTrades(a)
  BY <1>4 DEF OpenTrades, TradeFate
<1>7. OpenIsRecorded'
  BY <1>6 DEF IInv, OpenIsRecorded, Recorded, OpenTrades
<1>8. TypeOK' /\ JobsType' /\ OneJobPerTrade'
  BY <1>1 DEF IInv, TypeOK, JobsType, JobType, OneJobPerTrade, environment
<1>9. ASSUME NEW j \in jobs
      PROVE  JobInv(j)'
  <2>1. JobInv(j) /\ j.op \in Trades /\ j.acct \in Accounts
    BY JobFacts
  <2>2. TradeJob(j)'
    BY <1>4, <2>1 DEF JobInv, TradeJob
  <2>3. HoldsSlot(j)' /\ RecoverJob(j)'
    BY <1>4, <2>1 DEF JobInv, HoldsSlot, RecoverJob, Recorded
  <2>4. KnowsItsHash(j)'
    BY <1>6, <2>1 DEF JobInv, KnowsItsHash, Current, SameIdentity
  <2> QED
    BY <2>2, <2>3, <2>4 DEF JobInv
<1> QED
  BY <1>5, <1>7, <1>8, <1>9 DEF IInv, JobsInv

-----------------------------------------------------------------------------
(* The slot *)

\* A step concerns one account, and what it does there a slot may do.
OneAccount(a) ==
  /\ waived \subseteq waived'
  /\ \A b \in Accounts : b # a =>
       /\ stored'[b] = stored[b] /\ (b \in waived' => b \in waived)
       /\ OpenTrades(b)' = OpenTrades(b)
  /\ a \notin waived' /\ stored'[a] # None =>
       IF stored[a] = None THEN OpenTrades(a)' = {} ELSE stored'[a].by = stored[a].by

slotOf == [a \in Accounts |-> IF a \in waived THEN "waived"
                              ELSE IF stored[a] = None THEN "free" ELSE "held"]
openOf == [a \in Accounts |-> OpenTrades(a)]

LEMMA SlotStep ==
  ASSUME IInv, IInv', NEW a \in Accounts, OneAccount(a)
  PROVE  [Slot!SlotNext]_(Slot!slotVars)
<1>1. \A b \in Accounts : b # a => slotOf'[b] = slotOf[b] /\ openOf'[b] = openOf[b]
  BY DEF slotOf, openOf, OneAccount
<1>2. \A value : slotOf'[a] = value => slotOf' = [slotOf EXCEPT ![a] = value]
  BY <1>1 DEF slotOf
<1>3. \A value : openOf'[a] = value => openOf' = [openOf EXCEPT ![a] = value]
  BY <1>1 DEF openOf
<1>4. /\ slotOf[a] = IF a \in waived THEN "waived"
                     ELSE IF stored[a] = None THEN "free" ELSE "held"
      /\ slotOf'[a] = IF a \in waived' THEN "waived"
                      ELSE IF stored'[a] = None THEN "free" ELSE "held"
      /\ openOf[a] = OpenTrades(a) /\ openOf'[a] = OpenTrades(a)'
      /\ OpenTrades(a) \subseteq Trades /\ OpenTrades(a)' \subseteq Trades
  BY DEF slotOf, openOf, OpenTrades
<1>5. a \in waived => a \in waived'
  BY DEF OneAccount
<1>6. slotOf'[a] = slotOf[a] => slotOf' = slotOf
  BY <1>1 DEF slotOf
<1>7. openOf'[a] = openOf[a] => openOf' = openOf
  BY <1>1 DEF openOf
<1>8. a \notin waived =>
        \A i \in OpenTrades(a) : stored[a] # None /\ stored[a].by = i
  BY <1>4 DEF IInv, OpenIsRecorded, Recorded
<1>9. a \notin waived' =>
        \A i \in OpenTrades(a)' : stored'[a] # None /\ stored'[a].by = i
  BY <1>4 DEF IInv, OpenIsRecorded, Recorded
<1> HIDE DEF slotOf, openOf
<1>10. CASE a \in waived'
  <2>1. /\ \E S \in SUBSET Trades : openOf' = [openOf EXCEPT ![a] = S]
        /\ slotOf' = [slotOf EXCEPT ![a] = "waived"]
    BY <1>2, <1>3, <1>4, <1>10
  <2>2. Slot!Waive(a)
    BY <2>1 DEF Slot!Waive, slotOf, openOf
  <2> QED
    BY <2>2 DEF Slot!SlotNext
<1>11. CASE a \notin waived' /\ stored[a] = None /\ stored'[a] = None
  <2>1. slotOf' = slotOf /\ openOf' = openOf
    BY <1>4, <1>5, <1>6, <1>7, <1>8, <1>9, <1>11
  <2> QED
    BY <2>1 DEF Slot!slotVars, slotOf, openOf
<1>12. CASE a \notin waived' /\ stored[a] = None /\ stored'[a] # None
  <2>1. openOf' = openOf
    BY <1>4, <1>5, <1>7, <1>8, <1>12 DEF OneAccount
  <2>2. slotOf[a] = "free" /\ slotOf' = [slotOf EXCEPT ![a] = "held"]
    BY <1>2, <1>4, <1>5, <1>12
  <2>3. Slot!Take(a)
    BY <2>1, <2>2 DEF Slot!Take, slotOf, openOf
  <2> QED
    BY <2>3 DEF Slot!SlotNext
<1>13. CASE a \notin waived' /\ stored[a] # None /\ stored'[a] = None
  <2>1. openOf' = [openOf EXCEPT ![a] = {}]
    BY <1>3, <1>4, <1>9, <1>13
  <2>2. slotOf[a] = "held" /\ slotOf' = [slotOf EXCEPT ![a] = "free"]
    BY <1>2, <1>4, <1>5, <1>13
  <2>3. Slot!Release(a)
    BY <2>1, <2>2 DEF Slot!Release, slotOf, openOf
  <2> QED
    BY <2>3 DEF Slot!SlotNext
<1>14. CASE a \notin waived' /\ stored[a] # None /\ stored'[a] # None
  <2>1. slotOf[a] = "held" /\ slotOf' = slotOf
    BY <1>4, <1>5, <1>6, <1>14
  <2>2. stored'[a].by = stored[a].by
    BY <1>14 DEF OneAccount
  <2>3. CASE OpenTrades(a)' = OpenTrades(a)
    <3>1. openOf' = openOf
      BY <1>4, <1>7, <2>3
    <3> QED
      BY <2>1, <3>1 DEF Slot!slotVars, slotOf, openOf
  <2>4. CASE OpenTrades(a)' = {} /\ OpenTrades(a) # {}
    <3>1. openOf[a] # {} /\ openOf' = [openOf EXCEPT ![a] = {}]
      BY <1>3, <1>4, <2>4
    <3>2. Slot!Settle(a)
      BY <2>1, <3>1 DEF Slot!Settle, slotOf, openOf
    <3> QED
      BY <3>2 DEF Slot!SlotNext
  <2>5. CASE OpenTrades(a) = {} /\ OpenTrades(a)' # {}
    <3>1. \E r \in Trades : OpenTrades(a)' = {r}
      BY <1>4, <1>9, <1>14, <2>5
    <3>2. openOf[a] = {} /\ \E r \in Trades : openOf' = [openOf EXCEPT ![a] = {r}]
      BY <1>3, <1>4, <2>5, <3>1
    <3>3. Slot!Ask(a)
      BY <2>1, <3>2 DEF Slot!Ask, slotOf, openOf
    <3> QED
      BY <3>3 DEF Slot!SlotNext
  <2>6. OpenTrades(a) # {} /\ OpenTrades(a)' # {} => OpenTrades(a)' = OpenTrades(a)
    BY <1>5, <1>8, <1>9, <1>14, <2>2
  <2> QED
    BY <2>3, <2>4, <2>5, <2>6
<1> QED
  BY <1>10, <1>11, <1>12, <1>13, <1>14

LEMMA JobSlot ==
  ASSUME IInv, NEW j \in jobs, JobMove(j)
  PROVE  OneAccount(j.acct)
<1>1. /\ j.acct \in Accounts /\ j.op \in Trades /\ JobInv(j)
      /\ FateStep(j) /\ RecordStep(j.acct, j.op)
  BY JobFacts DEF JobMove, Effect
<1>2. ASSUME NEW b \in Accounts, b # j.acct
      PROVE  OpenTrades(b)' = OpenTrades(b)
  <2>1. \A i \in Trades : owner[i] = b => fate'[<<i, "trade">>] = fate[<<i, "trade">>]
    BY <1>1, <1>2 DEF FateStep, JobInv, TradeJob, Tx
  <2> QED
    BY <1>1, <2>1 DEF OpenTrades, FateStep
<1>3. ASSUME j.acct \notin waived', stored[j.acct] = None, stored'[j.acct] # None
      PROVE  OpenTrades(j.acct)' = {}
  <2>1. j.acct \notin waived
    BY <1>1, <1>3 DEF RecordStep
  <2>2. OpenTrades(j.acct) = {}
    BY <1>1, <1>3, <2>1 DEF IInv, OpenIsRecorded, Recorded, OpenTrades
  <2>3. ASSUME NEW i \in OpenTrades(j.acct)'
        PROVE  FALSE
    <3>1. /\ i \in Trades /\ owner[i] = j.acct /\ TradeFate(i)' \in {"asked", "pooled"}
          /\ TradeFate(i) \notin {"asked", "pooled"}
      BY <1>1, <2>2 DEF OpenTrades, TradeFate, FateStep
    <3>2. i = j.op
      BY <1>1, <3>1 DEF FateStep, TradeFate, Tx
    <3> QED
      BY <1>1, <1>3, <2>1, <3>1, <3>2 DEF FateStep, Recorded
  <2> QED
    BY <2>3
<1> QED
  BY <1>1, <1>2, <1>3 DEF OneAccount, RecordStep

LEMMA PageSlot ==
  ASSUME IInv, NEW a \in Accounts, NEW op \in Nat, PageStep(a, op)
  PROVE  OneAccount(a)
<1>1. \A b \in Accounts : OpenTrades(b)' = OpenTrades(b)
  <2>1. \A i \in Trades : fate[<<i, "trade">>] \in {"asked", "pooled"} => owner'[i] = owner[i]
    BY DEF IInv, FatesInOrder, TradeFate, PageStep
  <2> QED
    BY <2>1 DEF OpenTrades, PageStep
<1>2. a \notin waived' /\ stored[a] = None => OpenTrades(a) = {}
  BY DEF IInv, OpenIsRecorded, Recorded, PageStep, RecordStep, OpenTrades
<1> QED
  BY <1>1, <1>2 DEF OneAccount, PageStep, RecordStep

LEMMA ChainSlot ==
  ASSUME IInv, NEW x \in Tx, fate[x] \in {"asked", "pooled"}, NEW f,
         fate' = [fate EXCEPT ![x] = f], UNCHANGED <<stored, owner, waived>>
  PROVE  \/ \E a \in Accounts : OneAccount(a)
         \/ \A a \in Accounts : OpenTrades(a)' = OpenTrades(a)
<1>1. fate \in [Tx -> Fates] /\ owner \in [Trades -> Accounts \cup {None}]
  BY DEF IInv, TypeOK
<1>2. CASE x[2] = "trade" /\ owner[x[1]] \in Accounts
  <2> DEFINE a == owner[x[1]]
  <2>1. \A b \in Accounts : b # a => OpenTrades(b)' = OpenTrades(b)
    <3>1. \A i \in Trades : owner[i] # a => fate'[<<i, "trade">>] = fate[<<i, "trade">>]
      BY <1>1 DEF Tx
    <3> QED
      BY <3>1 DEF OpenTrades
  <2>2. OneAccount(a)
    BY <2>1 DEF OneAccount
  <2> QED
    BY <1>2, <2>2
<1>3. CASE ~(x[2] = "trade" /\ owner[x[1]] \in Accounts)
  <2>1. \A i \in Trades : owner[i] \in Accounts => fate'[<<i, "trade">>] = fate[<<i, "trade">>]
    BY <1>1, <1>3 DEF Tx
  <2> QED
    BY <2>1 DEF OpenTrades
<1> QED
  BY <1>2, <1>3

LEMMA QuietSlot ==
  ASSUME UNCHANGED <<stored, waived>>,
         \A a \in Accounts : OpenTrades(a)' = OpenTrades(a)
  PROVE  UNCHANGED Slot!slotVars
  BY DEF Slot!slotVars

JobNext(j) ==
  \/ ReadAllowance(j) \/ Approve(j) \/ ApprovalMined(j)
  \/ RequestBuy(j) \/ RequestSell(j) \/ Sign(j)
  \/ FailUnsent(j) \/ ApprovalLost(j) \/ FailSigning(j)
  \/ Capture(j) \/ Wait(j) \/ Check(j) \/ Scan(j)

LEMMA JobNextStep ==
  ASSUME IInv, NEW j \in jobs, JobNext(j)
  PROVE  IInv' /\ [Slot!SlotNext]_(Slot!slotVars)
<1>1. JobMove(j)
  BY ReadAllowanceMove, ApproveMove, ApprovalMinedMove, RequestMove, SignMove, FailUnsentMove,
     ApprovalLostMove, FailSigningMove, CaptureMove, WaitMove, CheckMove, ScanMove DEF JobNext
<1>2. IInv'
  BY <1>1, JobStep
<1>3. OneAccount(j.acct) /\ j.acct \in Accounts
  BY <1>1, JobSlot, JobFacts
<1> QED
  BY <1>2, <1>3, SlotStep

LEMMA PromptStep ==
  ASSUME IInv, NEW x \in Tx, PromptAnswered(x)
  PROVE  IInv' /\ [Slot!SlotNext]_(Slot!slotVars)
<1>1. PICK f \in {"pooled", "dropped"} : fate' = [fate EXCEPT ![x] = f]
  BY DEF PromptAnswered
<1>2. /\ fate[x] = "asked" /\ block' \in [Tx -> Heights] /\ head' \in Heights
      /\ UNCHANGED <<tabs, jobs, stored, owner, environment, waived>>
  BY DEF PromptAnswered, IInv, TypeOK
<1>3. IInv'
  BY <1>1, <1>2, ChainStep DEF Fates
<1>4. \/ \E a \in Accounts : OneAccount(a)
      \/ \A a \in Accounts : OpenTrades(a)' = OpenTrades(a)
  BY <1>1, <1>2, ChainSlot
<1> QED
  BY <1>2, <1>3, <1>4, SlotStep, QuietSlot

LEMMA NextBlockStep ==
  ASSUME IInv, NextBlock
  PROVE  IInv' /\ [Slot!SlotNext]_(Slot!slotVars)
<1>1. /\ head' \in Heights
      /\ UNCHANGED <<tabs, jobs, stored, owner, environment, waived>>
  BY PanelConstants DEF NextBlock, IInv, TypeOK, Heights
<1>2. CASE UNCHANGED <<fate, block>>
  <2>1. \A a \in Accounts : OpenTrades(a)' = OpenTrades(a)
    BY <1>1, <1>2 DEF OpenTrades
  <2>2. TypeOK' /\ JobsType' /\ FatesInOrder' /\ OneJobPerTrade' /\ OpenIsRecorded'
    BY <1>1, <1>2 DEF IInv, TypeOK, JobsType, JobType, FatesInOrder, TradeFate, ApproveFate,
                      OneJobPerTrade, OpenIsRecorded, Recorded, OpenTrades, environment
  <2>3. JobsInv'
    BY <1>1, <1>2 DEF IInv, JobsInv, JobInv, TradeJob, HoldsSlot, RecoverJob, KnowsItsHash,
                      TradeFate, ApproveFate, Recorded, OpenTrades, Current, SameIdentity
  <2> QED
    BY <1>1, <2>1, <2>2, <2>3, QuietSlot DEF IInv
<1>3. CASE \E x \in Tx, f \in {"mined", "reverted", "replaced"} :
             /\ fate[x] = "pooled"
             /\ fate' = [fate EXCEPT ![x] = f]
             /\ block' = [block EXCEPT ![x] = head + 1]
  <2>1. PICK x \in Tx, f \in {"mined", "reverted", "replaced"} :
             /\ fate[x] = "pooled"
             /\ fate' = [fate EXCEPT ![x] = f]
             /\ block' = [block EXCEPT ![x] = head + 1]
    BY <1>3
  <2>2. block' \in [Tx -> Heights]
    BY <1>1, <2>1 DEF NextBlock, IInv, TypeOK
  <2>3. IInv'
    BY <1>1, <2>1, <2>2, ChainStep DEF Fates
  <2>4. \/ \E a \in Accounts : OneAccount(a)
        \/ \A a \in Accounts : OpenTrades(a)' = OpenTrades(a)
    BY <1>1, <2>1, ChainSlot
  <2> QED
    BY <1>1, <2>3, <2>4, SlotStep, QuietSlot
<1> QED
  BY <1>2, <1>3 DEF NextBlock

\* What a panel does without touching a record.
LEMMA TabQuiet ==
  ASSUME IInv, NEW t \in Tabs,
         \/ GetQuote(t) \/ Edit(t) \/ SubmitBlocked(t) \/ SubmitOutdated(t)
         \/ RenderWallet(t) \/ Reload(t)
  PROVE  IInv' /\ [Slot!SlotNext]_(Slot!slotVars)
<1>1. UNCHANGED <<stored, owner, fate, waived>>
  BY DEF GetQuote, Edit, SubmitBlocked, SubmitOutdated, RenderWallet, Reload, chain
<1>2. \A a \in Accounts : OpenTrades(a)' = OpenTrades(a)
  BY <1>1 DEF OpenTrades
<1> QED
  BY <1>1, <1>2, QuietSlot, GetQuoteStep, EditStep, SubmitBlockedStep, SubmitOutdatedStep,
     RenderWalletStep, ReloadStep

\* Every step keeps the invariant, and is one of the slot's or none.
LEMMA Step == IInv /\ [Next]_vars => IInv' /\ [Slot!SlotNext]_(Slot!slotVars)
<1> SUFFICES ASSUME IInv, [Next]_vars
             PROVE  IInv' /\ [Slot!SlotNext]_(Slot!slotVars)
  OBVIOUS
<1>1. ASSUME NEW t \in Tabs,
             \/ GetQuote(t) \/ Edit(t) \/ SubmitBlocked(t) \/ SubmitOutdated(t)
             \/ RenderWallet(t) \/ Reload(t)
      PROVE  IInv' /\ [Slot!SlotNext]_(Slot!slotVars)
  BY <1>1, TabQuiet
<1>2. ASSUME NEW t \in Tabs, Submit(t) \/ Recover(t) \/ Abandon(t)
      PROVE  IInv' /\ [Slot!SlotNext]_(Slot!slotVars)
  <2>1. IInv' /\ \E a \in Accounts, op \in Nat : PageStep(a, op)
    BY <1>2, SubmitStep, RecoverStep, AbandonStep
  <2> QED
    BY <2>1, PageSlot, SlotStep
<1>3. ASSUME NEW j \in jobs, JobNext(j)
      PROVE  IInv' /\ [Slot!SlotNext]_(Slot!slotVars)
  BY <1>3, JobNextStep
<1>4. ASSUME NEW x \in Tx, PromptAnswered(x)
      PROVE  IInv' /\ [Slot!SlotNext]_(Slot!slotVars)
  BY <1>4, PromptStep
<1>5. CASE WalletChanges
  <2>1. UNCHANGED <<stored, owner, fate, waived>>
    BY <1>5 DEF WalletChanges, chain
  <2>2. \A a \in Accounts : OpenTrades(a)' = OpenTrades(a)
    BY <2>1 DEF OpenTrades
  <2> QED
    BY <1>5, <2>1, <2>2, WalletChangesStep, QuietSlot
<1>6. CASE NextBlock
  BY <1>6, NextBlockStep
<1>7. CASE UNCHANGED vars
  <2>1. \A a \in Accounts : OpenTrades(a)' = OpenTrades(a)
    BY <1>7 DEF OpenTrades, vars
  <2>2. TypeOK' /\ JobsType' /\ FatesInOrder' /\ OneJobPerTrade' /\ OpenIsRecorded'
    BY <1>7 DEF IInv, TypeOK, JobsType, JobType, FatesInOrder, TradeFate, ApproveFate,
                OneJobPerTrade, OpenIsRecorded, Recorded, OpenTrades, vars
  <2>3. JobsInv'
    BY <1>7 DEF IInv, JobsInv, JobInv, TradeJob, HoldsSlot, RecoverJob, KnowsItsHash,
                TradeFate, ApproveFate, Recorded, OpenTrades, Current, SameIdentity, vars
  <2> QED
    BY <1>7, <2>1, <2>2, <2>3, QuietSlot DEF IInv, vars
<1> QED
  BY <1>1, <1>2, <1>3, <1>4, <1>5, <1>6, <1>7 DEF Next, JobNext

LEMMA SlotStart == Init => Slot!SlotInit
  BY DEF Init, Slot!SlotInit, OpenTrades, Tx

\* Every variable of the panel keeps its type, and what a trade's job knows of its
\* record, its transactions and its tab is true, whatever the tabs, the wallet, the
\* user and the chain do between its awaits.
THEOREM Invariant == Spec => []IInv
<1>1. Init => IInv
  BY InitInv
<1>2. IInv /\ [Next]_vars => IInv'
  BY Step
<1> QED
  BY <1>1, <1>2, PTL DEF Spec

\* Unless its user, or one of the ways named under Waiving, has given the promise up,
\* an account has at most one trade that may still be mined, over all its tabs, and
\* none while localStorage holds no record of it: submit() may begin one then.
THEOREM AtMostOneOpenTrade == Spec => []Slot!OneOpenTrade
<1>1. IInv => Slot!OneOpenTrade
  <2> SUFFICES ASSUME IInv, NEW a \in Accounts, a \notin waived
               PROVE  /\ \A r, s \in OpenTrades(a) : r = s
                      /\ stored[a] = None => OpenTrades(a) = {}
    BY DEF Slot!OneOpenTrade
  <2>1. \A i \in OpenTrades(a) : Recorded(a, i)
    BY DEF IInv, OpenIsRecorded, OpenTrades
  <2> QED
    BY <2>1 DEF Recorded
<1> QED
  BY <1>1, Invariant, PTL

\* The panel implements the one-trade-at-a-time slot: no tab, handler, reload or
\* account change gives the record of an account back, or begins a second trade of
\* it, while a transaction of the account may still be mined, except by the ways of
\* waiving named in TradePanel.
THEOREM KeepsTheSlot == Spec => PanelKeepsTheSlot
<1>1. Init => Slot!SlotInit
  BY SlotStart
<1>2. IInv /\ [Next]_vars => [Slot!SlotNext]_(Slot!slotVars)
  BY Step
<1> QED
  BY <1>1, <1>2, Invariant, PTL DEF Spec, PanelKeepsTheSlot, Slot!SlotSpec

-----------------------------------------------------------------------------
(* What the panel shows as final *)

Final == {"confirmed", "reverted", "replaced"}

OutcomeOf(tab) ==
  /\ tab.status \in Final => tab.hash \in Tx
  /\ tab.status = "confirmed" =>
       fate[tab.hash] = "mined" /\ tab.acct # None /\ owner[tab.hash[1]] = tab.acct
  /\ tab.status \in {"reverted", "replaced"} => fate[tab.hash] = tab.status

OutcomesAreTrue == \A t \in Tabs : OutcomeOf(tabs[t])

\* What the chain decided, and who began a trade, is not changed any more.
DecidedStays ==
  /\ \A x \in Tx : fate[x] \in {"mined", "reverted", "replaced"} => fate'[x] = fate[x]
  /\ \A i \in Trades : owner[i] # None => owner'[i] = owner[i]

\* The panel that shows nothing final, or what it showed before.
Kept(new, old) ==
  \/ new.status \notin Final
  \/ new.status = old.status /\ new.hash = old.hash /\ new.acct = old.acct

\* A job touches only what is not decided: it asks for what was never asked for.
LEMMA DecidedByJob ==
  ASSUME IInv, NEW j \in jobs, JobNext(j)
  PROVE  DecidedStays
<1>1. /\ j \in Job /\ JobType(j) /\ JobInv(j) /\ fate \in [Tx -> Fates]
      /\ <<j.op, "trade">> \in Tx /\ <<j.op, "approve">> \in Tx
  BY JobFacts DEF IInv, TypeOK
<1>2. UNCHANGED owner
  BY DEF JobNext, ReadAllowance, Approve, ApprovalMined, RequestBuy, RequestSell, Request, Sign,
         FailUnsent, ApprovalLost, FailSigning, Capture, Wait, Check, Scan
<1>3. CASE Approve(j) \/ ApprovalLost(j)
  <2>1. j.stage = "approve" /\ fate' = [fate EXCEPT ![<<j.op, "approve">>] = "pooled"]
    BY <1>3 DEF Approve, ApprovalLost
  <2>2. fate[<<j.op, "approve">>] = "none"
    BY <1>1, <2>1 DEF JobInv, TradeJob, JobType, Job, ApproveFate
  <2> QED
    BY <1>1, <1>2, <2>1, <2>2 DEF DecidedStays
<1>4. CASE RequestBuy(j) \/ RequestSell(j)
  <2>1. /\ j.stage \in {"buy", "sell"}
        /\ fate' = [fate EXCEPT ![<<j.op, "trade">>] = "asked"]
    BY <1>4 DEF RequestBuy, RequestSell, Request
  <2>2. fate[<<j.op, "trade">>] = "none"
    BY <1>1, <2>1 DEF JobInv, TradeJob, JobType, Job, TradeFate, Before
  <2> QED
    BY <1>1, <1>2, <2>1, <2>2 DEF DecidedStays
<1>5. CASE Sign(j) \/ FailSigning(j)
  <2>1. fate[<<j.op, "trade">>] = "asked"
    BY <1>5 DEF Sign, FailSigning
  <2>2. \E f : fate' = [fate EXCEPT ![<<j.op, "trade">>] = f]
    BY <1>5 DEF Sign, FailSigning
  <2> QED
    BY <1>1, <1>2, <2>1, <2>2 DEF DecidedStays
<1>6. CASE UNCHANGED fate
  BY <1>2, <1>6 DEF DecidedStays
<1> QED
  BY <1>3, <1>4, <1>5, <1>6
  DEF JobNext, ReadAllowance, ApprovalMined, FailUnsent, Capture, Wait, Check, Scan, chain

\* Nor does anything else.
LEMMA Decided == IInv /\ [Next]_vars => DecidedStays
<1> SUFFICES ASSUME IInv, [Next]_vars PROVE DecidedStays
  OBVIOUS
<1>1. fate \in [Tx -> Fates] /\ owner \in [Trades -> Accounts \cup {None}]
  BY DEF IInv, TypeOK
<1>2. CASE \E j \in jobs : JobNext(j)
  BY <1>2, DecidedByJob
<1>3. CASE \E t \in Tabs : Submit(t)
  BY <1>1, <1>3 DEF Submit, chain, DecidedStays
<1>4. CASE (\E x \in Tx : PromptAnswered(x)) \/ NextBlock
  BY <1>1, <1>4 DEF PromptAnswered, NextBlock, DecidedStays
<1>5. CASE UNCHANGED <<fate, owner>>
  BY <1>5 DEF DecidedStays
<1> QED
  BY <1>2, <1>3, <1>4, <1>5
  DEF Next, JobNext, GetQuote, Edit, SubmitBlocked, SubmitOutdated, Recover, Abandon, RenderWallet,
      Reload, WalletChanges, chain, vars

\* One panel shows something else, the others what they showed.
LEMMA OneTabShows ==
  ASSUME IInv, OutcomesAreTrue, DecidedStays, NEW t \in Tabs, NEW new, SetTab(t, new),
         Kept(new, tabs[t]) \/ OutcomeOf(new)'
  PROVE  OutcomesAreTrue'
<1>1. tabs \in [Tabs -> Tab] /\ owner \in [Trades -> Accounts \cup {None}]
  BY DEF IInv, TypeOK
<1>2. ASSUME NEW tab, NEW old, OutcomeOf(old), Kept(tab, old) PROVE OutcomeOf(tab)'
  BY <1>1, <1>2 DEF Kept, OutcomeOf, DecidedStays, Final, Tx
<1>3. \A u \in Tabs : tabs'[u] = IF u = t THEN new ELSE tabs[u]
  BY <1>1 DEF SetTab
<1>4. \A u \in Tabs : Kept(tabs[u], tabs[u])
  BY DEF Kept
<1> QED
  BY <1>2, <1>3, <1>4 DEF OutcomesAreTrue

\* No panel shows anything else.
LEMMA NoTabShows ==
  ASSUME IInv, OutcomesAreTrue, DecidedStays, UNCHANGED tabs
  PROVE  OutcomesAreTrue'
<1>1. owner \in [Trades -> Accounts \cup {None}]
  BY DEF IInv, TypeOK
<1> QED
  BY <1>1 DEF OutcomesAreTrue, OutcomeOf, DecidedStays, Final, Tx

\* The panel shows a trade's progress, or nothing of it.
LEMMA ReportedShows ==
  ASSUME NEW j, NEW tab \in Tab, NEW hash, NEW old, Kept(tab, old)
  PROVE  Kept(Reported(j, tab, hash), old)
<1>1. Current(j) => Reported(j, tab, hash).status = "busy"
  BY DEF Reported, Tab
<1>2. ~Current(j) => /\ Reported(j, tab, hash).status = tab.status
                     /\ Reported(j, tab, hash).hash = tab.hash
  BY DEF Reported, Tab
<1>3. Reported(j, tab, hash).acct = tab.acct
  BY DEF Reported, Tab
<1> QED
  BY <1>1, <1>2, <1>3 DEF Kept, Final

\* A failure is never shown as an outcome.
LEMMA CatchShows ==
  ASSUME IInv, OutcomesAreTrue, DecidedStays, NEW j \in jobs,
         \/ \E definitive, open \in BOOLEAN : CatchTrade(j, definitive, open)
         \/ CatchRecover(j)
  PROVE  OutcomesAreTrue'
<1>1. tabs[j.tab] \in Tab /\ j.tab \in Tabs
  BY JobFacts
<1>2. CASE UNCHANGED tabs
  BY <1>2, NoTabShows
<1>3. CASE tabs' # tabs
  <2>1. PICK new : SetTab(j.tab, new) /\ new.status \in {"unknown", "idle"}
    <3>1. /\ [tabs[j.tab] EXCEPT !.status = "idle", !.busy = FALSE].status = "idle"
          /\ [tabs[j.tab] EXCEPT !.status = "unknown", !.busy = FALSE].status = "unknown"
          /\ \A h : /\ [tabs[j.tab] EXCEPT !.status = "unknown", !.hash = h,
                                           !.busy = FALSE].status = "unknown"
                    /\ [tabs[j.tab] EXCEPT !.status = "unknown", !.busy = FALSE,
                                           !.hash = h].status = "unknown"
      BY <1>1 DEF Tab
    <3> QED
      BY <1>3, <3>1 DEF CatchTrade, CatchRecover
  <2>2. Kept(new, tabs[j.tab])
    BY <2>1 DEF Kept, Final
  <2> QED
    BY <1>1, <2>1, <2>2, OneTabShows
<1> QED
  BY <1>2, <1>3

\* What is shown as final is the fate the transaction was found with.
LEMMA ResolveShows ==
  ASSUME IInv, OutcomesAreTrue, DecidedStays, NEW j \in jobs, j.tx \in Tx,
         NEW status, NEW rec, Resolve(j, status, rec), UNCHANGED <<owner, fate>>,
         \/ status = "unknown"
         \/ status \in {"reverted", "replaced"} /\ fate[j.tx] = status
         \/ status = "confirmed" /\ fate[j.tx] = "mined" /\ IsTradeReceipt(j)
  PROVE  OutcomesAreTrue'
<1>1. tabs[j.tab] \in Tab /\ j.tab \in Tabs /\ j.acct \in Accounts
  BY JobFacts
<1>2. CASE UNCHANGED tabs
  BY <1>2, NoTabShows
<1>3. CASE tabs' # tabs
  <2>1. SameIdentity(j)
    BY <1>3 DEF Resolve
  <2>2. PICK new : /\ SetTab(j.tab, new)
                   /\ new.status = status /\ new.hash = j.tx /\ new.acct = tabs[j.tab].acct
    <3> DEFINE tab == tabs[j.tab]
               busy == tab.busy /\ ~j.current
               pending == [tab EXCEPT !.hash = j.tx, !.sent = j.tx, !.rec = rec,
                                      !.status = status, !.busy = busy]
               final == [tab EXCEPT !.hash = j.tx, !.sent = None, !.rec = None,
                                    !.quote = FALSE, !.status = status, !.busy = busy]
    <3>1. SetTab(j.tab, pending) \/ SetTab(j.tab, final)
      BY <1>3, <2>1, Zenon DEF Resolve
    <3> HIDE DEF busy
    <3>2. /\ pending.status = status /\ pending.hash = j.tx /\ pending.acct = tab.acct
          /\ final.status = status /\ final.hash = j.tx /\ final.acct = tab.acct
      BY <1>1 DEF Tab
    <3> HIDE DEF pending, final
    <3> QED
      BY <3>1, <3>2
  <2>3. OutcomeOf(new)'
    BY <1>1, <2>1, <2>2, PanelConstants
    DEF OutcomeOf, Final, SameIdentity, IsTradeReceipt
  <2> QED
    BY <1>1, <2>2, <2>3, OneTabShows
<1> QED
  BY <1>2, <1>3

\* The answers of confirmTrade and checkTrade.
LEMMA ReceiptShows ==
  ASSUME IInv, OutcomesAreTrue, DecidedStays, NEW j \in jobs, j.stage \in {"wait", "check", "scan"},
         UNCHANGED <<owner, fate>>,
         \/ ReceiptFound(j)
         \/ fate[j.tx] = "replaced" /\ Resolve(j, "replaced", None)
         \/ \E rec \in Recovery : StillPending(j, rec)
         \/ Throw(j)
  PROVE  OutcomesAreTrue'
<1>1. j.tx \in Tx /\ j.kind \in {"trade", "recover"}
  BY JobFacts DEF JobType, Late
<1>2. CASE Throw(j)
  <2>1. CatchTrade(j, FALSE, FALSE) \/ CatchRecover(j)
    BY <1>1, <1>2 DEF Throw
  <2> QED
    BY <2>1, CatchShows
<1>3. CASE fate[j.tx] = "reverted" /\ Resolve(j, "reverted", None)
  BY <1>1, <1>3, ResolveShows
<1>4. CASE fate[j.tx] = "mined" /\ IsTradeReceipt(j) /\ Resolve(j, "confirmed", None)
  BY <1>1, <1>4, ResolveShows
<1>5. CASE fate[j.tx] = "replaced" /\ Resolve(j, "replaced", None)
  BY <1>1, <1>5, ResolveShows
<1>6. CASE \E rec \in Recovery : StillPending(j, rec)
  BY <1>1, <1>6, ResolveShows DEF StillPending
<1> QED
  BY <1>2, <1>3, <1>4, <1>5, <1>6 DEF ReceiptFound

\* Every step of a job.
LEMMA JobShows ==
  ASSUME IInv, OutcomesAreTrue, NEW j \in jobs, JobNext(j)
  PROVE  OutcomesAreTrue'
<1>1. /\ DecidedStays /\ tabs[j.tab] \in Tab /\ j.tab \in Tabs /\ JobType(j) /\ j \in Job
      /\ <<j.op, "trade">> \in Tx /\ <<j.op, "approve">> \in Tx
  BY DecidedByJob, JobFacts
<1>2. Kept(tabs[j.tab], tabs[j.tab])
  BY DEF Kept
<1>3. ASSUME NEW tab \in Tab, NEW hash, SetTab(j.tab, Reported(j, tab, hash)),
             Kept(tab, tabs[j.tab])
      PROVE  OutcomesAreTrue'
  BY <1>1, <1>3, ReportedShows, OneTabShows
<1>4. CASE ReadAllowance(j)
  <2> DEFINE asking == [tabs[j.tab] EXCEPT !.asked = TRUE]
  <2>1. asking \in Tab /\ Kept(asking, tabs[j.tab])
    BY <1>1 DEF Tab, Kept
  <2> HIDE DEF asking
  <2>2. \/ SetTab(j.tab, Reported(j, tabs[j.tab], None))
        \/ SetTab(j.tab, Reported(j, asking, None))
    BY <1>4 DEF ReadAllowance, asking
  <2> QED
    BY <1>1, <1>2, <1>3, <2>1, <2>2
<1>5. CASE Approve(j)
  <2> DEFINE tx == <<j.op, "approve">>
             approving == [tabs[j.tab] EXCEPT !.approved = tx]
  <2>1. approving \in Tab /\ Kept(approving, tabs[j.tab])
    BY <1>1 DEF Tab, Kept
  <2>2. SetTab(j.tab, Reported(j, approving, tx))
    BY <1>5 DEF Approve
  <2> HIDE DEF approving
  <2> QED
    BY <1>3, <2>1, <2>2
<1>6. CASE Sign(j)
  <2> DEFINE tx == <<j.op, "trade">>
             sending == [tabs[j.tab] EXCEPT !.sent = tx]
  <2>1. sending \in Tab /\ Kept(sending, tabs[j.tab])
    BY <1>1 DEF Tab, Kept
  <2>2. SetTab(j.tab, Reported(j, sending, tx))
    BY <1>6 DEF Sign
  <2> HIDE DEF sending
  <2> QED
    BY <1>3, <2>1, <2>2
<1>7. CASE Capture(j)
  <2>1. PICK rec : SetTab(j.tab,
                     Reported(j, [tabs[j.tab] EXCEPT
                                    !.rec = IF rec = None THEN tabs[j.tab].rec ELSE rec,
                                    !.sent = j.tx], j.tx))
    BY <1>7 DEF Capture
  <2> DEFINE kept == IF rec = None THEN tabs[j.tab].rec ELSE rec
             captured == [tabs[j.tab] EXCEPT !.rec = kept, !.sent = j.tx]
  <2>2. Kept(captured, tabs[j.tab])
    BY <1>1 DEF Tab, Kept
  <2>3. Kept(Reported(j, captured, j.tx), tabs[j.tab])
    <3>1. Current(j) => Reported(j, captured, j.tx).status = "busy"
      BY <1>1 DEF Reported, Tab
    <3>2. ~Current(j) => /\ Reported(j, captured, j.tx).status = captured.status
                         /\ Reported(j, captured, j.tx).hash = captured.hash
      BY <1>1 DEF Reported, Tab
    <3>3. Reported(j, captured, j.tx).acct = captured.acct
      BY <1>1 DEF Reported, Tab
    <3> QED
      BY <2>2, <3>1, <3>2, <3>3 DEF Kept, Final
  <2> QED
    BY <1>1, <2>1, <2>3, OneTabShows
<1>8. CASE ApprovalMined(j) \/ RequestSell(j)
  BY <1>1, <1>2, <1>3, <1>8 DEF ApprovalMined, RequestSell
<1>9. CASE RequestBuy(j)
  BY <1>1, <1>9, NoTabShows DEF RequestBuy
<1>10. CASE FailUnsent(j) \/ ApprovalLost(j) \/ FailSigning(j)
  <2>1. \E definitive, open \in BOOLEAN : CatchTrade(j, definitive, open)
    <3>1. ASSUME NEW f PROVE (f = "pooled") \in BOOLEAN
      OBVIOUS
    <3>2. CASE FailUnsent(j) \/ ApprovalLost(j)
      BY <3>2 DEF FailUnsent, ApprovalLost
    <3>3. CASE FailSigning(j)
      <4>1. CatchTrade(j, TRUE, FALSE) \/ \E f : CatchTrade(j, FALSE, f = "pooled")
        BY <3>3 DEF FailSigning
      <4> QED
        BY <3>1, <4>1, Zenon
    <3> QED
      BY <1>10, <3>2, <3>3
  <2> QED
    BY <1>1, <2>1, CatchShows
<1>11. CASE Wait(j)
  BY <1>1, <1>11, ReceiptShows, NoTabShows DEF Wait, chain
<1>12. CASE Check(j)
  <2>1. None \in Recovery
    BY DEF Recovery
  <2> QED
    BY <1>1, <1>12, <2>1, ReceiptShows, NoTabShows DEF Check, chain
<1>13. CASE Scan(j)
  <2> DEFINE last == IF j.rec + ScanBatch - 1 < head THEN j.rec + ScanBatch - 1 ELSE head
  <2>1. /\ j.stage = "scan" /\ UNCHANGED <<owner, fate>>
        /\ \/ StillPending(j, j.rec)
           \/ ReceiptFound(j)
           \/ fate[j.tx] = "replaced" /\ Resolve(j, "replaced", None)
           \/ last < head /\ StillPending(j, last + 1)
           \/ Throw(j)
    BY <1>13 DEF Scan, chain
  <2>2. j.rec \in Recovery
    BY JobFacts
  <2>3. last < head => last + 1 \in Recovery
    <3>1. /\ j.rec \in Heights /\ head \in Heights /\ MaxHeight \in Nat
          /\ ScanBatch \in Nat \ {0}
      <4>1. j.rec \in Heights /\ head \in Heights
        BY <1>1, <2>1 DEF JobType, IInv, TypeOK
      <4> QED
        BY <4>1, PanelConstants
    <3> QED
      BY <3>1 DEF Recovery, Heights
  <2> QED
    BY <1>1, <2>1, <2>2, <2>3, ReceiptShows
<1> QED
  BY <1>4, <1>5, <1>6, <1>7, <1>8, <1>9, <1>10, <1>11, <1>12, <1>13 DEF JobNext

\* What the user and the page do to a panel leaves no outcome that was not there.
LEMMA TabShows ==
  ASSUME IInv, OutcomesAreTrue, DecidedStays, NEW t \in Tabs,
         \/ GetQuote(t) \/ Edit(t) \/ SubmitBlocked(t) \/ SubmitOutdated(t) \/ Submit(t)
         \/ Recover(t) \/ Abandon(t) \/ RenderWallet(t) \/ Reload(t)
  PROVE  OutcomesAreTrue'
<1>1. tabs[t] \in Tab
  BY DEF IInv, TypeOK
<1>2. PICK new : SetTab(t, new) /\ new.status \in {"idle", "unknown", "busy"}
  <2>1. CASE GetQuote(t)
    <3>1. [tabs[t] EXCEPT !.quote = TRUE, !.status = "idle"].status = "idle"
      BY <1>1 DEF Tab
    <3> QED
      BY <2>1, <3>1 DEF GetQuote
  <2>2. CASE Edit(t)
    <3>1. \A h : [tabs[t] EXCEPT !.quote = FALSE, !.status = "idle", !.hash = h].status = "idle"
      BY <1>1 DEF Tab
    <3> QED
      BY <2>2, <3>1 DEF Edit
  <2>3. CASE SubmitBlocked(t)
    <3>1. \A h : [tabs[t] EXCEPT !.status = "unknown", !.hash = h, !.sent = h].status = "unknown"
      BY <1>1 DEF Tab
    <3> QED
      BY <2>3, <3>1 DEF SubmitBlocked
  <2>4. CASE SubmitOutdated(t)
    <3>1. [tabs[t] EXCEPT !.status = "idle", !.quote = FALSE].status = "idle"
      BY <1>1 DEF Tab
    <3> QED
      BY <2>4, <3>1 DEF SubmitOutdated
  <2>5. CASE Submit(t)
    <3>1. PICK side : SetTab(t, [tabs[t] EXCEPT !.busy = TRUE, !.status = "busy",
                                                !.asked = side = "buy", !.approved = None])
      BY <2>5 DEF Submit
    <3> DEFINE asked == side = "buy"
               starting == [tabs[t] EXCEPT !.busy = TRUE, !.status = "busy",
                                           !.asked = asked, !.approved = None]
    <3>2. SetTab(t, starting)
      BY <3>1
    <3> HIDE DEF asked
    <3>3. starting.status = "busy"
      BY <1>1 DEF Tab
    <3> HIDE DEF starting
    <3> QED
      BY <3>2, <3>3
  <2>6. CASE Recover(t)
    <3>1. [tabs[t] EXCEPT !.busy = TRUE, !.status = "busy"].status = "busy"
      BY <1>1 DEF Tab
    <3> QED
      BY <2>6, <3>1 DEF Recover
  <2>7. CASE Abandon(t)
    <3> DEFINE freed == [tabs[t] EXCEPT !.busy = FALSE, !.asked = FALSE, !.approved = None,
                                        !.sent = None, !.rec = None, !.status = "idle",
                                        !.hash = None, !.quote = FALSE]
    <3>1. freed.status = "idle"
      BY <1>1 DEF Tab
    <3>2. SetTab(t, freed)
      BY <2>7 DEF Abandon
    <3> HIDE DEF freed
    <3> QED
      BY <3>1, <3>2
  <2>8. CASE RenderWallet(t) \/ Reload(t)
    <3>1. Mounted(wallet).status \in {"idle", "unknown"}
      BY DEF Mounted
    <3> QED
      BY <2>8, <3>1 DEF RenderWallet, Reload
  <2> QED
    BY <2>1, <2>2, <2>3, <2>4, <2>5, <2>6, <2>7, <2>8
<1>3. Kept(new, tabs[t])
  BY <1>2 DEF Kept, Final
<1> QED
  BY <1>2, <1>3, OneTabShows

\* Confirmed, reverted and replaced are shown only of a transaction with that fate, and
\* confirmed only of a trade of the account on display, for any number of tabs, trades,
\* checks, batches of the search, account changes and reloads.
THEOREM OutcomeIsTrue == Spec => []ShownOutcomeIsTrue
<1>1. OutcomesAreTrue => ShownOutcomeIsTrue
  BY DEF OutcomesAreTrue, OutcomeOf, ShownOutcomeIsTrue
<1>2. Init => OutcomesAreTrue
  <2>1. \A a : Mounted(a).status \in {"idle", "unknown"}
    BY DEF Mounted
  <2> QED
    BY <2>1 DEF Init, OutcomesAreTrue, OutcomeOf, Final
<1>3. IInv /\ OutcomesAreTrue /\ [Next]_vars => OutcomesAreTrue'
  <2> SUFFICES ASSUME IInv, OutcomesAreTrue, [Next]_vars PROVE OutcomesAreTrue'
    OBVIOUS
  <2>1. DecidedStays
    BY Decided
  <2>2. CASE \E j \in jobs : JobNext(j)
    BY <2>2, JobShows
  <2>3. CASE UNCHANGED tabs
    BY <2>1, <2>3, NoTabShows
  <2> QED
    BY <2>1, <2>2, <2>3, TabShows
    DEF Next, JobNext, PromptAnswered, WalletChanges, NextBlock, vars
<1> QED
  BY <1>1, <1>2, <1>3, Invariant, PTL DEF Spec
=============================================================================
