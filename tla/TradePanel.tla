----------------------------- MODULE TradePanel -----------------------------
(***************************************************************************)
(* Buying and selling on a token's page: the trade panel of every open tab *)
(* of one browser (components/token-trade-panel.tsx, token-trading.tsx),   *)
(* the calls it makes (lib/contracts.ts), the wallet it goes through       *)
(* (providers/active-wallet-provider.tsx) and the record of an unresolved  *)
(* trade it keeps in localStorage (lib/transactions.ts).                   *)
(*                                                                         *)
(* An execution of submit() or recover() is a job: a record in `jobs'      *)
(* whose stage names the await it stands at.  Between two awaits a handler *)
(* runs to completion, which is one step here; the wallet, the chain, the  *)
(* user and the other tabs act between them.                               *)
(*                                                                         *)
(* Trades are numbered as they are begun.  Trade i sends the transaction   *)
(* <<i, "trade">> and, for a sell, may send <<i, "approve">> before it.    *)
(* One token is modelled: nothing in the panel relates two tokens.         *)
(***************************************************************************)
EXTENDS Naturals, FiniteSets

CONSTANTS
    Tabs, Accounts, None,
    Sides,              \* of the trades explored, a subset of {"buy", "sell"}
    ScanBatch,          \* REPLACEMENT_SCAN_BATCH
    MaxTrades,          \* bound on trades begun
    MaxHeight,          \* bound on blocks
    MaxDisturbances     \* bound on account changes in the wallet and page reloads

Trades == 1 .. MaxTrades
Tx == Trades \X {"approve", "trade"}
Heights == 0 .. MaxHeight

ASSUME PanelConstants ==
    /\ Sides \subseteq {"buy", "sell"}
    /\ ScanBatch \in Nat \ {0}
    /\ {MaxTrades, MaxHeight, MaxDisturbances} \subseteq Nat
    /\ None \notin Accounts \cup Tx \cup Heights

VARIABLES
    wallet,     \* the account the extension signs for, or None
    tabs,       \* per tab, the panel's state and refs
    jobs,       \* executions of submit and recover that have not returned
    stored,     \* localStorage: the pending trade of each account
    owner,      \* the account that began each trade, or None
    fate,       \* of every transaction
    block,      \* the block in which its nonce was used
    head,       \* latest block
    disturbances,   \* counted, see MaxDisturbances
    \* History
    waived      \* accounts whose slot the panel no longer guards, see Waiving

vars == <<wallet, tabs, jobs, stored, owner, fate, block, head, disturbances, waived>>
chain == <<fate, block, head>>
environment == <<wallet, disturbances>>

\* "idle" is also rejected, failed and expired: the panel is free again.
Status == {"idle", "busy", "unknown", "confirmed", "reverted", "replaced"}
Stages == {"allowance", "approve", "approved", "sell", "buy", "sign", "capture", "wait",
           "check", "scan"}
Fates == {"none", "asked", "pooled", "mined", "reverted", "replaced", "dropped"}
Recovery == Heights \cup {None}     \* nextScanBlock; the rest of it is the transaction

Tab == [acct : Accounts \cup {None},    \* the address shown, as React last rendered it
        status : Status,
        hash : Tx \cup {None},
        quote : BOOLEAN,                \* quoteRecord
        busy : BOOLEAN,                 \* operationRef
        asked : BOOLEAN,                \* walletInteractionRef
        approved : Tx \cup {None},      \* approvalHashRef
        sent : Tx \cup {None},          \* submittedHashRef
        rec : Recovery]                 \* recoveryRef

Job == [kind : {"trade", "recover"},
        tab : Tabs, acct : Accounts, op : Trades,
        tx : Tx \cup {None}, rec : Recovery,
        stage : Stages,
        current : BOOLEAN]              \* generationRef is still what it was

Pending == [by : Trades,                \* the trade that wrote it (history)
            hash : Tx \cup {None}, rec : Recovery]

ASSUME NoneIsNoRecord == None \notin Pending

TypeOK ==
    /\ wallet \in Accounts \cup {None}
    /\ tabs \in [Tabs -> Tab]
    /\ jobs \subseteq Job
    /\ stored \in [Accounts -> Pending \cup {None}]
    /\ owner \in [Trades -> Accounts \cup {None}]
    /\ fate \in [Tx -> Fates] /\ block \in [Tx -> Heights] /\ head \in Heights
    /\ disturbances \in 0 .. MaxDisturbances
    /\ waived \subseteq Accounts

\* readPendingTrade; what other code or a damaged store left there does not count.
ReadPending(acct) == IF acct = None THEN None ELSE stored[acct]

\* The panel as it is mounted, or after its identity changed: what localStorage
\* holds for the account is an unresolved trade.
Mounted(acct) ==
    LET pending == ReadPending(acct)
        hash    == IF pending = None THEN None ELSE pending.hash
    IN  [acct |-> acct,
         status |-> IF pending = None THEN "idle" ELSE "unknown",
         hash |-> hash, quote |-> FALSE, busy |-> FALSE, asked |-> FALSE,
         approved |-> None, sent |-> hash,
         rec |-> IF pending = None THEN None ELSE pending.rec]

Init ==
    /\ stored = [a \in Accounts |-> None]
    /\ wallet \in Accounts
    /\ tabs = [t \in Tabs |-> Mounted(wallet)]
    /\ jobs = {}
    /\ owner = [i \in Trades |-> None]
    /\ fate = [x \in Tx |-> "none"] /\ block = [x \in Tx |-> 0] /\ head = 0
    /\ disturbances = 0
    /\ waived = {}

-----------------------------------------------------------------------------
(* Waiving.  The panel stops guarding an account's slot when the user      *)
(* abandons recovery, and in four situations the code does not foresee: a  *)
(* trade writes or clears the record another trade relies on, the record   *)
(* is given the hash of another trade, and a failure after the wallet was  *)
(* asked is taken for one before.  `waived' remembers it, so that the      *)
(* properties can say that there is no other way.                          *)

Meddles(acct, op, hash) ==
    \/ stored[acct] # None /\ stored[acct].by # op
    \/ hash # None /\ hash[1] # op

persistPendingTrade(acct, op, hash, rec) ==
    stored' = [stored EXCEPT ![acct] = [by |-> op, hash |-> hash, rec |-> rec]]

Persist(acct, op, hash, rec) ==
    /\ persistPendingTrade(acct, op, hash, rec)
    /\ waived' = IF Meddles(acct, op, hash) THEN waived \cup {acct} ELSE waived

Forget(acct, op, waiving) ==
    /\ stored' = [stored EXCEPT ![acct] = None]
    /\ waived' = IF waiving \/ Meddles(acct, op, None) THEN waived \cup {acct} ELSE waived

KeepRecord == UNCHANGED <<stored, waived>>

SameIdentity(j) == tabs[j.tab].acct = j.acct
Current(j) == SameIdentity(j) /\ j.current
Locked(t) == tabs[t].status \in {"busy", "unknown"}

\* assertSubmissionReady, as far as it is not a matter of time: see FailUnsent.
Ready(j) == SameIdentity(j)

\* assertActiveWalletClient asks the wallet itself.
WalletAgrees(j) == wallet = j.acct

Advance(j, k) == jobs' = (jobs \ {j}) \cup {k}
Finish(j) == jobs' = jobs \ {j}
SetTab(t, new) == tabs' = [tabs EXCEPT ![t] = new]

\* report: the tab shows progress and the hash at hand, if it still shows this trade.
Reported(j, tab, hash) ==
    [tab EXCEPT !.status = IF Current(j) THEN "busy" ELSE @,
                !.hash = IF Current(j) /\ hash # None THEN hash ELSE @]

-----------------------------------------------------------------------------
(* Quotes *)

\* getQuote.  Only the answer to the latest request is kept, and only if wallet,
\* network and curve are still those it was made for, so an answer that is used is
\* as good as immediate; without one the panel stays as it was.
GetQuote(t) ==
    /\ tabs[t].acct # None /\ ~Locked(t)
    /\ SetTab(t, [tabs[t] EXCEPT !.quote = TRUE, !.status = "idle"])
    /\ UNCHANGED <<jobs, stored, owner, chain, environment, waived>>

\* invalidateQuote: an amount or the tolerance is changed, or the side, which also
\* takes the last transaction off the display.  The inputs are disabled while locked.
Edit(t) ==
    /\ ~Locked(t)
    /\ \E hash \in {tabs[t].hash, None} :
         SetTab(t, [tabs[t] EXCEPT !.quote = FALSE, !.status = "idle", !.hash = hash])
    /\ UNCHANGED <<jobs, stored, owner, chain, environment, waived>>

-----------------------------------------------------------------------------
(* submit *)

\* What submit does until its first await.
MaySubmit(t) ==
    /\ ~tabs[t].busy /\ ~Locked(t) /\ tabs[t].quote /\ tabs[t].acct # None

\* A record left by another tab or an earlier session: recoveryRef is not loaded.
SubmitBlocked(t) ==
    LET acct == tabs[t].acct
        pending == ReadPending(acct)
    IN  /\ MaySubmit(t) /\ pending # None
        /\ SetTab(t, [tabs[t] EXCEPT !.status = "unknown",
                                     !.hash = pending.hash, !.sent = pending.hash])
        /\ UNCHANGED <<jobs, stored, owner, chain, environment, waived>>

\* A minute has passed, the deadline has, or curve, balance or network changed.
SubmitOutdated(t) ==
    /\ MaySubmit(t) /\ ReadPending(tabs[t].acct) = None
    /\ SetTab(t, [tabs[t] EXCEPT !.status = "idle", !.quote = FALSE])
    /\ UNCHANGED <<jobs, stored, owner, chain, environment, waived>>

Submit(t) ==
    LET acct == tabs[t].acct
    IN  /\ MaySubmit(t) /\ ReadPending(acct) = None
        /\ \E i \in Trades, side \in Sides :
             /\ owner[i] = None /\ \A k \in Trades : k < i => owner[k] # None
             /\ owner' = [owner EXCEPT ![i] = acct]
             /\ SetTab(t, [tabs[t] EXCEPT !.busy = TRUE, !.status = "busy",
                                          !.asked = side = "buy", !.approved = None])
             /\ Persist(acct, i, None, None)
             /\ jobs' = jobs \cup
                  {[kind |-> "trade", tab |-> t, acct |-> acct, op |-> i,
                    tx |-> None, rec |-> None, current |-> TRUE,
                    stage |-> IF side = "buy" THEN "buy" ELSE "allowance"]}
        /\ UNCHANGED <<chain, environment>>

\* submitSell reads the allowance: it asks for an approval or goes on.
ReadAllowance(j) ==
    /\ j.kind = "trade" /\ j.stage = "allowance" /\ Ready(j)
    /\ \/ /\ Advance(j, [j EXCEPT !.stage = "sell"])
          /\ SetTab(j.tab, Reported(j, tabs[j.tab], None))
       \/ /\ Advance(j, [j EXCEPT !.stage = "approve"])
          /\ SetTab(j.tab, Reported(j, [tabs[j.tab] EXCEPT !.asked = TRUE], None))
    /\ KeepRecord /\ UNCHANGED <<owner, chain, environment>>

Approve(j) ==
    LET tx == <<j.op, "approve">>
    IN  /\ j.stage = "approve" /\ WalletAgrees(j)
        /\ fate' = [fate EXCEPT ![tx] = "pooled"]
        /\ SetTab(j.tab, Reported(j, [tabs[j.tab] EXCEPT !.approved = tx], tx))
        /\ Advance(j, [j EXCEPT !.stage = "approved"])
        /\ KeepRecord /\ UNCHANGED <<owner, block, head, environment>>

\* waitForBrowserAllowance: the allowance is read until it shows.
ApprovalShows(j) == fate[<<j.op, "approve">>] = "mined"

\* The receipt arrived.
ApprovalMined(j) ==
    /\ j.stage = "approved" /\ ApprovalShows(j) /\ Ready(j)
    /\ Advance(j, [j EXCEPT !.stage = "sell"])
    /\ SetTab(j.tab, Reported(j, tabs[j.tab], None))
    /\ KeepRecord /\ UNCHANGED <<owner, chain, environment>>

\* Simulation and balances passed: the wallet is asked for the trade.
Request(j) ==
    /\ Ready(j) /\ WalletAgrees(j)
    /\ fate' = [fate EXCEPT ![<<j.op, "trade">>] = "asked"]
    /\ Advance(j, [j EXCEPT !.stage = "sign"])
    /\ KeepRecord /\ UNCHANGED <<owner, block, head, environment>>

RequestBuy(j) == j.stage = "buy" /\ Request(j) /\ UNCHANGED tabs

RequestSell(j) ==
    j.stage = "sell" /\ Request(j) /\ SetTab(j.tab, Reported(j, tabs[j.tab], None))

\* The wallet returns the hash; it is reported whoever the tab now shows.
Sign(j) ==
    LET tx == <<j.op, "trade">>
    IN  /\ j.stage = "sign" /\ fate[tx] = "asked"
        /\ fate' = [fate EXCEPT ![tx] = "pooled"]
        /\ SetTab(j.tab, Reported(j, [tabs[j.tab] EXCEPT !.sent = tx], tx))
        /\ Persist(j.acct, j.op, tx, tabs[j.tab].rec)
        /\ Advance(j, [j EXCEPT !.stage = "capture", !.tx = tx])
        /\ UNCHANGED <<owner, block, head, environment>>

\* getTransaction and getBlockNumber; without an answer there is no recovery.
StartOfScan(tx) ==
    CASE fate[tx] = "pooled" -> head
      [] fate[tx] \in {"mined", "reverted"} -> block[tx]
      [] OTHER -> None

Capture(j) ==
    /\ j.stage = "capture"
    /\ \E rec \in {StartOfScan(j.tx), None} :
         LET kept == IF rec = None THEN tabs[j.tab].rec ELSE rec
         IN  /\ SetTab(j.tab,
                       Reported(j, [tabs[j.tab] EXCEPT !.rec = kept, !.sent = j.tx], j.tx))
             /\ Persist(j.acct, j.op, j.tx, kept)
             /\ Advance(j, [j EXCEPT !.stage = "wait", !.rec = rec])
    /\ UNCHANGED <<owner, chain, environment>>

-----------------------------------------------------------------------------
(* Confirmation *)

\* applyResolution, then finally: only the identity is compared, so the answer
\* to an operation of an earlier generation still counts.
Resolve(j, status, rec) ==
    LET t == tabs[j.tab]
    IN  /\ Finish(j)
        /\ \/ ~SameIdentity(j) /\ KeepRecord /\ UNCHANGED tabs
           \/ /\ SameIdentity(j) /\ status = "unknown"
              /\ SetTab(j.tab, [t EXCEPT !.hash = j.tx, !.sent = j.tx, !.rec = rec,
                                         !.status = status, !.busy = @ /\ ~j.current])
              /\ Persist(j.acct, j.op, j.tx, rec)
           \/ /\ SameIdentity(j) /\ status # "unknown"
              /\ SetTab(j.tab, [t EXCEPT !.hash = j.tx, !.sent = None, !.rec = None,
                                         !.quote = FALSE, !.status = status,
                                         !.busy = @ /\ ~j.current])
              /\ Forget(j.acct, j.op, FALSE)

\* Variant: a failure after the wallet was asked is a failure before it.
CatchTradeHastily(j, definitive, open) ==
    \/ ~Current(j) /\ KeepRecord /\ UNCHANGED tabs
    \/ /\ Current(j)
       /\ Forget(j.acct, j.op, FALSE)
       /\ SetTab(j.tab, [tabs[j.tab] EXCEPT !.status = "idle", !.busy = FALSE])

\* The catch clause of submit.  `open': the wallet may hold the transaction.
CatchTrade(j, definitive, open) ==
    LET t == tabs[j.tab]
        asked == ~definitive /\ (t.approved # None \/ t.asked)
    IN  \/ ~Current(j) /\ KeepRecord /\ UNCHANGED tabs
        \/ /\ Current(j) /\ t.sent # None
           /\ Persist(j.acct, j.op, t.sent, t.rec)
           /\ SetTab(j.tab, [t EXCEPT !.status = "unknown", !.hash = t.sent, !.busy = FALSE])
        \/ /\ Current(j) /\ t.sent = None /\ asked
           /\ Persist(j.acct, j.op, None, None)
           /\ SetTab(j.tab, [t EXCEPT !.status = "unknown", !.busy = FALSE,
                               !.hash = IF t.approved # None THEN t.approved ELSE @])
        \/ /\ Current(j) /\ t.sent = None /\ ~asked
           /\ Forget(j.acct, j.op, open)
           /\ SetTab(j.tab, [t EXCEPT !.status = "idle", !.busy = FALSE])

CatchRecover(j) ==
    \/ ~Current(j) /\ KeepRecord /\ UNCHANGED tabs
    \/ /\ Current(j)
       /\ Persist(j.acct, j.op, j.tx, tabs[j.tab].rec)
       /\ SetTab(j.tab, [tabs[j.tab] EXCEPT !.status = "unknown", !.busy = FALSE])

\* A failure with no hash: a simulation, a balance, an RPC call, a stale quote or
\* the wallet's refusal before anything was signed; the message says which.
FailUnsent(j) ==
    /\ j.stage \in {"allowance", "approve", "approved", "buy", "sell"}
    /\ \E definitive \in BOOLEAN : CatchTrade(j, definitive, FALSE)
    /\ Finish(j)
    /\ UNCHANGED <<owner, chain, environment>>

\* The wallet is asked for an approval and answers with an error all the same.
ApprovalLost(j) ==
    /\ j.stage = "approve" /\ WalletAgrees(j)
    /\ fate' = [fate EXCEPT ![<<j.op, "approve">>] = "pooled"]
    /\ CatchTrade(j, FALSE, FALSE)
    /\ Finish(j)
    /\ UNCHANGED <<owner, block, head, environment>>

\* The user rejects, or the wallet fails and may or may not have sent it.
FailSigning(j) ==
    LET tx == <<j.op, "trade">>
    IN  /\ j.stage = "sign" /\ fate[tx] = "asked"
        /\ \/ fate' = [fate EXCEPT ![tx] = "dropped"] /\ CatchTrade(j, TRUE, FALSE)
           \/ \E f \in {"pooled", "dropped"} :
                /\ fate' = [fate EXCEPT ![tx] = f]
                /\ CatchTrade(j, FALSE, f = "pooled")
        /\ Finish(j)
        /\ UNCHANGED <<owner, block, head, environment>>

Throw(j) == CASE j.kind = "trade" -> CatchTrade(j, FALSE, FALSE)
              [] j.kind = "recover" -> CatchRecover(j)

\* parseTradeReceipt: one event of the curve, of the side asked for and of the trader.
IsTradeReceipt(j) == owner[j.tx[1]] = j.acct /\ j.tx[2] = "trade"

\* resolveTradeReceipt: sender, target and event are checked on success only.
ReceiptFound(j) ==
    \/ fate[j.tx] = "reverted" /\ Resolve(j, "reverted", None)
    \/ fate[j.tx] = "mined" /\ IsTradeReceipt(j) /\ Resolve(j, "confirmed", None)
    \/ fate[j.tx] = "mined" /\ ~IsTradeReceipt(j) /\ Throw(j) /\ Finish(j)

\* checkTrade: neither receipt nor replacement yet, with where to go on looking.
StillPending(j, rec) == Resolve(j, "unknown", rec)

\* confirmTrade: a receipt, a replacement that was seen, an error, or two minutes.
Wait(j) ==
    /\ j.stage = "wait"
    /\ \/ ReceiptFound(j)
       \/ fate[j.tx] = "replaced" /\ Resolve(j, "replaced", None)
       \/ Throw(j) /\ Finish(j)
       \/ Advance(j, [j EXCEPT !.stage = "check"]) /\ KeepRecord /\ UNCHANGED tabs
    /\ UNCHANGED <<owner, chain, environment>>

\* recoverTransactionReceipt: the receipt, else where to look for the nonce.
Check(j) ==
    /\ j.stage = "check"
    /\ \/ ReceiptFound(j)
       \/ /\ fate[j.tx] \notin {"mined", "reverted"}
          /\ \/ /\ j.rec # None
                /\ Advance(j, [j EXCEPT !.stage = "scan"]) /\ KeepRecord /\ UNCHANGED tabs
             \/ /\ j.rec = None /\ StartOfScan(j.tx) # None
                /\ Advance(j, [j EXCEPT !.stage = "scan", !.rec = StartOfScan(j.tx)])
                /\ KeepRecord /\ UNCHANGED tabs
             \/ j.rec = None /\ StillPending(j, None)
       \/ Throw(j) /\ Finish(j)
    /\ UNCHANGED <<owner, chain, environment>>

NonceUsed(tx) == fate[tx] \in {"mined", "reverted", "replaced"}

\* Variant: a nonce that cannot be found was replaced.
ScanGuessing(j) ==
    LET last == IF j.rec + ScanBatch - 1 < head THEN j.rec + ScanBatch - 1 ELSE head
    IN  /\ j.stage = "scan"
        /\ IF fate[j.tx] \in {"mined", "reverted"} /\ block[j.tx] \in j.rec .. last
           THEN ReceiptFound(j) ELSE Resolve(j, "replaced", None)
        /\ UNCHANGED <<owner, chain, environment>>

\* One batch of blocks is searched for the nonce; not finding it is an error only
\* when there is nothing left to search.
Scan(j) ==
    LET last == IF j.rec + ScanBatch - 1 < head THEN j.rec + ScanBatch - 1 ELSE head
        found == NonceUsed(j.tx) /\ block[j.tx] \in j.rec .. last
    IN  /\ j.stage = "scan"
        /\ \/ ~NonceUsed(j.tx) /\ StillPending(j, j.rec)
           \/ found /\ ReceiptFound(j)
           \/ found /\ fate[j.tx] = "replaced" /\ Resolve(j, "replaced", None)
           \/ NonceUsed(j.tx) /\ ~found /\ last < head /\ StillPending(j, last + 1)
           \/ NonceUsed(j.tx) /\ ~found /\ last = head /\ Throw(j) /\ Finish(j)
        /\ UNCHANGED <<owner, chain, environment>>

-----------------------------------------------------------------------------
(* Recovery by the user *)

\* Resume waits again, Check Again looks once.  Either persists the hash on
\* display, whatever trade it belongs to.
Recover(t) ==
    LET tab == tabs[t]
        op  == IF stored[tab.acct] = None THEN tab.hash[1] ELSE stored[tab.acct].by
    IN  /\ tab.status = "unknown" /\ ~tab.busy /\ tab.acct # None /\ tab.hash # None
        /\ Persist(tab.acct, op, tab.hash, tab.rec)
        /\ SetTab(t, [tab EXCEPT !.busy = TRUE, !.status = "busy"])
        /\ \E stage \in {"wait", "check"} :
             jobs' = jobs \cup
               {[kind |-> "recover", tab |-> t, acct |-> tab.acct, op |-> op,
                 tx |-> tab.hash, rec |-> tab.rec, current |-> TRUE,
                 stage |-> stage]}
        /\ UNCHANGED <<owner, chain, environment>>

\* The user takes the risk; an operation under way is not cancelled by it.
Abandon(t) ==
    LET tab == tabs[t]
    IN  /\ tab.status = "unknown" /\ tab.acct # None
        /\ Forget(tab.acct, 1, TRUE)
        /\ SetTab(t, [tab EXCEPT !.busy = FALSE, !.asked = FALSE, !.approved = None,
                                 !.sent = None, !.rec = None, !.status = "idle",
                                 !.hash = None, !.quote = FALSE])
        /\ UNCHANGED <<jobs, owner, chain, environment>>

-----------------------------------------------------------------------------
(* Wallet, page and chain *)

\* External: the user picks another account in the extension.
WalletChanges ==
    /\ disturbances < MaxDisturbances
    /\ disturbances' = disturbances + 1
    /\ \E a \in (Accounts \cup {None}) \ {wallet} : wallet' = a
    /\ UNCHANGED <<tabs, jobs, stored, owner, chain, waived>>

\* The provider renders what the wallet announced.  Another address is another
\* identity: the generation moves on and the panel starts over.
RenderWallet(t) ==
    /\ tabs[t].acct # wallet
    /\ SetTab(t, Mounted(wallet))
    /\ jobs' = {[j EXCEPT !.current = j.current /\ j.tab # t] : j \in jobs}
    /\ UNCHANGED <<stored, owner, chain, environment, waived>>

Reload(t) ==
    /\ disturbances < MaxDisturbances
    /\ disturbances' = disturbances + 1
    /\ SetTab(t, Mounted(wallet))
    /\ jobs' = {j \in jobs : j.tab # t}
    /\ UNCHANGED <<wallet, stored, owner, chain, waived>>

\* External: the prompt outlives the page that asked for it.
PromptAnswered(tx) ==
    /\ fate[tx] = "asked" /\ \A j \in jobs : <<j.op, "trade">> = tx => j.stage # "sign"
    /\ \E f \in {"pooled", "dropped"} : fate' = [fate EXCEPT ![tx] = f]
    /\ UNCHANGED <<tabs, jobs, stored, owner, block, head, environment, waived>>

\* External: a block uses the nonce, for this transaction or for the one the user
\* replaced it with; or it has nothing to do with it.
NextBlock ==
    /\ head < MaxHeight
    /\ head' = head + 1
    /\ \/ UNCHANGED <<fate, block>>
       \/ \E tx \in Tx, f \in {"mined", "reverted", "replaced"} :
            /\ fate[tx] = "pooled"
            /\ fate' = [fate EXCEPT ![tx] = f]
            /\ block' = [block EXCEPT ![tx] = head + 1]
    /\ UNCHANGED <<tabs, jobs, stored, owner, environment, waived>>

Next ==
    \/ \E t \in Tabs :
         \/ GetQuote(t) \/ Edit(t)
         \/ SubmitBlocked(t) \/ SubmitOutdated(t) \/ Submit(t)
         \/ Recover(t) \/ Abandon(t) \/ RenderWallet(t) \/ Reload(t)
    \/ \E j \in jobs :
         \/ ReadAllowance(j) \/ Approve(j) \/ ApprovalMined(j)
         \/ RequestBuy(j) \/ RequestSell(j) \/ Sign(j)
         \/ FailUnsent(j) \/ ApprovalLost(j) \/ FailSigning(j)
         \/ Capture(j) \/ Wait(j) \/ Check(j) \/ Scan(j)
    \/ \E tx \in Tx : PromptAnswered(tx)
    \/ WalletChanges \/ NextBlock

Spec == Init /\ [][Next]_vars

-----------------------------------------------------------------------------
(* Properties *)

OpenTrades(a) == {i \in Trades : owner[i] = a /\ fate[<<i, "trade">>] \in {"asked", "pooled"}}

\* The panel implements the one-trade-at-a-time slot of TradeSlot: an account's
\* slot is the record in localStorage, and except for the ways of waiving named
\* above it is never given back, by any tab, handler or reload, while a
\* transaction of the account may still be mined (submit, report,
\* applyResolution, the catch clauses and the identity effect).
Slot == INSTANCE TradeSlot WITH
    slot <- [a \in Accounts |-> IF a \in waived THEN "waived"
                                ELSE IF stored[a] = None THEN "free" ELSE "held"],
    open <- [a \in Accounts |-> OpenTrades(a)]

PanelKeepsTheSlot == Slot!SlotSpec

\* What the panel shows as final is what the chain decided: confirmed, reverted
\* and replaced are shown only of a transaction with that fate, and confirmed
\* only of a trade of the account on display (confirmTrade, checkTrade,
\* recoverTransactionReceipt and applyResolution, over any number of checks).
ShownOutcomeIsTrue ==
    \A t \in Tabs :
      LET tab == tabs[t]
      IN  /\ tab.status = "confirmed" =>
               fate[tab.hash] = "mined" /\ owner[tab.hash[1]] = tab.acct
          /\ tab.status \in {"reverted", "replaced"} => fate[tab.hash] = tab.status

\* As the panel tells the user of a trade whose fate is open, "New trades remain
\* blocked": no handler takes the record of a trade away while its transaction may
\* still be mined, only the user who abandons it does.
NewTradesRemainBlocked ==
    [][\A a \in Accounts :
         stored[a] # None /\ stored[a]' = None /\ stored[a].by \in OpenTrades(a)' =>
           \E t \in Tabs : Abandon(t)]_vars
=============================================================================
