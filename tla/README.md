# A specification of Cooket

Cooket launches tokens on a bonding curve, moves a sold-out curve into a
permanent Uniswap V3 position, distributes trading fees, and lets a community
take a token's creator fees over. Contracts (`contracts/src/v3`) hold all value;
an indexer, a realtime service, an API and a web client follow the chain.

The modules here specify this system in TLA+. Each definition is a translation
of source code; `PROJECT.json` maps it to the lines it stands for. TLC checks the
specifications on small instances and TLAPS checks proofs for every value of the
constants.

## 1. Inventory

### On chain

| Component | State | Operations | Interacts with |
|---|---|---|---|
| Bonding curve (`CooketCurveV3`) | supply sold, active reserve, terminal reserve, graduated flag | `buy`, `sell`, `_graduate`, quotes | pays fees into the fee manager, calls the graduation manager in the last buy |
| Launch token (`CooketTokenV3`) | ERC-20 balances | initialisation, transfers | its whole supply starts with the curve |
| Fee manager (`FeeManagerV3`) | owner, treasury and its rotation, per-token creator payout and proposal, fee books of four beneficiaries, takeover route | registration, deposits, proposals, claims, vault funding, `activateCTO` | curves deposit, the registry activates, vaults are funded |
| CTO registry (`CTORegistryV3`) | proposals, current proposal and active treasury of a token | propose, accept, cancel, expire, execute | deploys treasuries, collects LP fees through the custodian, activates in the fee manager |
| CTO treasury (`CTOTreasuryV3`) | supported assets | accept, pull fees, transfer assets | claims from fee manager and LP fee vault |
| LP custody (`PermanentLPCustodianV3`, its deployer, `PermanentLPFeeVaultV3`) | position id; ledgers of collected fees per recipient, token and asset | bind, collect, notify, claim, fund the ecosystem vaults | Uniswap position manager, fee manager (who is paid), ecosystem vaults |
| Graduation (`GraduationManagerV3`, boundary, executor, `PermanentResidualEscrowV3`) | registered launches, reserved pools, settled flags | register a launch, classify and reserve its pool, settle | factory, curve, Uniswap, custodian |
| Factory and deployers | known tokens | `createToken` | all of the above, in one transaction |
| Community vault, trader rewards vault, distributor | ledgers per token and asset; published roots, claims | deposit, record, forward, publish, claim, pay | fee manager and LP fee vault fund them |

### Off chain

| Component | State | Operations | Interacts with |
|---|---|---|---|
| Indexer (`apps/indexer`) | block and event tables, projections, checkpoint; in memory: last block and its hash | scan a range, apply a block, recover from a reorganisation, rebuild projections, link metadata | chain RPC, PostgreSQL, the API's transactions |
| Realtime service (`apps/realtime`) | market registry, live subscription, pending backfills, set of seen events, subscribers | connect, subscribe, backfill, deduplicate, publish | chain websocket, indexer's tables, browsers over SSE |
| API (`apps/api`) | drafts of metadata and their links to launches | queries, upload, `FinalizeMetadata` | indexer's tables |
| Web: feed and chart | cached answers, realtime events, watermarks; the chart's range, the widget's subscription | polls, retirement, overlay, candles, following new bars | API, SSE, TradingView |
| Web: curve trading | quote and status of the panel, refs of the operation, pending trades in local storage | quote, submit, approve, confirm, recover, abandon | wallet, curve, chain RPC |
| Web: graduated swap | quote, review, modal, execution | quote, review, approve, swap | wallet, Uniswap router |
| Web: community takeover | snapshot of the registry | offer, recheck, send, refresh | wallet, registry |
| Web: token launch | form, result and failures of an execution | review, upload, launch, claim, finalize, dev buy, retries | wallet, factory, curve, API |
| Web: wallet session | account and client of wagmi, switch under way | connect, switch chain, disconnect, check the signer | wallet |
| Web: browsing | query caches | lists, search, profile | API |
| SDK, exporter, migrations, scripts | none | | |

### What is hard

* **Rounding.** Each trade rounds twice; the endpoint must be hit exactly.
* **Callbacks.** Fee claims call arbitrary recipients in the middle of a function.
* **Handover.** A takeover cuts accrued fees in two while deposits, claims, payout
  proposals and proposals' deadlines run.
* **Deadlines.** Proposals expire without anyone marking them expired; rotations
  mature while owners change; a quote a user reviewed grows old in a wallet prompt.
* **Atomic settlement.** One transaction buys, graduates, mints and forwards.
* **Reorganisations.** Indexer and realtime service see blocks appear and vanish
  between any two of their calls, and restart from what they stored.
* **Delivery.** Events reach browsers late, twice, or after a snapshot that
  already contains them.
* **Awaits.** A trade in the browser is up to ten awaits long. In each of them the
  user may change the account, reload, or answer a prompt of an earlier page, and
  the wallet may fail after it has sent the transaction.
* **Two writers of one fact.** API and indexer each give a launch its metadata.

`PROJECT.json` lists these as `hazards`, each at its line with the properties
that cover it or the reason none does.

### What makes each component correct

* Curve: the reserve is determined by the supply sold; it covers every sale;
  rounding never pays a trader; graduation happens at exactly the endpoint; a trade
  executes on the terms that were reviewed.
* Fee manager: it holds what it owes at every instant a recipient can look; totals
  and books agree; a creator fee belongs to whoever was the payout when it was
  deposited; a takeover and a treasury rotation follow their protocol.
* CTO registry: one live proposal a token, only on agreed terms, in its windows;
  registry and fee manager agree about the takeover.
* LP fees and vaults: ledgers are backed; a takeover cuts LP fees at execution.
* Graduation: a launch settles once, into the position of its own pool, leaving
  nothing behind.
* Indexer: the canonical rows are those of one chain; a recovered index equals
  one built from scratch; it catches up.
* Realtime: a browser ends with what the chain says, without gaps or doubles.
* Feed and chart: every trade known is drawn once; none vanishes before it is
  indexed.
* Trading: one trade at a time for an account, over reloads and changes of account;
  what is called final is.
* Swap, takeover, launch: what the page says happened, happened; what it offers is
  possible.
* Wallet session: a signature is asked for only from the account that was shown.

## 2. Modules

| Module | Models |
|---|---|
| `CurveMath` | quotes as pure operators over the endpoint constants |
| `CooketCurve` | one curve with the token and native balances it moves |
| `QuotedTrade` | a user's quotes and trades through the token page, composed with `CooketCurve` |
| `FeeManager` | the fee manager for several tokens |
| `CTORegistry` | the registry composed with `FeeManager` and the creator share of the LP fee vault |
| `CTOPanel` | the takeover section of a page, composed with `CTORegistry` |
| `Indexer` | the indexer's process, its tables, and the chain it reads |
| `Realtime` | the realtime service's connection, deduplication, broadcaster, and the chain and tables it reads |
| `TokenPage` | three polled surfaces of a token's page and the realtime events laid over them |
| `Lists` | `filter()`, shared by both |
| `Candles`, `TokenChart` | candles as the API and the overlay compute them; the chart that is drawn and the TradingView feed |
| `TradeSlot` | abstract: one trade at a time for an account |
| `TradePanel` | the trade panel of every open tab, local storage, the wallet and the fate of transactions; implements `TradeSlot` |
| `GraduatedSwap` | the swap of a graduated token |
| `Launch` | the launch of a token, with the API's and the indexer's sides of its metadata |
| `WalletSession` | the connection to the wallet, and what the wallet is asked to sign |
| `MC*` | instances for TLC |
| `Curve_proofs` | theorems about `CurveMath`, `CooketCurve` and `QuotedTrade` |
| `Takeover_proofs` | theorems about `FeeManager`, `CTORegistry` and `CTOPanel` |
| `Feed_proofs` | theorems about `Realtime` and `TokenPage`, and the lemmas about lists they share |
| `Client_proofs` | theorems about `Candles`, `TokenChart` and `WalletSession` |
| other `*_proofs` | theorems about the module of that name |

A contract call is one step; a call that reverts is a step not taken. Where a
function hands control to an account of unknown code (the claims of the fee
manager), the function is two steps and anything that the reentrancy guard
allows may happen between them. Contract code the protocol itself deployed
(curve to fee manager, registry to custodian) does not call back, and such calls
are part of the caller's step.

A handler of the web client is one step from one await to the next, as JavaScript
runs it. An execution that has not returned is a record whose `stage` names the
await it stands at; everything the code keeps in the closure is a field of it.

### CurveMath and CooketCurve

State: `soldSupply`, `activeReserve` (`activeNativeUsdcReserve`),
`terminalReserve`, `forwarded`, `graduated` of the contract, plus `tokens` and
`native`, the balances of traders, curve, fee manager and graduation manager.
`buy` is the whole function: quote, slippage bound, fee deposit, token transfer,
and in the last buy `_graduate` with the forwarding. `sell` likewise. The
environment transfers tokens between holders and to the curve, and forces native
value into the curve. The four-way split of a fee belongs to `FeeManager`; the
curve only needs its total.

The constants are those of `EndpointConstantsV3`, as parameters. The assumptions
`EndpointConstants` and `FinePrice` state what the proofs use of them; TLC
evaluates them on the instance, and the deployed numbers satisfy them.

### QuotedTrade

`EXTENDS CooketCurve`. `shown` is the state of the curve the page last polled,
`ticket` the quote and then the execution, stage by stage: `readBuyQuote` and its
late answer, the minute of its life and its deadline, the checks of `submitBuy`
and `submitSell` between their awaits, the exact approval, the simulation, and a
prompt of any length. `pool` holds the user's transactions in the order of their
nonces; `Mine` executes them with the curve's own `buy` and `sell`, so that
slippage bound and deadline are the contract's. `Outside` is everyone else's
trading, and the user's in another place.

### FeeManager

One variable per storage variable, with one action per function. `locked` is the
reentrancy guard, `balance` the native balance. It also grows without a call
(`ForceNative`): on Arc a plain ERC-20 transfer of USDC does that, elsewhere a
selfdestruct, and `receive()` does not run. `stray` counts what came that way;
`Backed` says that the balance is the liabilities and `stray`, so that nothing
ever spends it and nothing is paid from what is owed to others. Other history
variables record who proposed a treasury and when, the creator fees deposited and paid, and the
deposits at the moment of a takeover (`cutoff`). The factory's and the
registry's calls are actions guarded by what these contracts are allowed to
pass.

### CTORegistry

`EXTENDS FeeManager` and conjoins its actions with the registry's state:
proposals with their deadlines, `currentProposalId`, `activeTreasury`. Time is
the fee manager's clock. `executeCTO` is one step: terminal state, collection of
LP fees if graduated, activation in the fee manager. The LP part is one pool
asset and the creator share: fees are earned in the position, collected by
anyone, credited to whoever is the payout then, and claimed. A proposal's
identity is its token and nonce.

### CTOPanel

`EXTENDS CTORegistry`. `snapshot` is what `readCTOChainState` returned and
`reading` the first of its two rounds of calls; the page offers what the snapshot
allows by the clock it contains. `job` is an action: it reads again, is checked
by `cto-transactions.ts`, simulated (`ENABLED` of the registry's own action),
signed, mined (that action) and confirmed; then a new read is awaited. Other users
and other pages act on the registry in between. The user may replace or cancel
the transaction in the wallet (`ReplacedInWallet`); the page waits without
`onReplaced` and confirms the action all the same, so `message` records whether
it ran (Known limits).

### Indexer

State: `chain`, what the RPC would answer; the tables (`blockAt`, `events`,
`trades`, `metrics`, `checkpoint`), canonical rows only, for an orphaned row is
invisible to every query and is revived by the upsert that inserts it again; and
the memory of the process (`pc`, `last`, `lastHash`, `target`, the batch). A hash
commits to a block's ancestors, so it is modelled by the chain up to the block.
One launch is followed, with one curve trade, the graduation and one pool swap, in
any block after it; a reorganisation may move or drop each of them. `missed` holds
the blocks whose swap the last scan of them did not ask for, because the pool was
not known yet.

Each RPC call of `Run` is a step of its own, with the memory and queries the code
has at that point; a database transaction is part of the step of the header read
before it, since only this process writes those tables. Errors and failed checks
stop the process (`Stop`), which `main` turns into an exit and Compose into a
restart (`Start`). `Crash` stands for everything else that ends it: a failed call
after its retries, a failed metadata read, a kill.

Left out: the discovery and projection of CTO events (a further pass of the same
kind over other addresses), holder balances, splitting a query into chunks of
eight addresses (one launch has six), and `StopBlock`. The link of metadata is in
`Launch`.

### Realtime

State of the service: `pc` (where `runConnection` stands between two RPC calls or
two logs), `registry`, `pendingBackfills`, `reconnectFrom` (zero for nil), `seen`
(the deduper, oldest first), the subscription with its channel `logs`, and the
logs of the replay under way (`head`, `current`, `batch`). State of the
broadcaster: `subscribers`, and `queue`, the channel each handler reads. A log is
an identity, a source, a block and the removed flag. The channel a closed
subscriber leaves is still drained by its handler, hence `queue` outlives
membership.

One action stands for what the loop does between two calls to the node. The
replay of a source is one `FilterLogs` and a `Replay` for each log; `HandleLog` is
`handleLog` with `Accept` and `Publish`. The code replays sources by the order of
their addresses; any order is allowed. `Refuse` is the error of a source beyond
the replay bound (`Refused`), `Outage` any other error: both end the connection,
and the memory of the process survives. Around the service the node's `chain`, a list
of logs up to `height`, grows (`NewBlock`) and loses its last blocks (`Fork`); the node
sends the logs of the subscribed sources and their retractions, in order; and `indexed`,
the block the indexer's tables stand at, advances (its rewinds are left out). `remined`
remembers which trades a reorganisation moved to another block. Browsers join, read and
leave.

Left out: decoding, the cache of block headers (that a header cannot be read is
`DiscardLog`), a node whose head lags behind its own announcements, failure of
the standard output, and changes of a market other than launch and graduation.
A restart of the process begins a new behaviour.

### TokenPage

State: the block each cached answer is indexed through (`token`, `history`, and
`chart` for each timeframe), `interval`, the terminal's `watermarks`, and the
hook's `events` and `retired`. A poll is one action: answers carry one block
because the API reads a response and the checkpoint in one snapshot. React's
effects are actions of their own, so a surface may show its answer before it has
reported it. A button of a timeframe drops the chart's watermark; the effect, which
runs after each render of the terminal because its callback is new each time,
reports the answer of the timeframe that is shown then. `mined`, `wire` and `index` are the chain, the stream and the indexer
as the page sees them; `told` is what the page was told and has not been
retracted or pushed out by newer events.

### Candles and TokenChart

`Candles` has the two computations of a candle: of the API over indexed trades
(`ApiCandle`) and of the page, which lays events over an answer
(`overlayCandles`), and a reference definition of both at once (`Expected`). A
trade has two prices, because an event tells the browser only what was paid while
the API uses the spot price after the trade, and a price may be missing.

`TokenChart` has two forms of chart. The one the page draws keeps a range of
bars: how it opens (`defaultChartViewport`), what the library does to the range
when bars are added (external, from how the code uses it), and when it follows
the newest bar. The data feed of the TradingView widget keeps the last bar it
sent, the snapshot behind it, and asks for a reset when the newest bar has gone
back. Blocks share times, events arrive in any order, retractions remove bars.
Abstracted: the conversion for display, the choice of price or valuation, and
that weeks begin on a Monday.

### TradeSlot and TradePanel

`TradeSlot` is the promise: an account's slot is taken before its wallet is asked
for a transaction and given back only when that transaction's fate is known; an
account whose slot was waived is promised nothing any more.

`TradePanel` is the code that keeps it. Per tab: the account on display, the
status, and the refs of the component; for all tabs: `stored`, the records in
local storage. A trade is a job through allowance, approval, request, signature,
capture of a recovery point and waiting; `Check` and `Scan` are the search for the
nonce when a receipt does not come, `Recover` is Check Again and Resume
Confirmation. `RenderWallet` is the change of identity that moves the generation
on: later steps of an older job find themselves not `Current`, and do what the
code does then. `Reload` drops the page's jobs; a prompt of the wallet outlives
them (`PromptAnswered`). A failed wallet request may or may not have sent the
transaction.

`Slot` instantiates `TradeSlot` with the record as the slot. `waived` is the set of
accounts for which the refinement promises nothing: the user abandoned recovery,
or a trade touched a record of another trade, or an answer of the wallet without
a hash was counted as never sent. The last two are the known limits of section 5,
and the point of the refinement is that there is no further way.

### GraduatedSwap

State: the form, quotes in flight, the quote on display, the quote under review,
the modal and the status it follows, the execution, allowances as cached and as
on chain, and the transactions sent. Quotes answer in any order; the wallet
changes its account while the page still shows the old one, and a transaction in the pool may
be replaced or cancelled in it: `waitForTransactionReceipt` then resolves with the
replacement's receipt, which the page takes for its own (`Succeeded`, Known limits). An
open modal covers
the page: the form takes no input behind it. Each check of a quote's age may
fail. The pool's validation is read once and may refuse.

### Launch

One creator and one tab. The form with its review, the upload, the launch
transaction, the claim and `FinalizeMetadata`, the pause and its attempts, the dev
buy and its retry, and leaving the page at any point. `request` is the API's
database transaction for a draft and `indexing` the indexer's for a launch: each
takes the lock on the launch's identity, reads what is committed and commits,
and may be lost before or after that. The indexer's reading of linked metadata may
also fail alone, inside its savepoint (`ReconcileFails`): the launch is then
committed without metadata, and `unreconciled` records it. A reorganisation returns a mined launch to
the pool.

### WalletSession

`wallet` is the extension, `account` and `client` what wagmi knows and has built.
Each of wagmi's notices and the building of a client are steps; between them the
page shows `status`. Controls: connect, switch the network (switch, add, switch
again), disconnect. A transaction is the click, the check of the signer after the
simulation, and the request.

## 3. Runs

| Run | Instance | Shows |
|---|---|---|
| `curve` | 2 traders, one of them on the page; allocation 80 + 20, reserve 18, fee 1/4; stray tokens and forced native value; 2 outside moves, clock to 3 | reserve path-independent, exact endpoint, quotes never break, no rounding profit, the curve stays backed, trades execute on the reviewed terms |
| `takeover` | 1 token, 2 users, 2 owners, 2 protocol treasuries, 2 proposals, 2 deposits, 1 unit that arrives without a call, 1 LP fee, clock to 3 | backing, both cutoffs, one live proposal on which both contracts agree, consent, treasury rotation |
| `indexer` | 5 blocks, batches of 3, 1 confirmation, a reorganisation of up to 3 blocks, 1 crash | what is stored stays one fork without holes except missed swaps, projections agree with it, confirmations protect it, the index catches up |
| `realtime` | 1 token that graduates, 1 browser with a buffer of one, 4 blocks, 2 trades, 2 reorganisations, 1 outage, 1 unreadable header, 2 remembered events, replay bound 2 | no gap, and no double the deduper should know, over reconnections and a change of source, a connected browser misses nothing, the feed matches the chain, the service comes back |
| `page` | 2 timeframes, 3 blocks, 2 trades, 1 event kept, a reorganisation, and two of: a lost event, a repeated event, up to two changes of the timeframe | surfaces stay complete, nothing counts twice, events are forgotten |
| `panel` | 1 tab, 2 accounts, buys and sells, 2 trades, 1 block, 2 disturbances | the panel implements `TradeSlot`; final outcomes on display are those of the chain |
| `panel_blocked` | the same with buys only and no disturbance | **violation**: see Findings |
| `swap` | 2 accounts, 2 quotes in flight, 2 transactions, 2 changes of account | the modal is busy with the reviewed swap until its outcome, and confirms only that |
| `cto_page` | 1 token, 2 proposals, windows of one tick, clock to 3 | no action is offered before its time, and a confirmed action that ran is in what the page shows next |
| `launch` | 2 submissions of one definition, 2 dev buys, 1 reorganisation, 1 fault, 1 repeated attempt | linked metadata is not lost and appears unless its reconciliation failed, the page claims only what happened |
| `chart` | timeframes of 1 and 2, two histories, 2 trades, 1 reorganisation, 1 pan, 1 switch | candles are the trades, the feed's newest bar is current, the chart opens on the newest session |
| `wallet` | 2 accounts, 2 chains, 3 changes in the wallet | signatures only for whoever was shown, a switch reported done is made, the page becomes ready |

Bounds and why they suffice.

* *Curve.* Amounts are scaled down so that two purchases cross the endpoint, with a
  fee of one quarter so that it rounds on the amounts used. Trades come in one
  size a side (13 and 21), neither of which divides the constants; two purchases exceed
  the endpoint, so the second is cut and refunded. `QuotesNeverBreak` and
  `NoRoundTripProfit` try further payments (`Payments`: none, dust, one beyond the
  endpoint) in every state. The stray tokens are one more than the endpoint
  tolerates. Two moves of the outside are a trade before and one after the
  user's own. A quote lives one tick, its deadline is two ahead and the clock goes
  to three, so each may pass first; `DeadlineInSight` leaves out quotes made so late
  that their deadline would lie beyond the clock. The user's pool holds an
  approval and a trade, or two trades. Tolerances are one and three of four; the
  page refuses the second. All other amounts are covered by the proofs.
* *Takeover.* `MaxDeposits` is two: one on each side of the cutoff, in the same
  behaviour. The parts of a
  deposit are distinct numbers so that no two books can be confused. `MaxTime`
  lies beyond the sum of the windows, so that every deadline can pass, and
  `MaxNonce` is two: a proposal and its successor. The action constraint
  `OneConcernAtATime` leaves out mixtures of concerns that share no state but the
  clock: the run explores the books with a second deposit, governance with one
  deposit, and the takeover with governance and the other beneficiaries' claims
  left alone, one deposit before it and one after (`DepositsOfTakeover`), but not
  all three at once; value arrives without a call outside the takeover only, since
  it touches no book. The theorems have none of these limits. `cto_page` leaves fees out altogether
  (`ProposalsOnly`), and its clock starts with the first proposal (`ClockStarts`).
* *Chain.* A batch of three is the least in which a block without events lies
  between the two ends of a batch, so that block rows have gaps. One confirmation
  leaves one block above the confirmed head; a reorganisation of depth one is the
  ordinary case, one of depth three reaches below it and over a gap. `MaxHeight`
  fits launch, graduation and a confirmed swap.
* *Feed.* A block may hold two trades: only then does it matter that the replay
  starts at the last block delivered and not after it. The deduper must remember
  at least what one replay repeats, 512 blocks against 10,000 events in the code;
  the run remembers two, and a retraction counts as an event of its own: of four
  different events the oldest are forgotten and do come again. Launch and graduation come at fixed blocks (`LaunchOne`,
  `GraduateOne`). A replay bound of two is passed within four blocks.
* *Page.* One kept event against two trades lets the oldest be pushed out. Two
  changes of the timeframe are one and the way back. Losses, repetitions and changes
  of the timeframe share a bound of two (`FewConcerns`).
* *Chart.* A chart is full at four bars, and two histories of two trades, one with
  a silence, are just short of it; a step of four makes another silence. Prices
  contain a pair in which spot and paid price differ and a pair without prices.
* *Panel.* Two trades: what one leaves behind meets the other. Two disturbances
  are a change of account and the way back, or a reload in between. One block
  decides one transaction, and a scan of one block may end before it. A second
  trade that is a sale is disturbed only after its allowance is read
  (`SecondSaleFirst`); a second purchase at any time.
* *Swap, launch, wallet.* Two of each thing that can be confused: accounts,
  quotes in flight, submissions, chains. Three changes in the wallet are away, back, and
  away again.
* *Symmetry.* Users, accounts and wallets are compared only for equality; symmetry
  is used only in runs without liveness.

What the code does not handle is excluded from a property by name rather than
from the model, so that everything around it is still explored:

* A reorganisation deeper than the confirmations can hit the indexer while a batch
  is in flight without being noticed: `parentMatches` looks only at the block that
  directly follows the last one. `slipped` records it; `Noticed` says which ones
  the code does see. `NothingOrphaned`, `NothingMissing` and
  `ProjectionsMatchChain` hold for all histories in which nothing slipped;
  `CatchesUp`, which is about the checkpoint, holds in all.
* A swap of a pool in the batch of its token's launch: `missed`. `NothingMissing`
  says that every other event is in the tables, and that no missed swap is;
  `ProjectionsMatchChain` does not count it.
* A launch whose reconciliation failed when it was last stored: `unreconciled`, left out
  of `LinkedMetadataIsNotLost` and `PromisedMetadataAppears`.
* A transaction replaced in the wallet: the last conjunct of `ConfirmedIsTheReviewedSwap`
  allows it, `ConfirmedActionIsShown` says nothing of an action that never ran.
* A trade that a reorganisation retracts and mines again, when it is in another block
  than the one published or is orphaned once more, and a retraction nobody was
  connected for: `FeedMatchesChain` leaves out `MinedAgain` and `unheard`.
* Logs in a channel that is replaced or closed after the reconnect block has moved
  past them: `dropped` records these, `EveryTradeAccounted` leaves them out.
* A source beyond the replay bound: `EventuallyPublished` promises nothing while it
  is `Refused`.
* A trade that was retired on the word of another of the chart's timeframes, when the
  cached answer of the one on display is older: `OlderChart`, left out of
  `SurfacesComplete`.
* The waived accounts of `TradePanel`.

All runs but `indexer` say `CHECK_DEADLOCK FALSE`: within the bounds the clock ends,
the transactions are used up, or everything is delivered. The indexer's loop never
stops, and its run checks that it cannot get stuck.

Fairness is assumed of programs, never of users.

* Indexer: weak fairness of its next step (`WF_vars(Run)`). It is a single
  sequential loop that waits at most three seconds between passes, `main` ends the
  program when the loop ends, and Compose starts it again (`restart:
  unless-stopped`). Crashes and reorganisations are bounded, so `CatchesUp` says
  what happens once they are over.
* Realtime: weak fairness of its next step (`WF_serviceVars(Service)`): one loop, which
  `Run` starts again at most `maximumReconnectDelay` after an error, with bounded
  outages.
* Page: weak fairness of each poll (`refetchInterval`), each effect, and of the
  reading of the stream.
* Launch: weak fairness of the indexer and of each transaction the API has begun.
* Wallet: weak fairness of wagmi's notices, of the building of its client and of
  the answer to a disconnection; not of the wallet's answers to requests.

The contracts promise nothing about what happens without a caller, nor does the
page about a trade nobody confirms: there every property is a safety property.

### Variants

To see that a property can fail, each has a faulty form of a definition, the
kind of mistake that could be made in that code. They are the definitions
marked "Variant", are not part of any specification, and `PROJECT.json` pairs
each with its property. Examples: rounding the sale's payout up
(`QuoteSellFloor`) breaks `ReserveFollowsSupply`; a takeover that does not collect
LP fees first (`leaveUncollected`) breaks `LPCutoffRespected`; a minimum computed
from the tolerance itself (`minOutputOfTolerance`) breaks `ReviewedTermsHold`; a
catch clause that takes every failure for one before the wallet was asked
(`CatchTradeHastily`) breaks `PanelKeepsTheSlot`; a metadata link without the lock
(`LinkUnlocked`) breaks `LinkedMetadataIsNotLost`; deadlines by the browser's clock
(`StartReadByLocalClock`) break `OffersAreNeverEarly`.

## 4. Proofs

TLAPS checks, for every value of the constants that satisfies the named
assumptions:

* `Curve_proofs`, quotes. `GrossRequiredExact`: the closed form of
  `grossRequiredForNet` is the least payment with that net amount, so its own
  mismatch check never fails. `BuyQuoteSound`, `SellQuoteSound`: on an open curve
  whose reserve is the rounded-up reserve of its supply, a quote stays within
  reserve, inventory and payment and re-establishes that relation. The lemmas
  they rest on characterise `CeilDiv` and are stated once.
* `Curve_proofs`, the curve. The inductive invariant is `TypeOK` with
  `ReserveFollowsSupply`, `GraduationIsExact` and `CurveIsBacked`: types alone
  are not inductive, because that a sale does not drive the reserve below zero
  follows from the relation of reserve to supply, which in turn needs the
  endpoint. From it follow `TypeCorrect`, `ReserveIsPathIndependent`,
  `GraduationExact`, `Backed`, `QuotesSound`, `NoRoundTripGain`.
* `Curve_proofs`, the user's trades. `TradesAsReviewed`: `ReviewedTermsHold` is an
  action property; the invariant `QuotedInv` says what every ticket and every
  transaction in the pool has kept of its quote (`TicketOK`, `Trades`): a transaction
  carries the `minOutput` of what was shown, and the contract's own bound does the
  rest.
* `Takeover_proofs`, sums. The fold of the community modules is a recursive function;
  that it exists, that a changed summand changes the sum by the difference, and that a
  sum of naturals is one, are proved through the smallest set for which they would
  fail (`LeastNat`), since an induction theorem cannot be instantiated here. They
  need finite sets of addresses, which is why `FeeManagerConstants` says so of users and
  treasuries.
* `Takeover_proofs`, the fee manager. `Backed` is an equation between the balance on one
  side and the books with what arrived without a call on the other, and needs the types; `CTOHoldsTheRoute` (after a takeover the treasury is
  the payout and nothing is proposed) needs that a token whose takeover happened was
  registered; `RotationWaits` needs that a pending treasury was proposed by the
  owner in office (`ProposalIsCurrent`). Their conjunction is inductive.
  `TakeoverIsFinal` is an action property of it. `CutoffHolds`: the cutoff compares
  sums over users; the invariant `CutoffInv` also says where the fees of a token
  whose takeover did not happen are, and follows them through claims that are
  checkpointed and paid in two steps.
* `Takeover_proofs`, the registry. By construction every step of the registry is a
  step of the fee manager or leaves it alone, hence the fee manager's invariant holds
  in the composition. With it: at most one proposal can take
  effect and both contracts agree about it (`SingleLiveProposal`), a takeover
  happens only on the recorded terms within the windows (`TakeoverIsConsented`), and
  the LP fees are cut off at it (`LPCutoffHolds`).
* `Takeover_proofs`, the page. `OffersKeepTheTime` and `ConfirmedIsShown` need
  that proposals only move on: `Moved` lists the moves, `SnapshotIsPast` says how the
  proposal in a snapshot may differ from the one stored by now, `Effective` that the
  effect of a mined action is not undone, and `ReadsFollow` that a read begun after a
  confirmation is not older than it, all of it for actions that ran.
* `Launch_proofs`. `MetadataIsNeverLost`: `LinkedMetadataIsNotLost` speaks of committed
  rows whose reconciliation did not fail only and is not inductive, since either side may have read just before the
  other commits. The invariant adds that the lock is exclusive, that the API goes
  on without it only for a committed link, and that what each side read stays
  true while it holds the lock (`UnseenIsUnstored`, `UnfoundIsUnlinked`).
  `OneSideHoldsTheLaunch` is the exclusion itself. `PageIsTruthful`: every answer
  that is on its way to the form, and every step of the submission under way, is true
  when it is made (`PageInv`), and receipts, links and descriptions are not taken back.
* `GraduatedSwap_proofs`. `ModalStaysWithTheSwap` and `OnlyTheReviewedSwapIsConfirmed`.
  The invariant adds the numbering of transactions (a new one has a free number,
  so no other changes), that a running job is the one reviewed with its modal busy
  (`JobInv`), that the transaction it waits for is its own and on display
  (`SendInv`), and what each status implies (`StatusInv`).
* `Client_proofs`, the chart, for every history, timeframe, price and setting.
  `CandlesShowTheTrades`: with the first k events laid, the candles are those of the
  snapshot and these k (`OverlayIsCandles`, by a smallest k for which they are not;
  `LayIs` is the step), so the result does not depend on how they came; that the code's
  comparison of time, block and log is the order of the chain needs that a chain's
  blocks and times never decrease (`ChainInv`). `SubscriberHasTheNewestBar`: that an
  answer stays true, no step changes what the chain has up to an indexed block
  (`Steady`); no trade is mined or replaced there because every block up to the tip has a
  trade (`Gapless`), so that the tip is never below what is indexed.
  `OpensOnTheNewest`: a chart that is drawn has bars (`DrawnInv`), and
  `RecentStartIs` and `ViewportIs` say what the opening range is for every list of them.
* `Client_proofs`, the wallet. `SignaturesAreForWhoWasShown`: the invariant says what a
  transaction has established at each await. `SwitchReportedDoneIsMade`: an action
  property, by the actions that end a switch; it needs the wallet's type only.
* `TradePanel_proofs`. `KeepsTheSlot` (the refinement `PanelKeepsTheSlot`) and
  `AtMostOneOpenTrade`, for any tabs, accounts and number of trades, account
  changes and reloads. That a trade which may still be mined is the one its
  account's record is about (`OpenIsRecorded`) is not inductive. The invariant adds
  what a job knows between its awaits: until the wallet is asked the record is the
  job's own (`HoldsSlot`), except for a job whose approval was seen replaced or
  reverted, which never asks; an approval that failed was not followed by its trade
  (`FatesInOrder`); a job that waits for an open trade has a hash in its tab and in
  the record, so that its catch clause cannot take it for one never sent
  (`KnowsItsHash`). `JobMove`, `PageStep` and `ChainStep` say once what a job, the
  panel and the chain may do; every action is shown to be one of them, and each of
  them to be a step of the slot or none (`SlotStep`). `OutcomeIsTrue`: what
  a tab displays as final was decided by the chain, and fates do not change; that it
  is the outcome of the trade on display needs what each job holds at each of its
  awaits, for the tab may meanwhile have taken up the record of another tab or account.
* `Feed_proofs`, the token page. `SurfacesAreComplete`: no watermark is ahead of the answer it was
  taken from, and what was retired is indexed by some timeframe of the chart, though
  not always the one on display (`WatermarksFollow`), and what the page was told is among its events or
  below what it retired (`ToldIsKept`), which needs that it keeps one event of a trade
  at a time (`OneEvent`). `NothingCountedTwice`: what is said of a trade, on the wire or
  in the page, never names a later block than the one it is mined in (`NotAhead`).
  `TypeInvariant`. What `filter()` keeps is proved like the laws of sums.
* `Feed_proofs`, the realtime service, for every number of sources, browsers, outages
  and reorganisations and every capacity. Every list holds logs (`RealtimeTypes`).
  `SubscribersGetEveryEvent`: the property is an equation between a queue and the rest
  of what was published; inductive is the same entry by entry, for those who left too
  (`BuffersInv`). `NoEventRepeats`: the deduper holds the keys of the newest events, as
  many as it can (`SeenInv`), so that of `DedupCapacity` events and the next no two are
  the same. `TradesPublishedOnce` says the same of the events that do come again: more
  than `DedupCapacity` events lie between. More cannot be said: a replay of more logs
  than the deduper remembers (10,000, `service.go:26`) that is interrupted starts over,
  and its first events are published once more.
* `Feed_proofs`, what the service owes. `EveryTradeIsAccounted` says where a trade is; it
  is inductive once it is also said what each point of the connection has established:
  which sources are subscribed, and that none is pending above the reconnect block and
  its own start (`ConnectionInv`); that during a replay the live channel holds what lies
  above the head that was read (`LiveAbove`); and that the batch holds what lies below it
  and is not published (`BatchOf`). That a duplicate was published needs `SeenInv`.
* `Feed_proofs`, what the service takes back. `FeedFollowsTheChain` speaks of settled
  states. The invariant follows the last word on each trade through the channel
  (`OrphanInv`): a log or event of a trade that is not on the chain has its retraction
  behind it, because the node sends one for each orphan and because nothing is retracted
  twice but what was mined again (`RetractInv`), so that no retraction can be taken for a
  duplicate. Both need `NodeInv`: logs and events name the market of their trade and no
  later block than its present one.
* `Indexer_proofs`, for every start block, batch size, number of confirmations and
  depth of reorganisations. `OnlyOneFork`, `NoHoles` and `ProjectionsOfOneFork` speak of
  the tables only. The invariant `IndexInv` adds that the process remembers what it
  stored (`Memory`), that every row is of the checkpoint's fork (`Rows`), and the
  reason why a batch cannot mix two forks: while it is in flight, either all its
  logs and last hash are of the chain its headers will be read from and none of its
  logs is missing (`Good`), or the chain was replaced below it and its first block
  will fail the parent check (`Doomed`). A reorganisation that leaves neither is what
  `slipped` records. That nothing is missing but the swaps in `missed` needs that
  a row of an event says in which block it is (`RowOfEvent`) and that a header already
  indexed stays out of reach of a later scan (`IndexedBelow`). `ConfirmationsSuffice`: that the checkpoint stays on the chain is a
  property of steps and does not need that nothing slipped.

`TypeOK` of the curve, the fee manager, the trade panel and the token page are
theorems. The other modules' `TypeOK` document their state; TLC evaluates them in no
run of their own.

Only model-checked: `CatchesUp`, `EventuallyPublished`, `EventuallyRetired`,
`PromisedMetadataAppears` and `ReadyInTheEnd`, because liveness is out of the prover's
reach.

## 5. Findings

`panel_blocked`: the panel keeps the hash of the last finished trade on display, and
a new trade does not take it off. When the next trade ends without a hash
(`token-trade-panel.tsx:347-350`), the panel says that new trades remain blocked, but
Check Again looks up the old transaction, shows "Trade confirmed" and clears the
record, although the second transaction may be pending. The run shows it with
two buys of one account in one tab.

### Known limits

Behaviour met while modelling that the code does not prevent. The models contain
it unless said otherwise, and the properties of section 3 exclude it by name; no
run is spent on it.

Contracts:

* `_graduate` demands that the curve's token balance is exactly the LP allocation
  (`CooketCurveV3.sol:260`). After a transfer of the launch token to the curve the
  buy that would reach the endpoint reverts, although `quoteBuy` accepts it.

Indexer and realtime service:

* A swap of a pool in the batch of its token's launch is never stored (`missed`); a batch
  is 500 blocks by default. `discoverLaunchLogs` asks for the logs of the token and
  the curve, not for those of the pool (`indexer.go:270-284`), although its comment says
  that it "closes the range-query address-discovery gap" (`indexer.go:231`) and
  `docs/developers/indexer.mdx:10` that new sources "receive bounded exact-address
  catch-up inside the current scan range".
* A reorganisation deeper than the confirmations may go unnoticed (`slipped`).
* A recovery that finds no stored block below a replaced one starts again at block 1,
  also when indexing began at a later start block (`indexer.go:579-583`). After a
  restart the process resumes at the start block without a hash to compare
  (`557-562`), so that a block row below the start block, once written, may outlive a
  second such reorganisation. These blocks hold no events of the system, and
  `NothingOrphaned` leaves their block rows out.
* The replay bound is counted from the last trade, not from the last block the
  service was connected at (`service.go:275`): after 512 quiet blocks any
  disconnection makes every further connection refuse its replay.
* A change of the registry abandons the old subscription's channel with what it
  holds, and one reconnect block stands for all markets (`service.go:246`, `351`):
  while one market is replayed it may pass unread trades of another.
* A replay that is interrupted after more logs than the deduper remembers publishes its
  first ones again (`dedup.go:34`); `PublishedOnce` bounds how near.
* A trade that is retracted and mined again is taken for a duplicate
  (`dedup.go:31`), and so is its second retraction; a reorganisation while the connection is down is never announced
  (`service.go:182`). The page's polls correct the browser.

Chart:

* A change of the timeframe drops the chart's watermark (`token-chart.tsx:247`, `252`) but
  not what was retired before: back at a timeframe whose answer is older, the trades
  retired in between are missing until its next poll.
* A candle from events closes at the price paid, one from the API at the spot price
  after the trade: it moves when it is indexed.
* A bar of the data feed may be older than the history the widget has
  (`tradingview-datafeed.ts:148-149`); the class is not mounted in production.

Curve trading:

* The panel's hash belongs to the tab: an answer that comes after a change of
  account may put one account's hash into another's record
  (`token-trade-panel.tsx:310-317`, `336-338`). A trade blocked by a record of
  another tab does not load its recovery point (`260-266`).
* The resolution of an older operation may clear the record of a newer one, with
  two tabs (`168`, `178`).
* A sale whose allowance sufficed, and whose signature fails without an answer, is
  not counted as uncertain (`303`, `347-350`).
* A failed read of the availability unmounts the panel while its submission goes on
  (`token-trading.tsx:31-35`, `80-83`): as with a second tab, the record without a
  hash, written at the submission, keeps the next trade out.
* A quote's fingerprint compares states: one read between two equal states
  survives. The minimum output still holds (`ReviewedTermsHold`). Between the
  last check and the wallet's request time may pass; the deadline bounds it.

Graduated swap:

* The page waits for a receipt without `onReplaced` (`graduated-token-swap.tsx:115`): when
  the user cancels or replaces the swap in the wallet, it takes the replacement's
  receipt for the swap's and says "Transaction confirmed" of a swap that never ran.
  `Succeeded` models it. The curve's own confirmation asks (`contracts.ts:303`).
  Approvals are waited for in the same way (`graduated-token-swap.tsx:184`,
  `contracts.ts:221`); the allowance is read again before the swap or sale, which is
  not sent without it. `TradePanel` models a replaced approval as one that fails.
* The answer to a quote asked for before the side or amount was changed is shown,
  and an error keeps the quote before; the review shows which quote it is.
* There is no record of a pending swap: after a receipt that does not come in time the
  user may swap again.

Launch:

* A failed reconciliation of linked metadata is contained in a savepoint and logged
  (`store.go:598-603`), the launch is committed without it, and nothing tries again
  (`ReconcileFails`). The form has said that the metadata "is safely linked and will
  appear after canonical indexing catches up" (`create-token-form.tsx:134`).
* A failed wallet request without a hash counts as never sent, for the launch and
  for the dev buy (`dev-buy.ts:39`), which is then offered again; a page that was left
  says nothing of a launch that is mined afterwards, and its metadata cannot be
  linked any more (`create-token-form.tsx:148`).
* The page says that nothing was submitted also when a later step failed after the
  launch was mined (`transaction-modal.tsx:31`, `app/create/page.tsx:62`).
* A launch orphaned while its metadata is finalized ends in an error that is not
  tried again; a dev buy without a receipt leaves the form disabled; the modal of
  a repeated dev buy is titled by the edited input.

Takeover and wallet:

* `submitAndConfirm` waits without `onReplaced` too (`cto-transactions.ts:97`): an action
  replaced or cancelled in the wallet is reported as confirmed (`token-cto.tsx:109`,
  `152`) though the registry never saw it (`ReplacedInWallet`).
* After a cancelled or expired proposal the page offers no new one, though the
  registry allows it (`token-cto.tsx:65-67`, `186-188`).
* An action's error stays on display once the wallet is ready, and the menu stays
  open over a disconnection made in the wallet.

## 6. Not modelled, and the plan

Left out for good: ABI encoding, CREATE2 address search, event texts, gas; the
SDK's typed wrappers, exporter, scripts, and the pages of the web client that
keep no state of their own (lists, search, profile). Wiring checks of
constructors and bootstrap functions (that two contracts point at each other)
are one-time comparisons of addresses, kept only as the flags `factorySet` and
`vaultsBound`.

Planned, in order, and what each is for:

1. `Graduation`: launch registration, pool reservation against pools made by
   others, settlement with residuals, position binding. Abstract specification:
   a launch is open, then settled once. Theorems: settles once, manager and
   executor end empty.
2. `Vaults`: ledgers of the LP fee vault, the community vault and the trader
   rewards vault, with the distributor. Theorems: each contract holds the sum of
   its ledgers.
3. `Indexer`: CTO treasuries and their projection.
4. The treasury's page, and the abstract specification of the feed (a set of
   trades shown, growing and shrinking with the chain) that `Realtime` and
   `TokenPage` implement in turn.
5. Proofs about each of these.
