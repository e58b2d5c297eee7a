----------------------------- MODULE TokenChart -----------------------------
(***************************************************************************)
(* The chart of a token's page.  Either the page draws it itself            *)
(* (components/token-chart.tsx, on the lightweight-charts library) or it    *)
(* feeds a TradingView widget (lib/tradingview-datafeed.ts); both lay the   *)
(* live events over the candles of the API.                                 *)
(*                                                                          *)
(* Definitions marked "Variant" are faulty forms of the one that follows    *)
(* them; no specification uses them.                                        *)
(***************************************************************************)
EXTENDS Candles

CONSTANTS
  Intervals,          \* timeframes: how long a bucket is
  VisibleBars,        \* RECENT_VISIBLE_BARS
  Horizon,            \* RECENT_HORIZON_SECONDS, in buckets
  GapBuckets,         \* INACTIVITY_GAP_BUCKETS
  FallbackBars,       \* SPARSE_FALLBACK_VISIBLE_BARS
  LogicalWidth,       \* SPARSE_LOGICAL_WIDTH
  RightOffset,        \* RIGHT_OFFSET_BARS
  Tolerance,          \* of viewportFollowsLatest()
  Prices,             \* pairs of a spot price and a price paid
  Pasts,              \* histories the token may have: sequences of times
  Steps,              \* how much time may pass between two blocks
  MaxTrades, MaxReorgs, MaxPans, MaxSwitches    \* bounds

Absent == -1    \* no answer, no bar, no silence

ASSUME ChartAssumption ==
  /\ Intervals \subseteq Nat \ {0} /\ Intervals # {}
  /\ {VisibleBars, Horizon, GapBuckets, FallbackBars, LogicalWidth}
       \subseteq Nat \ {0}
  /\ {RightOffset, Tolerance, MaxTrades, MaxReorgs, MaxPans, MaxSwitches} \subseteq Nat
  /\ Tolerance <= FallbackBars
  /\ Prices \subseteq Nat \X Nat /\ Steps \subseteq Nat
  /\ \A past \in Pasts : /\ past \in Seq(Nat)
                         /\ \A i, j \in DOMAIN past : i <= j => past[i] <= past[j]

VARIABLES
  drawn,        \* does the page draw the chart, or feed a widget?
  opened,       \* the block that was the newest when the page opened
  chain,        \* trades, in order
  index,        \* the block the API has indexed
  live,         \* trades the page has live events of
  pages,        \* timeframe -> the block its cached answer is indexed through
  interval,     \* timeframe
  chart,        \* the chart drawn: its bars, the range shown and followsLatest
  feed,         \* the subscription of the widget
  widget,       \* time of the newest bar the widget has
  reorgs, pans, switches

env == <<drawn, opened, chain, index, reorgs>>
chartVars == <<env, live, pages, interval, chart, feed, widget, pans, switches>>

Larger(a, b) == IF a > b THEN a ELSE b

-----------------------------------------------------------------------------
(* What is shown.                                                          *)

Through(block) == {t \in Range(chain) : t.block <= block}

\* What is laid over an answer that is indexed through the block.
Overlaid(events, block, size) ==
  overlayCandles(Canonical(Through(block), size),
                 reconcileRealtimeTrades(events, block), size)

\* The candles of the page: none before its answer.
chartData(events, known, size) ==
  IF known[size] = Absent THEN << >> ELSE Shown(Overlaid(events, known[size], size))

-----------------------------------------------------------------------------
(* The range of bars the chart opens with.                                 *)

\* newestActiveClusterStart(): the first bar after the newest long silence.
newestActiveClusterStart(starts, size) ==
  LET gaps == {i \in 2..Len(starts) : starts[i] - starts[i - 1] > size * GapBuckets}
  IN  IF gaps = {} THEN Absent ELSE Max(gaps) - 1

\* Variant: the age of the bars decides before their silences.
HorizonFirst(starts, size) ==
  LET horizon == {i \in DOMAIN starts :
                    starts[i] >= starts[Len(starts)] - size * Horizon}
  IN  Larger(Min(horizon) - 1, Larger(0, Len(starts) - FallbackBars))

\* The first bar that is recent: of the newest session or, without a silence, of
\* the horizon, and then no more than a few.
recentStart(starts, size) ==
  LET cluster == newestActiveClusterStart(starts, size)
      horizon == {i \in DOMAIN starts :
                    starts[i] >= starts[Len(starts)] - size * Horizon}
  IN  IF cluster # Absent THEN cluster
      ELSE Larger(Min(horizon) - 1, Larger(0, Len(starts) - FallbackBars))

View(from, to) == [from |-> from, to |-> to]

\* defaultChartViewport(); bars are counted from 0.
defaultChartViewport(starts, size) ==
  LET count == Len(starts)
      first == recentStart(starts, size)
      empty == Larger(0, LogicalWidth - (count - first))
      left  == empty \div 2
  IN  IF count >= VisibleBars THEN View(count - VisibleBars, count - 1 + RightOffset)
      ELSE IF first = 0 THEN View(-left, count - 1 + empty - left)
      ELSE View(first, count - 1 + empty)

viewportFollowsLatest(view, count) == view.to >= count - 1 - Tolerance

-----------------------------------------------------------------------------
(* The chart that is drawn.                                                *)

NoChart == [count |-> 0, view |-> View(0, 0), follows |-> TRUE]

\* The effects of a new chart: setData() and setVisibleLogicalRange().
Open(candles, size) ==
  LET starts == Starts(candles)
      view == defaultChartViewport(starts, size)
  IN  [count |-> Len(starts), view |-> view,
       follows |-> viewportFollowsLatest(view, Len(starts))]

\* The library keeps the newest bar where it is when it is in sight, and the other
\* bars where they are when it is not.
LibrarySetData(view, old, new) ==
  IF view.to >= old - 1 \/ new < old
  THEN View(view.from + new - old, view.to + new - old) ELSE view

scrollToRealTime(view, count) ==
  View(count - 1 + RightOffset - (view.to - view.from), count - 1 + RightOffset)

shouldFollowAfterDataUpdate(follows, prior, next) == follows /\ prior # next

\* The effect of new data on a chart that is open; the library reports a range
\* that has changed.
Update(candles) ==
  LET new    == Cardinality(DOMAIN candles)
      kept   == LibrarySetData(chart.view, chart.count, new)
      view   == IF shouldFollowAfterDataUpdate(chart.follows, chart.count, new)
                THEN scrollToRealTime(kept, new) ELSE kept
  IN  [count |-> new, view |-> view,
       follows |-> IF view = chart.view THEN chart.follows
                   ELSE viewportFollowsLatest(view, new)]

\* The effects after a render; `again` when the timeframe is another one.
Draw(events, known, size, again) ==
  LET candles == chartData(events, known, size)
  IN  chart' = CASE ~drawn \/ DOMAIN candles = {} -> NoChart
                 [] drawn /\ DOMAIN candles # {} /\ (again \/ chart.count = 0) ->
                      Open(candles, size)
                 [] OTHER -> Update(candles)

-----------------------------------------------------------------------------
(* The data feed of the widget.                                            *)

NoBar  == [time |-> Absent, candle |-> Candle(NoPrice, NoPrice, NoPrice, NoPrice, 0)]
NoFeed == [on |-> FALSE, size |-> 1, through |-> Absent, last |-> NoBar]

\* The last bar among the candles, by its time.
NewestBar(candles) ==
  IF DOMAIN candles = {} THEN NoBar
  ELSE LET b == Max(DOMAIN candles) IN [time |-> b, candle |-> candles[b]]

ProvisionalBar(events, f) == NewestBar(Shown(Overlaid(events, f.through, f.size)))

\* Variant: a bar that has vanished is left as it is.
EmitNewerBars(events, f) ==
  LET bar == ProvisionalBar(events, f)
  IN  IF bar = NoBar \/ (f.last # NoBar /\ bar.time < f.last.time)
      THEN feed' = f /\ UNCHANGED widget
      ELSE feed' = [f EXCEPT !.last = bar] /\ widget' = bar.time

\* emitSubscription(): a bar is never older than the last one; the widget is asked
\* to start again instead, and forgets what it has.
emitSubscription(events, f) ==
  LET bar == ProvisionalBar(events, f)
  IN  IF bar = NoBar \/ (f.last # NoBar /\ bar.time < f.last.time)
      THEN /\ feed' = [f EXCEPT !.last = NoBar]
           /\ widget' = IF f.last # NoBar THEN Absent ELSE widget
      ELSE /\ feed' = [f EXCEPT !.last = bar]
           /\ widget' = bar.time

\* syncRealtime(), with whatever is live.
syncRealtime(events) ==
  IF feed.on THEN emitSubscription(events, feed) ELSE UNCHANGED <<feed, widget>>

\* getBars(): the history of the timeframe, from the API.
getBars ==
  /\ ~drawn
  /\ widget' = NewestBar(Shown(Canonical(Through(index), interval))).time
  /\ widget' # widget
  /\ UNCHANGED <<env, live, pages, interval, chart, feed, pans, switches>>

\* subscribeBars(): the subscription has no snapshot yet.
subscribeBars ==
  /\ ~drawn /\ ~feed.on
  /\ feed' = [NoFeed EXCEPT !.on = TRUE, !.size = interval]
  /\ UNCHANGED <<env, live, pages, interval, chart, widget, pans, switches>>

unsubscribeBars ==
  /\ feed.on
  /\ feed' = NoFeed /\ widget' = Absent
  /\ UNCHANGED <<env, live, pages, interval, chart, pans, switches>>

\* reconcileCanonical(), with an answer that may be an old one.
reconcileCanonical(block) ==
  /\ feed.on
  /\ feed.through = Absent \/ block >= feed.through
  /\ emitSubscription(live, [feed EXCEPT !.through = block])
  /\ UNCHANGED <<env, live, pages, interval, chart, pans, switches>>

-----------------------------------------------------------------------------
(* The chain and what the page learns of it.                               *)

Tip == IF chain = <<>> THEN [block |-> 0, time |-> 0] ELSE chain[Len(chain)]

Trade(block, time, log, price) ==
  [block |-> block, time |-> time, log |-> log, spot |-> price[1], paid |-> price[2]]

\* Blocks may have one time; the trades of a block do.
Mine ==
  /\ Cardinality({t \in Range(chain) : t.block > opened}) < MaxTrades
  /\ \E step \in {-1} \cup Steps, price \in Prices :
       LET same == step = -1
       IN  /\ same => Tip.block > index
           /\ chain' = Append(chain,
                Trade(IF same THEN Tip.block ELSE Tip.block + 1,
                      IF same THEN Tip.time ELSE Tip.time + step,
                      Len(chain) + 1, price))
  /\ UNCHANGED <<drawn, opened, index, reorgs, live, pages, interval, chart, feed, widget, pans,
                 switches>>

\* The newest block that the API has not indexed is replaced; the page is told.
Retract ==
  /\ reorgs < MaxReorgs /\ Tip.block > index
  /\ reorgs' = reorgs + 1
  /\ \E kept \in 0..Len(chain) :
       /\ \A i \in DOMAIN chain : chain[i].block < Tip.block <=> i <= kept
       /\ chain' = SubSeq(chain, 1, kept)
  /\ live' = {t \in live : t.block < Tip.block}
  /\ Draw(live', pages, interval, FALSE)
  /\ syncRealtime(live')
  /\ UNCHANGED <<drawn, opened, index, pages, interval, pans, switches>>

Index ==
  /\ index < Tip.block
  /\ index' \in (index + 1)..Tip.block
  /\ UNCHANGED <<drawn, opened, chain, reorgs, live, pages, interval, chart, feed, widget, pans,
                 switches>>

\* An event of a new trade, in any order.
Arrive(t) ==
  /\ t \notin live /\ t.block > opened
  /\ live' = live \cup {t}
  /\ Draw(live', pages, interval, FALSE)
  /\ syncRealtime(live')
  /\ UNCHANGED <<env, pages, interval, pans, switches>>

\* The query of the timeframe is answered.
Answer ==
  /\ drawn /\ pages[interval] < index
  /\ pages' = [pages EXCEPT ![interval] = index]
  /\ Draw(live, pages', interval, FALSE)
  /\ UNCHANGED <<env, live, interval, feed, widget, pans, switches>>

-----------------------------------------------------------------------------
(* The user.                                                               *)

Pan ==
  /\ pans < MaxPans /\ chart.count > 0
  /\ pans' = pans + 1
  /\ \E by \in {-2, -1, 1, 2} :
       LET view == View(chart.view.from + by, chart.view.to + by)
       IN  /\ view.to \in 0..(chart.count - 1 + LogicalWidth)
           /\ chart' = [chart EXCEPT !.view = view,
                          !.follows = viewportFollowsLatest(view, chart.count)]
  /\ UNCHANGED <<env, live, pages, interval, feed, widget, switches>>

\* A timeframe of its own query, and a chart of its own.
setTimeframe(size) ==
  /\ switches < MaxSwitches /\ size # interval /\ ~feed.on
  /\ switches' = switches + 1
  /\ interval' = size
  /\ Draw(live, pages, size, TRUE)
  /\ widget' = Absent
  /\ UNCHANGED <<env, live, pages, feed, pans>>

-----------------------------------------------------------------------------
ChartInit ==
  /\ drawn \in BOOLEAN
  /\ \E past \in Pasts :
       /\ chain = [i \in DOMAIN past |-> Trade(i, past[i], i, <<1, 1>>)]
       /\ index = Len(past) /\ opened = index
  /\ live = {} /\ pages = [i \in Intervals |-> Absent]
  /\ interval \in Intervals
  /\ chart = NoChart /\ feed = NoFeed /\ widget = Absent
  /\ reorgs = 0 /\ pans = 0 /\ switches = 0

ChartNext ==
  \/ Mine \/ Retract \/ Index \/ Answer
  \/ \E t \in Range(chain) : Arrive(t)
  \/ Pan \/ \E size \in Intervals : setTimeframe(size)
  \/ getBars \/ subscribeBars \/ unsubscribeBars
  \/ \E block \in 0..index : reconcileCanonical(block)

ChartSpec == ChartInit /\ [][ChartNext]_chartVars

-----------------------------------------------------------------------------
\* overlayCandles(): what is drawn is every trade the page knows of, once, in the
\* bucket it belongs to and at the price it was told.
CandlesAreTheTrades ==
  drawn /\ pages[interval] # Absent =>
    chartData(live, pages, interval) =
      Expected(Through(pages[interval]),
               {t \in live : t.block > pages[interval]}, interval)

\* emitSubscription(): the newest bar a subscriber has been sent, unless it was asked
\* to start again, is the newest bar there is, with its prices.
FeedIsCurrent ==
  feed.on /\ feed.last # NoBar =>
    feed.last = NewestBar(Expected(Through(feed.through),
                                   {t \in live : t.block > feed.through}, feed.size))

\* defaultChartViewport(): a chart opens on the newest bar, and one that has few bars
\* shows no silence of the token between those it opens with.
OpensOnTheNewestSession ==
  chart.count > 0 =>
    LET starts == Starts(chartData(live, pages, interval))
        view == defaultChartViewport(starts, interval)
        seen == {i \in DOMAIN starts : i - 1 \in view.from..view.to}
    IN  /\ Len(starts) \in seen
        /\ Len(starts) < VisibleBars =>
             \A i \in seen : i - 1 \in seen =>
               starts[i] - starts[i - 1] <= interval * GapBuckets
=============================================================================
