------------------------------ MODULE TokenPage ------------------------------
(***************************************************************************)
(* A token's page in the browser.  Three surfaces, the token's metrics, its *)
(* chart and its trades, each poll the API on their own; between polls they *)
(* are overlaid with the events of the realtime service.  An event is       *)
(* forgotten when all three have indexed its block.                         *)
(*                                                                          *)
(* Definitions marked "Variant" are faulty forms of the one that follows    *)
(* them; no specification uses them.                                        *)
(***************************************************************************)
EXTENDS Integers, Lists

CONSTANTS
  Intervals,        \* timeframes of the chart
  DedupeCapacity,   \* DEDUPE_CAPACITY
  ReMining,         \* may an orphaned trade be mined again?
  MaxHeight, MaxTrades,                    \* bounds of the chain
  MaxReorgs, MaxLosses, MaxRedeliveries,   \* bounds of what goes wrong
  MaxSwitches                              \* bound of the timeframe changes

None == 0           \* no snapshot yet; blocks are counted from 1

ASSUME PageAssumption ==
  /\ Intervals # {} /\ DedupeCapacity \in Nat \ {0} /\ ReMining \in BOOLEAN
  /\ MaxHeight \in Nat \ {0}
  /\ {MaxTrades, MaxReorgs, MaxLosses, MaxRedeliveries, MaxSwitches} \subseteq Nat

VARIABLES
  (* chain, indexer and realtime service *)
  tip, mined,      \* height, and the trades on the chain with their blocks
  index,            \* indexed_through_block of an answer given now
  wire,             \* events on their way to the page
  trades, reorgs, losses, redeliveries, switches,   \* counters
  (* the page *)
  interval,         \* timeframe shown
  token, chart, history,  \* the block each cached answer is indexed through
  watermarks,       \* state of the terminal: watermarks of chart and trades
  retired,          \* the watermark of the hook
  events,           \* its events, in order of arrival
  told              \* history: events taken in, not retracted, not pushed out

chainVars == <<tip, mined, index, trades, reorgs>>
counters  == <<losses, redeliveries, switches>>
caches    == <<interval, token, chart, history>>
vars == <<chainVars, wire, counters, caches, watermarks, retired, events, told>>

Larger(a, b) == IF a > b THEN a ELSE b
Smaller(a, b) == IF a < b THEN a ELSE b

-----------------------------------------------------------------------------
(* What happens around the page.                                           *)

Event(id, block) == [id |-> id, block |-> block, removed |-> FALSE]
Retract(e) == [e EXCEPT !.removed = TRUE]

\* A block with one trade or none.
Mine ==
  /\ tip < MaxHeight
  /\ tip' = tip + 1
  /\ \/ UNCHANGED <<mined, wire, trades>>
     \/ /\ trades < MaxTrades
        /\ trades' = trades + 1
        /\ mined' = mined \cup {Event(trades', tip')}
        /\ wire' = Append(wire, Event(trades', tip'))
  /\ UNCHANGED <<index, reorgs, counters, caches, watermarks, retired, events, told>>

\* Unconfirmed blocks are replaced by one more; a trade of theirs is gone or, with
\* ReMining, in the last of the new blocks.
Reorganise ==
  /\ reorgs < MaxReorgs /\ tip < MaxHeight
  /\ reorgs' = reorgs + 1
  /\ tip' = tip + 1
  /\ \E keep \in index..(tip - 1), again \in SUBSET mined :
       LET orphans == {e \in mined : e.block > keep}
           anew    == {[e EXCEPT !.block = tip'] : e \in again}
       IN  /\ again \subseteq orphans
           /\ again # {} => ReMining
           /\ mined' = (mined \ orphans) \cup anew
           /\ wire' = wire \o SetToSeq({Retract(e) : e \in orphans}) \o SetToSeq(anew)
  /\ UNCHANGED <<index, trades, counters, caches, watermarks, retired, events, told>>

IndexAdvances ==
  /\ index' \in (index + 1)..tip
  /\ UNCHANGED <<tip, mined, trades, reorgs, wire, counters, caches, watermarks,
                 retired, events, told>>

\* The EventSource reconnects: there is no replay.
LoseWire ==
  /\ losses < MaxLosses /\ wire # <<>>
  /\ losses' = losses + 1
  /\ wire' = <<>>
  /\ UNCHANGED <<chainVars, redeliveries, switches, caches, watermarks, retired, events,
                 told>>

\* The service sends an event again.
Redeliver ==
  /\ redeliveries < MaxRedeliveries
  /\ redeliveries' = redeliveries + 1
  /\ \E e \in mined : wire' = Append(wire, e)
  /\ UNCHANGED <<chainVars, losses, switches, caches, watermarks, retired, events, told>>

-----------------------------------------------------------------------------
(* The surfaces.                                                           *)

\* The block a surface shows canonical data through.
Snapshot(surface) ==
  CASE surface = "token"  -> token
    [] surface = "chart"  -> chart[interval]
    [] surface = "trades" -> history

\* A poll of the API; one that brings nothing new changes nothing.
RefetchToken ==
  /\ token < index /\ token' = index
  /\ UNCHANGED <<chainVars, wire, counters, interval, chart, history, watermarks, retired,
                 events, told>>

RefetchChart ==
  /\ chart[interval] < index /\ chart' = [chart EXCEPT ![interval] = index]
  /\ UNCHANGED <<chainVars, wire, counters, interval, token, history, watermarks, retired,
                 events, told>>

RefetchTrades ==
  /\ history < index /\ history' = index
  /\ UNCHANGED <<chainVars, wire, counters, interval, token, chart, watermarks, retired,
                 events, told>>

-----------------------------------------------------------------------------
(* Watermarks.                                                             *)

\* advanceRealtimeSurfaceWatermark()
Advance(current, surface, block) ==
  IF block = None
  THEN IF surface = "chart" THEN [current EXCEPT !.chart = None] ELSE current
  ELSE [current EXCEPT ![surface] = Larger(@, block)]

\* A timeframe's button drops the chart's watermark.  Another timeframe shows what its
\* own query has cached, if anything; so does the button of the one already shown.
SwitchInterval ==
  /\ switches < MaxSwitches
  /\ switches' = switches + 1
  /\ watermarks' = Advance(watermarks, "chart", None)
  /\ interval' \in Intervals
  /\ UNCHANGED <<chainVars, wire, losses, redeliveries, token, chart, history, retired,
                 events, told>>

\* The effect of a surface reports its snapshot, never the lack of one.  It depends on
\* the terminal's callback, which is another one after each render of the terminal: a
\* watermark that was dropped is reported again.
Observe(surface) ==
  /\ Snapshot(surface) # None
  /\ watermarks' = Advance(watermarks, surface, Snapshot(surface))
  /\ watermarks' # watermarks
  /\ UNCHANGED <<chainVars, wire, counters, caches, retired, events, told>>

\* Variant: the most advanced surface decides.
FloorOfTheFastest == Larger(token, Larger(watermarks.chart, watermarks.trades))

\* safeRealtimeRetirementFloor(), None unless every surface has a watermark.
Floor == Smaller(token, Smaller(watermarks.chart, watermarks.trades))

\* Variant: the events of the last committed block stay.
FromOn(block, list) == Filter(list, {e \in Range(list) : e.block >= block})

Above(block, list) == Filter(list, {e \in Range(list) : e.block > block})

\* The hook's first effect.
Retire ==
  /\ Floor > retired
  /\ retired' = Floor
  /\ events' = Above(Floor, events)
  /\ UNCHANGED <<chainVars, wire, counters, caches, watermarks, told>>

-----------------------------------------------------------------------------
(* Events.                                                                 *)

Ids(list) == {e.id : e \in Range(list)}
Without(id, list) == Filter(list, {e \in Range(list) : e.id # id})

\* slice(-DEDUPE_CAPACITY)
Newest(list) ==
  SubSeq(list, Larger(1, Len(list) - DedupeCapacity + 1), Len(list))

\* receive()
Received(e) ==
  CASE e.removed -> Without(e.id, events)
    [] ~e.removed /\ (e.block <= retired \/ e.id \in Ids(events)) -> events
    [] OTHER -> Newest(Append(events, e))

Receive ==
  /\ wire # <<>>
  /\ LET e == Head(wire)
         pushedOut == IF e.removed THEN {}
                      ELSE Ids(Append(events, e)) \ Ids(Received(e))
     IN  /\ events' = Received(e)
         /\ told' = IF e.removed THEN {t \in told : t.id # e.id}
                    ELSE IF e.id \in Ids(events) THEN told
                    ELSE {t \in told \cup {e} : t.id \notin pushedOut \/ e.block <= retired}
  /\ wire' = Tail(wire)
  /\ UNCHANGED <<chainVars, counters, caches, watermarks, retired>>

\* Variant: whatever the surface itself shows.
OverlayBlindly(surface) == {e \in Range(events) : e.block > Floor}

\* reconcileRealtimeTrades() of what the hook returns, for a surface.
Overlay(surface) ==
  {e \in Range(events) : e.block > Floor /\ e.block > Snapshot(surface)}

-----------------------------------------------------------------------------
Init ==
  /\ tip = 1 /\ mined = {} /\ index = 1 /\ wire = <<>>
  /\ trades = 0 /\ reorgs = 0 /\ losses = 0 /\ redeliveries = 0 /\ switches = 0
  /\ interval \in Intervals
  /\ token = None /\ chart = [i \in Intervals |-> None] /\ history = None
  /\ watermarks = [chart |-> None, trades |-> None] /\ retired = None
  /\ events = <<>> /\ told = {}

Environment == Mine \/ Reorganise \/ IndexAdvances \/ LoseWire \/ Redeliver \/ SwitchInterval
Effects == Observe("chart") \/ Observe("trades") \/ Retire
Next == \/ Environment \/ Effects \/ Receive
        \/ RefetchToken \/ RefetchChart \/ RefetchTrades

\* Polling intervals and effects recur; the wire is read.
Fairness ==
  /\ WF_vars(RefetchToken) /\ WF_vars(RefetchChart) /\ WF_vars(RefetchTrades)
  /\ WF_vars(Observe("chart")) /\ WF_vars(Observe("trades"))
  /\ WF_vars(Retire) /\ WF_vars(Receive)

Spec == Init /\ [][Next]_vars /\ Fairness

-----------------------------------------------------------------------------
Surfaces == {"token", "chart", "trades"}

Events == [id : 1..MaxTrades, block : 1..MaxHeight, removed : BOOLEAN]

\* Types of the page and its surroundings; the hook keeps DEDUPE_CAPACITY events.
TypeOK ==
  /\ tip \in 1..MaxHeight /\ mined \subseteq Events /\ index \in 1..tip
  /\ wire \in Seq(Events)
  /\ trades \in 0..MaxTrades /\ reorgs \in 0..MaxReorgs /\ losses \in 0..MaxLosses
  /\ redeliveries \in 0..MaxRedeliveries /\ switches \in 0..MaxSwitches
  /\ interval \in Intervals
  /\ token \in 0..index /\ chart \in [Intervals -> 0..index] /\ history \in 0..index
  /\ watermarks \in [chart : 0..index, trades : 0..index] /\ retired \in 0..index
  /\ events \in Seq(Events) /\ Len(events) <= DedupeCapacity
  /\ told \subseteq Events

\* A surface shows a trade the page was told, in its snapshot or laid over it.
Shows(surface, e) ==
  e.block <= Snapshot(surface) \/ e.id \in {o.id : o \in Overlay(surface)}

\* A trade was retired on the word of another of the chart's timeframes, and the
\* chart has come back to one whose cached answer is older.
OlderChart(e) ==
  e.block <= retired /\ \E i \in Intervals \ {interval} : e.block <= chart[i]

\* safeRealtimeRetirementFloor(): nothing the page was told disappears from a
\* surface before the surface, the chart at one of its timeframes, has indexed it.
SurfacesComplete ==
  \A surface \in Surfaces, e \in told :
    Snapshot(surface) # None /\ (surface = "chart" => ~OlderChart(e)) => Shows(surface, e)

\* reconcileRealtimeTrades(): no trade is counted twice, in the snapshot of a
\* surface and in what is laid over it.
NoDoubleCount ==
  \A surface \in Surfaces, e \in mined :
    e.block <= Snapshot(surface) => e.id \notin {o.id : o \in Overlay(surface)}

\* useTokenRealtimeTrades(): events whose block is indexed do not stay for good.
EventuallyRetired == []<>(\A e \in Range(events) : e.block > index)
=============================================================================
