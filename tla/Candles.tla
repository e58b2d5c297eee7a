------------------------------- MODULE Candles -------------------------------
(***************************************************************************)
(* The candles of a token's chart: as the API computes them from the        *)
(* indexed trades, and as the browser lays the live events over them.       *)
(*                                                                          *)
(* A trade is a record of its block, its time, its position on the chain    *)
(* (log) and two prices: "spot", the price of the curve or the pool after   *)
(* it, which the API uses, and "paid", what the trade cost per token, which *)
(* is all an event tells the browser.  NoPrice is a price that cannot be    *)
(* computed, because no tokens moved.                                       *)
(***************************************************************************)
EXTENDS Integers, Sequences, FiniteSets, FiniteSetsExt, Functions

NoPrice == 0

Bucket(time, size) == (time \div size) * size

Earliest(trades) == CHOOSE t \in trades : \A o \in trades : t.log <= o.log
Latest(trades)   == CHOOSE t \in trades : \A o \in trades : o.log <= t.log

Candle(open, high, low, close, count) ==
  [open |-> open, high |-> high, low |-> low, close |-> close, count |-> count]

\* chartDisplayData() and the data feed leave out a candle without prices.
complete(candle) ==
  NoPrice \notin {candle.open, candle.high, candle.low, candle.close}

\* ChartRange(): a bucket one of whose trades has no price has none either.
ApiCandle(trades) ==
  LET prices == {t.spot : t \in trades}
  IN  IF NoPrice \in prices
      THEN Candle(NoPrice, NoPrice, NoPrice, NoPrice, Cardinality(trades))
      ELSE Candle(Earliest(trades).spot, Max(prices), Min(prices),
                  Latest(trades).spot, Cardinality(trades))

Canonical(trades, size) ==
  [b \in {Bucket(t.time, size) : t \in trades} |->
     ApiCandle({t \in trades : Bucket(t.time, size) = b})]

-----------------------------------------------------------------------------
(* The overlay.                                                            *)

\* Variant: the timestamp alone.
byTimestamp(a, b) == a.time < b.time \/ (a.time = b.time /\ a.log >= b.log)

\* A log index orders the trades of one block; "log" orders all of them.
chainOrder(a, b) ==
  \/ a.time < b.time
  \/ a.time = b.time /\ a.block < b.block
  \/ a.time = b.time /\ a.block = b.block /\ a.log <= b.log

\* Array.sort(): a member that comes after i of them, itself included, is the i-th.
InOrder(S, upTo) ==
  [i \in 1..Cardinality(S) |-> CHOOSE x \in S : Cardinality(upTo[x]) = i]

\* reconcileRealtimeTrades(): what a snapshot does not contain, in order.
reconcileRealtimeTrades(events, indexedThroughBlock) ==
  LET fresh == {e \in events : e.block > indexedThroughBlock}
  IN  InOrder(fresh, [e \in fresh |-> {o \in fresh : chainOrder(o, e)}])

AddEvent(current, price) ==
  Candle(IF current.open = NoPrice THEN price ELSE current.open,
         IF current.high = NoPrice \/ current.high < price THEN price ELSE current.high,
         IF current.low = NoPrice \/ current.low > price THEN price ELSE current.low,
         price, current.count + 1)

Lay(buckets, event, size) ==
  LET b == Bucket(event.time, size)
  IN  CASE event.paid = NoPrice -> buckets
        [] event.paid # NoPrice /\ b \notin DOMAIN buckets ->
             [x \in DOMAIN buckets \cup {b} |->
                IF x = b THEN Candle(event.paid, event.paid, event.paid, event.paid, 1)
                ELSE buckets[x]]
        [] OTHER -> [buckets EXCEPT ![b] = AddEvent(@, event.paid)]

overlayCandles(canonical, events, size) ==
  LET laid[n \in 0..Len(events)] ==
        IF n = 0 THEN canonical ELSE Lay(laid[n - 1], events[n], size)
  IN  laid[Len(events)]

\* The candles that are shown, by bucket, and their buckets in order.
Shown(candles) ==
  [b \in {x \in DOMAIN candles : complete(candles[x])} |-> candles[b]]
Starts(candles) ==
  InOrder(DOMAIN candles,
          [b \in DOMAIN candles |-> {x \in DOMAIN candles : x <= b}])

-----------------------------------------------------------------------------
\* What the overlay ought to show: in each bucket the trades of the snapshot at
\* their spot price, then the live ones at the price paid; a snapshot that has no
\* price for a bucket leaves it to the live trades.
Expected(indexed, live, size) ==
  LET priced  == {t \in live : t.paid # NoPrice}
      In(S, b) == {t \in S : Bucket(t.time, size) = b}
      Told(b) == LET old == In(indexed, b)
                 IN  IF \E t \in old : t.spot = NoPrice THEN {} ELSE old
      Price(t) == IF t \in indexed THEN t.spot ELSE t.paid
      Of(b) == LET all == Told(b) \cup In(priced, b)
                   prices == {Price(t) : t \in all}
               IN  Candle(Price(Earliest(all)), Max(prices), Min(prices),
                          Price(Latest(all)),
                          Cardinality(In(indexed, b) \cup In(priced, b)))
      known == {Bucket(t.time, size) : t \in indexed \cup priced}
  IN  [b \in {x \in known : Told(x) \cup In(priced, x) # {}} |-> Of(b)]
=============================================================================
