---------------------------- MODULE Client_proofs ----------------------------
(***************************************************************************)
(* Theorems about the web client's chart (TokenChart, Candles) and wallet   *)
(* session (WalletSession).                                                 *)
(*                                                                          *)
(* The chart: what the overlay of live events shows is compared with a      *)
(* definition that knows no order of laying (Expected), by following the    *)
(* events as they are laid, one candle at a time; the rest is that a chain  *)
(* keeps its order and an answer stays true of it.                          *)
(* The wallet: what the page asks it to sign, and how a switch of the       *)
(* network ends, for any accounts, chains, settings and any number of       *)
(* changes the user makes in the wallet.                                    *)
(***************************************************************************)
EXTENDS TokenChart, WalletSession, FiniteSetTheorems, WellFoundedInduction, TLAPS

-----------------------------------------------------------------------------
(* Numbers and finite sets.                                                *)

\* Of numbers, one is the least: with it a claim about every number is proved of a
\* smallest counterexample.
LEMMA LeastNat ==
  ASSUME NEW T \in SUBSET Nat, T # {}
  PROVE  \E n \in T : \A m \in T : n <= m
<1>1. IsWellFoundedOn(OpToRel(<,Nat), Nat)
  BY NatLessThanWellFounded
<1>2. PICK x \in T : \A y \in T : ~ (<<y, x>> \in OpToRel(<,Nat))
  BY <1>1, WFMin
<1>3. \A y \in T : ~(y < x)
  BY <1>2 DEF OpToRel
<1> QED BY <1>3

\* A number for each member of a finite set: one of them is the greatest.
LEMMA HasGreatest ==
  ASSUME NEW S, IsFiniteSet(S), S # {}, NEW f \in [S -> Nat]
  PROVE  \E x \in S : \A y \in S : f[y] <= f[x]
<1> DEFINE n == Cardinality(S)
<1>1. n \in Nat /\ ExistsBijection(1..n, S)
  BY FS_CardinalityType
<1>2. PICK g \in Bijection(1..n, S) : TRUE
  BY <1>1 DEF ExistsBijection
<1>3. g \in [1..n -> S] /\ \A x \in S : \E i \in 1..n : g[i] = x
  BY <1>2 DEF Bijection, Surjection, Injection
<1> HIDE DEF n
<1> DEFINE Top(k) == \E x \in S : \A i \in 1..k : f[g[i]] <= f[x]
           Bad == {k \in 0..n : ~Top(k)}
<1>4. Top(0)
  <2>1. 1..0 = {}
    OBVIOUS
  <2> QED BY <2>1
<1>5. ASSUME NEW k \in 1..n, Top(k - 1) PROVE Top(k)
  <2>1. PICK x \in S : \A i \in 1..(k - 1) : f[g[i]] <= f[x]
    BY <1>5
  <2>2. \A i \in 1..k : i = k \/ i \in 1..(k - 1)
    BY <1>1
  <2>3. \A i \in 1..k : g[i] \in S /\ f[g[i]] \in Nat
    BY <1>1, <1>3
  <2>4. f[x] \in Nat /\ k \in 1..k
    BY <1>1
  <2>5. CASE f[g[k]] <= f[x]
    BY <2>1, <2>2, <2>5
  <2>6. CASE f[x] < f[g[k]]
    <3>1. \A i \in 1..k : f[g[i]] <= f[g[k]]
      BY <2>1, <2>2, <2>3, <2>4, <2>6
    <3> QED BY <2>3, <2>4, <3>1
  <2> QED BY <2>3, <2>4, <2>5, <2>6
<1>6. Bad = {}
  <2> SUFFICES ASSUME Bad # {} PROVE FALSE
    OBVIOUS
  <2>1. Bad \in SUBSET Nat
    BY <1>1
  <2>2. PICK k \in Bad : \A m \in Bad : k <= m
    <3> HIDE DEF Bad
    <3> QED BY <2>1, LeastNat
  <2>3. k # 0
    BY <1>4
  <2>4. k \in 1..n /\ k - 1 \in 0..n
    BY <1>1, <2>3
  <2>5. k - 1 \notin Bad
    <3> SUFFICES ASSUME k - 1 \in Bad PROVE FALSE
      OBVIOUS
    <3>1. k <= k - 1
      BY <2>2
    <3> QED BY <1>1, <2>4, <3>1
  <2>6. Top(k - 1)
    <3> HIDE DEF Top
    <3> QED BY <2>4, <2>5
  <2>7. Top(k)
    <3> HIDE DEF Top
    <3> QED BY <1>5, <2>4, <2>6
  <2> QED BY <2>7
<1>7. Top(n)
  <2>1. n \in 0..n
    BY <1>1
  <2> QED BY <1>6, <2>1
<1> QED BY <1>3, <1>7

\* What the operator Max chooses.
LEMMA MaxIs ==
  ASSUME NEW S \in SUBSET Int, NEW x \in S, \A y \in S : y <= x
  PROVE  Max(S) = x
<1> DEFINE m == Max(S)
<1>1. \E z \in S : \A y \in S : z >= y
  BY SMT
<1>2. m \in S /\ \A y \in S : m >= y
  BY <1>1 DEF Max
<1> HIDE DEF m
<1>3. m = x
  BY <1>2
<1> QED BY <1>3 DEF m

\* What the operator Min chooses.
LEMMA MinIs ==
  ASSUME NEW S \in SUBSET Int, NEW x \in S, \A y \in S : x <= y
  PROVE  Min(S) = x
<1> DEFINE m == Min(S)
<1>1. \E z \in S : \A y \in S : z <= y
  OBVIOUS
<1>2. m \in S /\ \A y \in S : m <= y
  BY <1>1 DEF Min
<1> HIDE DEF m
<1>3. m = x
  BY <1>2
<1> QED BY <1>3 DEF m

\* A number tells the members of a set apart, and upTo has those up to each.
Ranks(S, key, upTo) ==
  /\ IsFiniteSet(S)
  /\ key \in [S -> Nat] /\ \A x, y \in S : key[x] = key[y] => x = y
  /\ \A x \in S : upTo[x] = {o \in S : key[o] <= key[x]}

\* A list of the set, each member once and in the order of the number.
Sorted(S, key, list) ==
  /\ Cardinality(S) \in Nat
  /\ list \in Seq(S) /\ Len(list) = Cardinality(S)
  /\ \A x \in S : \E i \in 1..Len(list) : list[i] = x
  /\ \A i, j \in 1..Len(list) : i < j => key[list[i]] < key[list[j]]

\* InOrder lists the members of a set by a number that tells them apart.
LEMMA InOrderIs ==
  ASSUME NEW S, NEW key, NEW upTo, Ranks(S, key, upTo)
  PROVE  Sorted(S, key, InOrder(S, upTo))
<1> DEFINE list == InOrder(S, upTo)
<1>0. list = InOrder(S, upTo)
  OBVIOUS
<1> HIDE DEF list
<1> USE DEF Ranks
<1> DEFINE n == Cardinality(S)
           rank == [x \in S |-> Cardinality(upTo[x])]
<1>1. n \in Nat
  BY FS_CardinalityType
<1>2. \A x \in S : IsFiniteSet(upTo[x]) /\ rank[x] \in 1..n
  <2> SUFFICES ASSUME NEW x \in S PROVE IsFiniteSet(upTo[x]) /\ rank[x] \in 1..n
    OBVIOUS
  <2>1. upTo[x] \subseteq S /\ x \in upTo[x]
    OBVIOUS
  <2>2. IsFiniteSet(upTo[x]) /\ Cardinality(upTo[x]) <= n
    BY <2>1, FS_Subset
  <2>3. Cardinality(upTo[x]) \in Nat /\ Cardinality(upTo[x]) # 0
    BY <2>1, <2>2, FS_CardinalityType, FS_EmptySet
  <2>4. rank[x] = Cardinality(upTo[x])
    OBVIOUS
  <2> QED BY <1>1, <2>2, <2>3, <2>4
<1>3. \A x, y \in S : key[x] < key[y] => rank[x] < rank[y]
  <2> SUFFICES ASSUME NEW x \in S, NEW y \in S, key[x] < key[y]
               PROVE  rank[x] < rank[y]
    OBVIOUS
  <2>1. upTo[x] \subseteq upTo[y]
    <3> SUFFICES ASSUME NEW o \in S, key[o] <= key[x] PROVE key[o] <= key[y]
      OBVIOUS
    <3>1. key[o] \in Nat /\ key[x] \in Nat /\ key[y] \in Nat
      OBVIOUS
    <3> QED BY <3>1
  <2>2. y \in upTo[y] /\ y \notin upTo[x]
    <3>1. key[x] \in Nat /\ key[y] \in Nat
      OBVIOUS
    <3> QED BY <3>1
  <2>3. /\ Cardinality(upTo[x]) <= Cardinality(upTo[y])
        /\ Cardinality(upTo[x]) # Cardinality(upTo[y])
    BY <1>2, <2>1, <2>2, FS_Subset
  <2>4. /\ rank[x] = Cardinality(upTo[x]) /\ rank[y] = Cardinality(upTo[y])
        /\ rank[x] \in Nat /\ rank[y] \in Nat
    BY <1>1, <1>2
  <2> QED BY <2>3, <2>4
<1>4. rank \in Injection(S, 1..n)
  <2>1. rank \in [S -> 1..n]
    BY <1>2
  <2>2. \A x, y \in S : rank[x] = rank[y] => x = y
    <3> SUFFICES ASSUME NEW x \in S, NEW y \in S, x # y PROVE rank[x] # rank[y]
      OBVIOUS
    <3>1. key[x] < key[y] \/ key[y] < key[x]
      <4>1. key[x] \in Nat /\ key[y] \in Nat /\ key[x] # key[y]
        OBVIOUS
      <4> QED BY <4>1
    <3>2. rank[x] \in Nat /\ rank[y] \in Nat
      BY <1>1, <1>2
    <3> HIDE DEF rank
    <3> QED BY <1>3, <3>1, <3>2
  <2>3. IsInjective(rank)
    BY <2>2 DEF IsInjective
  <2> QED BY <2>1, <2>3 DEF Injection
<1>5. \A i \in 1..n : \E x \in S : rank[x] = i
  <2>1. IsFiniteSet(1..n) /\ Cardinality(1..n) = IF 1 > n THEN 0 ELSE n - 1 + 1
    BY <1>1, FS_Interval
  <2>2. Cardinality(1..n) = Cardinality(S)
    BY <1>1, <2>1
  <2> HIDE DEF rank
  <2>3. rank \in Surjection(S, 1..n)
    BY <1>4, <2>1, <2>2, FS_Injection
  <2> QED BY <2>3 DEF Surjection
<1>6. list = [i \in 1..n |-> CHOOSE x \in S : Cardinality(upTo[x]) = i]
  BY <1>0 DEF InOrder
<1>7. \A i \in 1..n : list[i] \in S /\ rank[list[i]] = i
  <2> SUFFICES ASSUME NEW i \in 1..n PROVE list[i] \in S /\ rank[list[i]] = i
    OBVIOUS
  <2>1. \E x \in S : Cardinality(upTo[x]) = i
    BY <1>5
  <2>2. list[i] \in S /\ Cardinality(upTo[list[i]]) = i
    BY <1>6, <2>1
  <2> QED BY <2>2
<1>8. list \in Seq(S) /\ Len(list) = n
  <2> HIDE DEF n
  <2>1. list \in [1..n -> S]
    BY <1>6, <1>7
  <2> QED BY <1>1, <2>1
<1> HIDE DEF rank
<1>9. \A x \in S : \E i \in 1..n : list[i] = x
  <2> SUFFICES ASSUME NEW x \in S PROVE list[rank[x]] = x
    BY <1>2
  <2>1. list[rank[x]] \in S /\ rank[list[rank[x]]] = rank[x]
    BY <1>2, <1>7
  <2> QED BY <1>4, <2>1 DEF Injection, IsInjective
<1>10. \A i, j \in 1..n : i < j => key[list[i]] < key[list[j]]
  <2> SUFFICES ASSUME NEW i \in 1..n, NEW j \in 1..n, i < j, ~(key[list[i]] < key[list[j]])
               PROVE  FALSE
    OBVIOUS
  <2>1. list[i] \in S /\ list[j] \in S /\ rank[list[i]] = i /\ rank[list[j]] = j
    BY <1>7
  <2>2. key[list[i]] \in Nat /\ key[list[j]] \in Nat
    BY <2>1
  <2>3. CASE key[list[i]] = key[list[j]]
    BY <1>1, <2>1, <2>3
  <2>4. CASE key[list[j]] < key[list[i]]
    <3>1. j < i
      BY <1>3, <2>1, <2>4
    <3> QED BY <1>1, <3>1
  <2> QED BY <2>2, <2>3, <2>4
<1> QED BY <1>1, <1>8, <1>9, <1>10 DEF Sorted, list

-----------------------------------------------------------------------------
(* The candle of a set of trades.                                          *)

\* The candle of trades that all have a price, of which a snapshot or an event tells,
\* in a bucket of n trades.
Summary(all, price, n) ==
  IF all = {} THEN Candle(NoPrice, NoPrice, NoPrice, NoPrice, n)
  ELSE LET prices == {price[t] : t \in all}
       IN  Candle(price[Earliest(all)], Max(prices), Min(prices), price[Latest(all)], n)

\* Trades in an order: every one has a position of its own.
Ordered(trades) ==
  /\ IsFiniteSet(trades)
  /\ \A t \in trades : t.log \in Nat
  /\ \A s, t \in trades : s.log = t.log => s = t

\* Some trades of an order are in it.
LEMMA OrderedSubset ==
  ASSUME NEW S, Ordered(S), NEW T \in SUBSET S
  PROVE  Ordered(T)
BY FS_Subset DEF Ordered

\* The first of some trades.
LEMMA EarliestIs ==
  ASSUME NEW S, Ordered(S), S # {}
  PROVE  Earliest(S) \in S /\ \A o \in S : Earliest(S).log <= o.log
<1> DEFINE logs == {t.log : t \in S}
<1>1. logs \in SUBSET Nat /\ logs # {}
  BY DEF Ordered
<1>2. PICK n \in logs : \A m \in logs : n <= m
  <2> HIDE DEF logs
  <2> QED BY <1>1, LeastNat
<1>3. \E t \in S : \A o \in S : t.log <= o.log
  BY <1>2
<1> QED BY <1>3 DEF Earliest

\* The last of some trades.
LEMMA LatestIs ==
  ASSUME NEW S, Ordered(S), S # {}
  PROVE  Latest(S) \in S /\ \A o \in S : o.log <= Latest(S).log
<1> DEFINE logOf == [t \in S |-> t.log]
<1>1. IsFiniteSet(S) /\ logOf \in [S -> Nat]
  BY DEF Ordered
<1>2. PICK t \in S : \A o \in S : logOf[o] <= logOf[t]
  <2> HIDE DEF logOf
  <2> QED BY <1>1, HasGreatest
<1>3. \E x \in S : \A o \in S : o.log <= x.log
  BY <1>2
<1> QED BY <1>3 DEF Latest

\* The one that none comes before.
LEMMA TheEarliest ==
  ASSUME NEW S, Ordered(S), NEW t \in S, \A o \in S : t.log <= o.log
  PROVE  Earliest(S) = t
<1>1. Earliest(S) \in S /\ Earliest(S).log <= t.log
  BY EarliestIs
<1>2. Earliest(S).log \in Nat /\ t.log \in Nat /\ t.log <= Earliest(S).log
  BY <1>1 DEF Ordered
<1>3. Earliest(S).log = t.log
  BY <1>1, <1>2
<1> QED BY <1>1, <1>3 DEF Ordered

\* The one that none comes after.
LEMMA TheLatest ==
  ASSUME NEW S, Ordered(S), NEW t \in S, \A o \in S : o.log <= t.log
  PROVE  Latest(S) = t
<1>1. Latest(S) \in S /\ t.log <= Latest(S).log
  BY LatestIs
<1>2. Latest(S).log \in Nat /\ t.log \in Nat /\ Latest(S).log <= t.log
  BY <1>1 DEF Ordered
<1>3. Latest(S).log = t.log
  BY <1>1, <1>2
<1> QED BY <1>1, <1>3 DEF Ordered

\* The highest and the lowest price are prices of the trades.
LEMMA PriceBounds ==
  ASSUME NEW S, IsFiniteSet(S), S # {}, NEW price, \A t \in S : price[t] \in Nat,
         NEW prices, prices = {price[t] : t \in S}
  PROVE  /\ Max(prices) \in prices /\ \A p \in prices : p <= Max(prices)
         /\ Min(prices) \in prices /\ \A p \in prices : Min(prices) <= p
<1> DEFINE f == [t \in S |-> price[t]]
<1>1. f \in [S -> Nat]
  OBVIOUS
<1>2. PICK x \in S : \A y \in S : f[y] <= f[x]
  <2> HIDE DEF f
  <2> QED BY <1>1, HasGreatest
<1>3. price[x] \in prices /\ \A p \in prices : p <= price[x]
  BY <1>2
<1>4. prices \in SUBSET Int /\ prices \in SUBSET Nat /\ prices # {}
  OBVIOUS
<1>5. Max(prices) = price[x]
  BY <1>3, <1>4, MaxIs
<1>6. PICK p \in prices : \A q \in prices : p <= q
  BY <1>4, LeastNat
<1>7. Min(prices) = p
  BY <1>4, <1>6, MinIs
<1> QED BY <1>3, <1>5, <1>6, <1>7

\* AddEvent() extends the candle of a bucket by an event that comes after its trades.
LEMMA AddEventIs ==
  ASSUME NEW all, NEW e, e \notin all, Ordered(all \cup {e}),
         \A s \in all : s.log <= e.log,
         NEW price, \A t \in all \cup {e} : price[t] \in Nat \ {NoPrice},
         NEW n \in Nat
  PROVE  AddEvent(Summary(all, price, n), price[e]) =
           Summary(all \cup {e}, price, n + 1)
<1> DEFINE both == all \cup {e}
           prices == {price[t] : t \in all}
           wider  == {price[t] : t \in both}
           p == price[e]
<1>1. e \in both /\ p \in Nat /\ p # 0 /\ both # {} /\ wider \in SUBSET Int
  BY DEF NoPrice
<1>2. e.log \in Nat
  BY DEF Ordered
<1>3. Latest(both) = e
  <2>1. \A o \in both : o.log <= e.log
    BY <1>2
  <2> QED BY <1>1, <2>1, TheLatest
<1>4. Summary(both, price, n + 1) =
        Candle(price[Earliest(both)], Max(wider), Min(wider), p, n + 1)
  BY <1>1, <1>3 DEF Summary
<1>5. CASE all = {}
  <2>1. both = {e} /\ wider = {p} /\ Earliest(both) \in both
    BY <1>1, <1>5, EarliestIs
  <2>2. Max(wider) = p /\ Min(wider) = p
    <3>1. p \in wider /\ \A q \in wider : q <= p /\ p <= q
      BY <1>1, <2>1
    <3> HIDE DEF wider, p
    <3> QED BY <1>1, <3>1, MaxIs, MinIs
  <2>3. Earliest(both) = e
    BY <2>1
  <2>4. Summary(all, price, n) = Candle(NoPrice, NoPrice, NoPrice, NoPrice, n)
    BY <1>5 DEF Summary
  <2>5. AddEvent(Summary(all, price, n), p) = Candle(p, p, p, p, n + 1)
    BY <2>4 DEF AddEvent, Candle
  <2> QED BY <1>4, <2>2, <2>3, <2>5
<1>6. CASE all # {}
  <2>1. Ordered(all) /\ IsFiniteSet(all)
    BY OrderedSubset DEF Ordered
  <2> DEFINE first == Earliest(all)
             high == Max(prices)
             low  == Min(prices)
  <2>2. first \in all /\ \A o \in all : first.log <= o.log
    BY <1>6, <2>1, EarliestIs
  <2>3. Earliest(both) = first
    <3>1. first \in both /\ \A o \in both : first.log <= o.log
      BY <2>2
    <3> HIDE DEF first
    <3> QED BY <3>1, TheEarliest
  <2>4. \A t \in all : price[t] \in Nat
    OBVIOUS
  <2>5. /\ high \in prices /\ \A q \in prices : q <= high
        /\ low \in prices /\ \A q \in prices : low <= q
    BY <1>6, <2>1, <2>4, PriceBounds
  <2>6. /\ price[first] # 0 /\ high \in Nat /\ high # 0 /\ low \in Nat /\ low # 0
    BY <2>2, <2>5 DEF NoPrice
  <2>7. wider = prices \cup {p} /\ prices \in SUBSET Int
    OBVIOUS
  <2> HIDE DEF first, high, low, prices, wider, p
  <2>8. Max(wider) = IF high < p THEN p ELSE high
    <3>1. CASE high < p
      <4>1. p \in wider /\ \A q \in wider : q <= p
        BY <1>1, <2>5, <2>6, <2>7, <3>1
      <4> QED BY <1>1, <3>1, <4>1, MaxIs
    <3>2. CASE ~(high < p)
      <4>1. high \in wider /\ \A q \in wider : q <= high
        BY <1>1, <2>5, <2>6, <2>7, <3>2
      <4> QED BY <1>1, <3>2, <4>1, MaxIs
    <3> QED BY <3>1, <3>2
  <2>9. Min(wider) = IF low > p THEN p ELSE low
    <3>1. CASE low > p
      <4>1. p \in wider /\ \A q \in wider : p <= q
        BY <1>1, <2>5, <2>6, <2>7, <3>1
      <4> QED BY <1>1, <3>1, <4>1, MinIs
    <3>2. CASE ~(low > p)
      <4>1. low \in wider /\ \A q \in wider : low <= q
        BY <1>1, <2>5, <2>6, <2>7, <3>2
      <4> QED BY <1>1, <3>2, <4>1, MinIs
    <3> QED BY <3>1, <3>2
  <2>10. Summary(all, price, n) = Candle(price[first], high, low, price[Latest(all)], n)
    BY <1>6 DEF Summary, first, high, low, prices
  <2>11. AddEvent(Summary(all, price, n), p) =
           Candle(price[first], IF high < p THEN p ELSE high, IF low > p THEN p ELSE low,
                  p, n + 1)
    BY <2>6, <2>10 DEF AddEvent, Candle, NoPrice
  <2> QED BY <1>4, <2>3, <2>8, <2>9, <2>11 DEF p
<1> QED BY <1>5, <1>6

\* A candle is complete just when there is a trade to tell of.
LEMMA SummaryComplete ==
  ASSUME NEW all, Ordered(all), NEW price,
         \A t \in all : price[t] \in Nat \ {NoPrice}, NEW n \in Nat
  PROVE  complete(Summary(all, price, n)) <=> all # {}
<1>1. CASE all = {}
  BY <1>1 DEF Summary, complete, Candle
<1>2. CASE all # {}
  <2> DEFINE prices == {price[t] : t \in all}
  <2>1. Earliest(all) \in all /\ Latest(all) \in all
    BY <1>2, EarliestIs, LatestIs
  <2>2. Max(prices) \in prices /\ Min(prices) \in prices
    <3>1. \A t \in all : price[t] \in Nat
      OBVIOUS
    <3>2. IsFiniteSet(all)
      BY DEF Ordered
    <3> QED BY <1>2, <3>1, <3>2, PriceBounds
  <2>3. NoPrice \notin prices
    OBVIOUS
  <2>4. Summary(all, price, n) =
          Candle(price[Earliest(all)], Max(prices), Min(prices), price[Latest(all)], n)
    BY <1>2 DEF Summary
  <2>5. price[Earliest(all)] # NoPrice /\ price[Latest(all)] # NoPrice
    BY <2>1
  <2> HIDE DEF prices
  <2> QED BY <1>2, <2>2, <2>3, <2>4, <2>5 DEF complete, Candle
<1> QED BY <1>1, <1>2

-----------------------------------------------------------------------------
(* The events as they are laid.                                            *)

\* The overlay's recursive function, with what it steps by.
LayStep(canonical, events, size, g, n) ==
  IF n = 0 THEN canonical ELSE Lay(g[n - 1], events[n], size)
Laid(canonical, events, size) ==
  CHOOSE g : g = [n \in 0..Len(events) |-> LayStep(canonical, events, size, g, n)]

\* The function exists: the one for the first n events extends to n + 1.
LEMMA LaidRec ==
  ASSUME NEW canonical, NEW events, NEW size, Len(events) \in Nat
  PROVE  \A n \in 0..Len(events) :
           Laid(canonical, events, size)[n] =
             LayStep(canonical, events, size, Laid(canonical, events, size), n)
<1> DEFINE Step(g, m) == LayStep(canonical, events, size, g, m)
           Has(n) == \E g : g = [m \in 0..n |-> Step(g, m)]
           Bad == {n \in Nat : ~Has(n)}
<1>0. \A g, h, m : m = 0 \/ g[m - 1] = h[m - 1] => Step(g, m) = Step(h, m)
  BY DEF LayStep
<1>00. \A g : Step(g, 0) = canonical
  BY DEF LayStep
<1> HIDE DEF Step
<1>1. Has(0)
  <2> DEFINE g0 == [m \in 0..0 |-> canonical]
  <2>1. g0 = [m \in 0..0 |-> Step(g0, m)]
    BY <1>00
  <2> QED BY <2>1
<1>2. ASSUME NEW n \in Nat, Has(n) PROVE Has(n + 1)
  <2>1. PICK g : g = [m \in 0..n |-> Step(g, m)]
    BY <1>2
  <2> DEFINE h == [m \in 0..(n + 1) |-> Step(g, m)]
  <2>2. \A m \in 0..n : m \in 0..(n + 1) /\ h[m] = g[m]
    BY <2>1
  <2>3. ASSUME NEW m \in 0..(n + 1) PROVE Step(g, m) = Step(h, m)
    <3>1. CASE m = 0
      BY <1>0, <3>1
    <3>2. CASE m # 0
      <4>1. m - 1 \in 0..n
        BY <3>2
      <4>2. h[m - 1] = g[m - 1]
        BY <2>2, <4>1
      <4> HIDE DEF h
      <4> QED BY <1>0, <4>2
    <3> QED BY <3>1, <3>2
  <2>4. h = [m \in 0..(n + 1) |-> Step(h, m)]
    BY <2>3
  <2> QED BY <2>4
<1> HIDE DEF Has
<1>3. Has(Len(events))
  <2> SUFFICES ASSUME Bad # {} PROVE FALSE
    OBVIOUS
  <2>1. PICK n \in Bad : \A m \in Bad : n <= m
    <3>1. Bad \in SUBSET Nat
      OBVIOUS
    <3> HIDE DEF Bad
    <3> QED BY <3>1, LeastNat
  <2>2. n # 0 /\ n - 1 \in Nat /\ n - 1 \notin Bad
    BY <1>1, <2>1
  <2>3. Has(n - 1)
    BY <2>2
  <2>4. Has((n - 1) + 1)
    BY <1>2, <2>2, <2>3
  <2>5. (n - 1) + 1 = n
    BY <2>1
  <2>6. Has(n)
    BY <2>4, <2>5
  <2> QED BY <2>1, <2>6
<1> DEFINE G == Laid(canonical, events, size)
<1>4. G = [n \in 0..Len(events) |-> Step(G, n)]
  BY <1>3 DEF Laid, Has, Step
<1> HIDE DEF G
<1>5. \A n \in 0..Len(events) : G[n] = Step(G, n)
  BY <1>4
<1> QED BY <1>5 DEF G, Step

\* The model's overlay is the function's last value.
LEMMA OverlayIsLaid ==
  ASSUME NEW canonical, NEW events, NEW size
  PROVE  overlayCandles(canonical, events, size) =
           Laid(canonical, events, size)[Len(events)]
BY DEF overlayCandles, Laid, LayStep

\* Of the trades S, those in a bucket; what a snapshot of them tells of it.
InBucket(S, size, b) == {t \in S : Bucket(t.time, size) = b}
ToldOf(old, size, b) ==
  IF \E t \in InBucket(old, size, b) : t.spot = NoPrice THEN {}
  ELSE InBucket(old, size, b)

\* The price at which a trade is shown.
PriceOf(old, fresh) ==
  [t \in old \cup fresh |-> IF t \in old THEN t.spot ELSE t.paid]

\* The candles of a snapshot and some priced events after it.
CandlesOf(old, some, size, price) ==
  [b \in {Bucket(t.time, size) : t \in old \cup some} |->
     Summary(ToldOf(old, size, b) \cup InBucket(some, size, b), price,
             Cardinality(InBucket(old \cup some, size, b)))]

\* Trades of a chain, some of which a snapshot knows and the later ones it does not.
Parted(old, fresh) ==
  /\ Ordered(old \cup fresh)
  /\ \A t \in old \cup fresh : t.spot \in Nat /\ t.paid \in Nat
  /\ \A s \in old, t \in fresh : s.log < t.log

\* A snapshot alone.
LEMMA CanonicalIs ==
  ASSUME NEW old, NEW fresh, Parted(old, fresh), NEW size
  PROVE  Canonical(old, size) = CandlesOf(old, {}, size, PriceOf(old, fresh))
<1> DEFINE price == PriceOf(old, fresh)
           D == {Bucket(t.time, size) : t \in old}
<1>1. ASSUME NEW b \in D
      PROVE  ApiCandle(InBucket(old, size, b)) =
               Summary(ToldOf(old, size, b), price, Cardinality(InBucket(old, size, b)))
  <2> DEFINE S == InBucket(old, size, b)
             prices == {t.spot : t \in S}
             n == Cardinality(S)
  <2>1. S # {} /\ S \subseteq old
    BY <1>1 DEF InBucket
  <2>2. Ordered(S)
    <3>1. S \in SUBSET (old \cup fresh)
      BY <2>1
    <3> HIDE DEF S
    <3> QED BY <3>1, OrderedSubset DEF Parted
  <2>3. \A t \in S : price[t] = t.spot
    BY <2>1 DEF PriceOf
  <2>4. prices = {price[t] : t \in S}
    BY <2>3
  <2>5. CASE NoPrice \in prices
    <3>1. ToldOf(old, size, b) = {}
      BY <2>5 DEF ToldOf
    <3>2. ApiCandle(S) = Candle(NoPrice, NoPrice, NoPrice, NoPrice, n)
      <4> HIDE DEF S
      <4> QED BY <2>5 DEF ApiCandle
    <3> QED BY <3>1, <3>2 DEF Summary
  <2>6. CASE NoPrice \notin prices
    <3>1. ToldOf(old, size, b) = S
      BY <2>6 DEF ToldOf
    <3>2. Earliest(S) \in S /\ Latest(S) \in S
      <4> HIDE DEF S
      <4> QED BY <2>1, <2>2, EarliestIs, LatestIs
    <3>3. price[Earliest(S)] = Earliest(S).spot /\ price[Latest(S)] = Latest(S).spot
      <4> HIDE DEF S, price
      <4> QED BY <2>3, <3>2
    <3>4. ApiCandle(S) = Candle(Earliest(S).spot, Max(prices), Min(prices),
                                Latest(S).spot, n)
      <4> HIDE DEF S
      <4> QED BY <2>6 DEF ApiCandle
    <3>5. Summary(S, price, n) =
            Candle(price[Earliest(S)], Max({price[t] : t \in S}),
                   Min({price[t] : t \in S}), price[Latest(S)], n)
      <4> HIDE DEF S, price, n
      <4> QED BY <2>1 DEF Summary
    <3> HIDE DEF S, price, prices, n
    <3> QED BY <2>4, <3>1, <3>3, <3>4, <3>5 DEF n, S
  <2> QED BY <2>5, <2>6
<1>2. old \cup {} = old /\ \A b : InBucket({}, size, b) = {}
  BY DEF InBucket
<1>3. Canonical(old, size) = [b \in D |-> ApiCandle(InBucket(old, size, b))]
  BY DEF Canonical, InBucket
<1>4. CandlesOf(old, {}, size, price) =
        [b \in D |-> Summary(ToldOf(old, size, b), price,
                             Cardinality(InBucket(old, size, b)))]
  <2> HIDE DEF price
  <2>1. \A b : ToldOf(old, size, b) \cup InBucket({}, size, b) = ToldOf(old, size, b)
    BY <1>2
  <2>2. \A b : InBucket(old \cup {}, size, b) = InBucket(old, size, b)
    BY <1>2
  <2> QED BY <1>2, <2>1, <2>2 DEF CandlesOf
<1> HIDE DEF price, D
<1>5. Canonical(old, size) = CandlesOf(old, {}, size, price)
  BY <1>1, <1>3, <1>4
<1> QED BY <1>5 DEF price

\* The trades that a candle tells of have prices.
LEMMA ToldHavePrices ==
  ASSUME NEW old, NEW fresh, Parted(old, fresh), NEW some \in SUBSET fresh,
         \A t \in some : t.paid # NoPrice, NEW size, NEW b
  PROVE  /\ ToldOf(old, size, b) \cup InBucket(some, size, b) \subseteq old \cup some
         /\ \A t \in ToldOf(old, size, b) \cup InBucket(some, size, b) :
              PriceOf(old, fresh)[t] \in Nat \ {NoPrice}
<1>1. \A t \in ToldOf(old, size, b) : t \in old /\ t.spot # NoPrice
  BY DEF ToldOf, InBucket
<1>2. \A t \in InBucket(some, size, b) : t \in some
  BY DEF InBucket
<1>3. \A t \in old : t.spot # NoPrice => PriceOf(old, fresh)[t] \in Nat \ {NoPrice}
  BY DEF PriceOf, Parted
<1>4. \A t \in some : t \notin old
  <2> SUFFICES ASSUME NEW t \in some, t \in old PROVE FALSE
    OBVIOUS
  <2>1. t.log < t.log /\ t.log \in Nat
    BY DEF Parted, Ordered
  <2> QED BY <2>1
<1>5. \A t \in some : PriceOf(old, fresh)[t] \in Nat \ {NoPrice}
  BY <1>4 DEF PriceOf, Parted
<1> QED BY <1>1, <1>2, <1>3, <1>5

\* An event that comes after those laid already.
LEMMA LayIs ==
  ASSUME NEW old, NEW fresh, Parted(old, fresh), NEW some \in SUBSET fresh,
         \A t \in some : t.paid # NoPrice, NEW size,
         NEW e \in fresh, e.paid # NoPrice, \A s \in some : s.log < e.log
  PROVE  Lay(CandlesOf(old, some, size, PriceOf(old, fresh)), e, size) =
           CandlesOf(old, some \cup {e}, size, PriceOf(old, fresh))
<1> DEFINE price == PriceOf(old, fresh)
           both == some \cup {e}
           b0 == Bucket(e.time, size)
           D == {Bucket(t.time, size) : t \in old \cup some}
           D2 == {Bucket(t.time, size) : t \in old \cup both}
           all == ToldOf(old, size, b0) \cup InBucket(some, size, b0)
           part == InBucket(old \cup some, size, b0)
           n == Cardinality(part)
           Of(b) == Summary(ToldOf(old, size, b) \cup InBucket(some, size, b), price,
                            Cardinality(InBucket(old \cup some, size, b)))
           Of2(b) == Summary(ToldOf(old, size, b) \cup InBucket(both, size, b), price,
                             Cardinality(InBucket(old \cup both, size, b)))
<1>1. D2 = D \cup {b0}
  OBVIOUS
<1>2. \A b : b # b0 => Of2(b) = Of(b)
  <2> SUFFICES ASSUME NEW b, b # b0 PROVE Of2(b) = Of(b)
    OBVIOUS
  <2>1. InBucket(both, size, b) = InBucket(some, size, b)
    BY DEF InBucket
  <2>2. InBucket(old \cup both, size, b) = InBucket(old \cup some, size, b)
    BY DEF InBucket
  <2> HIDE DEF both
  <2> QED BY <2>1, <2>2
<1>3. e.log \in Nat /\ \A s \in old \cup some : s.log \in Nat /\ s.log < e.log
  BY DEF Parted, Ordered
<1>4. e \notin old \cup some
  BY <1>3
<1>5. price[e] = e.paid
  BY <1>4 DEF PriceOf
<1>6. e.paid \in Nat \ {NoPrice}
  BY DEF Parted
<1>7. /\ all \subseteq old \cup some
      /\ \A t \in all : price[t] \in Nat \ {NoPrice}
  BY ToldHavePrices
<1>8. Of2(b0) = AddEvent(Of(b0), e.paid)
  <2>1. all \cup {e} = ToldOf(old, size, b0) \cup InBucket(both, size, b0)
    BY DEF InBucket
  <2>2. InBucket(old \cup both, size, b0) = part \cup {e}
    BY DEF InBucket
  <2>3. part \subseteq old \cup fresh /\ IsFiniteSet(old \cup fresh)
    BY DEF InBucket, Parted, Ordered
  <2>4. IsFiniteSet(part) /\ e \notin part
    BY <1>4, <2>3, FS_Subset DEF InBucket
  <2>5. n \in Nat /\ Cardinality(part \cup {e}) = n + 1
    BY <2>4, FS_AddElement, FS_CardinalityType
  <2>6. Ordered(all \cup {e})
    <3>1. all \cup {e} \in SUBSET (old \cup fresh)
      BY <1>7
    <3> HIDE DEF all
    <3> QED BY <3>1, OrderedSubset DEF Parted
  <2>7. e \notin all /\ \A s \in all : s.log <= e.log
    BY <1>3, <1>4, <1>7
  <2>8. \A t \in all \cup {e} : price[t] \in Nat \ {NoPrice}
    BY <1>5, <1>6, <1>7
  <2>9. AddEvent(Summary(all, price, n), price[e]) = Summary(all \cup {e}, price, n + 1)
    <3> HIDE DEF all, price, n
    <3> QED BY <2>5, <2>6, <2>7, <2>8, AddEventIs
  <2> HIDE DEF price, n
  <2>10. Of2(b0) = Summary(all \cup {e}, price, n + 1)
    BY <2>1, <2>2, <2>5 DEF n
  <2> QED BY <1>5, <2>9, <2>10 DEF n
<1>9. CandlesOf(old, some, size, price) = [b \in D |-> Of(b)]
  BY DEF CandlesOf
<1>10. CandlesOf(old, both, size, price) = [b \in D2 |-> Of2(b)]
  BY DEF CandlesOf
<1>11. CASE b0 \in D
  <2>1. Lay([b \in D |-> Of(b)], e, size) =
          [[b \in D |-> Of(b)] EXCEPT ![b0] = AddEvent(@, e.paid)]
    <3> HIDE DEF D, Of
    <3> QED BY <1>6, <1>11 DEF Lay
  <2> HIDE DEF price, D, D2, Of, Of2, b0
  <2>2. D2 = D
    BY <1>1, <1>11
  <2>3. [[b \in D |-> Of(b)] EXCEPT ![b0] = AddEvent(@, e.paid)] = [b \in D2 |-> Of2(b)]
    BY <1>2, <1>8, <1>11, <2>2
  <2> HIDE DEF both
  <2>4. Lay(CandlesOf(old, some, size, price), e, size) = CandlesOf(old, both, size, price)
    BY <1>9, <1>10, <2>1, <2>3
  <2> QED BY <2>4 DEF price, both
<1>12. CASE b0 \notin D
  <2>1. part = {}
    BY <1>12 DEF InBucket
  <2>2. all = {}
    BY <1>12 DEF InBucket, ToldOf
  <2>3. n = 0
    BY <2>1, FS_EmptySet
  <2>4. Of(b0) = Summary({}, price, 0)
    <3> HIDE DEF price
    <3> QED BY <2>2, <2>3
  <2>5. Of2(b0) = Candle(e.paid, e.paid, e.paid, e.paid, 1)
    <3> HIDE DEF Of, Of2, price
    <3>1. Of(b0) = Candle(NoPrice, NoPrice, NoPrice, NoPrice, 0)
      BY <2>4 DEF Summary
    <3> QED BY <1>8, <3>1 DEF AddEvent, Candle
  <2>6. Lay([b \in D |-> Of(b)], e, size) =
          [x \in D \cup {b0} |->
             IF x = b0 THEN Candle(e.paid, e.paid, e.paid, e.paid, 1)
             ELSE [b \in D |-> Of(b)][x]]
    <3> HIDE DEF D, Of
    <3> QED BY <1>6, <1>12 DEF Lay
  <2> HIDE DEF price, D, D2, Of, Of2, b0
  <2>7. Lay([b \in D |-> Of(b)], e, size) = [b \in D2 |-> Of2(b)]
    <3>1. \A x \in D2 : Of2(x) =
            IF x = b0 THEN Candle(e.paid, e.paid, e.paid, e.paid, 1)
            ELSE [b \in D |-> Of(b)][x]
      BY <1>1, <1>2, <2>5
    <3> QED BY <1>1, <2>6, <3>1
  <2> HIDE DEF both
  <2>8. Lay(CandlesOf(old, some, size, price), e, size) = CandlesOf(old, both, size, price)
    BY <1>9, <1>10, <2>7
  <2> QED BY <2>8 DEF price, both
<1> QED BY <1>11, <1>12

\* The events that have a price, of the first k of a list.
PricedUpTo(list, k) == {list[i] : i \in {j \in 1..k : list[j].paid # NoPrice}}

\* With every event of the list laid, the candles are those of the snapshot and the
\* priced events: a smallest number of events for which they are not is refuted by LayIs.
LEMMA OverlayIsCandles ==
  ASSUME NEW old, NEW fresh, Parted(old, fresh), NEW size,
         NEW list \in Seq(fresh),
         \A i, j \in 1..Len(list) : i < j => list[i].log < list[j].log
  PROVE  overlayCandles(Canonical(old, size), list, size) =
           CandlesOf(old, PricedUpTo(list, Len(list)), size, PriceOf(old, fresh))
<1> DEFINE price == PriceOf(old, fresh)
           n == Len(list)
           laid == Laid(Canonical(old, size), list, size)
           Good(k) == laid[k] = CandlesOf(old, PricedUpTo(list, k), size, price)
           Bad == {k \in 0..n : ~Good(k)}
<1>1. n \in Nat /\ \A i \in 1..n : list[i] \in fresh
  OBVIOUS
<1>2. \A k \in 0..n : laid[k] = LayStep(Canonical(old, size), list, size, laid, k)
  BY LaidRec
<1> HIDE DEF laid, n
<1>3. Good(0)
  <2>1. PricedUpTo(list, 0) = {}
    BY DEF PricedUpTo
  <2>2. laid[0] = Canonical(old, size)
    BY <1>1, <1>2 DEF LayStep
  <2> QED BY <2>1, <2>2, CanonicalIs
<1>4. ASSUME NEW k \in 1..n, Good(k - 1) PROVE Good(k)
  <2> DEFINE e == list[k]
             some == PricedUpTo(list, k - 1)
  <2>1. k \in Nat /\ k - 1 \in Nat /\ k # 0 /\ k \in 0..n /\ k - 1 < k /\ k - 1 <= n
    BY <1>1
  <2>2. laid[k] = Lay(laid[k - 1], e, size)
    BY <1>2, <2>1 DEF LayStep
  <2>3. laid[k - 1] = CandlesOf(old, some, size, price)
    BY <1>4
  <2>4. e \in fresh
    BY <1>1
  <2>5. CASE e.paid = NoPrice
    <3>1. PricedUpTo(list, k) = some
      BY <2>1, <2>5 DEF PricedUpTo
    <3>2. Lay(laid[k - 1], e, size) = laid[k - 1]
      BY <2>5 DEF Lay
    <3> QED BY <2>2, <2>3, <3>1, <3>2
  <2>6. CASE e.paid # NoPrice
    <3>1. PricedUpTo(list, k) = some \cup {e}
      <4>1. \A i : i \in 1..k <=> (i \in 1..(k - 1) \/ i = k)
        BY <2>1
      <4> QED BY <2>6, <4>1 DEF PricedUpTo
    <3>2. some \in SUBSET fresh /\ \A t \in some : t.paid # NoPrice
      BY <1>1, <2>1 DEF PricedUpTo
    <3>3. \A s \in some : s.log < e.log
      <4>1. \A i \in 1..(k - 1) : list[i].log < list[k].log
        BY <1>1, <2>1 DEF n
      <4> QED BY <4>1 DEF PricedUpTo
    <3> HIDE DEF e, some
    <3>4. Lay(CandlesOf(old, some, size, PriceOf(old, fresh)), e, size) =
            CandlesOf(old, some \cup {e}, size, PriceOf(old, fresh))
      BY <2>4, <2>6, <3>2, <3>3, LayIs
    <3> QED BY <2>2, <2>3, <3>1, <3>4
  <2> QED BY <2>5, <2>6
<1>5. Bad = {}
  <2> SUFFICES ASSUME Bad # {} PROVE FALSE
    OBVIOUS
  <2> HIDE DEF Good
  <2>1. PICK k \in Bad : \A m \in Bad : k <= m
    <3>1. Bad \in SUBSET Nat
      BY <1>1
    <3> HIDE DEF Bad
    <3> QED BY <3>1, LeastNat
  <2>2. k \in 1..n /\ k - 1 \in 0..n /\ ~(k <= k - 1)
    BY <1>1, <1>3
  <2>3. Good(k - 1)
    BY <2>1, <2>2
  <2> QED BY <1>4, <2>1, <2>2, <2>3
<1>6. Good(n)
  <2>1. n \in 0..n
    BY <1>1
  <2> QED BY <1>5, <2>1
<1> QED BY <1>6, OverlayIsLaid DEF n, laid

\* What is complete among the candles is what the overlay ought to show.
LEMMA ShownIsExpected ==
  ASSUME NEW old, NEW fresh, Parted(old, fresh), NEW size,
         NEW priced, priced = {t \in fresh : t.paid # NoPrice}
  PROVE  Shown(CandlesOf(old, priced, size, PriceOf(old, fresh))) =
           Expected(old, fresh, size)
<1> DEFINE price == PriceOf(old, fresh)
           known == {Bucket(t.time, size) : t \in old \cup priced}
           All(b) == ToldOf(old, size, b) \cup InBucket(priced, size, b)
           N(b) == Cardinality(InBucket(old \cup priced, size, b))
           Price(t) == IF t \in old THEN t.spot ELSE t.paid
           prices(b) == {Price(t) : t \in All(b)}
           Of(b) == Candle(Price(Earliest(All(b))), Max(prices(b)), Min(prices(b)),
                           Price(Latest(All(b))), N(b))
           candles == CandlesOf(old, priced, size, price)
<1>1. candles = [b \in known |-> Summary(All(b), price, N(b))]
  BY DEF CandlesOf
<1>2. priced \in SUBSET fresh /\ \A t \in priced : t.paid # NoPrice
  OBVIOUS
<1>3. ASSUME NEW b \in known
      PROVE  /\ complete(Summary(All(b), price, N(b))) <=> All(b) # {}
             /\ All(b) # {} => Summary(All(b), price, N(b)) = Of(b)
  <2> DEFINE S == All(b)
             part == InBucket(old \cup priced, size, b)
  <2>1. S \subseteq old \cup priced /\ \A t \in S : price[t] \in Nat \ {NoPrice}
    <3> HIDE DEF known
    <3>1. /\ ToldOf(old, size, b) \cup InBucket(priced, size, b) \subseteq old \cup priced
          /\ \A t \in ToldOf(old, size, b) \cup InBucket(priced, size, b) :
               PriceOf(old, fresh)[t] \in Nat \ {NoPrice}
      <4> HIDE DEF price, Price, prices, Of, N, All, candles
      <4> QED BY <1>2, ToldHavePrices
    <3> QED BY <3>1
  <2>2. Ordered(S)
    <3>1. S \in SUBSET (old \cup fresh)
      BY <1>2, <2>1
    <3> HIDE DEF S
    <3> QED BY <3>1, OrderedSubset DEF Parted
  <2>3. N(b) \in Nat
    <3>1. part \subseteq old \cup fresh /\ IsFiniteSet(old \cup fresh)
      BY <1>2 DEF InBucket, Parted, Ordered
    <3>2. IsFiniteSet(part)
      BY <3>1, FS_Subset
    <3> QED BY <3>2, FS_CardinalityType
  <2>4. \A t \in S : price[t] = Price(t)
    BY <1>2, <2>1 DEF PriceOf
  <2>5. complete(Summary(S, price, N(b))) <=> S # {}
    <3> HIDE DEF S, price, N
    <3> QED BY <2>1, <2>2, <2>3, SummaryComplete
  <2>6. ASSUME S # {} PROVE Summary(S, price, N(b)) = Of(b)
    <3>1. Earliest(S) \in S /\ Latest(S) \in S
      <4> HIDE DEF S
      <4> QED BY <2>2, <2>6, EarliestIs, LatestIs
    <3> HIDE DEF S, price, Price, N
    <3>2. price[Earliest(S)] = Price(Earliest(S)) /\ price[Latest(S)] = Price(Latest(S))
      BY <2>4, <3>1
    <3>3. {price[t] : t \in S} = {Price(t) : t \in S}
      BY <2>4
    <3>4. Summary(S, price, N(b)) =
            Candle(Price(Earliest(S)), Max({Price(t) : t \in S}),
                   Min({Price(t) : t \in S}), Price(Latest(S)), N(b))
      BY <2>6, <3>2, <3>3 DEF Summary
    <3> QED BY <3>4 DEF S
  <2> QED BY <2>5, <2>6
<1>4. Expected(old, fresh, size) = [b \in {x \in known : All(x) # {}} |-> Of(b)]
  <2>1. \A b : N(b) = Cardinality({t \in old : Bucket(t.time, size) = b}
                                    \cup {t \in priced : Bucket(t.time, size) = b})
    <3>1. \A b : InBucket(old \cup priced, size, b) =
                   {t \in old : Bucket(t.time, size) = b}
                     \cup {t \in priced : Bucket(t.time, size) = b}
      BY DEF InBucket
    <3> QED BY <3>1
  <2> HIDE DEF N
  <2>2. priced = {t \in fresh : t.paid # NoPrice}
    OBVIOUS
  <2> QED BY <2>1, <2>2 DEF Expected, ToldOf, InBucket
<1> HIDE DEF All, N, Of, known
<1>5. Shown(candles) = [b \in {x \in known : complete(candles[x])} |-> candles[b]]
  <2> HIDE DEF candles
  <2>1. DOMAIN candles = known
    BY <1>1
  <2> QED BY <2>1 DEF Shown
<1> HIDE DEF candles, price
<1>6. \A b \in known : /\ complete(candles[b]) <=> All(b) # {}
                       /\ All(b) # {} => candles[b] = Of(b)
  BY <1>1, <1>3
<1>7. {x \in known : complete(candles[x])} = {x \in known : All(x) # {}}
  BY <1>6
<1>8. Shown(candles) = Expected(old, fresh, size)
  BY <1>4, <1>5, <1>6, <1>7
<1> QED BY <1>8 DEF candles, price

\* overlayCandles() over reconcileRealtimeTrades(): the events that the snapshot does
\* not contain are laid in the order of the chain, and what is shown is every trade once.
LEMMA OverlayShows ==
  ASSUME NEW old, NEW events, NEW block, NEW fresh, NEW size,
         fresh = {e \in events : e.block > block},
         Parted(old, fresh),
         \A s, t \in fresh : chainOrder(s, t) <=> s.log <= t.log
  PROVE  Shown(overlayCandles(Canonical(old, size),
                              reconcileRealtimeTrades(events, block), size)) =
           Expected(old, fresh, size)
<1> DEFINE upTo == [e \in fresh |-> {o \in fresh : chainOrder(o, e)}]
           key == [t \in fresh |-> t.log]
           list == InOrder(fresh, upTo)
<1>1. reconcileRealtimeTrades(events, block) = list
  BY DEF reconcileRealtimeTrades
<1>2. Ordered(fresh)
  <2>1. fresh \in SUBSET (old \cup fresh)
    OBVIOUS
  <2> QED BY <2>1, OrderedSubset DEF Parted
<1>3. /\ IsFiniteSet(fresh) /\ key \in [fresh -> Nat]
      /\ \A x, y \in fresh : key[x] = key[y] => x = y
  BY <1>2 DEF Ordered
<1>4. \A x \in fresh : upTo[x] = {o \in fresh : key[o] <= key[x]}
  OBVIOUS
<1>5. Sorted(fresh, key, list)
  <2> HIDE DEF upTo, key
  <2>1. Ranks(fresh, key, upTo)
    BY <1>3, <1>4 DEF Ranks
  <2> QED BY <2>1, InOrderIs
<1>6. \A i \in 1..Len(list) : list[i] \in fresh
  <2> HIDE DEF list
  <2> QED BY <1>5 DEF Sorted
<1>7. \A i, j \in 1..Len(list) : i < j => list[i].log < list[j].log
  <2> HIDE DEF list
  <2> HIDE DEF key
  <2>1. \A i, j \in 1..Len(list) : i < j => key[list[i]] < key[list[j]]
    BY <1>5 DEF Sorted
  <2> QED BY <1>6, <2>1 DEF key
<1> HIDE DEF list, key, upTo
<1>8. PricedUpTo(list, Len(list)) = {t \in fresh : t.paid # NoPrice}
  BY <1>5, <1>6 DEF PricedUpTo, Sorted
<1>9. overlayCandles(Canonical(old, size), list, size) =
        CandlesOf(old, {t \in fresh : t.paid # NoPrice}, size, PriceOf(old, fresh))
  <2>1. list \in Seq(fresh)
    BY <1>5 DEF Sorted
  <2>2. overlayCandles(Canonical(old, size), list, size) =
          CandlesOf(old, PricedUpTo(list, Len(list)), size, PriceOf(old, fresh))
    BY <1>7, <2>1, OverlayIsCandles
  <2> QED BY <1>8, <2>2
<1> QED BY <1>1, <1>9, ShownIsExpected

-----------------------------------------------------------------------------
(* What is shown of a chain.                                               *)

TradeRecords == [block : Nat, time : Nat, log : Nat, spot : Nat, paid : Nat]

\* The trades of a chain: numbered, and no older block or time after a newer one.
IsChain(c) ==
  /\ c \in Seq(TradeRecords)
  /\ \A i \in 1..Len(c) : c[i].log = i
  /\ \A i, j \in 1..Len(c) :
       i <= j => c[i].block <= c[j].block /\ c[i].time <= c[j].time

Upto(c, block) == {t \in Range(c) : t.block <= block}
After(events, block) == {e \in events : e.block > block}

\* A chain is a finite list of trades.
LEMMA RangeOfChain ==
  ASSUME NEW c, IsChain(c)
  PROVE  /\ Len(c) \in Nat
         /\ Range(c) = {c[i] : i \in 1..Len(c)}
         /\ \A i \in 1..Len(c) : c[i] \in TradeRecords
         /\ Range(c) \subseteq TradeRecords
         /\ IsFiniteSet(Range(c))
<1>1. Len(c) \in Nat /\ DOMAIN c = 1..Len(c) /\ c \in [1..Len(c) -> TradeRecords]
  BY DEF IsChain
<1>2. Range(c) = {c[i] : i \in 1..Len(c)}
  BY <1>1 DEF Range
<1>3. \A i \in 1..Len(c) : c[i] \in TradeRecords
  BY <1>1
<1>4. IsFiniteSet(Range(c))
  <2>1. IsFiniteSet(1..Len(c))
    BY <1>1, FS_Interval
  <2>2. c \in Surjection(1..Len(c), Range(c))
    BY <1>1, <1>2 DEF Surjection
  <2> QED BY <2>1, <2>2, FS_Surjection
<1> QED BY <1>1, <1>2, <1>3, <1>4

\* The order of the positions is that of the blocks and the times.
LEMMA ChainOrders ==
  ASSUME NEW c, IsChain(c), NEW s \in Range(c), NEW t \in Range(c)
  PROVE  /\ s \in TradeRecords /\ t \in TradeRecords
         /\ s.log = t.log => s = t
         /\ s.log <= t.log => s.block <= t.block /\ s.time <= t.time
         /\ chainOrder(s, t) <=> s.log <= t.log
<1>1. PICK i \in 1..Len(c) : s = c[i]
  BY RangeOfChain
<1>2. PICK j \in 1..Len(c) : t = c[j]
  BY RangeOfChain
<1>3. s \in TradeRecords /\ t \in TradeRecords /\ Len(c) \in Nat
  BY RangeOfChain
<1>4. /\ s.log \in Nat /\ s.block \in Nat /\ s.time \in Nat
      /\ t.log \in Nat /\ t.block \in Nat /\ t.time \in Nat
  BY <1>3 DEF TradeRecords
<1>5. s.log = i /\ t.log = j
  BY <1>1, <1>2 DEF IsChain
<1>6. i <= j => s.block <= t.block /\ s.time <= t.time
  BY <1>1, <1>2 DEF IsChain
<1>7. j <= i => t.block <= s.block /\ t.time <= s.time
  BY <1>1, <1>2 DEF IsChain
<1>8. s.log = t.log => s = t
  BY <1>1, <1>2, <1>5
<1>9. chainOrder(s, t) <=> s.log <= t.log
  BY <1>3, <1>4, <1>5, <1>6, <1>7 DEF chainOrder
<1> QED BY <1>3, <1>5, <1>6, <1>8, <1>9

\* What an answer knows of a chain, and the events that it does not.
LEMMA ChainParted ==
  ASSUME NEW c, IsChain(c), NEW events \in SUBSET Range(c), NEW block \in Int,
         NEW old, old = Upto(c, block), NEW fresh, fresh = After(events, block)
  PROVE  /\ Parted(old, fresh)
         /\ \A s, t \in fresh : chainOrder(s, t) <=> s.log <= t.log
<1>1. old \subseteq Range(c) /\ fresh \subseteq Range(c)
  BY DEF Upto, After
<1>2. \A s, t \in Range(c) : s.log = t.log => s = t
  BY ChainOrders
<1>3. \A t \in Range(c) : t.log \in Nat /\ t.spot \in Nat /\ t.paid \in Nat /\ t.block \in Nat
  BY RangeOfChain DEF TradeRecords
<1>4. Ordered(old \cup fresh)
  <2>1. IsFiniteSet(Range(c))
    BY RangeOfChain
  <2>2. IsFiniteSet(old \cup fresh)
    <3>1. old \cup fresh \subseteq Range(c)
      BY <1>1
    <3> QED BY <2>1, <3>1, FS_Subset
  <2> QED BY <1>1, <1>2, <1>3, <2>2 DEF Ordered
<1>5. ASSUME NEW s \in old, NEW t \in fresh PROVE s.log < t.log
  <2>1. s \in Range(c) /\ t \in Range(c)
    BY <1>1
  <2>2. s.block <= block /\ block < t.block
    BY <1>3, <2>1 DEF Upto, After
  <2>3. t.log <= s.log => t.block <= s.block
    BY <2>1, ChainOrders
  <2> QED BY <1>3, <2>1, <2>2, <2>3
<1>6. \A s, t \in fresh : chainOrder(s, t) <=> s.log <= t.log
  BY <1>1, ChainOrders
<1> QED BY <1>1, <1>3, <1>4, <1>5, <1>6 DEF Parted

\* What a page or a feed shows, of what an answer knows and the events.
Show(old, events, block, size) ==
  Shown(overlayCandles(Canonical(old, size), reconcileRealtimeTrades(events, block), size))

\* OverlayShows for the trades of a chain.
LEMMA ShowIs ==
  ASSUME NEW c, IsChain(c), NEW events \in SUBSET Range(c), NEW block \in Int, NEW size
  PROVE  Show(Upto(c, block), events, block, size) =
           Expected(Upto(c, block), {e \in events : e.block > block}, size)
<1> DEFINE old == Upto(c, block)
           fresh == {e \in events : e.block > block}
<1>1. old = Upto(c, block) /\ fresh = After(events, block)
  BY DEF After
<1> HIDE DEF old, fresh
<1>2. Parted(old, fresh) /\ \A s, t \in fresh : chainOrder(s, t) <=> s.log <= t.log
  BY <1>1, ChainParted
<1>3. Show(old, events, block, size) = Expected(old, fresh, size)
  BY <1>1, <1>2, OverlayShows DEF Show, After
<1> QED BY <1>3 DEF old, fresh

\* The buckets that are shown.
LEMMA ShownBuckets ==
  ASSUME NEW c, IsChain(c), NEW events \in SUBSET Range(c), NEW block \in Int,
         NEW size \in Nat \ {0}, NEW candles,
         candles = Show(Upto(c, block), events, block, size)
  PROVE  IsFiniteSet(DOMAIN candles) /\ DOMAIN candles \subseteq Nat
<1> DEFINE fresh == {e \in events : e.block > block}
           priced == {t \in fresh : t.paid # NoPrice}
           some == Upto(c, block) \cup priced
           known == {Bucket(t.time, size) : t \in some}
           bucketOf == [t \in some |-> Bucket(t.time, size)]
<1>1. DOMAIN candles \subseteq known
  <2>1. candles = Expected(Upto(c, block), fresh, size)
    BY ShowIs
  <2> QED BY <2>1 DEF Expected
<1>2. some \subseteq Range(c)
  BY DEF Upto
<1>3. IsFiniteSet(some)
  <2>1. IsFiniteSet(Range(c))
    BY RangeOfChain
  <2> HIDE DEF some
  <2> QED BY <1>2, <2>1, FS_Subset
<1>4. bucketOf \in Surjection(some, known)
  BY DEF Surjection
<1>5. IsFiniteSet(known)
  <2> HIDE DEF bucketOf, known, some
  <2> QED BY <1>3, <1>4, FS_Surjection
<1>6. known \subseteq Nat
  <2> SUFFICES ASSUME NEW t \in some PROVE Bucket(t.time, size) \in Nat
    OBVIOUS
  <2>1. t.time \in Nat
    BY <1>2, RangeOfChain DEF TradeRecords
  <2>2. t.time \div size \in Nat
    BY <2>1
  <2> QED BY <2>2 DEF Bucket
<1> HIDE DEF known
<1>7. IsFiniteSet(DOMAIN candles)
  BY <1>1, <1>5, FS_Subset
<1> QED BY <1>1, <1>6, <1>7

-----------------------------------------------------------------------------
(* The chain and the answers.                                              *)

\* No block is left out: every one there is has a trade.
Gapless(c) ==
  /\ Len(c) # 0 => c[1].block <= 1
  /\ \A i \in 2..Len(c) : c[i].block <= c[i - 1].block + 1

\* The chain, the part of it that the API has indexed, and the events of the page.
ChainInv ==
  /\ IsChain(chain) /\ Gapless(chain) /\ live \subseteq Range(chain)
  /\ index \in Nat /\ index <= Tip.block

FeedFields == {"on", "size", "through", "last"}

\* Every answer, of a query or in the subscription, is one the API could give.
AnswersInv ==
  /\ interval \in Intervals
  /\ pages \in [Intervals -> Int] /\ \A size \in Intervals : pages[size] <= index
  /\ DOMAIN feed = FeedFields
  /\ feed.size \in Nat \ {0}
  /\ feed.through \in Int /\ feed.through <= index

\* The newest trade is as new as any.
LEMMA TipIs ==
  ASSUME ChainInv
  PROVE  /\ Tip.block \in Nat /\ Tip.time \in Nat
         /\ \A i \in 1..Len(chain) : chain[i].block <= Tip.block /\ chain[i].time <= Tip.time
<1>1. IsChain(chain)
  BY DEF ChainInv
<1>2. /\ Len(chain) \in Nat
      /\ \A i \in 1..Len(chain) : chain[i] \in TradeRecords
  BY <1>1, RangeOfChain
<1>3. CASE chain = <<>>
  BY <1>3 DEF Tip
<1>4. CASE chain # <<>>
  <2>1. Len(chain) \in 1..Len(chain)
    BY <1>1, <1>2, <1>4 DEF IsChain
  <2>2. \A i \in 1..Len(chain) : /\ chain[i].block <= chain[Len(chain)].block
                                 /\ chain[i].time <= chain[Len(chain)].time
    BY <1>1, <1>2, <2>1 DEF IsChain
  <2>3. Tip = chain[Len(chain)]
    BY <1>4 DEF Tip
  <2>4. Tip \in TradeRecords
    BY <1>2, <2>1, <2>3
  <2> QED BY <2>2, <2>3, <2>4 DEF TradeRecords
<1> QED BY <1>3, <1>4

\* A chain with a trade more is one.
LEMMA ChainGrows ==
  ASSUME NEW c, IsChain(c), NEW t \in TradeRecords, t.log = Len(c) + 1,
         \A i \in 1..Len(c) : c[i].block <= t.block /\ c[i].time <= t.time
  PROVE  IsChain(Append(c, t)) /\ Range(Append(c, t)) = Range(c) \cup {t}
<1> DEFINE d == Append(c, t)
           n == Len(c)
<1>1. /\ n \in Nat /\ d \in Seq(TradeRecords) /\ Len(d) = n + 1
      /\ \A i \in 1..n : d[i] = c[i]
      /\ d[n + 1] = t
  BY DEF IsChain
<1>2. \A i \in 1..n : /\ c[i].log = i /\ c[i] \in TradeRecords
                      /\ c[i].block <= t.block /\ c[i].time <= t.time
  BY RangeOfChain DEF IsChain
<1>3. \A i, j \in 1..n :
        i <= j => c[i].block <= c[j].block /\ c[i].time <= c[j].time
  BY DEF IsChain
<1>4. t.log = n + 1 /\ t.block \in Nat /\ t.time \in Nat
  BY DEF TradeRecords
<1>5. DOMAIN d = 1..(n + 1)
  BY <1>1
<1>6. Range(d) = {d[i] : i \in 1..(n + 1)} /\ Range(c) = {c[i] : i \in 1..n}
  BY <1>5, RangeOfChain DEF Range
<1> HIDE DEF d, n
<1>7. \A i : i \in 1..(n + 1) <=> i \in 1..n \/ i = n + 1
  BY <1>1
<1>8. Range(d) = Range(c) \cup {t}
  BY <1>1, <1>6, <1>7
<1>9. \A i \in 1..Len(d) : d[i].log = i
  BY <1>1, <1>2, <1>4, <1>7
<1>10. ASSUME NEW i \in 1..Len(d), NEW j \in 1..Len(d), i <= j
       PROVE  d[i].block <= d[j].block /\ d[i].time <= d[j].time
  <2>1. CASE j \in 1..n
    <3>1. i \in 1..n
      BY <1>1, <1>10, <2>1
    <3> QED BY <1>1, <1>3, <1>10, <2>1, <3>1
  <2>2. CASE j = n + 1 /\ i \in 1..n
    BY <1>1, <1>2, <2>2
  <2>3. CASE j = n + 1 /\ i = n + 1
    BY <1>1, <1>4, <2>3
  <2> QED BY <1>1, <1>7, <2>1, <2>2, <2>3
<1>11. IsChain(d)
  BY <1>1, <1>9, <1>10 DEF IsChain
<1> QED BY <1>8, <1>11 DEF d

\* The beginning of a chain is one.
LEMMA ChainShrinks ==
  ASSUME NEW c, IsChain(c), NEW k \in 0..Len(c)
  PROVE  /\ IsChain(SubSeq(c, 1, k)) /\ Len(SubSeq(c, 1, k)) = k
         /\ \A i \in 1..k : SubSeq(c, 1, k)[i] = c[i]
         /\ Range(SubSeq(c, 1, k)) = {c[i] : i \in 1..k}
<1> DEFINE d == SubSeq(c, 1, k)
<1>1. Len(c) \in Nat /\ c \in Seq(TradeRecords) /\ k \in Nat /\ k <= Len(c)
  BY DEF IsChain
<1>2. d \in Seq(TradeRecords) /\ Len(d) = k /\ \A i \in 1..k : d[i] = c[i]
  BY <1>1
<1>3. \A i \in 1..k : i \in 1..Len(c)
  BY <1>1
<1>4. DOMAIN d = 1..k
  BY <1>2
<1> HIDE DEF d
<1>5. Range(d) = {c[i] : i \in 1..k}
  BY <1>2, <1>4 DEF Range
<1>6. IsChain(d)
  BY <1>2, <1>3 DEF IsChain
<1> QED BY <1>2, <1>5, <1>6 DEF d

\* An indexed trade is not replaced and no trade is mined below it.
Steady == \A block \in Int : block <= index => Upto(chain', block) = Upto(chain, block)

\* It holds of every history that a token may have.
LEMMA ChainInit == ChartInit => ChainInv /\ AnswersInv
<1> SUFFICES ASSUME ChartInit PROVE ChainInv /\ AnswersInv
  OBVIOUS
<1>1. PICK past \in Pasts :
        /\ chain = [i \in DOMAIN past |-> Trade(i, past[i], i, <<1, 1>>)]
        /\ index = Len(past)
  BY DEF ChartInit
<1>2. /\ past \in Seq(Nat)
      /\ \A i, j \in DOMAIN past : i <= j => past[i] <= past[j]
  BY ChartAssumption DEF ChartAssumption
<1>3. Len(past) \in Nat /\ DOMAIN past = 1..Len(past) /\ \A i \in 1..Len(past) : past[i] \in Nat
  BY <1>2
<1>4. \A i \in 1..Len(past) :
        Trade(i, past[i], i, <<1, 1>>) =
          [block |-> i, time |-> past[i], log |-> i, spot |-> 1, paid |-> 1]
  BY DEF Trade
<1>5. \A i \in 1..Len(past) : Trade(i, past[i], i, <<1, 1>>) \in TradeRecords
  <2> SUFFICES ASSUME NEW i \in 1..Len(past)
               PROVE  Trade(i, past[i], i, <<1, 1>>) \in TradeRecords
    OBVIOUS
  <2>1. i \in Nat /\ past[i] \in Nat /\ 1 \in Nat
    BY <1>3
  <2>2. [block |-> i, time |-> past[i], log |-> i, spot |-> 1, paid |-> 1] \in TradeRecords
    BY <2>1 DEF TradeRecords
  <2> QED BY <1>4, <2>2
<1>6. chain \in [1..Len(past) -> TradeRecords]
  BY <1>1, <1>3, <1>5
<1>7. chain \in Seq(TradeRecords) /\ Len(chain) = Len(past)
  BY <1>3, <1>6
<1>8. \A i \in 1..Len(past) :
        chain[i].block = i /\ chain[i].time = past[i] /\ chain[i].log = i
  <2> SUFFICES ASSUME NEW i \in 1..Len(past)
               PROVE  chain[i].block = i /\ chain[i].time = past[i] /\ chain[i].log = i
    OBVIOUS
  <2>1. chain[i] = Trade(i, past[i], i, <<1, 1>>)
    BY <1>1, <1>3
  <2>2. Trade(i, past[i], i, <<1, 1>>) =
          [block |-> i, time |-> past[i], log |-> i, spot |-> 1, paid |-> 1]
    BY <1>4
  <2> QED BY <2>1, <2>2
<1>9. IsChain(chain)
  <2>1. \A i, j \in 1..Len(past) :
          i <= j => chain[i].block <= chain[j].block /\ chain[i].time <= chain[j].time
    BY <1>2, <1>3, <1>8
  <2> QED BY <1>7, <1>8, <2>1 DEF IsChain
<1>10. Tip.block = Len(past)
  <2>1. CASE chain = <<>>
    BY <1>7, <2>1 DEF Tip
  <2>2. CASE chain # <<>>
    <3>1. Len(past) \in 1..Len(past)
      BY <1>3, <1>7, <2>2
    <3>2. Tip = chain[Len(past)]
      BY <1>7, <2>2 DEF Tip
    <3> QED BY <1>8, <3>1, <3>2
  <2> QED BY <2>1, <2>2
<1>11. ChainInv
  <2>1. Gapless(chain)
    BY <1>3, <1>7, <1>8 DEF Gapless
  <2> QED BY <1>1, <1>3, <1>9, <1>10, <2>1 DEF ChainInv, ChartInit
<1>12. AnswersInv
  BY <1>1, <1>3 DEF ChartInit, AnswersInv, NoFeed, Absent, FeedFields
<1> QED BY <1>11, <1>12

\* A trade is mined above what is indexed.
LEMMA MineKeeps ==
  ASSUME ChainInv, Mine
  PROVE  ChainInv' /\ Steady
<1>1. PICK step \in {-1} \cup Steps, price \in Prices :
        /\ step = -1 => Tip.block > index
        /\ chain' = Append(chain,
             Trade(IF step = -1 THEN Tip.block ELSE Tip.block + 1,
                   IF step = -1 THEN Tip.time ELSE Tip.time + step,
                   Len(chain) + 1, price))
  BY DEF Mine
<1>2. live' = live /\ index' = index
  BY DEF Mine
<1> DEFINE block == IF step = -1 THEN Tip.block ELSE Tip.block + 1
           time == IF step = -1 THEN Tip.time ELSE Tip.time + step
           t == Trade(block, time, Len(chain) + 1, price)
<1>3. /\ Tip.block \in Nat /\ Tip.time \in Nat /\ index \in Nat /\ index <= Tip.block
      /\ \A i \in 1..Len(chain) : chain[i].block <= Tip.block /\ chain[i].time <= Tip.time
  BY TipIs DEF ChainInv
<1>4. IsChain(chain) /\ Len(chain) \in Nat
  BY RangeOfChain DEF ChainInv
<1>5. step = -1 \/ step \in Nat
  BY ChartAssumption DEF ChartAssumption
<1>6. /\ block \in Nat /\ time \in Nat /\ block > index
      /\ Tip.block <= block /\ Tip.time <= time
  BY <1>1, <1>3, <1>5
<1>7. price[1] \in Nat /\ price[2] \in Nat
  BY ChartAssumption DEF ChartAssumption
<1> HIDE DEF block, time
<1>8. t.block = block /\ t.time = time /\ t.log = Len(chain) + 1
  BY DEF Trade
<1>9. t \in TradeRecords
  BY <1>4, <1>6, <1>7 DEF Trade, TradeRecords
<1>10. chain' = Append(chain, t)
  BY <1>1 DEF block, time
<1> HIDE DEF t
<1>11. \A i \in 1..Len(chain) : chain[i].block <= t.block /\ chain[i].time <= t.time
  <2> SUFFICES ASSUME NEW i \in 1..Len(chain)
               PROVE  chain[i].block <= t.block /\ chain[i].time <= t.time
    OBVIOUS
  <2>1. chain[i].block \in Nat /\ chain[i].time \in Nat
    BY <1>4, RangeOfChain DEF TradeRecords
  <2> QED BY <1>3, <1>6, <1>8, <2>1
<1>12. IsChain(chain') /\ Range(chain') = Range(chain) \cup {t}
  BY <1>4, <1>8, <1>9, <1>10, <1>11, ChainGrows
<1>13. Tip'.block = block
  <2>1. chain' # <<>> /\ chain'[Len(chain')] = t
    <3>1. chain \in Seq(TradeRecords)
      BY <1>4 DEF IsChain
    <3>2. Len(chain') = Len(chain) + 1 /\ chain'[Len(chain) + 1] = t
      BY <1>4, <1>9, <1>10, <3>1
    <3> QED BY <1>4, <3>2
  <2>2. Tip' = t
    BY <2>1 DEF Tip
  <2> QED BY <1>8, <2>2
<1>14. ChainInv'
  <2>0. Gapless(chain')
    <3>1. chain \in Seq(TradeRecords) /\ Len(chain') = Len(chain) + 1
      BY <1>4, <1>9, <1>10 DEF IsChain
    <3>2. /\ \A i \in 1..Len(chain) : chain'[i] = chain[i]
          /\ chain'[Len(chain) + 1] = t
      BY <1>4, <1>9, <1>10, <3>1
    <3>3. block <= Tip.block + 1
      BY <1>3 DEF block
    <3>4. /\ Len(chain) # 0 => chain[1].block <= 1
          /\ \A i \in 2..Len(chain) : chain[i].block <= chain[i - 1].block + 1
      BY DEF ChainInv, Gapless
    <3>5. CASE Len(chain) = 0
      <4>1. chain = <<>>
        BY <3>1, <3>5
      <4>2. Tip.block = 0
        BY <4>1 DEF Tip
      <4> QED BY <1>6, <1>8, <3>1, <3>2, <3>3, <3>5, <4>2 DEF Gapless
    <3>6. CASE Len(chain) # 0
      <4>1. chain # <<>>
        BY <3>1, <3>6
      <4>2. Tip = chain[Len(chain)]
        BY <4>1 DEF Tip
      <4>3. 1 \in 1..Len(chain) /\ Len(chain) \in 1..Len(chain)
        BY <1>4, <3>6
      <4>4. ASSUME NEW i \in 2..Len(chain')
            PROVE  chain'[i].block <= chain'[i - 1].block + 1
        <5>1. CASE i = Len(chain) + 1
          <6>1. i - 1 = Len(chain)
            BY <1>4, <5>1
          <6> QED BY <1>8, <3>2, <3>3, <4>2, <4>3, <5>1, <6>1
        <5>2. CASE i # Len(chain) + 1
          <6>1. i \in 2..Len(chain) /\ i \in 1..Len(chain) /\ i - 1 \in 1..Len(chain)
            BY <1>4, <3>1, <5>2
          <6> QED BY <3>2, <3>4, <6>1
        <5> QED BY <5>1, <5>2
      <4> QED BY <3>1, <3>2, <3>4, <3>6, <4>3, <4>4 DEF Gapless
    <3> QED BY <3>5, <3>6
  <2>1. live' \subseteq Range(chain')
    BY <1>2, <1>12 DEF ChainInv
  <2>2. index' \in Nat /\ index' <= Tip'.block
    BY <1>2, <1>3, <1>6, <1>13
  <2> QED BY <1>12, <2>0, <2>1, <2>2 DEF ChainInv
<1>15. Steady
  <2> SUFFICES ASSUME NEW b \in Int, b <= index
               PROVE  Upto(chain', b) = Upto(chain, b)
    BY DEF Steady
  <2>1. ~(t.block <= b)
    BY <1>3, <1>6, <1>8
  <2> QED BY <1>12, <2>1 DEF Upto
<1> QED BY <1>14, <1>15

\* What is replaced is the newest block, above what is indexed.
LEMMA RetractKeeps ==
  ASSUME ChainInv, Retract
  PROVE  ChainInv' /\ Steady
<1>1. PICK kept \in 0..Len(chain) :
        /\ \A i \in DOMAIN chain : chain[i].block < Tip.block <=> i <= kept
        /\ chain' = SubSeq(chain, 1, kept)
  BY DEF Retract
<1>2. /\ live' = {t \in live : t.block < Tip.block}
      /\ index' = index /\ Tip.block > index
  BY DEF Retract
<1>3. /\ Tip.block \in Nat /\ index \in Nat
      /\ \A i \in 1..Len(chain) : chain[i].block <= Tip.block
  BY TipIs DEF ChainInv
<1>4. /\ IsChain(chain) /\ Len(chain) \in Nat /\ kept \in Nat
      /\ \A i \in 1..Len(chain) : chain[i] \in TradeRecords
      /\ Range(chain) = {chain[i] : i \in 1..Len(chain)}
  BY RangeOfChain DEF ChainInv
<1>5. /\ IsChain(chain') /\ Len(chain') = kept
      /\ \A i \in 1..kept : chain'[i] = chain[i]
      /\ Range(chain') = {chain[i] : i \in 1..kept}
  BY <1>1, <1>4, ChainShrinks
<1>6. \A i \in 1..Len(chain) : chain[i].block < Tip.block <=> i <= kept
  <2>1. DOMAIN chain = 1..Len(chain)
    BY <1>4 DEF IsChain
  <2> QED BY <1>1, <2>1
<1>7. Range(chain') = {t \in Range(chain) : t.block < Tip.block}
  <2>1. \A i : i \in 1..kept <=> i \in 1..Len(chain) /\ i <= kept
    BY <1>4
  <2> QED BY <1>4, <1>5, <1>6, <2>1
<1>8. live' \subseteq Range(chain')
  BY <1>2, <1>7 DEF ChainInv
<1>9. Steady
  <2> SUFFICES ASSUME NEW b \in Int, b <= index
               PROVE  Upto(chain', b) = Upto(chain, b)
    BY DEF Steady
  <2>1. \A t \in Range(chain) : t.block \in Nat
    BY <1>4 DEF TradeRecords
  <2>2. \A t \in Range(chain) : t.block <= b => t.block < Tip.block
    BY <1>2, <1>3, <2>1
  <2> QED BY <1>7, <2>2 DEF Upto
<1>10. \A i \in 1..Len(chain) : chain[i].block \in Nat
  BY <1>4 DEF TradeRecords
<1>11. /\ Len(chain) # 0 => chain[1].block <= 1
       /\ \A i \in 2..Len(chain) : chain[i].block <= chain[i - 1].block + 1
  BY DEF ChainInv, Gapless
<1>12. Gapless(chain')
  <2>1. Len(chain') # 0 => chain'[1].block <= 1
    <3> SUFFICES ASSUME kept # 0 PROVE chain'[1].block <= 1
      BY <1>5
    <3>1. 1 \in 1..kept /\ Len(chain) # 0
      BY <1>4
    <3> QED BY <1>5, <1>11, <3>1
  <2>2. ASSUME NEW i \in 2..Len(chain') PROVE chain'[i].block <= chain'[i - 1].block + 1
    <3>1. i \in 1..kept /\ i - 1 \in 1..kept /\ i \in 2..Len(chain)
      BY <1>4, <1>5
    <3> QED BY <1>5, <1>11, <3>1
  <2> QED BY <2>1, <2>2 DEF Gapless
<1>13. index <= Tip'.block
  \* The first trade that is dropped is of the newest block, the one before it of
  \* the block below.
  <2>1. kept < Len(chain)
    <3> SUFFICES ASSUME kept = Len(chain) PROVE FALSE
      BY <1>4
    <3>1. CASE chain = <<>>
      BY <1>2, <1>3, <3>1 DEF Tip
    <3>2. CASE chain # <<>>
      <4>1. Len(chain) \in 1..Len(chain)
        BY <1>4, <3>2 DEF IsChain
      <4>2. Tip = chain[Len(chain)]
        BY <3>2 DEF Tip
      <4>3. Tip.block < Tip.block
        BY <1>4, <1>6, <4>1, <4>2
      <4> QED BY <1>3, <4>3
    <3> QED BY <3>1, <3>2
  <2>2. kept + 1 \in 1..Len(chain) /\ ~(kept + 1 <= kept)
    BY <1>4, <2>1
  <2>3. chain[kept + 1].block = Tip.block
    <3>1. ~(chain[kept + 1].block < Tip.block) /\ chain[kept + 1].block <= Tip.block
      BY <1>3, <1>6, <2>2
    <3>2. chain[kept + 1].block \in Nat
      BY <1>10, <2>2
    <3> QED BY <1>3, <3>1, <3>2
  <2>4. CASE kept = 0
    <3>1. Tip.block <= 1
      BY <1>11, <2>1, <2>3, <2>4
    <3>2. index = 0
      BY <1>2, <1>3, <3>1
    <3>3. chain' = <<>>
      BY <1>5, <2>4 DEF IsChain
    <3>4. Tip'.block = 0
      BY <3>3 DEF Tip
    <3> QED BY <3>2, <3>4
  <2>5. CASE kept # 0
    <3>1. kept \in 1..kept /\ kept \in 1..Len(chain) /\ kept + 1 \in 2..Len(chain)
          /\ (kept + 1) - 1 = kept
      BY <1>4, <2>1, <2>5
    <3>2. Tip.block <= chain[kept].block + 1
      BY <1>11, <2>3, <3>1
    <3>3. chain' # <<>>
      BY <1>5, <2>5
    <3>4. Tip' = chain[kept]
      BY <1>5, <3>1, <3>3 DEF Tip
    <3>5. chain[kept].block \in Nat
      BY <1>10, <3>1
    <3> QED BY <1>2, <1>3, <3>2, <3>4, <3>5
  <2> QED BY <2>4, <2>5
<1> QED BY <1>2, <1>3, <1>5, <1>8, <1>9, <1>12, <1>13 DEF ChainInv

\* The chain and the answers, in every step.
LEMMA ChainStep ==
  ASSUME ChainInv, [ChartNext]_chartVars
  PROVE  ChainInv' /\ Steady /\ index <= index'
<1>0. index \in Nat /\ index <= Tip.block /\ Tip.block \in Nat
  BY TipIs DEF ChainInv
<1>1. CASE Mine
  <2>1. index' = index
    BY <1>1 DEF Mine
  <2> QED BY <1>0, <1>1, <2>1, MineKeeps
<1>2. CASE Retract
  <2>1. index' = index
    BY <1>2 DEF Retract
  <2> QED BY <1>0, <1>2, <2>1, RetractKeeps
<1>3. CASE Index
  <2>1. /\ chain' = chain /\ live' = live
        /\ index' \in (index + 1)..Tip.block
    BY <1>3 DEF Index
  <2>2. Tip' = Tip
    BY <2>1 DEF Tip
  <2>3. index' \in Nat /\ index' <= Tip'.block /\ index <= index'
    BY <1>0, <2>1, <2>2
  <2> QED BY <2>1, <2>3 DEF ChainInv, Steady
<1>4. CASE chain' = chain /\ index' = index /\ live' \subseteq Range(chain)
  <2>1. Tip' = Tip
    BY <1>4 DEF Tip
  <2> QED BY <1>0, <1>4, <2>1 DEF ChainInv, Steady
<1>5. CASE \E t \in Range(chain) : Arrive(t)
  <2>1. chain' = chain /\ index' = index /\ live' \subseteq Range(chain)
    BY <1>5 DEF Arrive, env, ChainInv
  <2> QED BY <1>4, <2>1
<1>6. CASE UNCHANGED <<env, live>>
  <2>1. chain' = chain /\ index' = index /\ live' \subseteq Range(chain)
    BY <1>6 DEF env, ChainInv
  <2> QED BY <1>4, <2>1
<1>7. CASE \/ Answer \/ Pan \/ getBars \/ subscribeBars \/ unsubscribeBars
           \/ \E size \in Intervals : setTimeframe(size)
           \/ \E block \in 0..index : reconcileCanonical(block)
           \/ UNCHANGED chartVars
  <2>1. UNCHANGED <<env, live>>
    BY <1>7 DEF Answer, Pan, getBars, subscribeBars, unsubscribeBars, setTimeframe,
                reconcileCanonical, chartVars
  <2> QED BY <1>6, <2>1
<1> QED BY <1>1, <1>2, <1>3, <1>5, <1>7 DEF ChartNext

\* The newest bar of what is shown.
Bar(old, events, block, size) == NewestBar(Show(old, events, block, size))

\* emitSubscription() sends the newest bar there is or asks to start again.
LEMMA EmitIs ==
  \A events, f : emitSubscription(events, f) =>
    \/ feed' = [f EXCEPT !.last = NoBar]
    \/ feed' = [f EXCEPT !.last = Bar(Upto(chain, f.through), events, f.through, f.size)]
<1> SUFFICES ASSUME NEW events, NEW f, emitSubscription(events, f)
             PROVE  \/ feed' = [f EXCEPT !.last = NoBar]
                    \/ feed' = [f EXCEPT !.last = Bar(Upto(chain, f.through), events,
                                                      f.through, f.size)]
  OBVIOUS
<1>1. ProvisionalBar(events, f) = Bar(Upto(chain, f.through), events, f.through, f.size)
  BY DEF ProvisionalBar, Overlaid, Through, Bar, Show, Upto
<1>2. \/ feed' = [f EXCEPT !.last = NoBar]
      \/ feed' = [f EXCEPT !.last = ProvisionalBar(events, f)]
  BY DEF emitSubscription
<1> QED BY <1>1, <1>2

\* What a step may do to the subscription: nothing; to have none, or one without a
\* bar; or to send the newest bar of what its answer knows and the page has.
LEMMA FeedChanges ==
  ASSUME ChainInv, AnswersInv, [ChartNext]_chartVars
  PROVE  \/ feed' = feed /\ (live' = live \/ ~feed.on)
         \/ feed' = NoFeed
         \/ feed' = [NoFeed EXCEPT !.on = TRUE, !.size = interval]
         \/ \E block \in Int :
              /\ block <= index
              /\ feed.on /\ DOMAIN feed' = FeedFields
              /\ feed'.on /\ feed'.size = feed.size /\ feed'.through = block
              /\ feed'.last \in {NoBar, Bar(Upto(chain, block), live', block, feed.size)}
<1>0. /\ DOMAIN feed = FeedFields /\ feed.through \in Int /\ feed.through <= index
      /\ index \in Nat
  BY DEF AnswersInv, FeedFields, ChainInv
<1>1. CASE \/ Mine \/ Index \/ Answer \/ Pan \/ getBars \/ UNCHANGED chartVars
           \/ \E size \in Intervals : setTimeframe(size)
  <2>1. feed' = feed /\ live' = live
    BY <1>1 DEF Mine, Index, Answer, Pan, getBars, setTimeframe, chartVars
  <2> QED BY <2>1
<1>2. CASE unsubscribeBars
  BY <1>2 DEF unsubscribeBars
<1>3. CASE subscribeBars
  BY <1>3 DEF subscribeBars
<1>4. CASE syncRealtime(live')
  <2>1. CASE ~feed.on
    BY <1>4, <2>1 DEF syncRealtime
  <2>2. CASE feed.on
    <3>1. emitSubscription(live', feed)
      BY <1>4, <2>2 DEF syncRealtime
    <3>2. \/ feed' = [feed EXCEPT !.last = NoBar]
          \/ feed' = [feed EXCEPT !.last = Bar(Upto(chain, feed.through), live',
                                               feed.through, feed.size)]
      BY <3>1, EmitIs
    <3>3. /\ DOMAIN feed' = FeedFields
          /\ feed'.on /\ feed'.size = feed.size /\ feed'.through = feed.through
          /\ feed'.last \in {NoBar, Bar(Upto(chain, feed.through), live', feed.through,
                                        feed.size)}
      BY <1>0, <2>2, <3>2 DEF FeedFields
    <3> QED BY <1>0, <2>2, <3>3
  <2> QED BY <2>1, <2>2
<1>5. CASE Retract \/ \E t \in Range(chain) : Arrive(t)
  <2>1. syncRealtime(live')
    BY <1>5 DEF Retract, Arrive
  <2> QED BY <1>4, <2>1
<1>6. CASE \E block \in 0..index : reconcileCanonical(block)
  <2>1. PICK block \in 0..index : reconcileCanonical(block)
    BY <1>6
  <2> DEFINE f == [feed EXCEPT !.through = block]
  <2>2. /\ feed.on /\ emitSubscription(live, f) /\ live' = live
    BY <2>1 DEF reconcileCanonical
  <2>3. /\ DOMAIN f = FeedFields
        /\ f.on /\ f.size = feed.size /\ f.through = block
    BY <1>0, <2>2 DEF FeedFields
  <2>4. \/ feed' = [f EXCEPT !.last = NoBar]
        \/ feed' = [f EXCEPT !.last = Bar(Upto(chain, f.through), live, f.through, f.size)]
    <3> HIDE DEF f
    <3> QED BY <2>2, EmitIs
  <2> HIDE DEF f
  <2>5. /\ DOMAIN feed' = FeedFields
        /\ feed'.on /\ feed'.size = feed.size /\ feed'.through = block
        /\ feed'.last \in {NoBar, Bar(Upto(chain, block), live', block, feed.size)}
    BY <2>2, <2>3, <2>4 DEF FeedFields
  <2>6. block \in Int /\ block <= index
    BY <1>0
  <2> QED BY <2>2, <2>5, <2>6
<1> QED BY <1>1, <1>2, <1>3, <1>5, <1>6 DEF ChartNext

\* What a subscriber has is the newest bar, or it was asked to start again.
FeedInv ==
  feed.on /\ feed.last # NoBar =>
    feed.last = Bar(Upto(chain, feed.through), live, feed.through, feed.size)

\* An answer is never newer than what is indexed, which no step takes back.
LEMMA AnswersStep ==
  ASSUME ChainInv, AnswersInv, [ChartNext]_chartVars
  PROVE  AnswersInv'
<1>0. /\ index \in Nat /\ index' \in Nat /\ index <= index'
      /\ interval \in Intervals /\ \A size \in Intervals : size \in Nat \ {0}
  BY ChainStep, ChartAssumption DEF ChainInv, AnswersInv, ChartAssumption
<1>1. interval' \in Intervals
  <2>1. interval' = interval \/ \E size \in Intervals : setTimeframe(size)
    BY DEF ChartNext, chartVars, Mine, Index, Answer, Pan, getBars, Retract, Arrive,
           subscribeBars, unsubscribeBars, reconcileCanonical
  <2> QED BY <1>0, <2>1 DEF setTimeframe
<1>2. pages' \in [Intervals -> Int] /\ \A size \in Intervals : pages'[size] <= index'
  <2>1. pages' = pages \/ pages' = [pages EXCEPT ![interval] = index]
    BY DEF ChartNext, chartVars, Mine, Index, Answer, Pan, getBars, Retract, Arrive,
           subscribeBars, unsubscribeBars, reconcileCanonical, setTimeframe
  <2>2. pages \in [Intervals -> Int] /\ \A size \in Intervals : pages[size] <= index
    BY DEF AnswersInv
  <2>3. \A size \in Intervals : pages[size] \in Int
    BY <2>2
  <2> QED BY <1>0, <2>1, <2>2, <2>3
<1>3. /\ DOMAIN feed' = FeedFields
      /\ feed'.size \in Nat \ {0}
      /\ feed'.through \in Int /\ feed'.through <= index'
  <2>0. /\ DOMAIN feed = FeedFields
        /\ feed.size \in Nat \ {0}
        /\ feed.through \in Int /\ feed.through <= index
    BY DEF AnswersInv, FeedFields
  <2>1. CASE feed' = feed
    BY <1>0, <2>0, <2>1
  <2>2. CASE feed' = NoFeed
    BY <1>0, <2>2 DEF NoFeed, FeedFields, Absent
  <2>3. CASE feed' = [NoFeed EXCEPT !.on = TRUE, !.size = interval]
    BY <1>0, <2>3 DEF NoFeed, FeedFields, Absent
  <2>4. CASE \E block \in Int :
               /\ block <= index
               /\ feed.on /\ DOMAIN feed' = FeedFields
               /\ feed'.on /\ feed'.size = feed.size /\ feed'.through = block
    BY <1>0, <2>0, <2>4
  <2> QED BY <2>1, <2>2, <2>3, <2>4, FeedChanges
<1> QED BY <1>1, <1>2, <1>3 DEF AnswersInv, FeedFields

\* The bar that was sent stays the newest until the next is, or is forgotten.
LEMMA FeedStep ==
  ASSUME ChainInv, AnswersInv, FeedInv, [ChartNext]_chartVars
  PROVE  FeedInv'
<1>1. Steady
  BY ChainStep
<1>2. CASE feed' = feed /\ (live' = live \/ ~feed.on)
  <2>1. feed.through \in Int /\ feed.through <= index
    BY DEF AnswersInv
  <2>2. Upto(chain', feed.through) = Upto(chain, feed.through)
    BY <1>1, <2>1 DEF Steady
  <2> QED BY <1>2, <2>2 DEF FeedInv
<1>3. CASE feed' = NoFeed \/ feed' = [NoFeed EXCEPT !.on = TRUE, !.size = interval]
  <2>1. NoFeed.last = NoBar /\ [NoFeed EXCEPT !.on = TRUE, !.size = interval].last = NoBar
    BY DEF NoFeed
  <2>2. feed'.last = NoBar
    <3> HIDE DEF NoBar
    <3> QED BY <1>3, <2>1
  <2> QED BY <2>2 DEF FeedInv
<1>4. CASE \E block \in Int :
             /\ block <= index
             /\ feed'.on /\ feed'.size = feed.size /\ feed'.through = block
             /\ feed'.last \in {NoBar, Bar(Upto(chain, block), live', block, feed.size)}
  <2>1. PICK block \in Int :
             /\ block <= index
             /\ feed'.on /\ feed'.size = feed.size /\ feed'.through = block
             /\ feed'.last \in {NoBar, Bar(Upto(chain, block), live', block, feed.size)}
    BY <1>4
  <2>2. Upto(chain', block) = Upto(chain, block)
    BY <1>1, <2>1 DEF Steady
  <2> QED BY <2>1, <2>2 DEF FeedInv
<1> QED BY <1>2, <1>3, <1>4, FeedChanges

\* What a page shows, of a chain, once it has an answer.
PageShows(c, events, block, size) ==
  IF block = Absent THEN << >> ELSE Show(Upto(c, block), events, block, size)

\* A chart that is drawn has bars.
DrawnInv ==
  chart = NoChart \/ DOMAIN PageShows(chain, live, pages[interval], interval) # {}

\* A chart is drawn of bars there are.
LEMMA DrawIs ==
  \A events, known, size, again : Draw(events, known, size, again) =>
    chart' = NoChart \/ DOMAIN PageShows(chain, events, known[size], size) # {}
<1> SUFFICES ASSUME NEW events, NEW known, NEW size, NEW again,
                    Draw(events, known, size, again)
             PROVE  \/ chart' = NoChart
                    \/ DOMAIN PageShows(chain, events, known[size], size) # {}
  OBVIOUS
<1>1. chartData(events, known, size) = PageShows(chain, events, known[size], size)
  BY DEF chartData, PageShows, Overlaid, Through, Show, Upto
<1>2. chart' = NoChart \/ DOMAIN chartData(events, known, size) # {}
  BY DEF Draw
<1> QED BY <1>1, <1>2

\* A chart that has bars keeps some, or is taken away.
LEMMA DrawnStep ==
  ASSUME ChainInv, AnswersInv, DrawnInv, [ChartNext]_chartVars
  PROVE  DrawnInv'
<1>1. Steady /\ AnswersInv'
  BY ChainStep, AnswersStep
<1>2. ASSUME NEW block \in Int, block <= index, NEW events, NEW size
      PROVE  PageShows(chain', events, block, size) = PageShows(chain, events, block, size)
  <2>1. Upto(chain', block) = Upto(chain, block)
    BY <1>1, <1>2 DEF Steady
  <2> QED BY <2>1 DEF PageShows
<1>3. pages[interval] \in Int /\ pages[interval] <= index /\ interval \in Intervals
  BY DEF AnswersInv
<1>4. CASE UNCHANGED <<live, pages, interval>> /\ (chart = NoChart => chart' = NoChart)
  <2>1. PageShows(chain', live, pages[interval], interval) =
          PageShows(chain, live, pages[interval], interval)
    BY <1>2, <1>3
  <2> QED BY <1>4, <2>1 DEF DrawnInv
<1>5. CASE Mine \/ Index \/ getBars \/ subscribeBars \/ unsubscribeBars \/ Pan
           \/ UNCHANGED chartVars \/ \E block \in 0..index : reconcileCanonical(block)
  <2>1. UNCHANGED <<live, pages, interval>>
    BY <1>5 DEF Mine, Index, getBars, subscribeBars, unsubscribeBars, reconcileCanonical,
                chartVars, Pan
  <2>2. chart = NoChart => chart' = NoChart
    <3>1. CASE Pan
      <4>1. NoChart.count = 0
        BY DEF NoChart
      <4>2. chart # NoChart
        <5> HIDE DEF NoChart
        <5> QED BY <3>1, <4>1 DEF Pan
      <4> QED BY <4>2
    <3>2. CASE ~Pan
      BY <1>5, <3>2 DEF Mine, Index, getBars, subscribeBars, unsubscribeBars,
                        reconcileCanonical, chartVars
    <3> QED BY <3>1, <3>2
  <2> QED BY <1>4, <2>1, <2>2
<1>6. CASE Retract \/ \E t \in Range(chain) : Arrive(t)
  <2>1. Draw(live', pages, interval, FALSE) /\ UNCHANGED <<pages, interval>>
    BY <1>6 DEF Retract, Arrive
  <2>2. \/ chart' = NoChart
        \/ DOMAIN PageShows(chain, live', pages[interval], interval) # {}
    BY <2>1, DrawIs
  <2>3. PageShows(chain', live', pages[interval], interval) =
          PageShows(chain, live', pages[interval], interval)
    BY <1>2, <1>3
  <2> QED BY <2>1, <2>2, <2>3 DEF DrawnInv
<1>7. CASE Answer
  <2>1. /\ Draw(live, pages', interval, FALSE) /\ UNCHANGED <<env, live, interval>>
    BY <1>7 DEF Answer
  <2>2. \/ chart' = NoChart
        \/ DOMAIN PageShows(chain, live, pages'[interval], interval) # {}
    BY <2>1, DrawIs
  <2>3. chain' = chain
    BY <2>1 DEF env
  <2> QED BY <2>1, <2>2, <2>3 DEF DrawnInv
<1>8. CASE \E size \in Intervals : setTimeframe(size)
  <2>1. PICK size \in Intervals : setTimeframe(size)
    BY <1>8
  <2>2. /\ Draw(live, pages, size, TRUE) /\ UNCHANGED <<env, live, pages>>
        /\ interval' = size
    BY <2>1 DEF setTimeframe
  <2>3. \/ chart' = NoChart
        \/ DOMAIN PageShows(chain, live, pages[size], size) # {}
    BY <2>2, DrawIs
  <2>4. chain' = chain
    BY <2>2 DEF env
  <2> QED BY <2>2, <2>3, <2>4 DEF DrawnInv
<1> QED BY <1>5, <1>6, <1>7, <1>8 DEF ChartNext

ChartInv == ChainInv /\ AnswersInv /\ FeedInv /\ DrawnInv

\* The inductive invariant of the chart.
LEMMA ChartInvariant == ChartSpec => []ChartInv
<1>1. ChartInit => ChartInv
  <2>1. ChartInit => FeedInv
    BY DEF ChartInit, NoFeed, FeedInv
  <2>2. ChartInit => DrawnInv
    BY DEF ChartInit, DrawnInv
  <2> QED BY <2>1, <2>2, ChainInit DEF ChartInv
<1>2. ChartInv /\ [ChartNext]_chartVars => ChartInv'
  BY ChainStep, AnswersStep, FeedStep, DrawnStep DEF ChartInv
<1> QED BY <1>1, <1>2, PTL DEF ChartSpec

\* overlayCandles(): for any history, prices, timeframes and answers, however the events
\* come and whatever is retracted, the candles drawn are those of every trade the page
\* knows of, each once, in its bucket and at the price it was told.
THEOREM CandlesShowTheTrades == ChartSpec => []CandlesAreTheTrades
<1>1. ChartInv => CandlesAreTheTrades
  <2> SUFFICES ASSUME ChartInv, pages[interval] # Absent
               PROVE  chartData(live, pages, interval) =
                        Expected(Through(pages[interval]),
                                 {t \in live : t.block > pages[interval]}, interval)
    BY DEF CandlesAreTheTrades
  <2>1. IsChain(chain) /\ live \in SUBSET Range(chain) /\ pages[interval] \in Int
    BY DEF ChartInv, ChainInv, AnswersInv
  <2>2. chartData(live, pages, interval) =
          Show(Upto(chain, pages[interval]), live, pages[interval], interval)
    BY DEF chartData, Overlaid, Through, Show, Upto
  <2>3. Through(pages[interval]) = Upto(chain, pages[interval])
    BY DEF Through, Upto
  <2>4. Show(Upto(chain, pages[interval]), live, pages[interval], interval) =
          Expected(Upto(chain, pages[interval]),
                   {t \in live : t.block > pages[interval]}, interval)
    BY <2>1, ShowIs
  <2> QED BY <2>2, <2>3, <2>4
<1> QED BY <1>1, ChartInvariant, PTL

\* emitSubscription(): for any of these, the last bar a subscriber was sent and not asked
\* to forget is the newest there is, with the prices of every trade known.
THEOREM SubscriberHasTheNewestBar == ChartSpec => []FeedIsCurrent
<1>1. ChartInv => FeedIsCurrent
  <2> SUFFICES ASSUME ChartInv, feed.on, feed.last # NoBar
               PROVE  feed.last =
                        NewestBar(Expected(Through(feed.through),
                                    {t \in live : t.block > feed.through}, feed.size))
    BY DEF FeedIsCurrent
  <2>1. IsChain(chain) /\ live \in SUBSET Range(chain) /\ feed.through \in Int
    BY DEF ChartInv, ChainInv, AnswersInv
  <2>2. feed.last = NewestBar(Show(Upto(chain, feed.through), live, feed.through, feed.size))
    BY DEF ChartInv, FeedInv, Bar
  <2>3. Through(feed.through) = Upto(chain, feed.through)
    BY DEF Through, Upto
  <2>4. Show(Upto(chain, feed.through), live, feed.through, feed.size) =
          Expected(Upto(chain, feed.through),
                   {t \in live : t.block > feed.through}, feed.size)
    BY <2>1, ShowIs
  <2> QED BY <2>2, <2>3, <2>4
<1> QED BY <1>1, ChartInvariant, PTL

-----------------------------------------------------------------------------
(* The range that a chart opens with.                                      *)

\* The buckets of candles in order.
LEMMA StartsIs ==
  ASSUME NEW candles, IsFiniteSet(DOMAIN candles), DOMAIN candles \subseteq Nat,
         DOMAIN candles # {}, NEW starts, starts = Starts(candles)
  PROVE  starts \in Seq(Nat) /\ Len(starts) \in Nat \ {0}
<1> DEFINE D == DOMAIN candles
           key == [b \in D |-> b]
           upTo == [b \in D |-> {x \in D : x <= b}]
<1>1. starts = InOrder(D, upTo)
  BY DEF Starts
<1>2. key \in [D -> Nat] /\ \A x, y \in D : key[x] = key[y] => x = y
  OBVIOUS
<1>3. \A x \in D : upTo[x] = {o \in D : key[o] <= key[x]}
  OBVIOUS
<1> HIDE DEF D, key, upTo
<1>4. Ranks(D, key, upTo)
  BY <1>2, <1>3 DEF Ranks, D
<1>5. Sorted(D, key, starts)
  BY <1>1, <1>4, InOrderIs
<1>6. starts \in Seq(D) /\ Len(starts) = Cardinality(D) /\ Cardinality(D) \in Nat
  BY <1>5 DEF Sorted
<1>7. D \subseteq Nat
  BY DEF D
<1>8. Cardinality(D) # 0
  BY FS_EmptySet DEF D
<1>9. starts \in Seq(Nat)
  <2>0. \A i \in 1..Len(starts) : starts[i] \in D
    BY <1>6
  <2>1. \A i \in 1..Len(starts) : starts[i] \in Nat
    BY <1>7, <2>0
  <2>2. starts \in [1..Len(starts) -> Nat]
    BY <1>6, <2>1
  <2> QED BY <1>6, <2>2
<1> QED BY <1>6, <1>8, <1>9

\* The greatest and the least of some positions.
LEMMA Extremes ==
  ASSUME NEW n \in Nat, NEW S \in SUBSET (1..n), S # {}
  PROVE  /\ Max(S) \in S /\ \A i \in S : i <= Max(S)
         /\ Min(S) \in S /\ \A i \in S : Min(S) <= i
<1> DEFINE price == [i \in S |-> i]
<1>1. IsFiniteSet(1..n)
  BY FS_Interval
<1>2. IsFiniteSet(S)
  BY <1>1, FS_Subset
<1>3. \A i \in S : price[i] \in Nat
  OBVIOUS
<1>4. S = {price[i] : i \in S}
  OBVIOUS
<1> HIDE DEF price
<1> QED BY <1>2, <1>3, <1>4, PriceBounds

\* The first bar that is recent is a bar, and the newest silence is before it.
LEMMA RecentStartIs ==
  ASSUME NEW starts \in Seq(Nat), NEW n, n = Len(starts), n \in Nat \ {0},
         NEW size \in Nat \ {0}
  PROVE  /\ recentStart(starts, size) \in 0..(n - 1)
         /\ \A i \in 2..n : starts[i] - starts[i - 1] > size * GapBuckets =>
              /\ recentStart(starts, size) # 0
              /\ i - 1 <= recentStart(starts, size)
<1> DEFINE long == size * GapBuckets
           gaps == {i \in 2..n : starts[i] - starts[i - 1] > long}
           far == size * Horizon
           horizon == {i \in DOMAIN starts : starts[i] >= starts[n] - far}
           cluster == newestActiveClusterStart(starts, size)
           few == Larger(0, n - FallbackBars)
<1>1. far \in Nat /\ FallbackBars \in Nat \ {0}
  BY ChartAssumption DEF ChartAssumption
<1>2. DOMAIN starts = 1..n /\ \A i \in 1..n : starts[i] \in Nat
  OBVIOUS
<1>3. cluster = IF gaps = {} THEN Absent ELSE Max(gaps) - 1
  BY DEF newestActiveClusterStart
<1>4. recentStart(starts, size) =
        IF cluster # Absent THEN cluster ELSE Larger(Min(horizon) - 1, few)
  BY DEF recentStart
<1> HIDE DEF far, long, cluster, few
<1>5. CASE gaps = {}
  <2>1. recentStart(starts, size) = Larger(Min(horizon) - 1, few)
    BY <1>3, <1>4, <1>5
  <2>2. n \in horizon /\ horizon \in SUBSET (1..n)
    BY <1>1, <1>2
  <2>3. Min(horizon) \in 1..n
    <3> HIDE DEF horizon
    <3> QED BY <2>2, Extremes
  <2>4. few \in 0..(n - 1)
    BY <1>1 DEF few, Larger
  <2> HIDE DEF horizon
  <2>5. recentStart(starts, size) \in 0..(n - 1)
    BY <2>1, <2>3, <2>4 DEF Larger
  <2> QED BY <1>5, <2>5 DEF long
<1>6. CASE gaps # {}
  <2>1. gaps \in SUBSET (1..n)
    OBVIOUS
  <2>2. Max(gaps) \in gaps /\ \A i \in gaps : i <= Max(gaps)
    <3> HIDE DEF gaps
    <3> QED BY <1>6, <2>1, Extremes
  <2>3. Max(gaps) \in 2..n
    BY <2>2
  <2>4. recentStart(starts, size) = Max(gaps) - 1
    <3> HIDE DEF gaps
    <3> QED BY <1>3, <1>4, <1>6, <2>3 DEF Absent
  <2>5. \A i \in 2..n : starts[i] - starts[i - 1] > long => i <= Max(gaps)
    BY <2>2
  <2> HIDE DEF gaps
  <2>6. \A i \in 2..n : starts[i] - starts[i - 1] > long => i - 1 <= Max(gaps) - 1
    BY <2>3, <2>5
  <2> QED BY <2>3, <2>4, <2>6 DEF long
<1> QED BY <1>5, <1>6

\* The range a chart opens with reaches from the first recent bar, or a later one, to
\* the newest; only when every bar is recent, or there are many, is it another.
LEMMA ViewportIs ==
  ASSUME NEW starts \in Seq(Nat), NEW n, n = Len(starts), n \in Nat \ {0},
         NEW size \in Nat \ {0},
         NEW view, view = defaultChartViewport(starts, size)
  PROVE  /\ view.from \in Int /\ view.to \in Int
         /\ view.from <= n - 1 /\ n - 1 <= view.to
         /\ n < VisibleBars /\ recentStart(starts, size) # 0 =>
              view.from = recentStart(starts, size)
<1> DEFINE first == recentStart(starts, size)
           empty == Larger(0, LogicalWidth - (n - first))
           left == empty \div 2
<1>1. /\ VisibleBars \in Nat \ {0} /\ LogicalWidth \in Nat /\ RightOffset \in Nat
  BY ChartAssumption DEF ChartAssumption
<1>2. first \in 0..(n - 1)
  BY RecentStartIs
<1> HIDE DEF first
<1>3. empty \in Nat
  BY <1>1, <1>2 DEF Larger
<1> HIDE DEF empty
<1>4. left \in Nat /\ left <= empty
  BY <1>3
<1> HIDE DEF left
<1>5. view = IF n >= VisibleBars THEN View(n - VisibleBars, n - 1 + RightOffset)
             ELSE IF first = 0 THEN View(-left, n - 1 + empty - left)
             ELSE View(first, n - 1 + empty)
  BY DEF defaultChartViewport, first, empty, left
<1>6. CASE n >= VisibleBars
  <2>1. view.from = n - VisibleBars /\ view.to = n - 1 + RightOffset
    BY <1>5, <1>6 DEF View
  <2> QED BY <1>1, <1>6, <2>1
<1>7. CASE n < VisibleBars /\ first = 0
  <2>1. view.from = -left /\ view.to = n - 1 + empty - left
    BY <1>1, <1>5, <1>7 DEF View
  <2> QED BY <1>1, <1>3, <1>4, <1>7, <2>1 DEF first
<1>8. CASE n < VisibleBars /\ first # 0
  <2>1. view.from = first /\ view.to = n - 1 + empty
    BY <1>1, <1>5, <1>8 DEF View
  <2> QED BY <1>1, <1>2, <1>3, <1>8, <2>1 DEF first
<1> QED BY <1>1, <1>6, <1>7, <1>8

\* defaultChartViewport(): for any candles and any settings of the chart, it opens on the
\* newest bar, and with few bars on the newest session alone.
THEOREM OpensOnTheNewest == ChartSpec => []OpensOnTheNewestSession
<1>1. ChartInv => OpensOnTheNewestSession
  <2> DEFINE candles == chartData(live, pages, interval)
             starts == Starts(candles)
             n == Len(starts)
             view == defaultChartViewport(starts, interval)
             seen == {i \in DOMAIN starts : i - 1 \in view.from..view.to}
             long == interval * GapBuckets
  <2> SUFFICES ASSUME ChartInv, chart.count > 0
               PROVE  /\ n \in seen
                      /\ n < VisibleBars =>
                           \A i \in seen : i - 1 \in seen =>
                             starts[i] - starts[i - 1] <= long
    BY DEF OpensOnTheNewestSession
  <2>1. /\ IsChain(chain) /\ live \in SUBSET Range(chain) /\ pages[interval] \in Int
        /\ interval \in Nat \ {0}
    BY ChartAssumption DEF ChartInv, ChainInv, AnswersInv, ChartAssumption
  <2>2. chart # NoChart
    <3>1. NoChart.count = 0
      BY DEF NoChart
    <3> HIDE DEF NoChart
    <3> QED BY <3>1
  <2>3. candles = PageShows(chain, live, pages[interval], interval)
    BY DEF chartData, PageShows, Overlaid, Through, Show, Upto
  <2>4. DOMAIN candles # {}
    BY <2>2, <2>3 DEF ChartInv, DrawnInv
  <2>5. candles = Show(Upto(chain, pages[interval]), live, pages[interval], interval)
    <3>1. DOMAIN << >> = {}
      OBVIOUS
    <3> HIDE DEF candles
    <3> QED BY <2>3, <2>4, <3>1 DEF PageShows
  <2>6. IsFiniteSet(DOMAIN candles) /\ DOMAIN candles \subseteq Nat
    <3> HIDE DEF candles
    <3> QED BY <2>1, <2>5, ShownBuckets
  <2>7. starts \in Seq(Nat) /\ n \in Nat \ {0}
    <3> HIDE DEF candles
    <3> QED BY <2>4, <2>6, StartsIs
  <2> HIDE DEF candles, starts
  <2>8. DOMAIN starts = 1..n /\ \A i \in 1..n : starts[i] \in Nat
    BY <2>7
  <2>9. /\ view.from \in Int /\ view.to \in Int
        /\ view.from <= n - 1 /\ n - 1 <= view.to
        /\ n < VisibleBars /\ recentStart(starts, interval) # 0 =>
             view.from = recentStart(starts, interval)
    <3> HIDE DEF n, view
    <3>1. n = Len(starts) /\ view = defaultChartViewport(starts, interval)
      BY DEF n, view
    <3> QED BY <2>1, <2>7, <3>1, ViewportIs
  <2>10. /\ recentStart(starts, interval) \in 0..(n - 1)
         /\ \A i \in 2..n : starts[i] - starts[i - 1] > long =>
              /\ recentStart(starts, interval) # 0
              /\ i - 1 <= recentStart(starts, interval)
    <3> HIDE DEF n
    <3>1. n = Len(starts)
      BY DEF n
    <3> QED BY <2>1, <2>7, <3>1, RecentStartIs
  <2> HIDE DEF n, view
  <2>11. n \in seen
    BY <2>7, <2>8, <2>9
  <2>12. ASSUME n < VisibleBars, NEW i \in seen, i - 1 \in seen,
                ~(starts[i] - starts[i - 1] <= long)
         PROVE  FALSE
    <3>1. i \in 1..n /\ i - 1 \in 1..n /\ i \in 2..n /\ view.from <= (i - 1) - 1
      BY <2>7, <2>8, <2>9, <2>12
    <3>2. long \in Nat
      BY <2>1, ChartAssumption DEF ChartAssumption
    <3>3. starts[i] - starts[i - 1] > long
      <4>1. starts[i] \in Nat /\ starts[i - 1] \in Nat
        BY <2>8, <3>1
      <4> HIDE DEF long
      <4> QED BY <2>12, <3>2, <4>1
    <3> HIDE DEF long, seen
    <3>4. recentStart(starts, interval) # 0 /\ i - 1 <= recentStart(starts, interval)
      BY <2>10, <3>1, <3>3
    <3>5. view.from = recentStart(starts, interval)
      BY <2>9, <2>12, <3>4
    <3> QED BY <2>7, <2>10, <3>1, <3>4, <3>5
  <2> HIDE DEF seen, long
  <2> QED BY <2>11, <2>12 DEF n
<1> QED BY <1>1, ChartInvariant, PTL

-----------------------------------------------------------------------------
(* The wallet session.                                                     *)

WalletType ==
  wallet \in [active : Addresses \cup {None}, chain : Chains, knows : SUBSET Chains]

\* What the execution of a transaction has established at each of its awaits: the
\* client it holds is one for Arc, and once the signer is checked, one of the
\* account that was shown, which the wallet had then.
FormInv ==
  /\ form.phase # "idle" => form.client.chain = Arc
  /\ form.phase = "checked" =>
       form.client.address = form.shown /\ form.found = form.shown

FormType == DOMAIN form = {"phase", "shown", "client", "found"}

IInv == WalletType /\ FormInv /\ FormType /\ SignsForWhoWasShown

\* It holds of a page that has just opened.
LEMMA InitInv == Init => IInv
  BY DEF Init, IInv, WalletType, FormInv, FormType, SignsForWhoWasShown, NoForm, Chains

\* A page that may transact has a client for Arc.
LEMMA ReadyIsOnArc == canTransact => client.chain = Arc
  BY DEF canTransact, status

\* The wallet stays a wallet whatever its user and the page's requests do to it: the
\* chains it knows only grow by Arc, and it is only ever on a chain there is.
LEMMA WalletStep == WalletType /\ [Next]_vars => WalletType'
<1> SUFFICES ASSUME WalletType, [Next]_vars
             PROVE  WalletType'
  OBVIOUS
<1> USE DEF WalletType, Chains
<1>1. CASE Move
  BY <1>1 DEF Move
<1>2. CASE \E a \in Addresses \cup {None} : connectWallet(a)
  BY <1>2 DEF connectWallet
<1>3. CASE SwitchAccepted
  BY <1>3 DEF SwitchAccepted
<1>4. CASE AddAccepted
  BY <1>4 DEF AddAccepted
<1>5. CASE UNCHANGED wallet
  BY <1>5
<1> QED
  BY <1>1, <1>2, <1>3, <1>4, <1>5
     DEF Next, Controls, vars, ToggleMenu, CloseMenu, StartSwitch, SwitchUnknown,
         SwitchRefused, StartDisconnect, EndDisconnect, Restored, NoticeAccount,
         NoticeChain, BuildClient, Submit, Check, Request

\* A transaction keeps what it has established, whatever happens to the wallet and to
\* the page's own knowledge of it between its awaits, and asks for no signature without
\* it: submitCreateToken() goes on with the account and the client of the click.
LEMMA FormStep == IInv /\ [Next]_vars => (FormInv /\ FormType /\ SignsForWhoWasShown)'
<1> SUFFICES ASSUME IInv, [Next]_vars
             PROVE  (FormInv /\ FormType /\ SignsForWhoWasShown)'
  OBVIOUS
<1> USE DEF IInv, FormInv, FormType, SignsForWhoWasShown
<1>1. CASE Submit
  BY <1>1, ReadyIsOnArc DEF Submit, NoForm
<1>2. CASE Check
  <2>1. CASE assertActiveWalletClient
    BY <1>2, <2>1 DEF Check, assertActiveWalletClient
  <2>2. CASE ~assertActiveWalletClient
    BY <1>2, <2>2 DEF Check, NoForm
  <2> QED
    BY <2>1, <2>2
<1>3. CASE Request
  <2>1. FormInv' /\ FormType'
    BY <1>3 DEF Request, NoForm
  <2>2. SignsForWhoWasShown'
    BY <1>3 DEF Request
  <2> QED
    BY <2>1, <2>2
<1>4. CASE UNCHANGED <<form, requests>>
  BY <1>4
<1> QED
  BY <1>1, <1>2, <1>3, <1>4
     DEF Next, Controls, vars, Move, ToggleMenu, CloseMenu, connectWallet, StartSwitch,
         SwitchAccepted, SwitchUnknown, AddAccepted, SwitchRefused, StartDisconnect,
         EndDisconnect, Restored, NoticeAccount, NoticeChain, BuildClient

\* assertActiveWalletClient(): for any accounts and any number of changes in the wallet,
\* every signature the page asked for is for the account that was shown at the click,
\* on Arc, and that the wallet had when the signer was checked.
THEOREM SignaturesAreForWhoWasShown == Spec => []SignsForWhoWasShown
<1>1. IInv /\ [Next]_vars => IInv'
  BY WalletStep, FormStep DEF IInv
<1>2. IInv => SignsForWhoWasShown
  BY DEF IInv
<1> QED
  BY InitInv, <1>1, <1>2, PTL DEF Spec

\* switchExternalWalletToArc(): for any accounts and any order of refusals, additions
\* and changes in the wallet, a request that ends without an error ends on Arc.
THEOREM SwitchReportedDoneIsMade == Spec => SwitchEndsOnArc
<1> DEFINE Ends == switching # "idle" /\ switching' = "idle" /\ ~actionError'
<1>1. WalletType /\ [Next]_vars =>
        [switching # "idle" /\ switching' = "idle" /\ ~actionError'
           => wallet'.chain = Arc]_vars
  <2> SUFFICES ASSUME WalletType, Next, Ends
               PROVE  wallet'.chain = Arc
    OBVIOUS
  <2>1. CASE SwitchAccepted
    BY <2>1 DEF SwitchAccepted, WalletType
  <2>2. CASE SwitchUnknown
    BY <2>2 DEF SwitchUnknown, SwitchFailed
  <2>3. CASE AddAccepted
    BY <2>3 DEF AddAccepted
  <2>4. CASE SwitchRefused
    BY <2>4 DEF SwitchRefused, SwitchFailed
  <2>5. CASE StartSwitch
    BY <2>5 DEF StartSwitch
  <2>6. CASE UNCHANGED switching
    BY <2>6
  <2> QED
    BY <2>1, <2>2, <2>3, <2>4, <2>5, <2>6
       DEF Next, Controls, Move, ToggleMenu, CloseMenu, connectWallet, StartDisconnect,
           EndDisconnect, Restored, NoticeAccount, NoticeChain, BuildClient, Submit,
           Check, Request, ui
<1>2. Init => WalletType
  BY InitInv DEF IInv
<1> QED
  BY <1>1, <1>2, WalletStep, PTL DEF Spec, SwitchEndsOnArc
=============================================================================
