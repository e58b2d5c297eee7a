----------------------------- MODULE Feed_proofs -----------------------------
(***************************************************************************)
(* The feed of trades, from the chain to a browser: the realtime service   *)
(* and the token page, for every chain, every number of reorganisations,   *)
(* outages, losses and repetitions, and every capacity of their memories.  *)
(*                                                                         *)
(*   1. Lists: filter() and the other operators both keep their logs and   *)
(*      events with.                                                       *)
(*                                                                         *)
(* The token page: nothing it was told is missing from a surface, and no   *)
(* trade is counted twice.                                                 *)
(*                                                                         *)
(*   2. The types.                                                         *)
(*   3. The watermarks follow the answers, and what the page was told is   *)
(*      among its events until the last surface has indexed it.            *)
(*   4. A trade is only ever mined again in a later block.                 *)
(*                                                                         *)
(* The realtime service: it forgets no trade, repeats none too soon, and   *)
(* takes back the ones that are orphaned.                                  *)
(*                                                                         *)
(*   5. The types.                                                         *)
(*   6. A buffer holds the events from its reader's place on.              *)
(*   7. The deduper remembers the newest events.                           *)
(*   8. The chain, and what the logs say of it.                            *)
(*   9. A trade the service owes is published, in a channel, pending, or   *)
(*      asked for by the next connection.                                  *)
(*  10. The last word on an orphaned trade is its retraction.              *)
(*  11. An event repeats only when the deduper has forgotten it.           *)
(***************************************************************************)
EXTENDS TokenPage, Realtime, FiniteSetTheorems, SequenceTheorems, WellFoundedInduction, TLAPS

-----------------------------------------------------------------------------
(* 1. Lists *)

\* Of numbers, one is the least: with it a claim about every number is proved of a
\* smallest counterexample.
LEMMA LeastNat ==
  ASSUME NEW T \in SUBSET Nat, T # {}
  PROVE  \E n \in T : \A m \in T : n <= m
<1>1. IsWellFoundedOn(OpToRel(<,Nat), Nat)
  BY NatLessThanWellFounded
<1>2. PICK x \in T : \A y \in T : ~ (<<y, x>> \in OpToRel(<,Nat))
  BY <1>1, WFMin
<1>3. \A y \in T : ~(y < x)
  BY <1>2 DEF OpToRel
<1> QED BY <1>3

\* One step of Filter, and its function.
FilterStep(list, kept, g, n) ==
  IF n = 0 THEN <<>>
  ELSE IF list[n] \in kept THEN Append(g[n - 1], list[n]) ELSE g[n - 1]

FilterFn(list, kept) ==
  CHOOSE g : g = [n \in 0..Len(list) |-> FilterStep(list, kept, g, n)]

\* The function exists: the one for the first n entries extends to n + 1.
LEMMA FilterFnRec ==
  ASSUME NEW list, NEW kept, Len(list) \in Nat
  PROVE  \A n \in 0..Len(list) :
           FilterFn(list, kept)[n] = FilterStep(list, kept, FilterFn(list, kept), n)
<1> DEFINE Has(n) == \E g : g = [m \in 0..n |-> FilterStep(list, kept, g, m)]
           Bad == {n \in Nat : ~Has(n)}
<1>1. Has(0)
  <2> DEFINE g0 == [m \in 0..0 |-> <<>>]
  <2>1. g0 = [m \in 0..0 |-> FilterStep(list, kept, g0, m)]
    BY DEF FilterStep
  <2> QED BY <2>1
<1>2. ASSUME NEW n \in Nat, Has(n) PROVE Has(n + 1)
  <2>1. PICK g : g = [m \in 0..n |-> FilterStep(list, kept, g, m)]
    BY <1>2
  <2> DEFINE h == [m \in 0..(n + 1) |-> FilterStep(list, kept, g, m)]
  <2>2. \A m \in 0..n : m \in 0..(n + 1) /\ h[m] = g[m]
    BY <2>1
  <2>3. ASSUME NEW m \in 0..(n + 1)
        PROVE  FilterStep(list, kept, g, m) = FilterStep(list, kept, h, m)
    <3>1. CASE m = 0
      BY <3>1 DEF FilterStep
    <3>2. CASE m # 0
      <4>1. m - 1 \in 0..n
        BY <3>2
      <4>2. h[m - 1] = g[m - 1]
        BY <2>2, <4>1
      <4> HIDE DEF h
      <4> QED BY <4>2 DEF FilterStep
    <3> QED BY <3>1, <3>2
  <2>4. h = [m \in 0..(n + 1) |-> FilterStep(list, kept, h, m)]
    BY <2>3
  <2> QED BY <2>4
<1>3. Has(Len(list))
  <2> SUFFICES ASSUME Bad # {} PROVE FALSE
    OBVIOUS
  <2>1. PICK n \in Bad : \A m \in Bad : n <= m
    <3> HIDE DEF Has
    <3>1. Bad \in SUBSET Nat
      OBVIOUS
    <3> HIDE DEF Bad
    <3> QED BY <3>1, LeastNat
  <2>2. n # 0 /\ n - 1 \in Nat /\ n - 1 \notin Bad
    <3> HIDE DEF Has
    <3> QED BY <1>1, <2>1
  <2>3. Has(n - 1)
    <3> HIDE DEF Has
    <3> QED BY <2>2
  <2>4. Has((n - 1) + 1)
    <3> HIDE DEF Has
    <3> QED BY <1>2, <2>2, <2>3
  <2>5. (n - 1) + 1 = n
    BY <2>1
  <2>6. Has(n)
    <3> HIDE DEF Has
    <3> QED BY <2>4, <2>5
  <2>7. ~Has(n)
    <3> HIDE DEF Has
    <3> QED BY <2>1
  <2> QED BY <2>6, <2>7
<1> DEFINE G == FilterFn(list, kept)
<1>4. G = [n \in 0..Len(list) |-> FilterStep(list, kept, G, n)]
  BY <1>3 DEF FilterFn
<1> HIDE DEF G
<1>5. \A n \in 0..Len(list) : G[n] = FilterStep(list, kept, G, n)
  BY <1>4
<1> QED BY <1>5 DEF G

\* The model's Filter is the value of this function.
LEMMA FilterIsFilterFn ==
  ASSUME NEW list, NEW kept
  PROVE  Filter(list, kept) = FilterFn(list, kept)[Len(list)]
BY DEF Filter, FilterFn, FilterStep

\* Filter keeps what it is to keep, and nothing else.
LEMMA FilterKeeps ==
  ASSUME NEW S, NEW list \in Seq(S), NEW kept
  PROVE  /\ Filter(list, kept) \in Seq(S)
         /\ Len(Filter(list, kept)) <= Len(list)
         /\ Range(Filter(list, kept)) = Range(list) \cap kept
<1> DEFINE G == FilterFn(list, kept)
           Fine(n) == /\ G[n] \in Seq(S) /\ Len(G[n]) <= n
                      /\ Range(G[n]) = {list[i] : i \in 1..n} \cap kept
           Bad == {n \in 0..Len(list) : ~Fine(n)}
<1>0. Len(list) \in Nat
  OBVIOUS
<1>1. Fine(0)
  <2>1. G[0] = <<>>
    BY <1>0, FilterFnRec DEF FilterStep
  <2> QED BY <2>1 DEF Range
<1>2. ASSUME NEW n \in 1..Len(list), Fine(n - 1) PROVE Fine(n)
  <2>1. G[n] = IF list[n] \in kept THEN Append(G[n - 1], list[n]) ELSE G[n - 1]
    BY <1>0, FilterFnRec DEF FilterStep
  <2> DEFINE before == G[n - 1]
             now == G[n]
  <2>2. /\ before \in Seq(S) /\ Len(before) <= n - 1 /\ list[n] \in S
        /\ Range(before) = {list[i] : i \in 1..(n - 1)} \cap kept
    BY <1>2
  <2>3. {list[i] : i \in 1..n} = {list[i] : i \in 1..(n - 1)} \cup {list[n]}
    BY <1>0
  <2>4. Range(now) = {list[i] : i \in 1..n} \cap kept /\ now \in Seq(S) /\ Len(now) <= n
    <3> HIDE DEF G
    <3>1. CASE list[n] \in kept
      <4>1. now = Append(before, list[n])
        BY <2>1, <3>1
      <4> HIDE DEF now, before
      <4>2. now \in Seq(S) /\ Len(now) = Len(before) + 1
        BY <2>2, <4>1
      <4>3. Range(now) = Range(before) \cup {list[n]}
        BY <2>2, <4>1 DEF Range
      <4> QED BY <1>0, <2>2, <2>3, <3>1, <4>2, <4>3
    <3>2. CASE list[n] \notin kept
      <4>1. now = before
        BY <2>1, <3>2
      <4> HIDE DEF now, before
      <4> QED BY <1>0, <2>2, <2>3, <3>2, <4>1
    <3> QED BY <3>1, <3>2
  <2> HIDE DEF G
  <2> QED BY <2>4
<1>3. Bad = {}
  <2> SUFFICES ASSUME Bad # {} PROVE FALSE
    OBVIOUS
  <2>1. PICK n \in Bad : \A m \in Bad : n <= m
    <3> HIDE DEF Fine
    <3>1. Bad \in SUBSET Nat
      OBVIOUS
    <3> HIDE DEF Bad
    <3> QED BY <3>1, LeastNat
  <2>2. n \in 1..Len(list) /\ n - 1 \notin Bad /\ n - 1 \in 0..Len(list)
    <3> HIDE DEF Fine
    <3> QED BY <1>0, <1>1, <2>1
  <2> HIDE DEF Fine
  <2>3. Fine(n - 1)
    BY <2>2
  <2> QED BY <1>2, <2>1, <2>2, <2>3
<1>4. Fine(Len(list))
  <2> HIDE DEF Fine
  <2> QED BY <1>0, <1>3
<1>5. Range(list) = {list[i] : i \in 1..Len(list)}
  BY DEF Range
<1> HIDE DEF G
<1> QED BY <1>4, <1>5, FilterIsFilterFn DEF G

\* A finite set becomes a sequence of its elements.
LEMMA SetToSeqLists ==
  ASSUME NEW S, IsFiniteSet(S)
  PROVE  SetToSeq(S) \in Seq(S) /\ Range(SetToSeq(S)) \subseteq S
<1> DEFINE n == Cardinality(S)
<1>1. n \in Nat /\ \E f \in [1..n -> S] : IsInjective(f)
  BY FS_CardinalityType DEF ExistsBijection, Bijection, Injection
<1>2. SetToSeq(S) \in [1..n -> S]
  BY <1>1 DEF SetToSeq
<1> QED BY <1>1, <1>2 DEF Range

\* Range of what is appended, concatenated, read or cut off.
LEMMA Ranges ==
  ASSUME NEW S, NEW list \in Seq(S)
  PROVE  /\ \A x \in S : Append(list, x) \in Seq(S) /\ Range(Append(list, x)) = Range(list) \cup {x}
         /\ \A more \in Seq(S) : list \o more \in Seq(S)
                                /\ Range(list \o more) = Range(list) \cup Range(more)
         /\ list # <<>> => /\ Head(list) \in Range(list) /\ Head(list) \in S
                          /\ Tail(list) \in Seq(S) /\ Range(Tail(list)) \subseteq Range(list)
         /\ Range(list) \subseteq S
<1>1. ASSUME NEW x \in S
      PROVE  Append(list, x) \in Seq(S) /\ Range(Append(list, x)) = Range(list) \cup {x}
  <2> DEFINE more == Append(list, x)
  <2>1. /\ more \in Seq(S) /\ Len(more) = Len(list) + 1 /\ more[Len(list) + 1] = x
        /\ \A i \in 1..Len(list) : more[i] = list[i]
    BY AppendProperties
  <2> HIDE DEF more
  <2>2. Range(more) = Range(list) \cup {x}
    BY <2>1 DEF Range
  <2> QED BY <2>1, <2>2 DEF more
<1>2. ASSUME NEW more \in Seq(S)
      PROVE  list \o more \in Seq(S) /\ Range(list \o more) = Range(list) \cup Range(more)
  BY RangeConcatenation
<1>3. ASSUME list # <<>>
      PROVE  /\ Head(list) \in Range(list) /\ Head(list) \in S
             /\ Tail(list) \in Seq(S) /\ Range(Tail(list)) \subseteq Range(list)
  BY <1>3 DEF Range
<1>4. Range(list) \subseteq S
  BY DEF Range
<1> QED BY <1>1, <1>2, <1>3, <1>4

\* slice(-DEDUPE_CAPACITY): no more than that, and nothing new.
LEMMA NewestKeeps ==
  ASSUME NEW S, NEW list \in Seq(S)
  PROVE  /\ Newest(list) \in Seq(S) /\ Len(Newest(list)) <= DedupeCapacity
         /\ Range(Newest(list)) \subseteq Range(list)
<1> DEFINE first == Larger(1, Len(list) - DedupeCapacity + 1)
<1>1. /\ first \in Nat /\ first >= 1 /\ first >= Len(list) - DedupeCapacity + 1
      /\ DedupeCapacity \in Nat /\ Len(list) \in Nat
  BY PageAssumption DEF Larger
<1>2. \A i \in first..Len(list) : list[i] \in S
  BY <1>1
<1> HIDE DEF first
<1>3. /\ SubSeq(list, first, Len(list)) \in Seq(S)
      /\ Len(SubSeq(list, first, Len(list))) = IF first <= Len(list) THEN Len(list) - first + 1 ELSE 0
      /\ \A i \in 1..(Len(list) - first + 1) : SubSeq(list, first, Len(list))[i] = list[first + i - 1]
  BY <1>1, <1>2, SubSeqProperties
<1>4. Newest(list) = SubSeq(list, first, Len(list))
  BY DEF Newest, first
<1> DEFINE new == Newest(list)
<1>5. Len(new) <= DedupeCapacity /\ new \in Seq(S)
  BY <1>1, <1>3, <1>4
<1>6. ASSUME NEW i \in 1..Len(new) PROVE new[i] \in Range(list)
  <2>1. /\ i \in 1..(Len(list) - first + 1) /\ first + i - 1 \in 1..Len(list)
        /\ new[i] = list[first + i - 1]
    BY <1>1, <1>3, <1>4
  <2> QED BY <2>1 DEF Range
<1> HIDE DEF new
<1>7. Range(new) \subseteq Range(list)
  BY <1>5, <1>6 DEF Range
<1> QED BY <1>5, <1>7 DEF new

\* What a filter leaves is in the order of the list.
LEMMA FilterInOrder ==
  ASSUME NEW S, NEW list \in Seq(S), NEW kept,
         NEW i \in 1..Len(Filter(list, kept)), NEW j \in 1..Len(Filter(list, kept)), i < j
  PROVE  \E a, b \in 1..Len(list) : /\ a < b
                                    /\ Filter(list, kept)[i] = list[a]
                                    /\ Filter(list, kept)[j] = list[b]
<1> DEFINE G == FilterFn(list, kept)
           Ordered(s, n) == \A p, q \in 1..Len(s) : p < q =>
                       \E a, b \in 1..n : a < b /\ s[p] = list[a] /\ s[q] = list[b]
           Listed(s, n) == \A p \in 1..Len(s) : \E a \in 1..n : s[p] = list[a]
           Fine(n) == G[n] \in Seq(S) /\ Ordered(G[n], n) /\ Listed(G[n], n)
           Bad == {n \in 0..Len(list) : ~Fine(n)}
<1>0. Len(list) \in Nat
  OBVIOUS
<1>1. Fine(0)
  <2>1. G[0] = <<>>
    BY <1>0, FilterFnRec DEF FilterStep
  <2> QED BY <2>1
<1>2. ASSUME NEW n \in 1..Len(list), Fine(n - 1) PROVE Fine(n)
  <2>1. G[n] = IF list[n] \in kept THEN Append(G[n - 1], list[n]) ELSE G[n - 1]
    BY <1>0, FilterFnRec DEF FilterStep
  <2> DEFINE before == G[n - 1]
             now == G[n]
  <2>2. before \in Seq(S) /\ Ordered(before, n - 1) /\ Listed(before, n - 1) /\ list[n] \in S
    BY <1>2
  <2> HIDE DEF G
  <2>3. CASE list[n] \in kept
    <3>1. now = Append(before, list[n])
      BY <2>1, <2>3
    <3> HIDE DEF now, before
    <3>2. /\ now \in Seq(S) /\ Len(now) = Len(before) + 1 /\ now[Len(before) + 1] = list[n]
          /\ \A p \in 1..Len(before) : now[p] = before[p]
          /\ Len(before) \in Nat
      BY <2>2, <3>1, AppendProperties
    <3>3. Listed(now, n)
      <4> SUFFICES ASSUME NEW p \in 1..Len(now) PROVE \E a \in 1..n : now[p] = list[a]
        OBVIOUS
      <4>1. CASE p = Len(before) + 1
        BY <3>2, <4>1
      <4>2. CASE p # Len(before) + 1
        <5>1. p \in 1..Len(before)
          BY <3>2, <4>2
        <5>2. \E a \in 1..(n - 1) : before[p] = list[a]
          BY <2>2, <5>1
        <5> QED BY <3>2, <5>1, <5>2
      <4> QED BY <4>1, <4>2
    <3>4. Ordered(now, n)
      <4> SUFFICES ASSUME NEW p \in 1..Len(now), NEW q \in 1..Len(now), p < q
                   PROVE  \E a, b \in 1..n : a < b /\ now[p] = list[a] /\ now[q] = list[b]
        OBVIOUS
      <4>1. p \in 1..Len(before) /\ now[p] = before[p]
        BY <3>2
      <4>2. CASE q = Len(before) + 1
        <5>1. PICK a \in 1..(n - 1) : before[p] = list[a]
          BY <2>2, <4>1
        <5>2. a < n /\ a \in 1..n /\ n \in 1..n /\ now[q] = list[n]
          BY <3>2, <4>2
        <5> QED BY <4>1, <5>1, <5>2
      <4>3. CASE q # Len(before) + 1
        <5>1. q \in 1..Len(before) /\ now[q] = before[q]
          BY <3>2, <4>3
        <5>2. \E a, b \in 1..(n - 1) : a < b /\ before[p] = list[a] /\ before[q] = list[b]
          BY <2>2, <4>1, <5>1
        <5> QED BY <4>1, <5>1, <5>2
      <4> QED BY <4>2, <4>3
    <3> QED BY <3>2, <3>3, <3>4 DEF now
  <2>4. CASE list[n] \notin kept
    <3>1. now = before
      BY <2>1, <2>4
    <3> HIDE DEF now, before
    <3>2. 1..(n - 1) \subseteq 1..n
      BY <1>0
    <3>3. Ordered(now, n) /\ Listed(now, n) /\ now \in Seq(S)
      <4>1. Ordered(now, n - 1) /\ Listed(now, n - 1) /\ now \in Seq(S)
        <5> HIDE DEF Ordered, Listed
        <5> QED BY <2>2, <3>1
      <4>2. Listed(now, n)
        BY <3>2, <4>1
      <4>3. Ordered(now, n)
        <5> SUFFICES ASSUME NEW p \in 1..Len(now), NEW q \in 1..Len(now), p < q
                     PROVE  \E a, b \in 1..n : a < b /\ now[p] = list[a] /\ now[q] = list[b]
          OBVIOUS
        <5>1. PICK a, b \in 1..(n - 1) : a < b /\ now[p] = list[a] /\ now[q] = list[b]
          BY <4>1
        <5> QED BY <3>2, <5>1
      <4> QED BY <4>1, <4>2, <4>3
    <3> QED BY <3>3 DEF now
  <2> QED BY <2>3, <2>4
<1>3. Bad = {}
  <2> HIDE DEF Fine
  <2> SUFFICES ASSUME Bad # {} PROVE FALSE
    OBVIOUS
  <2>1. PICK n \in Bad : \A m \in Bad : n <= m
    <3>1. Bad \in SUBSET Nat
      OBVIOUS
    <3> HIDE DEF Bad
    <3> QED BY <3>1, LeastNat
  <2>2. n \in 1..Len(list) /\ n - 1 \notin Bad /\ n - 1 \in 0..Len(list)
    BY <1>0, <1>1, <2>1
  <2>3. Fine(n - 1)
    BY <2>2
  <2> QED BY <1>2, <2>1, <2>2, <2>3
<1>4. Fine(Len(list))
  <2> HIDE DEF Fine
  <2> QED BY <1>0, <1>3
<1> DEFINE F == Filter(list, kept)
<1>5. Ordered(F, Len(list))
  <2> DEFINE s == G[Len(list)]
  <2>1. F = s
    BY FilterIsFilterFn
  <2>2. Ordered(s, Len(list))
    BY <1>4
  <2> HIDE DEF F, s, Ordered
  <2> QED BY <2>1, <2>2
<1> HIDE DEF F
<1> QED BY <1>5 DEF F

\* What is left of a list whose entries are told apart by their ids has its entries
\* told apart by them too.
LEMMA FilterDistinct ==
  ASSUME NEW S, NEW list \in Seq(S), NEW kept,
         \A a, b \in DOMAIN list : list[a].id = list[b].id => a = b
  PROVE  \A i, j \in DOMAIN Filter(list, kept) :
           Filter(list, kept)[i].id = Filter(list, kept)[j].id => i = j
<1> DEFINE F == Filter(list, kept)
<1>1. F \in Seq(S) /\ DOMAIN F = 1..Len(F) /\ DOMAIN list = 1..Len(list)
  BY FilterKeeps
<1>2. ASSUME NEW i \in 1..Len(F), NEW j \in 1..Len(F), i < j PROVE F[i].id # F[j].id
  <2>1. PICK a, b \in 1..Len(list) : a < b /\ F[i] = list[a] /\ F[j] = list[b]
    BY <1>2, FilterInOrder
  <2> QED BY <1>1, <2>1
<1> HIDE DEF F
<1>3. ASSUME NEW i \in 1..Len(F), NEW j \in 1..Len(F), F[i].id = F[j].id PROVE i = j
  <2>1. Len(F) \in Nat
    BY <1>1
  <2>2. i < j \/ j < i \/ i = j
    BY <2>1
  <2> QED BY <1>2, <1>3, <2>2
<1> QED BY <1>1, <1>3 DEF F

\* The head of a list and the rest.
LEMMA HeadAndTail ==
  ASSUME NEW S, NEW list \in Seq(S), list # <<>>
  PROVE  /\ Head(list) \in S /\ Tail(list) \in Seq(S) /\ Len(Tail(list)) = Len(list) - 1
         /\ Head(list) = list[1] /\ \A i \in 1..Len(Tail(list)) : Tail(list)[i] = list[i + 1]
         /\ Range(list) = {Head(list)} \cup Range(Tail(list))
         /\ Len(list) \in Nat \ {0}
<1>1. /\ Head(list) \in S /\ Tail(list) \in Seq(S) /\ Len(Tail(list)) = Len(list) - 1
      /\ \A i \in 1..Len(Tail(list)) : Tail(list)[i] = list[i + 1]
      /\ Head(list) = list[1] /\ Len(list) \in Nat \ {0}
  BY HeadTailProperties, EmptySeq
<1> DEFINE rest == Tail(list)
           first == Head(list)
<1>2. Range(list) = {list[i] : i \in 1..Len(list)} /\ Range(rest) = {rest[i] : i \in 1..Len(rest)}
  <2>1. rest \in Seq(S)
    BY <1>1
  <2> QED BY <2>1, RangeEquality
<1> HIDE DEF rest, first
<1>3. ASSUME NEW x \in Range(list) PROVE x = first \/ x \in Range(rest)
  <2>1. PICK i \in 1..Len(list) : x = list[i]
    BY <1>2
  <2>2. CASE i = 1
    BY <1>1, <2>1, <2>2 DEF first
  <2>3. CASE i # 1
    <3>1. i - 1 \in 1..Len(rest) /\ (i - 1) + 1 = i
      BY <1>1, <2>3 DEF rest
    <3>2. rest[i - 1] = list[i]
      <4>1. rest[i - 1] = list[(i - 1) + 1]
        BY <1>1, <3>1 DEF rest
      <4> QED BY <3>1, <4>1
    <3> QED BY <1>2, <2>1, <3>1, <3>2
  <2> QED BY <2>2, <2>3
<1>4. ASSUME NEW x \in Range(rest) PROVE x \in Range(list)
  <2>1. PICK i \in 1..Len(rest) : x = rest[i]
    BY <1>2, <1>4
  <2>2. x = list[i + 1] /\ i + 1 \in 1..Len(list)
    BY <1>1, <2>1 DEF rest
  <2> QED BY <1>2, <2>2
<1>5. first \in Range(list)
  BY <1>1, <1>2 DEF first
<1>6. Range(list) = {first} \cup Range(rest)
  BY <1>3, <1>4, <1>5
<1> QED BY <1>1, <1>6 DEF first, rest

-----------------------------------------------------------------------------
(* 2. The token page: types *)

\* The bounds are numbers.
LEMMA Bounds ==
  /\ MaxHeight \in Nat \ {0} /\ MaxTrades \in Nat /\ MaxReorgs \in Nat
  /\ MaxLosses \in Nat /\ MaxRedeliveries \in Nat /\ MaxSwitches \in Nat
<1>1. \A m \in {MaxTrades, MaxReorgs, MaxLosses, MaxRedeliveries, MaxSwitches} : m \in Nat
  BY PageAssumption
<1> QED BY <1>1, PageAssumption

\* There are finitely many events.
LEMMA EventsFinite == IsFiniteSet(Events)
<1> DEFINE triples == (1..MaxTrades) \X ((1..MaxHeight) \X BOOLEAN)
           f == [p \in triples |-> [id |-> p[1], block |-> p[2][1], removed |-> p[2][2]]]
<1>1. IsFiniteSet(1..MaxTrades) /\ IsFiniteSet(1..MaxHeight)
  <2>1. MaxTrades \in Int /\ MaxHeight \in Int
    BY PageAssumption
  <2> QED BY <2>1, FS_Interval
<1>2. IsFiniteSet(BOOLEAN)
  <2>1. IsFiniteSet({} \cup {TRUE})
    BY FS_EmptySet, FS_AddElement
  <2>2. IsFiniteSet(({} \cup {TRUE}) \cup {FALSE})
    BY <2>1, FS_AddElement
  <2>3. ({} \cup {TRUE}) \cup {FALSE} = BOOLEAN
    OBVIOUS
  <2> QED BY <2>2, <2>3
<1>3. IsFiniteSet(triples)
  BY <1>1, <1>2, FS_Product
<1>4. f \in [triples -> Events]
  BY DEF Events
<1>5. ASSUME NEW e \in Events PROVE \E p \in triples : f[p] = e
  <2>1. <<e.id, <<e.block, e.removed>>>> \in triples
    BY DEF Events
  <2>2. f[<<e.id, <<e.block, e.removed>>>>] = e
    BY <2>1 DEF Events
  <2> QED BY <2>1, <2>2
<1>6. f \in Surjection(triples, Events)
  BY <1>4, <1>5 DEF Surjection
<1> QED BY <1>3, <1>6, FS_Surjection

\* An event of the chain.
LEMMA EventType ==
  /\ \A id \in 1..MaxTrades, block \in 1..MaxHeight :
       Event(id, block) \in Events /\ Event(id, block).id = id /\ Event(id, block).block = block
  /\ \A e \in Events : Retract(e) \in Events /\ Retract(e).id = e.id
                       /\ Retract(e).block = e.block
BY DEF Event, Retract, Events

\* An event has numbers, wherever it is.
LEMMA EventFields ==
  ASSUME TypeOK
  PROVE  \A e \in Range(events) \cup Range(wire) \cup mined \cup told :
           e \in Events /\ e.id \in Nat /\ e.block \in Nat
<1>1. /\ mined \subseteq Events /\ told \subseteq Events
      /\ Range(events) \subseteq Events /\ Range(wire) \subseteq Events
  BY Ranges DEF TypeOK
<1>2. ASSUME NEW e \in Events PROVE e.id \in Nat /\ e.block \in Nat
  <2>1. e.id \in 1..MaxTrades /\ e.block \in 1..MaxHeight
    BY DEF Events
  <2> QED BY <2>1, Bounds
<1> QED BY <1>1, <1>2

\* The blocks of the chain, and of what is read from it.
LEMMA Blocks ==
  ASSUME TypeOK
  PROVE  /\ tip \in Nat /\ index \in Nat /\ index <= tip /\ index >= 1
         /\ token \in Nat /\ token <= index /\ history \in Nat /\ history <= index
         /\ chart[interval] \in Nat /\ chart[interval] <= index
         /\ watermarks.chart \in Nat /\ watermarks.trades \in Nat /\ retired \in Nat
         /\ Floor \in Nat /\ Floor <= token /\ Floor <= index
         /\ Floor <= watermarks.chart /\ Floor <= watermarks.trades
<1>1. /\ tip \in Nat /\ index \in Nat /\ index <= tip /\ index >= 1
      /\ token \in Nat /\ token <= index /\ history \in Nat /\ history <= index
      /\ retired \in Nat /\ watermarks \in [chart : 0..index, trades : 0..index]
      /\ chart[interval] \in 0..index
  BY DEF TypeOK
<1>2. watermarks.chart \in Nat /\ watermarks.trades \in Nat
  BY <1>1
<1> QED BY <1>1, <1>2 DEF Floor, Smaller

\* A block with a trade.
LEMMA MineStep ==
  ASSUME TypeOK, Mine
  PROVE  TypeOK'
<1>1. /\ tip \in 1..MaxHeight /\ tip' = tip + 1 /\ tip' \in 1..MaxHeight
      /\ MaxHeight \in Nat /\ MaxTrades \in Nat /\ trades \in 0..MaxTrades
  BY Bounds DEF TypeOK, Mine
<1>2. mined' \subseteq Events /\ wire' \in Seq(Events) /\ trades' \in 0..MaxTrades
  <2>1. CASE UNCHANGED <<mined, wire, trades>>
    BY <2>1 DEF TypeOK
  <2>2. CASE /\ trades < MaxTrades /\ trades' = trades + 1
             /\ mined' = mined \cup {Event(trades', tip')}
             /\ wire' = Append(wire, Event(trades', tip'))
    <3>1. trades' \in 1..MaxTrades
      BY <1>1, <2>2
    <3>2. Event(trades', tip') \in Events
      BY <1>1, <3>1, EventType
    <3> QED BY <2>2, <3>1, <3>2, Ranges DEF TypeOK
  <2> QED BY <2>1, <2>2 DEF Mine
<1>3. index' \in 1..tip'
  BY <1>1 DEF TypeOK, Mine
<1> QED BY <1>1, <1>2, <1>3 DEF TypeOK, Mine, counters, caches

\* What a reorganisation takes out, puts in again and sends.
Orphans(keep) == {e \in mined : e.block > keep}
Anew(again) == {[e EXCEPT !.block = tip'] : e \in again}
Retracted(keep) == SetToSeq({Retract(e) : e \in Orphans(keep)})

\* It is sent as events.
LEMMA ReorganiseSends ==
  ASSUME TypeOK, tip' \in 1..MaxHeight, NEW keep, NEW again, again \subseteq Orphans(keep)
  PROVE  /\ Orphans(keep) \subseteq Events /\ Anew(again) \subseteq Events
         /\ Retracted(keep) \in Seq(Events) /\ SetToSeq(Anew(again)) \in Seq(Events)
         /\ Range(Retracted(keep)) \subseteq {Retract(e) : e \in Orphans(keep)}
         /\ Range(SetToSeq(Anew(again))) \subseteq Anew(again)
         /\ (wire \o Retracted(keep)) \o SetToSeq(Anew(again)) \in Seq(Events)
         /\ Range((wire \o Retracted(keep)) \o SetToSeq(Anew(again))) =
              (Range(wire) \cup Range(Retracted(keep))) \cup Range(SetToSeq(Anew(again)))
<1>1. Orphans(keep) \subseteq Events /\ Anew(again) \subseteq Events
  BY DEF TypeOK, Orphans, Anew, Events
<1>2. {Retract(e) : e \in Orphans(keep)} \subseteq Events
  BY <1>1, EventType
<1>3. IsFiniteSet(Anew(again)) /\ IsFiniteSet({Retract(e) : e \in Orphans(keep)})
  BY <1>1, <1>2, EventsFinite, FS_Subset
<1>4. /\ Retracted(keep) \in Seq(Events) /\ SetToSeq(Anew(again)) \in Seq(Events)
      /\ Range(Retracted(keep)) \subseteq {Retract(e) : e \in Orphans(keep)}
      /\ Range(SetToSeq(Anew(again))) \subseteq Anew(again)
  <2>1. \A T : T \subseteq Events => Seq(T) \subseteq Seq(Events)
    OBVIOUS
  <2> QED BY <1>1, <1>2, <1>3, <2>1, SetToSeqLists DEF Retracted
<1>5. wire \in Seq(Events)
  BY DEF TypeOK
<1>6. /\ wire \o Retracted(keep) \in Seq(Events)
      /\ Range(wire \o Retracted(keep)) = Range(wire) \cup Range(Retracted(keep))
  BY <1>4, <1>5, Ranges
<1> DEFINE first == wire \o Retracted(keep)
           second == SetToSeq(Anew(again))
<1>7. first \in Seq(Events) /\ second \in Seq(Events)
  BY <1>4, <1>6
<1> HIDE DEF first, second
<1>8. first \o second \in Seq(Events) /\ Range(first \o second) = Range(first) \cup Range(second)
  BY <1>7, Ranges
<1> QED BY <1>1, <1>4, <1>6, <1>8 DEF first, second

\* A reorganisation, named by its parts.
LEMMA ReorganiseParts ==
  ASSUME TypeOK, Reorganise
  PROVE  /\ tip' = tip + 1 /\ tip' \in 1..MaxHeight /\ reorgs' \in 0..MaxReorgs
         /\ \E keep \in index..(tip - 1), again \in SUBSET mined :
              /\ again \subseteq Orphans(keep)
              /\ mined' = (mined \ Orphans(keep)) \cup Anew(again)
              /\ wire' = (wire \o Retracted(keep)) \o SetToSeq(Anew(again))
<1>1. /\ tip \in 1..MaxHeight /\ tip < MaxHeight /\ tip' = tip + 1
      /\ reorgs \in 0..MaxReorgs /\ reorgs < MaxReorgs /\ reorgs' = reorgs + 1
  BY DEF TypeOK, Reorganise
<1>2. PICK keep \in index..(tip - 1), again \in SUBSET mined :
        /\ again \subseteq Orphans(keep)
        /\ mined' = (mined \ Orphans(keep)) \cup Anew(again)
        /\ wire' = (wire \o Retracted(keep)) \o SetToSeq(Anew(again))
  BY DEF Reorganise, Orphans, Anew, Retracted
<1>3. tip' \in 1..MaxHeight /\ reorgs' \in 0..MaxReorgs
  BY <1>1, Bounds
<1> QED BY <1>1, <1>2, <1>3

\* What receive() makes of the events.
LEMMA ReceivedType ==
  ASSUME events \in Seq(Events), Len(events) <= DedupeCapacity, NEW e \in Events
  PROVE  /\ Received(e) \in Seq(Events) /\ Len(Received(e)) <= DedupeCapacity
         /\ Range(Received(e)) \subseteq Range(events) \cup {e}
         /\ e.removed => Range(Received(e)) = {o \in Range(events) : o.id # e.id}
         /\ ~e.removed /\ (e.block <= retired \/ e.id \in Ids(events)) => Received(e) = events
<1>1. CASE e.removed
  <2>1. Received(e) = Filter(events, {o \in Range(events) : o.id # e.id})
    BY <1>1 DEF Received, Without
  <2>2. /\ Received(e) \in Seq(Events) /\ Len(Received(e)) <= Len(events)
        /\ Range(Received(e)) = Range(events) \cap {o \in Range(events) : o.id # e.id}
    BY <2>1, FilterKeeps
  <2> QED BY <1>1, <2>2, PageAssumption
<1>2. CASE ~e.removed /\ (e.block <= retired \/ e.id \in Ids(events))
  BY <1>2 DEF Received
<1>3. CASE ~e.removed /\ ~(e.block <= retired \/ e.id \in Ids(events))
  <2> DEFINE more == Append(events, e)
  <2>1. Received(e) = Newest(more)
    BY <1>3 DEF Received
  <2>2. more \in Seq(Events) /\ Range(more) = Range(events) \cup {e}
    BY Ranges
  <2> HIDE DEF more
  <2> QED BY <1>3, <2>1, <2>2, NewestKeeps
<1> QED BY <1>1, <1>2, <1>3

\* So is what is left after a retirement.
LEMMA RetiredType ==
  ASSUME events \in Seq(Events), Len(events) <= DedupeCapacity, NEW block
  PROVE  /\ Above(block, events) \in Seq(Events) /\ Len(Above(block, events)) <= DedupeCapacity
         /\ Range(Above(block, events)) = {e \in Range(events) : e.block > block}
<1>1. /\ Above(block, events) \in Seq(Events) /\ Len(Above(block, events)) <= Len(events)
      /\ Range(Above(block, events)) = Range(events) \cap {e \in Range(events) : e.block > block}
  BY FilterKeeps DEF Above
<1> QED BY <1>1, PageAssumption

\* What an effect reports.
LEMMA ObserveStep ==
  ASSUME TypeOK, NEW surface \in {"chart", "trades"}, Observe(surface)
  PROVE  /\ watermarks' \in [chart : 0..index, trades : 0..index]
         /\ surface = "chart" => /\ watermarks'.chart = Larger(watermarks.chart, chart[interval])
                                 /\ watermarks'.trades = watermarks.trades
         /\ surface = "trades" => /\ watermarks'.trades = Larger(watermarks.trades, history)
                                  /\ watermarks'.chart = watermarks.chart
<1>1. /\ watermarks \in [chart : 0..index, trades : 0..index] /\ index \in Nat
      /\ chart[interval] \in 0..index /\ history \in 0..index
  BY DEF TypeOK
<1>2. CASE surface = "chart"
  <2>1. watermarks' = [watermarks EXCEPT !.chart = Larger(watermarks.chart, chart[interval])]
    BY <1>2 DEF Observe, Advance, Snapshot
  <2> QED BY <1>1, <1>2, <2>1 DEF Larger
<1>3. CASE surface = "trades"
  <2>1. watermarks' = [watermarks EXCEPT !.trades = Larger(watermarks.trades, history)]
    BY <1>3 DEF Observe, Advance, Snapshot
  <2> QED BY <1>1, <1>3, <2>1 DEF Larger
<1> QED BY <1>2, <1>3

\* What a button of the timeframes leaves.
LEMMA SwitchStep ==
  ASSUME TypeOK, SwitchInterval
  PROVE  /\ watermarks' \in [chart : 0..index, trades : 0..index]
         /\ watermarks'.chart = 0 /\ watermarks'.trades = watermarks.trades
<1>1. /\ watermarks \in [chart : 0..index, trades : 0..index]
      /\ index \in 1..tip /\ tip \in 1..MaxHeight
  BY DEF TypeOK
<1>2. watermarks' = [watermarks EXCEPT !.chart = 0]
  BY DEF SwitchInterval, Advance, None
<1> QED BY <1>1, <1>2, PageAssumption

\* The types are kept.
LEMMA TypeStep == TypeOK /\ [Next]_vars => TypeOK'
<1> SUFFICES ASSUME TypeOK, [Next]_vars PROVE TypeOK'
  OBVIOUS
<1>0. /\ tip \in 1..MaxHeight /\ index \in 1..tip /\ mined \subseteq Events
      /\ wire \in Seq(Events) /\ events \in Seq(Events) /\ Len(events) <= DedupeCapacity
      /\ told \subseteq Events
  BY DEF TypeOK
<1>1. CASE Mine
  BY <1>1, MineStep
<1>2. CASE Reorganise
  <2>1. PICK keep \in index..(tip - 1), again \in SUBSET mined :
          /\ again \subseteq Orphans(keep)
          /\ mined' = (mined \ Orphans(keep)) \cup Anew(again)
          /\ wire' = (wire \o Retracted(keep)) \o SetToSeq(Anew(again))
    BY <1>2, ReorganiseParts
  <2>2. tip' = tip + 1 /\ tip' \in 1..MaxHeight /\ reorgs' \in 0..MaxReorgs
    BY <1>2, ReorganiseParts
  <2>3. mined' \subseteq Events /\ wire' \in Seq(Events)
    BY <1>0, <2>1, <2>2, ReorganiseSends
  <2>4. index' \in 1..tip'
    BY <1>0, <1>2, <2>2 DEF Reorganise
  <2> QED BY <1>2, <2>2, <2>3, <2>4 DEF TypeOK, Reorganise, counters, caches
<1>3. CASE IndexAdvances
  <2>1. index' \in 1..tip /\ index' > index /\ index \in Nat /\ index' \in Nat
    BY <1>0, <1>3 DEF IndexAdvances
  <2>2. \A i \in 0..index : i \in 0..index'
    BY <2>1
  <2>3. /\ token \in 0..index' /\ chart \in [Intervals -> 0..index'] /\ history \in 0..index'
        /\ watermarks \in [chart : 0..index', trades : 0..index'] /\ retired \in 0..index'
    BY <2>2 DEF TypeOK
  <2> QED BY <1>3, <2>1, <2>3 DEF TypeOK, IndexAdvances, counters, caches
<1>4. CASE LoseWire
  BY <1>4, Bounds DEF TypeOK, LoseWire, chainVars, caches
<1>5. CASE Redeliver
  <2>1. PICK e \in mined : wire' = Append(wire, e)
    BY <1>5 DEF Redeliver
  <2>2. wire' \in Seq(Events)
    BY <1>0, <2>1, Ranges
  <2> QED BY <1>5, <2>2, Bounds DEF TypeOK, Redeliver, chainVars, caches
<1>6. CASE SwitchInterval
  <2>1. watermarks' \in [chart : 0..index, trades : 0..index]
    BY <1>6, SwitchStep
  <2> QED BY <1>6, <2>1, Bounds DEF TypeOK, SwitchInterval, chainVars
<1>7. CASE RefetchToken \/ RefetchChart \/ RefetchTrades
  <2>1. index \in 0..index
    BY <1>0
  <2> QED BY <1>7, <2>1 DEF TypeOK, RefetchToken, RefetchChart, RefetchTrades, chainVars, counters
<1>8. ASSUME NEW surface \in {"chart", "trades"}, Observe(surface) PROVE TypeOK'
  <2>1. watermarks' \in [chart : 0..index, trades : 0..index]
    BY <1>8, ObserveStep
  <2> QED BY <1>8, <2>1 DEF TypeOK, Observe, chainVars, counters, caches
<1>9. CASE Retire
  <2>1. Floor \in 0..index
    BY Blocks
  <2>2. events' \in Seq(Events) /\ Len(events') <= DedupeCapacity
    BY <1>0, <1>9, RetiredType DEF Retire
  <2> QED BY <1>9, <2>1, <2>2 DEF TypeOK, Retire, chainVars, counters, caches
<1>10. CASE Receive
  <2>1. /\ wire # <<>> /\ wire' = Tail(wire) /\ events' = Received(Head(wire))
        /\ told' \subseteq told \cup {Head(wire)}
    BY <1>10 DEF Receive
  <2>2. Head(wire) \in Events /\ wire' \in Seq(Events)
    BY <1>0, <2>1, Ranges
  <2>3. events' \in Seq(Events) /\ Len(events') <= DedupeCapacity
    BY <1>0, <2>1, <2>2, ReceivedType
  <2> QED BY <1>0, <1>10, <2>1, <2>2, <2>3 DEF TypeOK, Receive, chainVars, counters, caches
<1>11. CASE UNCHANGED vars
  BY <1>11 DEF TypeOK, vars, chainVars, counters, caches
<1> QED
  BY <1>1, <1>2, <1>3, <1>4, <1>5, <1>6, <1>7, <1>8, <1>9, <1>10, <1>11
  DEF Next, Environment, Effects

\* The types of the page and of what surrounds it.
THEOREM TypeInvariant == Spec => []TypeOK
<1>1. Init => TypeOK
  BY Bounds, PageAssumption DEF Init, TypeOK, None
<1> QED BY <1>1, TypeStep, PTL DEF Spec

-----------------------------------------------------------------------------
(* 3. The token page: what it was told *)

\* Nothing is retired or observed ahead of the answers.  What is retired may be ahead of
\* the timeframe shown, never of all of them.
WatermarksFollow ==
  /\ retired <= token /\ retired <= watermarks.trades /\ watermarks.trades <= history
  /\ watermarks.chart <= chart[interval] /\ \E i \in Intervals : retired <= chart[i]

\* One event of a trade is kept at a time.
OneEvent == \A o, p \in Range(events) : o.id = p.id => o = p

\* What the page was told is among its events or retired.
ToldIsKept == \A e \in told : e \in Range(events) \/ e.block <= retired

ToldInv == TypeOK /\ WatermarksFollow /\ OneEvent /\ ToldIsKept

\* An event arrives.
LEMMA ReceiveKeepsTold ==
  ASSUME ToldInv, Receive
  PROVE  OneEvent' /\ ToldIsKept'
<1> DEFINE e == Head(wire)
<1>1. /\ wire # <<>> /\ events' = Received(e) /\ retired' = retired
      /\ e.removed => told' = {t \in told : t.id # e.id}
      /\ ~e.removed /\ e.id \in Ids(events) => told' = told
      /\ ~e.removed /\ e.id \notin Ids(events) =>
           told' = {t \in told \cup {e} :
                      t.id \notin Ids(Append(events, e)) \ Ids(Received(e)) \/ e.block <= retired}
  BY DEF Receive
<1>2. /\ events \in Seq(Events) /\ Len(events) <= DedupeCapacity /\ wire \in Seq(Events)
      /\ told \subseteq Events
  BY DEF ToldInv, TypeOK
<1>3. e \in Events
  BY <1>1, <1>2, Ranges
<1> HIDE DEF e
<1>4. /\ Range(Received(e)) \subseteq Range(events) \cup {e}
      /\ e.removed => Range(Received(e)) = {o \in Range(events) : o.id # e.id}
      /\ ~e.removed /\ (e.block <= retired \/ e.id \in Ids(events)) => Received(e) = events
  BY <1>2, <1>3, ReceivedType
<1>5. /\ \A o, p \in Range(events) : o.id = p.id => o = p
      /\ \A t \in told : t \in Range(events) \/ t.block <= retired
  BY DEF ToldInv, OneEvent, ToldIsKept
<1>6. CASE e.removed
  BY <1>1, <1>4, <1>5, <1>6 DEF OneEvent, ToldIsKept
<1>7. CASE ~e.removed /\ e.id \in Ids(events)
  BY <1>1, <1>4, <1>5, <1>7 DEF OneEvent, ToldIsKept
<1>8. CASE ~e.removed /\ e.id \notin Ids(events) /\ e.block <= retired
  BY <1>1, <1>4, <1>5, <1>8 DEF OneEvent, ToldIsKept
<1>9. CASE ~e.removed /\ e.id \notin Ids(events) /\ ~(e.block <= retired)
  <2>1. \A o \in Range(events) : o.id # e.id
    BY <1>9 DEF Ids
  <2>2. OneEvent'
    BY <1>1, <1>4, <1>5, <2>1 DEF OneEvent
  <2>3. Range(Append(events, e)) = Range(events) \cup {e}
    BY <1>2, <1>3, Ranges
  <2>4. ASSUME NEW t \in told' PROVE t \in Range(Received(e)) \/ t.block <= retired
    <3>1. t \in told \cup {e} /\ t.id \notin Ids(Append(events, e)) \ Ids(Received(e))
      BY <1>1, <1>9
    <3>2. CASE t \in Range(events) \cup {e}
      <4>1. t.id \in Ids(Append(events, e))
        BY <2>3, <3>2 DEF Ids
      <4>2. PICK o \in Range(Received(e)) : o.id = t.id
        BY <3>1, <4>1 DEF Ids
      <4> QED BY <1>4, <1>5, <2>1, <3>2, <4>2
    <3>3. CASE t \notin Range(events) \cup {e}
      BY <1>5, <3>1, <3>3
    <3> QED BY <3>2, <3>3
  <2> QED BY <1>1, <2>2, <2>4 DEF ToldIsKept
<1> QED BY <1>6, <1>7, <1>8, <1>9

\* Every step keeps it.
LEMMA ToldStep == ToldInv /\ [Next]_vars => ToldInv'
<1> SUFFICES ASSUME ToldInv, [Next]_vars PROVE ToldInv'
  OBVIOUS
<1>0. TypeOK /\ TypeOK'
  BY TypeStep DEF ToldInv
<1>f. /\ WatermarksFollow /\ chart \in [Intervals -> 0..index] /\ index \in Nat
      /\ interval \in Intervals
  BY <1>0, Blocks DEF ToldInv, TypeOK
<1>1. CASE /\ UNCHANGED <<watermarks, retired, events, told, interval>>
           /\ token <= token' /\ history <= history'
           /\ \A i \in Intervals : chart[i] <= chart'[i]
  <2>0. /\ token' \in Nat /\ history' \in Nat /\ chart' \in [Intervals -> 0..index']
        /\ index' \in Nat
    <3>1. /\ token' \in 0..index' /\ history' \in 0..index' /\ index' \in 1..tip'
          /\ chart' \in [Intervals -> 0..index']
      BY <1>0 DEF TypeOK
    <3> QED BY <3>1
  <2>1. \A i \in Intervals : chart[i] \in Nat /\ chart'[i] \in Nat
    BY <1>f, <2>0
  <2>2. watermarks'.chart <= chart'[interval']
    <3>1. /\ watermarks'.chart = watermarks.chart /\ interval' = interval
          /\ chart[interval] <= chart'[interval]
      BY <1>1, <1>f
    <3>2. /\ watermarks.chart \in Nat /\ chart[interval] \in Nat /\ chart'[interval] \in Nat
          /\ watermarks.chart <= chart[interval]
      BY <1>0, <1>f, <2>1, Blocks DEF WatermarksFollow
    <3>3. watermarks.chart <= chart'[interval]
      BY <3>1, <3>2
    <3> QED BY <3>1, <3>3
  <2>3. \E i \in Intervals : retired' <= chart'[i]
    <3>1. PICK i \in Intervals : retired <= chart[i]
      BY <1>f DEF WatermarksFollow
    <3> QED BY <1>0, <1>1, <2>1, <3>1, Blocks
  <2>4. WatermarksFollow'
    BY <1>0, <1>1, <2>0, <2>2, <2>3, Blocks DEF ToldInv, WatermarksFollow
  <2> QED BY <1>0, <1>1, <2>4 DEF ToldInv, OneEvent, ToldIsKept
<1>2. CASE Mine \/ Reorganise \/ IndexAdvances \/ LoseWire \/ Redeliver \/ UNCHANGED vars
  <2>1. UNCHANGED <<watermarks, retired, events, told, token, history, chart, interval>>
    BY <1>2 DEF Mine, Reorganise, IndexAdvances, LoseWire, Redeliver, caches, vars
  <2>2. \A i \in Intervals : chart[i] \in Nat
    BY <1>f
  <2> QED BY <1>0, <1>1, <2>1, <2>2, Blocks
<1>3. CASE RefetchToken \/ RefetchChart \/ RefetchTrades
  <2>1. \A i \in Intervals : chart[i] \in Nat
    BY <1>f
  <2>2. \A i \in Intervals : chart[i] <= chart'[i]
    BY <1>3, <1>f, <2>1 DEF RefetchToken, RefetchChart, RefetchTrades
  <2> QED BY <1>0, <1>1, <1>3, <2>2, Blocks DEF RefetchToken, RefetchChart, RefetchTrades
<1>7. CASE SwitchInterval
  <2>1. /\ UNCHANGED <<token, chart, history, retired, events, told>>
        /\ interval' \in Intervals
    BY <1>7 DEF SwitchInterval
  <2>2. watermarks'.chart <= chart'[interval'] /\ watermarks'.trades = watermarks.trades
    BY <1>0, <1>7, <1>f, <2>1, SwitchStep
  <2>3. WatermarksFollow'
    BY <1>f, <2>1, <2>2 DEF WatermarksFollow
  <2> QED BY <1>0, <2>1, <2>3 DEF ToldInv, OneEvent, ToldIsKept
<1>4. ASSUME NEW surface \in {"chart", "trades"}, Observe(surface) PROVE ToldInv'
  <2>1. UNCHANGED <<token, chart, interval, history, retired, events, told>>
    BY <1>4 DEF Observe, caches
  <2>2. /\ watermarks'.chart <= chart[interval] /\ watermarks'.trades >= watermarks.trades
        /\ watermarks'.trades <= history
    BY <1>0, <1>4, <1>f, ObserveStep, Blocks DEF Larger, WatermarksFollow
  <2>3. watermarks'.chart \in Nat /\ watermarks'.trades \in Nat
    BY <1>0, <1>4, ObserveStep DEF TypeOK
  <2>4. WatermarksFollow'
    BY <1>0, <1>f, <2>1, <2>2, <2>3, Blocks DEF WatermarksFollow
  <2> QED BY <1>0, <2>1, <2>4 DEF ToldInv, OneEvent, ToldIsKept
<1>5. CASE Retire
  <2>1. /\ retired' = Floor /\ Floor > retired /\ events' = Above(Floor, events)
        /\ UNCHANGED <<token, chart, interval, history, watermarks, told>>
    BY <1>5 DEF Retire, caches
  <2>2. Range(events') = {e \in Range(events) : e.block > Floor}
    BY <1>0, <2>1, RetiredType DEF TypeOK
  <2>3. WatermarksFollow'
    <3>1. chart[interval] \in Nat
      BY <1>f
    <3>2. retired' <= chart'[interval]
      BY <1>0, <1>f, <2>1, <3>1, Blocks DEF WatermarksFollow
    <3> QED BY <1>0, <1>f, <2>1, <3>2, Blocks DEF WatermarksFollow
  <2>4. ASSUME NEW e \in told PROVE e \in Range(events') \/ e.block <= Floor
    <3>1. e.block \in Nat
      BY <1>0, EventFields
    <3> QED BY <1>0, <2>1, <2>2, <3>1, Blocks DEF ToldInv, ToldIsKept
  <2> QED BY <1>0, <2>1, <2>2, <2>3, <2>4 DEF ToldInv, OneEvent, ToldIsKept
<1>6. CASE Receive
  <2>1. OneEvent' /\ ToldIsKept'
    BY <1>6, ReceiveKeepsTold
  <2>2. WatermarksFollow'
    BY <1>6 DEF ToldInv, WatermarksFollow, Receive, caches
  <2> QED BY <1>0, <2>1, <2>2 DEF ToldInv
<1> QED BY <1>2, <1>3, <1>4, <1>5, <1>6, <1>7 DEF Next, Environment, Effects

\* What the page was told and has not retired, it keeps.
THEOREM ToldInvariant == Spec => []ToldInv
<1>1. Init => ToldInv
  <2> SUFFICES ASSUME Init PROVE ToldInv
    OBVIOUS
  <2>1. TypeOK
    BY Bounds, PageAssumption DEF Init, TypeOK, None
  <2>2. WatermarksFollow
    BY PageAssumption DEF Init, WatermarksFollow, None
  <2> QED BY <2>1, <2>2 DEF Init, ToldInv, OneEvent, ToldIsKept, Range
<1> QED BY <1>1, ToldStep, PTL DEF Spec

\* The floor is not ahead of a surface's answer, and of the retired trades an answer has
\* all but those another timeframe retired.
LEMMA FloorIsShown ==
  ASSUME ToldInv, NEW surface \in Surfaces, NEW e \in told,
         surface = "chart" => ~OlderChart(e)
  PROVE  /\ Snapshot(surface) \in Nat /\ Floor <= Snapshot(surface)
         /\ e.block <= retired => e.block <= Snapshot(surface)
<1>1. TypeOK /\ WatermarksFollow /\ e.block \in Nat
  BY EventFields DEF ToldInv, TypeOK
<1>2. CASE surface = "token"
  BY <1>1, <1>2, Blocks DEF Snapshot, WatermarksFollow
<1>3. CASE surface = "chart"
  <2>1. \A i \in Intervals : chart[i] \in Nat
    BY <1>1, Blocks DEF TypeOK
  <2>2. Snapshot(surface) = chart[interval] /\ interval \in Intervals
    BY <1>1, <1>3 DEF Snapshot, TypeOK
  <2>3. Floor <= chart[interval]
    BY <1>1, <2>1, <2>2, Blocks DEF WatermarksFollow
  <2>4. ASSUME e.block <= retired PROVE e.block <= chart[interval]
    <3>1. PICK i \in Intervals : retired <= chart[i]
      BY <1>1 DEF WatermarksFollow
    <3>2. e.block <= chart[i]
      BY <1>1, <2>1, <2>4, <3>1, Blocks
    <3>3. i = interval
      BY <1>3, <2>4, <3>2 DEF OlderChart
    <3> QED BY <3>2, <3>3
  <2> QED BY <2>1, <2>2, <2>3, <2>4
<1>4. CASE surface = "trades"
  BY <1>1, <1>4, Blocks DEF Snapshot, WatermarksFollow
<1> QED BY <1>2, <1>3, <1>4 DEF Surfaces

\* A trade the page was told of is on every surface that has an answer, in the answer
\* or laid over it, whatever polls, effects, losses and reorganisations do.
THEOREM SurfacesAreComplete == Spec => []SurfacesComplete
<1>1. ToldInv => SurfacesComplete
  <2> SUFFICES ASSUME ToldInv, NEW surface \in Surfaces, NEW e \in told,
                      surface = "chart" => ~OlderChart(e)
               PROVE  Shows(surface, e)
    BY DEF SurfacesComplete
  <2>1. /\ Snapshot(surface) \in Nat /\ Floor <= Snapshot(surface)
        /\ e.block <= retired => e.block <= Snapshot(surface)
        /\ retired \in Nat /\ Floor \in Nat /\ e.block \in Nat
    BY FloorIsShown, Blocks, EventFields DEF ToldInv
  <2>2. CASE e.block <= Snapshot(surface)
    BY <2>2 DEF Shows
  <2>3. CASE ~(e.block <= Snapshot(surface))
    <3>1. e \in Range(events) /\ e.block > Floor /\ e.block > Snapshot(surface)
      BY <2>1, <2>3 DEF ToldInv, ToldIsKept
    <3> QED BY <3>1 DEF Shows, Overlay
  <2> QED BY <2>2, <2>3
<1> QED BY <1>1, ToldInvariant, PTL

-----------------------------------------------------------------------------
(* 4. The token page: mined again *)

\* A trade on the chain has one block, and what is still said of it names that block
\* or, from before a reorganisation, an earlier one.
OneBlock ==
  /\ \A e \in mined : e.id <= trades /\ e.block <= tip
  /\ \A e, f \in mined : e.id = f.id => e = f

NotAhead ==
  \A o \in Range(events) \cup Range(wire) :
    /\ o.id <= trades /\ o.block <= tip
    /\ \A e \in mined : o.id = e.id => o.block <= e.block

MinedInv == TypeOK /\ OneBlock /\ NotAhead

\* The chain grows.
LEMMA MineKeepsOneBlock ==
  ASSUME MinedInv, Mine
  PROVE  OneBlock' /\ NotAhead'
<1>1. /\ tip \in 1..MaxHeight /\ tip' = tip + 1 /\ tip' \in 1..MaxHeight /\ events' = events
      /\ trades \in 0..MaxTrades /\ MaxTrades \in Nat /\ MaxHeight \in Nat
      /\ mined \subseteq Events /\ wire \in Seq(Events) /\ events \in Seq(Events)
  BY Bounds DEF MinedInv, TypeOK, Mine
<1>2. \A o \in Range(events) \cup Range(wire) \cup mined : o.id \in Nat /\ o.block \in Nat
  BY EventFields DEF MinedInv
<1>3. CASE UNCHANGED <<mined, wire, trades>>
  BY <1>1, <1>2, <1>3 DEF MinedInv, OneBlock, NotAhead
<1>4. CASE /\ trades < MaxTrades /\ trades' = trades + 1
           /\ mined' = mined \cup {Event(trades', tip')}
           /\ wire' = Append(wire, Event(trades', tip'))
  <2> DEFINE new == Event(trades', tip')
  <2>1. new \in Events /\ new.id = trades + 1 /\ new.block = tip + 1
    <3>1. trades' \in 1..MaxTrades
      BY <1>1, <1>4
    <3> QED BY <1>1, <1>4, <3>1, EventType
  <2> HIDE DEF new
  <2>2. Range(wire') = Range(wire) \cup {new} /\ mined' = mined \cup {new}
    BY <1>1, <1>4, <2>1, Ranges DEF new
  <2>3. OneBlock'
    BY <1>1, <1>2, <1>4, <2>1, <2>2 DEF MinedInv, OneBlock
  <2>4. NotAhead'
    BY <1>1, <1>2, <1>4, <2>1, <2>2 DEF MinedInv, OneBlock, NotAhead
  <2> QED BY <2>3, <2>4
<1> QED BY <1>3, <1>4 DEF Mine

\* What is mined again is in a block later than all that was said of it.
LEMMA ReorganiseKeepsOneBlock ==
  ASSUME MinedInv, Reorganise
  PROVE  OneBlock' /\ NotAhead'
<1>1. PICK keep \in index..(tip - 1), again \in SUBSET mined :
        /\ again \subseteq Orphans(keep)
        /\ mined' = (mined \ Orphans(keep)) \cup Anew(again)
        /\ wire' = (wire \o Retracted(keep)) \o SetToSeq(Anew(again))
  BY ReorganiseParts DEF MinedInv
<1>2. /\ tip' = tip + 1 /\ tip' \in 1..MaxHeight /\ tip \in Nat
      /\ UNCHANGED <<trades, events>> /\ trades \in Nat
      /\ mined \subseteq Events /\ wire \in Seq(Events) /\ events \in Seq(Events)
  <2>1. tip' = tip + 1 /\ tip' \in 1..MaxHeight
    BY ReorganiseParts DEF MinedInv
  <2>2. tip \in Nat /\ trades \in Nat
    BY Blocks, Bounds DEF MinedInv, TypeOK
  <2> QED BY <2>1, <2>2 DEF MinedInv, TypeOK, Reorganise
<1>3. /\ Range(Retracted(keep)) \subseteq {Retract(e) : e \in Orphans(keep)}
      /\ Range(SetToSeq(Anew(again))) \subseteq Anew(again)
      /\ Range(wire') = (Range(wire) \cup Range(Retracted(keep))) \cup Range(SetToSeq(Anew(again)))
  BY <1>1, <1>2, ReorganiseSends DEF MinedInv
<1>4. \A o \in Range(events) \cup Range(wire) \cup mined : o.id \in Nat /\ o.block \in Nat
  BY EventFields DEF MinedInv
<1>5. \A f \in Anew(again) : f.block = tip + 1 /\ \E e \in mined : e \in Orphans(keep) /\ f.id = e.id
  BY <1>1, <1>2 DEF Anew, Events
<1>6. \A f, g \in Anew(again) : f.id = g.id => f = g
  <2> SUFFICES ASSUME NEW e \in again, NEW d \in again, e.id = d.id PROVE e = d
    <3> SUFFICES ASSUME NEW e \in again, NEW d \in again,
                        [e EXCEPT !.block = tip'].id = [d EXCEPT !.block = tip'].id
                 PROVE  e = d
      BY DEF Anew
    <3>1. e \in Events /\ d \in Events
      BY <1>1, <1>2
    <3>2. e.id = d.id
      BY <3>1 DEF Events
    <3> QED BY <3>2
  <2> QED BY <1>1 DEF MinedInv, OneBlock
<1>7. Orphans(keep) \subseteq mined
  BY DEF Orphans
<1>8. /\ \A e \in mined : e.id <= trades /\ e.block <= tip
      /\ \A e, f \in mined : e.id = f.id => e = f
      /\ \A o \in Range(events) \cup Range(wire) :
           /\ o.id <= trades /\ o.block <= tip
           /\ \A e \in mined : o.id = e.id => o.block <= e.block
  BY DEF MinedInv, OneBlock, NotAhead
<1>9. OneBlock'
  <2>1. \A e \in mined' : e.id <= trades /\ e.block <= tip + 1
    <3> SUFFICES ASSUME NEW e \in mined' PROVE e.id <= trades /\ e.block <= tip + 1
      OBVIOUS
    <3>1. CASE e \in mined
      BY <1>2, <1>4, <1>8, <3>1
    <3>2. CASE e \in Anew(again)
      <4>1. PICK o \in mined : e.id = o.id
        BY <1>5, <3>2
      <4>2. e.block = tip + 1
        BY <1>5, <3>2
      <4> QED BY <1>2, <1>8, <4>1, <4>2
    <3> QED BY <1>1, <3>1, <3>2
  <2>2. \A e, f \in mined' : e.id = f.id => e = f
    BY <1>1, <1>5, <1>6, <1>8
  <2> QED BY <1>2, <2>1, <2>2 DEF OneBlock
<1>10. ASSUME NEW o \in Range(events') \cup Range(wire')
       PROVE  /\ o.id <= trades /\ o.block <= tip + 1
              /\ \A e \in mined' : o.id = e.id => o.block <= e.block
  <2>1. CASE o \in Range(events) \cup Range(wire)
    BY <1>1, <1>2, <1>4, <1>5, <1>8, <2>1
  <2>2. CASE o \in Range(Retracted(keep))
    <3>1. PICK d \in Orphans(keep) : o = Retract(d)
      BY <1>3, <2>2
    <3>2. o.id = d.id /\ o.block = d.block /\ d \in mined
      BY <1>2, <1>7, <3>1, EventType
    <3> QED BY <1>1, <1>2, <1>4, <1>5, <1>7, <1>8, <3>1, <3>2
  <2>3. CASE o \in Anew(again)
    BY <1>1, <1>2, <1>4, <1>5, <1>6, <1>8, <2>3
  <2> QED BY <1>2, <1>3, <2>1, <2>2, <2>3
<1> QED BY <1>2, <1>9, <1>10 DEF NotAhead

\* Every step keeps it.
LEMMA MinedStep == MinedInv /\ [Next]_vars => MinedInv'
<1> SUFFICES ASSUME MinedInv, [Next]_vars PROVE MinedInv'
  OBVIOUS
<1>0. TypeOK /\ TypeOK'
  BY TypeStep DEF MinedInv
<1>1. ASSUME UNCHANGED <<tip, mined, trades>>,
             Range(events') \subseteq Range(events) \cup Range(wire),
             Range(wire') \subseteq Range(events) \cup Range(wire) \cup mined
      PROVE  MinedInv'
  <2>1. \A e \in mined : e.block \in Nat
    BY <1>0, EventFields
  <2> QED BY <1>0, <1>1, <2>1 DEF MinedInv, OneBlock, NotAhead
<1>2. CASE Mine \/ Reorganise
  BY <1>0, <1>2, MineKeepsOneBlock, ReorganiseKeepsOneBlock DEF MinedInv
<1>3. CASE LoseWire
  BY <1>1, <1>3 DEF LoseWire, chainVars, Range
<1>4. CASE Redeliver
  <2>1. PICK e \in mined : wire' = Append(wire, e)
    BY <1>4 DEF Redeliver
  <2>2. Range(wire') = Range(wire) \cup {e}
    BY <1>0, <2>1, Ranges DEF TypeOK
  <2> QED BY <1>1, <1>4, <2>2 DEF Redeliver, chainVars
<1>5. CASE Retire
  <2>1. Range(events') = {e \in Range(events) : e.block > Floor}
    BY <1>0, <1>5, RetiredType DEF Retire, TypeOK
  <2> QED BY <1>1, <1>5, <2>1 DEF Retire, chainVars
<1>6. CASE Receive
  <2>1. wire # <<>> /\ wire' = Tail(wire) /\ events' = Received(Head(wire)) /\ UNCHANGED chainVars
    BY <1>6 DEF Receive
  <2>2. /\ Head(wire) \in Events /\ Head(wire) \in Range(wire)
        /\ Range(wire') \subseteq Range(wire)
    BY <1>0, <2>1, Ranges DEF TypeOK
  <2>3. Range(events') \subseteq Range(events) \cup {Head(wire)}
    BY <1>0, <2>1, <2>2, ReceivedType DEF TypeOK
  <2> QED BY <1>1, <2>1, <2>2, <2>3 DEF chainVars
<1>7. CASE \/ IndexAdvances \/ SwitchInterval \/ RefetchToken \/ RefetchChart \/ RefetchTrades
           \/ Observe("chart") \/ Observe("trades") \/ UNCHANGED vars
  BY <1>1, <1>7 DEF IndexAdvances, SwitchInterval, RefetchToken, RefetchChart, RefetchTrades,
                    Observe, chainVars, vars
<1> QED BY <1>2, <1>3, <1>4, <1>5, <1>6, <1>7 DEF Next, Environment, Effects

\* A trade has one block, and nothing the page holds of it is from a later one.
THEOREM MinedInvariant == Spec => []MinedInv
<1>1. Init => MinedInv
  <2> SUFFICES ASSUME Init PROVE MinedInv
    OBVIOUS
  <2>1. TypeOK
    BY Bounds, PageAssumption DEF Init, TypeOK, None
  <2> QED BY <2>1 DEF Init, MinedInv, OneBlock, NotAhead, Range
<1> QED BY <1>1, MinedStep, PTL DEF Spec

\* No trade is in a surface's answer and laid over it as well, though a reorganisation
\* may put it into another block while events of the old one are still on their way.
THEOREM NothingCountedTwice == Spec => []NoDoubleCount
<1>1. MinedInv => NoDoubleCount
  <2> SUFFICES ASSUME MinedInv, NEW surface \in Surfaces, NEW e \in mined,
                      e.block <= Snapshot(surface),
                      NEW o \in Overlay(surface), o.id = e.id
               PROVE  FALSE
    BY DEF NoDoubleCount
  <2>1. o \in Range(events) /\ o.block > Snapshot(surface) /\ o.block <= e.block
    BY DEF Overlay, MinedInv, NotAhead
  <2>2. o.block \in Nat /\ e.block \in Nat
    BY <2>1, EventFields DEF MinedInv
  <2>3. Snapshot(surface) \in Nat
    BY Blocks DEF MinedInv, Surfaces, Snapshot
  <2> QED BY <2>1, <2>2, <2>3
<1> QED BY <1>1, MinedInvariant, PTL

-----------------------------------------------------------------------------
(* 5. The realtime service: types *)

\* What a log or an event may be, of every trade and in every block.
Msgs == [id : Nat, source : Sources, block : Nat, removed : BOOLEAN]

\* The chain and the channels hold such logs.
ListTypes ==
  /\ chain \in Seq(Msgs) /\ logs \in Seq(Msgs) /\ batch \in Seq(Msgs)
  /\ height \in Nat \ {0} /\ indexed \in Nat /\ traded \in Nat

\* The points of runConnection.
Phases == {"down", "connected", "readHead", "catchUp", "backfill", "replay", "live",
           "rediscovered"}

\* What the service remembers, from one connection to the next, is of known sources.
MemoryTypes ==
  /\ pc \in Phases /\ registry \subseteq Sources /\ subscribed \subseteq Sources
  /\ DOMAIN pendingBackfills \subseteq registry /\ DOMAIN since \subseteq registry
  /\ \A s \in DOMAIN pendingBackfills : pendingBackfills[s] \in Nat
  /\ \A s \in DOMAIN since : since[s] \in Nat
  /\ reconnectFrom \in Nat /\ head \in Nat

\* What was published, and where it is on its way to the browsers.
FanoutTypes ==
  /\ seen \in Seq(Nat \X BOOLEAN) /\ published \in Seq(Msgs)
  /\ queue \in [Clients -> Seq(Msgs)] /\ next \in [Clients -> Nat]
  /\ subscribers \subseteq Clients

\* The sources and their first blocks.
LEMMA SourceStarts == \A s \in Sources : SourceStartBlock(s) \in Nat \ {0}
<1> SUFFICES ASSUME NEW s \in Sources PROVE SourceStartBlock(s) \in Nat \ {0}
  OBVIOUS
<1>1. s[1] \in Tokens
  BY DEF Sources
<1>2. Launch[s[1]] \in Nat \ {0} /\ Graduation[s[1]] \in Nat /\ Launch[s[1]] < Graduation[s[1]]
  BY <1>1, RealtimeAssumption
<1> QED BY <1>2 DEF SourceStartBlock

\* The bounds are numbers.
LEMMA RealtimeBounds ==
  /\ DedupCapacity \in Nat \ {0} /\ SubscriberBuffer \in Nat \ {0}
  /\ MaximumBackfillBlocks \in Nat /\ MaxBlocks \in Nat /\ MaxLogs \in Nat
<1>1. \A m \in {MaximumBackfillBlocks, MaxBlocks, MaxLogs} : m \in Nat
  BY RealtimeAssumption
<1>2. \A m \in {DedupCapacity, SubscriberBuffer, MaximumSubscribers} : m \in Nat \ {0}
  BY RealtimeAssumption
<1> QED BY <1>1, <1>2

\* What the node sends of some logs.
LEMMA FeedSends ==
  ASSUME NEW list \in Seq(Msgs)
  PROVE  /\ Feed(list) \in Seq(Msgs)
         /\ Range(Feed(list)) = {l \in Range(list) : l.source \in subscribed}
<1>1. /\ Feed(list) \in Seq(Msgs)
      /\ Range(Feed(list)) = Range(list) \cap {l \in Range(list) : l.source \in subscribed}
  BY FilterKeeps DEF Feed
<1> QED BY <1>1

\* A new block: its trades are new.
LEMMA NewBlockSends ==
  ASSUME ListTypes, NewBlock
  PROVE  \E block \in Seq(Msgs) :
           /\ chain' = chain \o block /\ logs' = logs \o Feed(block)
           /\ traded' = traded + Len(block) /\ height' = height + 1
           /\ \A i \in 1..Len(block) :
                /\ block[i].id = traded + i /\ block[i].block = height + 1
                /\ ~block[i].removed
                /\ SourceStartBlock(block[i].source) <= height + 1
<1>1. height' = height + 1
  BY DEF NewBlock
<1>2. PICK n \in 0..2 : \E sourceOf \in [1..n -> {s \in Sources : Alive(s, height')}] :
       LET block == [i \in 1..n |-> Log(traded + i, sourceOf[i], height')]
       IN  /\ traded' = traded + n
           /\ chain' = chain \o block
           /\ logs' = logs \o Feed(block)
  BY DEF NewBlock
<1>3. PICK sourceOf \in [1..n -> {s \in Sources : Alive(s, height')}] :
       LET block == [i \in 1..n |-> Log(traded + i, sourceOf[i], height')]
       IN  /\ traded' = traded + n
           /\ chain' = chain \o block
           /\ logs' = logs \o Feed(block)
  BY <1>2
<1> DEFINE block == [i \in 1..n |-> Log(traded + i, sourceOf[i], height')]
<1>4. ASSUME NEW i \in 1..n
      PROVE  /\ Log(traded + i, sourceOf[i], height') \in Msgs
             /\ SourceStartBlock(sourceOf[i]) <= height + 1
  <2>1. sourceOf[i] \in Sources /\ Alive(sourceOf[i], height')
    BY <1>3
  <2>2. traded + i \in Nat /\ height' \in Nat
    BY <1>1 DEF ListTypes
  <2>3. SourceStartBlock(sourceOf[i]) <= height + 1
    BY <1>1, <2>1, SourceStarts DEF Alive, ListTypes
  <2> QED BY <2>1, <2>2, <2>3 DEF Msgs, Log
<1>5. block \in Seq(Msgs) /\ Len(block) = n
  <2>1. n \in Nat
    OBVIOUS
  <2>2. \A i \in 1..n : Log(traded + i, sourceOf[i], height') \in Msgs
    BY <1>4
  <2> QED BY <2>1, <2>2, IsASeq
<1>6. \A i \in 1..Len(block) :
         /\ block[i].id = traded + i /\ block[i].block = height + 1
         /\ ~block[i].removed
         /\ SourceStartBlock(block[i].source) <= height + 1
  BY <1>1, <1>4, <1>5 DEF Log
<1>7. traded' = traded + n /\ chain' = chain \o block /\ logs' = logs \o Feed(block)
  BY <1>3
<1> HIDE DEF block
<1> QED BY <1>1, <1>5, <1>6, <1>7

\* A reorganisation: what it keeps, orphans, retracts and mines again.
ForkParts(keep, kept, orphans, retract, again, block) ==
  /\ keep \in indexed..(height - 1)
  /\ kept = Filter(chain, {l \in OnChain : l.block <= keep})
  /\ orphans = Filter(chain, {l \in OnChain : l.block > keep})
  /\ again \in {orphans, <<>>}
  /\ Len(retract) = Len(orphans) /\ Len(block) = Len(again)
  /\ \A i \in 1..Len(orphans) : /\ retract[i].id = orphans[i].id /\ retract[i].removed
                                /\ retract[i].source = orphans[i].source
                                /\ retract[i].block = orphans[i].block
  /\ \A i \in 1..Len(again) : /\ block[i].id = again[i].id /\ block[i].block = height + 1
                              /\ block[i].removed = again[i].removed
                              /\ block[i].source = again[i].source
  /\ \A l \in Range(again) : Alive(l.source, height + 1)
  /\ chain' = kept \o block /\ logs' = logs \o Feed(retract) \o Feed(block)
  /\ remined' = remined \cup IdsOf(Range(again))
  /\ unheard' = unheard \cup IdsOf(Range(orphans) \ Range(Feed(orphans)))
  /\ height' = height + 1

\* A reorganisation sends what is retracted, and then what is mined again.
LEMMA ForkSends ==
  ASSUME ListTypes, Fork
  PROVE  \E kept, orphans, retract, again, block \in Seq(Msgs), keep \in Nat :
           ForkParts(keep, kept, orphans, retract, again, block)
<1>1. height' = height + 1 /\ height \in Nat
  BY DEF Fork, ListTypes
<1>2. PICK keep \in indexed..(height - 1) :
       LET kept    == Filter(chain, {l \in OnChain : l.block <= keep})
           orphans == Filter(chain, {l \in OnChain : l.block > keep})
           retract == [i \in 1..Len(orphans) |-> [orphans[i] EXCEPT !.removed = TRUE]]
       IN  \E again \in {orphans, <<>>} :
             LET block == [i \in 1..Len(again) |-> [again[i] EXCEPT !.block = height']]
             IN  /\ \A l \in Range(again) : Alive(l.source, height')
                 /\ chain' = kept \o block
                 /\ logs' = logs \o Feed(retract) \o Feed(block)
                 /\ remined' = remined \cup IdsOf(Range(again))
                 /\ unheard' = unheard \cup IdsOf(Range(orphans) \ Range(Feed(orphans)))
  BY DEF Fork
<1> DEFINE kept    == Filter(chain, {l \in OnChain : l.block <= keep})
           orphans == Filter(chain, {l \in OnChain : l.block > keep})
           retract == [i \in 1..Len(orphans) |-> [orphans[i] EXCEPT !.removed = TRUE]]
<1>3. PICK again \in {orphans, <<>>} :
             LET block == [i \in 1..Len(again) |-> [again[i] EXCEPT !.block = height']]
             IN  /\ \A l \in Range(again) : Alive(l.source, height')
                 /\ chain' = kept \o block
                 /\ logs' = logs \o Feed(retract) \o Feed(block)
                 /\ remined' = remined \cup IdsOf(Range(again))
                 /\ unheard' = unheard \cup IdsOf(Range(orphans) \ Range(Feed(orphans)))
  BY <1>2
<1> DEFINE block == [i \in 1..Len(again) |-> [again[i] EXCEPT !.block = height']]
<1>4. kept \in Seq(Msgs) /\ orphans \in Seq(Msgs)
  BY FilterKeeps DEF ListTypes
<1>5. again \in Seq(Msgs)
  <2>1. <<>> \in Seq(Msgs)
    BY EmptySeq
  <2> HIDE DEF orphans
  <2> QED BY <1>4, <2>1
<1>6. retract \in Seq(Msgs) /\ Len(retract) = Len(orphans)
      /\ \A i \in 1..Len(orphans) : /\ retract[i].id = orphans[i].id /\ retract[i].removed
                                    /\ retract[i].source = orphans[i].source
                                    /\ retract[i].block = orphans[i].block
  <2> HIDE DEF orphans
  <2>1. Len(orphans) \in Nat
    BY <1>4
  <2>2. ASSUME NEW i \in 1..Len(orphans)
        PROVE  LET r == [orphans[i] EXCEPT !.removed = TRUE] IN
               /\ r \in Msgs /\ r.id = orphans[i].id /\ r.removed
               /\ r.source = orphans[i].source /\ r.block = orphans[i].block
    <3>1. orphans[i] \in Msgs
      BY <1>4
    <3> QED BY <3>1 DEF Msgs
  <2>3. retract \in Seq(Msgs)
    BY <2>1, <2>2, IsASeq
  <2>4. Len(retract) = Len(orphans)
    BY <2>1
  <2>5. \A i \in 1..Len(orphans) : retract[i] = [orphans[i] EXCEPT !.removed = TRUE]
    OBVIOUS
  <2> HIDE DEF retract
  <2> QED BY <2>2, <2>3, <2>4, <2>5
<1>7. block \in Seq(Msgs) /\ Len(block) = Len(again)
      /\ \A i \in 1..Len(again) : /\ block[i].id = again[i].id /\ block[i].block = height + 1
                                  /\ block[i].removed = again[i].removed
                                  /\ block[i].source = again[i].source
  <2> HIDE DEF orphans
  <2>1. Len(again) \in Nat
    BY <1>5
  <2>2. ASSUME NEW i \in 1..Len(again)
        PROVE  LET r == [again[i] EXCEPT !.block = height'] IN
               /\ r \in Msgs /\ r.id = again[i].id /\ r.removed = again[i].removed
               /\ r.source = again[i].source /\ r.block = height + 1
    <3>1. again[i] \in Msgs
      BY <1>5
    <3> QED BY <1>1, <3>1 DEF Msgs
  <2>3. block \in Seq(Msgs)
    BY <2>1, <2>2, IsASeq
  <2>4. Len(block) = Len(again)
    BY <2>1
  <2>5. \A i \in 1..Len(again) : block[i] = [again[i] EXCEPT !.block = height']
    OBVIOUS
  <2> HIDE DEF block
  <2> QED BY <2>2, <2>3, <2>4, <2>5
<1>8. keep \in Nat
  BY <1>1 DEF ListTypes
<1>9. /\ \A l \in Range(again) : Alive(l.source, height + 1)
      /\ chain' = kept \o block
      /\ logs' = logs \o Feed(retract) \o Feed(block)
      /\ remined' = remined \cup IdsOf(Range(again))
      /\ unheard' = unheard \cup IdsOf(Range(orphans) \ Range(Feed(orphans)))
  BY <1>1, <1>3
<1>10. ForkParts(keep, kept, orphans, retract, again, block)
  <2>1. kept = Filter(chain, {l \in OnChain : l.block <= keep})
    OBVIOUS
  <2>2. orphans = Filter(chain, {l \in OnChain : l.block > keep})
    OBVIOUS
  <2> HIDE DEF kept, orphans, retract, block
  <2> QED BY <1>1, <1>3, <1>6, <1>7, <1>9, <2>1, <2>2 DEF ForkParts
<1> HIDE DEF kept, orphans, retract, block
<1> QED BY <1>4, <1>5, <1>6, <1>7, <1>8, <1>10

\* The lists of logs stay lists of logs.
LEMMA ListTypesStep == ListTypes /\ [RealtimeNext]_serviceVars => ListTypes'
<1> SUFFICES ASSUME ListTypes, [RealtimeNext]_serviceVars PROVE ListTypes'
  OBVIOUS
<1> USE DEF nodeVars, memory, connection, fanout, counts, records, serviceVars
<1>0. <<>> \in Seq(Msgs)
  BY EmptySeq
<1>1. CASE NewBlock
  <2>1. PICK block \in Seq(Msgs) :
           /\ chain' = chain \o block /\ logs' = logs \o Feed(block)
           /\ traded' = traded + Len(block) /\ height' = height + 1
    BY <1>1, NewBlockSends
  <2>2. Feed(block) \in Seq(Msgs)
    BY FeedSends
  <2>3. chain' \in Seq(Msgs) /\ logs' \in Seq(Msgs) /\ traded' \in Nat /\ height' \in Nat \ {0}
    BY <2>1, <2>2 DEF ListTypes
  <2> QED BY <1>1, <2>3 DEF ListTypes, NewBlock
<1>2. CASE Fork
  <2>1. PICK kept, orphans, retract, again, block \in Seq(Msgs), keep \in Nat :
           ForkParts(keep, kept, orphans, retract, again, block)
    BY <1>2, ForkSends
  <2>2. /\ chain' = kept \o block /\ logs' = logs \o Feed(retract) \o Feed(block)
        /\ height' = height + 1
    BY <2>1 DEF ForkParts
  <2>3. Feed(retract) \in Seq(Msgs) /\ Feed(block) \in Seq(Msgs)
    BY FeedSends
  <2>4. chain' \in Seq(Msgs) /\ logs' \in Seq(Msgs) /\ height' \in Nat \ {0}
    BY <2>2, <2>3 DEF ListTypes
  <2> QED BY <1>2, <2>4 DEF ListTypes, Fork
<1>3. CASE IndexerCommits
  BY <1>3 DEF IndexerCommits, ListTypes
<1>4. CASE DiscardLog
  <2>1. Tail(logs) \in Seq(Msgs)
    BY <1>4, HeadAndTail DEF DiscardLog, ListTypes
  <2> QED BY <1>4, <2>1 DEF DiscardLog, ListTypes
<1>5. CASE Outage \/ Refuse
  BY <1>0, <1>5 DEF Outage, Refuse, Disconnect, ListTypes
<1>6. CASE Connect \/ ReadHead \/ CatchUp \/ Replayed \/ Tick
  BY <1>6 DEF Connect, ReadHead, CatchUp, Replayed, Tick, ListTypes
<1>7. CASE Subscribe \/ Resubscribe
  BY <1>0, <1>7 DEF Subscribe, Resubscribe, ReplaceSubscription, ListTypes
<1>8. CASE FilterLogs
  <2>1. PICK s : batch' = Filter(chain, {l \in OnChain :
                     l.source = s /\ l.block \in pendingBackfills[s]..head})
    BY <1>8 DEF FilterLogs
  <2>2. batch' \in Seq(Msgs)
    BY <2>1, FilterKeeps DEF ListTypes
  <2> QED BY <1>8, <2>2 DEF FilterLogs, ListTypes
<1>9. CASE Replay
  <2>1. Tail(batch) \in Seq(Msgs)
    BY <1>9, HeadAndTail DEF Replay, ListTypes
  <2> QED BY <1>9, <2>1 DEF Replay, ListTypes
<1>10. CASE TakeLog
  <2>1. Tail(logs) \in Seq(Msgs)
    BY <1>10, HeadAndTail DEF TakeLog, ListTypes
  <2> QED BY <1>10, <2>1 DEF TakeLog, ListTypes
<1>11. ASSUME NEW c \in Clients, Join(c) \/ Write(c) \/ Leave(c) PROVE ListTypes'
  BY <1>11 DEF Join, Write, Leave, ListTypes
<1>12. CASE UNCHANGED serviceVars
  BY <1>12 DEF ListTypes
<1> QED BY <1>1, <1>2, <1>3, <1>4, <1>5, <1>6, <1>7, <1>8, <1>9, <1>10, <1>11, <1>12
        DEF RealtimeNext, World, Service, Browsers

\* What a step may do to what was published: nothing, or one log is handled.
Handled(l) ==
  /\ l \in Msgs
  /\ \/ Replay /\ l = Head(batch) /\ batch # <<>>
     \/ TakeLog /\ l = Head(logs) /\ logs # <<>>
  /\ HandleLog(l)

\* Only a replay and the live channel hand a log to handleLog().
LEMMA WhoPublishes ==
  ASSUME ListTypes, [RealtimeNext]_serviceVars
  PROVE  \/ UNCHANGED <<seen, published>> /\ ~Replay /\ ~TakeLog
         \/ \E l \in Msgs : Handled(l)
<1> USE DEF nodeVars, memory, connection, fanout, counts, records, serviceVars
<1>1. CASE Replay
  <2>1. Head(batch) \in Msgs
    BY <1>1, HeadAndTail DEF Replay, ListTypes
  <2>2. Handled(Head(batch))
    BY <1>1, <2>1 DEF Replay, Handled
  <2> QED BY <2>1, <2>2
<1>2. CASE TakeLog
  <2>1. Head(logs) \in Msgs
    BY <1>2, HeadAndTail DEF TakeLog, ListTypes
  <2>2. Handled(Head(logs))
    BY <1>2, <2>1 DEF TakeLog, Handled
  <2> QED BY <2>1, <2>2
<1>3. CASE ~Replay /\ ~TakeLog
  <2>1. CASE World
    BY <1>3, <2>1 DEF World, NewBlock, Fork, IndexerCommits, DiscardLog, Outage, Disconnect
  <2>2. CASE Service
    BY <1>3, <2>2 DEF Service, Connect, Subscribe, ReadHead, CatchUp, FilterLogs, Replayed, Tick,
                      Resubscribe, Refuse, Disconnect
  <2>3. CASE Browsers
    BY <1>3, <2>3 DEF Browsers, Join, Write, Leave
  <2> QED BY <1>3, <2>1, <2>2, <2>3 DEF RealtimeNext
<1> QED BY <1>1, <1>2, <1>3

\* Handling a log: a duplicate, or published and remembered.
LEMMA HandleLogDoes ==
  ASSUME NEW l, HandleLog(l)
  PROVE  \/ Key(l) \in Range(seen) /\ UNCHANGED <<seen, fanout, reconnectFrom>>
         \/ /\ Key(l) \notin Range(seen)
            /\ seen' = Remember(Key(l)) /\ Publish(l)
            /\ reconnectFrom' = IF ~l.removed /\ l.block > reconnectFrom
                                THEN l.block ELSE reconnectFrom
BY DEF HandleLog

\* The deduper and the broadcaster keep their types.
LEMMA RememberType ==
  ASSUME NEW l \in Msgs, seen \in Seq(Nat \X BOOLEAN)
  PROVE  /\ Remember(Key(l)) \in Seq(Nat \X BOOLEAN)
         /\ Key(l) \in Nat \X BOOLEAN
<1>1. Key(l) \in Nat \X BOOLEAN
  BY DEF Key, Msgs
<1>2. CASE Len(seen) = DedupCapacity
  <2>1. seen # <<>>
    BY <1>2, RealtimeBounds
  <2>2. Tail(seen) \in Seq(Nat \X BOOLEAN)
    BY <2>1, HeadAndTail
  <2> QED BY <1>1, <1>2, <2>2, AppendProperties DEF Remember
<1>3. CASE Len(seen) # DedupCapacity
  BY <1>1, <1>3, AppendProperties DEF Remember
<1> QED BY <1>1, <1>2, <1>3

\* Every step keeps the types of what is published.
LEMMA FanoutTypesStep ==
  ListTypes /\ FanoutTypes /\ [RealtimeNext]_serviceVars => FanoutTypes'
<1> SUFFICES ASSUME ListTypes, FanoutTypes, [RealtimeNext]_serviceVars PROVE FanoutTypes'
  OBVIOUS
<1> USE DEF nodeVars, memory, connection, fanout, counts, records, serviceVars
<1>1. ASSUME NEW l \in Msgs, Handled(l) PROVE FanoutTypes'
  <2>1. CASE UNCHANGED <<seen, fanout, reconnectFrom>>
    BY <2>1 DEF FanoutTypes
  <2>2. CASE seen' = Remember(Key(l)) /\ Publish(l)
    <3>1. seen' \in Seq(Nat \X BOOLEAN)
      BY <2>2, RememberType DEF FanoutTypes
    <3>2. published' \in Seq(Msgs) /\ subscribers' \subseteq Clients /\ next' = next
      BY <2>2, AppendProperties DEF FanoutTypes, Publish
    <3>3. ASSUME NEW c \in Clients PROVE Append(queue[c], l) \in Seq(Msgs) /\ queue[c] \in Seq(Msgs)
      BY AppendProperties DEF FanoutTypes
    <3>4. queue' \in [Clients -> Seq(Msgs)]
      BY <2>2, <3>3 DEF FanoutTypes, Publish
    <3> QED BY <3>1, <3>2, <3>4 DEF FanoutTypes
  <2> QED BY <1>1, <2>1, <2>2, HandleLogDoes DEF Handled
<1>2. ASSUME NEW c \in Clients, Join(c) \/ Write(c) \/ Leave(c) PROVE FanoutTypes'
  <2>1. queue[c] \in Seq(Msgs) /\ next[c] \in Nat /\ <<>> \in Seq(Msgs)
    BY EmptySeq DEF FanoutTypes
  <2>2. CASE Join(c)
    BY <2>1, <2>2 DEF Join, FanoutTypes
  <2>3. CASE Write(c)
    <3>1. Tail(queue[c]) \in Seq(Msgs) /\ next[c] + 1 \in Nat
      BY <2>1, <2>3, HeadAndTail DEF Write
    <3> QED BY <2>3, <3>1 DEF Write, FanoutTypes
  <2>4. CASE Leave(c)
    BY <2>1, <2>4 DEF Leave, FanoutTypes
  <2> QED BY <1>2, <2>2, <2>3, <2>4
<1>3. CASE World /\ ~Replay /\ ~TakeLog
  BY <1>3 DEF World, NewBlock, Fork, IndexerCommits, DiscardLog, Outage, Disconnect, FanoutTypes
<1>4. CASE Service /\ ~Replay /\ ~TakeLog
  BY <1>4 DEF Service, Connect, Subscribe, ReadHead, CatchUp, FilterLogs, Replayed, Tick,
              Resubscribe, Refuse, Disconnect, FanoutTypes
<1>5. CASE UNCHANGED serviceVars
  BY <1>5 DEF FanoutTypes
<1> QED BY <1>1, <1>2, <1>3, <1>4, <1>5, WhoPublishes DEF RealtimeNext, Browsers

\* What discovery leaves in the memory of the service.
LEMMA ReconcileDoes ==
  ASSUME MemoryTypes, Reconcile
  PROVE  /\ registry' = Markets(indexed) /\ registryLoaded'
         /\ registry' \subseteq Sources
         /\ DOMAIN pendingBackfills' \subseteq registry' /\ DOMAIN since' \subseteq registry'
         /\ \A s \in DOMAIN since' :
              \/ /\ s \in DOMAIN since /\ s \notin registry' \ registry
                 /\ since'[s] = since[s]
                 /\ s \in DOMAIN pendingBackfills =>
                      /\ s \in DOMAIN pendingBackfills'
                      /\ pendingBackfills'[s] = pendingBackfills[s]
              \/ /\ registryLoaded /\ s \in registry' \ registry
                 /\ since'[s] = SourceStartBlock(s)
                 /\ s \in DOMAIN pendingBackfills' /\ pendingBackfills'[s] = SourceStartBlock(s)
         /\ \A s \in DOMAIN pendingBackfills' :
              \/ /\ s \in DOMAIN pendingBackfills /\ s \notin registry' \ registry
                 /\ pendingBackfills'[s] = pendingBackfills[s]
              \/ /\ registryLoaded /\ s \in registry' \ registry
                 /\ pendingBackfills'[s] = SourceStartBlock(s)
         /\ \A s \in registry' \ registry :
              registryLoaded =>
                s \in DOMAIN pendingBackfills' /\ pendingBackfills'[s] = SourceStartBlock(s)
<1> DEFINE known == Markets(indexed)
           new   == IF registryLoaded THEN known \ registry ELSE {}
<1>1. /\ registry' = known /\ registryLoaded'
      /\ pendingBackfills' =
           [s \in (DOMAIN pendingBackfills \cap known) \cup new |->
              IF s \in new THEN SourceStartBlock(s) ELSE pendingBackfills[s]]
      /\ since' = [s \in (DOMAIN since \cap known) \cup new |->
                     IF s \in new THEN SourceStartBlock(s) ELSE since[s]]
  BY DEF Reconcile
<1>2. known \subseteq Sources
  BY DEF Markets
<1>3. /\ DOMAIN pendingBackfills \subseteq registry /\ DOMAIN since \subseteq registry
  BY DEF MemoryTypes
<1>4. new = IF registryLoaded THEN registry' \ registry ELSE {}
  BY <1>1
<1>5. new \subseteq known
  OBVIOUS
<1> HIDE DEF known, new
<1>6. /\ DOMAIN pendingBackfills' = (DOMAIN pendingBackfills \cap known) \cup new
      /\ \A s \in DOMAIN pendingBackfills' :
           pendingBackfills'[s] = IF s \in new THEN SourceStartBlock(s) ELSE pendingBackfills[s]
      /\ DOMAIN since' = (DOMAIN since \cap known) \cup new
      /\ \A s \in DOMAIN since' :
           since'[s] = IF s \in new THEN SourceStartBlock(s) ELSE since[s]
  BY <1>1
<1>7. \A s \in DOMAIN pendingBackfills' :
              \/ /\ s \in DOMAIN pendingBackfills /\ s \notin registry' \ registry
                 /\ pendingBackfills'[s] = pendingBackfills[s]
              \/ /\ registryLoaded /\ s \in registry' \ registry
                 /\ pendingBackfills'[s] = SourceStartBlock(s)
  BY <1>3, <1>4, <1>6
<1>8. \A s \in DOMAIN since' :
              \/ /\ s \in DOMAIN since /\ s \notin registry' \ registry
                 /\ since'[s] = since[s]
                 /\ s \in DOMAIN pendingBackfills =>
                      /\ s \in DOMAIN pendingBackfills'
                      /\ pendingBackfills'[s] = pendingBackfills[s]
              \/ /\ registryLoaded /\ s \in registry' \ registry
                 /\ since'[s] = SourceStartBlock(s)
                 /\ s \in DOMAIN pendingBackfills' /\ pendingBackfills'[s] = SourceStartBlock(s)
  BY <1>3, <1>4, <1>6
<1>9. \A s \in registry' \ registry : registryLoaded =>
          s \in DOMAIN pendingBackfills' /\ pendingBackfills'[s] = SourceStartBlock(s)
  BY <1>4, <1>6
<1>10. DOMAIN pendingBackfills' \subseteq registry' /\ DOMAIN since' \subseteq registry'
  BY <1>1, <1>5, <1>6
<1> QED BY <1>1, <1>2, <1>7, <1>8, <1>9, <1>10 DEF known

\* What an outage leaves to be replayed.
LEMMA ReconnectDoes ==
  ASSUME MemoryTypes, QueueReconnectBackfill
  PROVE  /\ DOMAIN pendingBackfills' = registry
         /\ \A s \in registry :
              \/ s \in DOMAIN pendingBackfills /\ pendingBackfills'[s] = pendingBackfills[s]
              \/ /\ s \notin DOMAIN pendingBackfills
                 /\ \/ SourceStartBlock(s) < reconnectFrom /\ pendingBackfills'[s] = reconnectFrom
                    \/ SourceStartBlock(s) >= reconnectFrom
                       /\ pendingBackfills'[s] = SourceStartBlock(s)
         /\ \A s \in registry : pendingBackfills'[s] \in Nat
<1>1. \A s \in registry : SourceStartBlock(s) \in Nat
  BY SourceStarts DEF MemoryTypes
<1>2. reconnectFrom \in Nat /\ \A s \in DOMAIN pendingBackfills : pendingBackfills[s] \in Nat
  BY DEF MemoryTypes
<1>3. /\ DOMAIN pendingBackfills' = registry
      /\ \A s \in registry : pendingBackfills'[s] =
           IF s \in DOMAIN pendingBackfills THEN pendingBackfills[s]
           ELSE IF SourceStartBlock(s) < reconnectFrom THEN reconnectFrom
           ELSE SourceStartBlock(s)
  BY DEF QueueReconnectBackfill
<1> QED BY <1>1, <1>2, <1>3

\* The memory and the connection keep their types.
LEMMA MemoryTypesStep ==
  ListTypes /\ MemoryTypes /\ [RealtimeNext]_serviceVars => MemoryTypes'
<1> SUFFICES ASSUME ListTypes, MemoryTypes, [RealtimeNext]_serviceVars PROVE MemoryTypes'
  OBVIOUS
<1> USE DEF nodeVars, memory, connection, fanout, counts, records, serviceVars
<1>1. CASE NewBlock \/ Fork \/ IndexerCommits \/ DiscardLog
  BY <1>1 DEF NewBlock, Fork, IndexerCommits, DiscardLog, MemoryTypes
<1>2. CASE Outage \/ Refuse
  BY <1>2 DEF Outage, Refuse, Disconnect, MemoryTypes, Phases
<1>3. ASSUME Reconcile, pc' \in Phases, UNCHANGED <<subscribed, reconnectFrom, head>>
      PROVE  MemoryTypes'
  <2>1. \A s \in DOMAIN pendingBackfills' : pendingBackfills'[s] \in Nat
    <3> SUFFICES ASSUME NEW s \in DOMAIN pendingBackfills' PROVE pendingBackfills'[s] \in Nat
      OBVIOUS
    <3>1. s \in Sources /\ SourceStartBlock(s) \in Nat
      BY <1>3, ReconcileDoes, SourceStarts
    <3> QED BY <1>3, <3>1, ReconcileDoes DEF MemoryTypes
  <2>2. \A s \in DOMAIN since' : since'[s] \in Nat
    <3> SUFFICES ASSUME NEW s \in DOMAIN since' PROVE since'[s] \in Nat
      OBVIOUS
    <3>1. s \in Sources /\ SourceStartBlock(s) \in Nat
      BY <1>3, ReconcileDoes, SourceStarts
    <3> QED BY <1>3, <3>1, ReconcileDoes DEF MemoryTypes
  <2>3. registry' \subseteq Sources /\ DOMAIN pendingBackfills' \subseteq registry'
        /\ DOMAIN since' \subseteq registry'
    BY <1>3, ReconcileDoes
  <2> QED BY <1>3, <2>1, <2>2, <2>3 DEF MemoryTypes
<1>4. CASE Connect \/ Tick
  <2>1. /\ Reconcile /\ pc' \in Phases /\ UNCHANGED <<subscribed, reconnectFrom, head>>
    BY <1>4 DEF Connect, Tick, Phases
  <2> QED BY <1>3, <2>1
<1>5. CASE Subscribe
  <2>1. pc' \in Phases /\ subscribed' = registry
        /\ UNCHANGED <<registry, reconnectFrom, head, since>>
    BY <1>5 DEF Subscribe, Phases, ReplaceSubscription
  <2>2. CASE QueueReconnectBackfill
    <3>1. DOMAIN pendingBackfills' = registry /\ \A s \in registry : pendingBackfills'[s] \in Nat
      BY <2>2, ReconnectDoes
    <3> QED BY <2>1, <3>1 DEF MemoryTypes
  <2>3. CASE UNCHANGED pendingBackfills
    BY <2>1, <2>3 DEF MemoryTypes
  <2> QED BY <1>5, <2>2, <2>3 DEF Subscribe
<1>6. CASE ReadHead
  <2>1. /\ pc' \in Phases /\ DOMAIN since' = registry /\ reconnectFrom' \in Nat
        /\ \A s \in registry : since'[s] = IF s \in DOMAIN since THEN since[s] ELSE height + 1
        /\ UNCHANGED <<registry, pendingBackfills, subscribed, head>>
    BY <1>6 DEF ReadHead, Phases, ListTypes
  <2>2. height + 1 \in Nat
    BY DEF ListTypes
  <2>3. \A s \in registry : since'[s] \in Nat
    BY <2>1, <2>2 DEF MemoryTypes
  <2> QED BY <2>1, <2>3 DEF MemoryTypes
<1>7. CASE CatchUp \/ FilterLogs
  BY <1>7 DEF CatchUp, FilterLogs, MemoryTypes, ListTypes, Phases
<1>8. CASE Replayed
  BY <1>8 DEF Replayed, MemoryTypes, Phases
<1>9. CASE Resubscribe
  BY <1>9 DEF Resubscribe, ReplaceSubscription, MemoryTypes, Phases
<1>10. ASSUME NEW l \in Msgs, Handled(l) PROVE MemoryTypes'
  <2>1. reconnectFrom' \in Nat
    BY <1>10 DEF Handled, HandleLog, MemoryTypes, Msgs
  <2>2. UNCHANGED <<pc, memory, subscribed, head, since>>
    BY <1>10 DEF Handled, Replay, TakeLog
  <2> QED BY <2>1, <2>2 DEF MemoryTypes
<1>11. CASE Browsers
  BY <1>11 DEF Browsers, Join, Write, Leave, MemoryTypes
<1>12. CASE UNCHANGED serviceVars
  BY <1>12 DEF MemoryTypes
<1>13. CASE Replay \/ TakeLog
  BY <1>10, <1>13, WhoPublishes
<1> QED BY <1>1, <1>2, <1>4, <1>5, <1>6, <1>7, <1>8, <1>9, <1>11, <1>12, <1>13
        DEF RealtimeNext, World, Service

\* The types of the service.
ServiceTypes == ListTypes /\ MemoryTypes /\ FanoutTypes

\* In the code's terms: every list holds logs, every map the sources it may hold.
THEOREM RealtimeTypes == RealtimeSpec => []ServiceTypes
<1>1. RealtimeInit => ServiceTypes
  <2> SUFFICES ASSUME RealtimeInit PROVE ServiceTypes
    OBVIOUS
  <2>1. <<>> \in Seq(Msgs) /\ <<>> \in Seq(Nat \X BOOLEAN) /\ DOMAIN <<>> = {}
    BY EmptySeq
  <2>2. ListTypes
    BY <2>1 DEF RealtimeInit, ListTypes
  <2>3. MemoryTypes
    BY <2>1 DEF RealtimeInit, MemoryTypes, Phases
  <2>4. FanoutTypes
    BY <2>1 DEF RealtimeInit, FanoutTypes
  <2> QED BY <2>2, <2>3, <2>4 DEF ServiceTypes
<1>2. ServiceTypes /\ [RealtimeNext]_serviceVars => ServiceTypes'
  BY ListTypesStep, MemoryTypesStep, FanoutTypesStep DEF ServiceTypes
<1> QED BY <1>1, <1>2, PTL DEF RealtimeSpec

-----------------------------------------------------------------------------
(* 6. The realtime service: the subscribers *)

\* The buffer q of a browser whose next event is at position n holds what comes there.
Holds(q, n, sub) ==
  /\ n = 0 => q = <<>> /\ ~sub
  /\ n <= Len(published) + 1
  /\ n # 0 =>
       /\ Len(q) <= (Len(published) + 1) - n
       /\ \A i \in 1..Len(q) : q[i] = published[(n - 1) + i]
       /\ sub => Len(q) = (Len(published) + 1) - n

\* So it is for every browser.
BuffersInv == \A c \in Clients : Holds(queue[c], next[c], c \in subscribers)

\* Every step keeps it: Publish() appends to the buffers that have room, and closes the others.
LEMMA BuffersStep ==
  ListTypes /\ FanoutTypes /\ BuffersInv /\ [RealtimeNext]_serviceVars => BuffersInv'
<1> SUFFICES ASSUME ListTypes, FanoutTypes, BuffersInv, [RealtimeNext]_serviceVars
             PROVE  BuffersInv'
  OBVIOUS
<1> USE DEF nodeVars, memory, connection, fanout, counts, records, serviceVars
<1>1. ASSUME UNCHANGED fanout PROVE BuffersInv'
  BY <1>1 DEF BuffersInv, Holds
<1>2. ASSUME NEW l \in Msgs, Publish(l) PROVE BuffersInv'
  <2>1. /\ Len(published') = Len(published) + 1 /\ Len(published) \in Nat
        /\ published'[Len(published) + 1] = l
        /\ \A i \in 1..Len(published) : published'[i] = published[i]
    BY <1>2, AppendProperties DEF Publish, FanoutTypes
  <2> SUFFICES ASSUME NEW c \in Clients
               PROVE  Holds(queue[c], next[c], c \in subscribers)'
    BY DEF BuffersInv
  <2> DEFINE q == queue[c]
             n == next[c]
             p == queue'[c]
             sub == c \in subscribers'
  <2>2. q \in Seq(Msgs) /\ Len(q) \in Nat /\ n \in Nat /\ Holds(q, n, c \in subscribers)
    BY DEF FanoutTypes, BuffersInv
  <2>3. next'[c] = n /\ subscribers' \subseteq subscribers
        /\ p = IF sub THEN Append(q, l) ELSE q
    BY <1>2 DEF Publish, FanoutTypes
  <2>4. CASE sub
    <3>1. /\ Len(p) = Len(q) + 1 /\ p[Len(q) + 1] = l
          /\ \A i \in 1..Len(q) : p[i] = q[i]
      BY <2>2, <2>3, <2>4, AppendProperties
    <3>2. n # 0 /\ Len(q) = (Len(published) + 1) - n /\ n <= Len(published) + 1
      BY <2>2, <2>3, <2>4 DEF Holds
    <3>3. \A i \in 1..Len(q) : q[i] = published[(n - 1) + i]
      BY <2>2, <3>2 DEF Holds
    <3> HIDE DEF q, n, p
    <3>4. ASSUME NEW i \in 1..Len(p) PROVE p[i] = published'[(n - 1) + i]
      <4>1. CASE i = Len(q) + 1
        <5>1. (n - 1) + i = Len(published) + 1
          BY <2>1, <2>2, <3>2, <4>1
        <5> QED BY <2>1, <3>1, <4>1, <5>1
      <4>2. CASE i # Len(q) + 1
        <5>0. n \in Nat /\ Len(q) \in Nat /\ Len(published) \in Nat /\ i \in 1..(Len(q) + 1)
          BY <2>1, <2>2, <3>1
        <5>1. i \in 1..Len(q)
          BY <4>2, <5>0
        <5>2. (n - 1) + i \in 1..Len(published)
          BY <3>2, <5>0, <5>1
        <5> QED BY <2>1, <3>1, <3>3, <5>1, <5>2
      <4> QED BY <4>1, <4>2
    <3>5. Len(p) = (Len(published') + 1) - n /\ n <= Len(published') + 1
      BY <2>1, <2>2, <3>1, <3>2
    <3>6. next'[c] = n /\ queue'[c] = p
      BY <2>3 DEF p, n
    <3> QED BY <2>1, <2>2, <3>1, <3>2, <3>4, <3>5, <3>6 DEF Holds
  <2>5. CASE ~sub
    <3>1. p = q
      BY <2>3, <2>5
    <3> HIDE DEF q, n, p
    <3>2. next'[c] = n /\ queue'[c] = q /\ c \notin subscribers'
      BY <2>3, <2>5, <3>1 DEF p, n
    <3>3. n = 0 => q = <<>>
      BY <2>2 DEF Holds
    <3>4. n <= Len(published') + 1
      BY <2>1, <2>2 DEF Holds
    <3>5. ASSUME n # 0
          PROVE  /\ Len(q) <= (Len(published') + 1) - n
                 /\ \A i \in 1..Len(q) : q[i] = published'[(n - 1) + i]
      <4>1. Len(q) <= (Len(published) + 1) - n
            /\ \A i \in 1..Len(q) : q[i] = published[(n - 1) + i]
        BY <2>2, <3>5 DEF Holds
      <4>2. \A i \in 1..Len(q) : (n - 1) + i \in 1..Len(published)
        BY <2>1, <2>2, <3>5, <4>1
      <4> QED BY <2>1, <2>2, <3>5, <4>1, <4>2
    <3> QED BY <3>2, <3>3, <3>4, <3>5 DEF Holds
  <2> QED BY <2>4, <2>5
<1>3. ASSUME NEW l \in Msgs, Handled(l) PROVE BuffersInv'
  BY <1>1, <1>2, <1>3, HandleLogDoes DEF Handled
<1>4. ASSUME NEW b \in Clients, Join(b) \/ Write(b) \/ Leave(b) PROVE BuffersInv'
  <2> SUFFICES ASSUME NEW c \in Clients
               PROVE  Holds(queue[c], next[c], c \in subscribers)'
    BY DEF BuffersInv
  <2> DEFINE q == queue[c]
             n == next[c]
  <2>1. q \in Seq(Msgs) /\ Len(q) \in Nat /\ n \in Nat /\ Holds(q, n, c \in subscribers)
        /\ Len(published) \in Nat /\ published' = published
    BY <1>4 DEF FanoutTypes, BuffersInv, Join, Write, Leave
  <2>2. CASE b # c
    <3>1. queue'[c] = q /\ next'[c] = n /\ (c \in subscribers' <=> c \in subscribers)
      BY <1>4, <2>2 DEF FanoutTypes, Join, Write, Leave
    <3> HIDE DEF q, n
    <3> QED BY <2>1, <3>1 DEF Holds
  <2>3. CASE b = c /\ Join(b)
    <3>1. queue'[c] = q /\ next'[c] = Len(published) + 1 /\ n = 0
      BY <2>3 DEF FanoutTypes, Join
    <3>2. q = <<>> /\ Len(q) = 0
      BY <2>1, <3>1 DEF Holds
    <3> HIDE DEF q, n
    <3> QED BY <2>1, <3>1, <3>2 DEF Holds
  <2>4. CASE b = c /\ Write(b)
    <3>1. queue'[c] = Tail(q) /\ next'[c] = n + 1 /\ q # <<>>
          /\ subscribers' = subscribers
      BY <2>4 DEF FanoutTypes, Write
    <3> DEFINE p == Tail(q)
    <3>2. p \in Seq(Msgs) /\ Len(p) = Len(q) - 1 /\ \A i \in 1..Len(p) : p[i] = q[i + 1]
      BY <2>1, <3>1, HeadAndTail
    <3>3. Len(q) # 0
      BY <2>1, <3>1
    <3>4. /\ n # 0 /\ Len(q) <= (Len(published) + 1) - n
          /\ \A i \in 1..Len(q) : q[i] = published[(n - 1) + i]
          /\ c \in subscribers => Len(q) = (Len(published) + 1) - n
      BY <2>1, <3>1 DEF Holds
    <3> HIDE DEF q, n, p
    <3>5. ASSUME NEW i \in 1..Len(p) PROVE p[i] = published[((n + 1) - 1) + i]
      <4>1. i + 1 \in 1..Len(q) /\ (n - 1) + (i + 1) = ((n + 1) - 1) + i
        BY <2>1, <3>2
      <4> QED BY <3>2, <3>4, <4>1
    <3>6. queue'[c] = p
      BY <3>1 DEF p
    <3>7. /\ n + 1 # 0 /\ n + 1 <= Len(published) + 1
          /\ Len(p) <= (Len(published) + 1) - (n + 1)
          /\ c \in subscribers => Len(p) = (Len(published) + 1) - (n + 1)
      BY <2>1, <3>2, <3>3, <3>4
    <3> QED BY <2>1, <3>1, <3>5, <3>6, <3>7 DEF Holds
  <2>5. CASE b = c /\ Leave(b)
    <3>1. queue'[c] = <<>> /\ next'[c] = 0 /\ c \notin subscribers'
      BY <2>5 DEF FanoutTypes, Leave
    <3> QED BY <2>1, <3>1 DEF Holds
  <2> QED BY <1>4, <2>2, <2>3, <2>4, <2>5
<1>5. CASE World
  BY <1>1, <1>5 DEF World, NewBlock, Fork, IndexerCommits, DiscardLog, Outage, Disconnect
<1>6. CASE Service /\ ~Replay /\ ~TakeLog
  BY <1>1, <1>6 DEF Service, Connect, Subscribe, ReadHead, CatchUp, FilterLogs, Replayed, Tick,
              Resubscribe, Refuse, Disconnect
<1>7. CASE UNCHANGED serviceVars
  BY <1>1, <1>7
<1> QED BY <1>3, <1>4, <1>5, <1>6, <1>7, WhoPublishes DEF RealtimeNext, Browsers

\* Publish(), Subscribe() and the handler of /events: a connected browser is sent
\* every event that was published since it subscribed, in order, and one that was too
\* slow the events up to some point.
THEOREM SubscribersGetEveryEvent == RealtimeSpec => []SubscribersMissNothing
<1>1. RealtimeInit => BuffersInv
  BY DEF RealtimeInit, BuffersInv, Holds
<1>2. ServiceTypes /\ BuffersInv => SubscribersMissNothing
  <2> SUFFICES ASSUME FanoutTypes, BuffersInv, NEW c \in Clients, next[c] # 0
               PROVE  LET due == SubSeq(published, next[c], Len(published))
                      IN  /\ IsPrefix(queue[c], due)
                          /\ c \in subscribers => queue[c] = due
    BY DEF SubscribersMissNothing, ServiceTypes
  <2> DEFINE q == queue[c]
             n == next[c]
             due == SubSeq(published, n, Len(published))
  <2>1. /\ q \in Seq(Msgs) /\ Len(q) \in Nat /\ n \in Nat /\ n # 0 /\ published \in Seq(Msgs)
        /\ Len(published) \in Nat
        /\ n <= Len(published) + 1 /\ Len(q) <= (Len(published) + 1) - n
        /\ \A i \in 1..Len(q) : q[i] = published[(n - 1) + i]
        /\ c \in subscribers => Len(q) = (Len(published) + 1) - n
    BY DEF FanoutTypes, BuffersInv, Holds
  <2> HIDE DEF q, n
  <2>2. /\ due \in Seq(Msgs)
        /\ Len(due) = IF n <= Len(published) THEN (Len(published) - n) + 1 ELSE 0
        /\ \A i \in 1..((Len(published) - n) + 1) : due[i] = published[(n + i) - 1]
    <3>1. \A i \in n..Len(published) : published[i] \in Msgs
      BY <2>1
    <3> QED BY <2>1, <3>1, SubSeqProperties
  <2> HIDE DEF due
  <2>3. Len(due) = (Len(published) + 1) - n
    BY <2>1, <2>2
  <2>4. ASSUME NEW i \in 1..Len(q) PROVE i \in 1..Len(due) /\ q[i] = due[i]
    <3>1. i \in 1..Len(due) /\ i \in 1..((Len(published) - n) + 1)
          /\ (n - 1) + i = (n + i) - 1
      BY <2>1, <2>3
    <3> QED BY <2>1, <2>2, <3>1
  <2>5. IsPrefix(q, due)
    <3>1. Len(q) <= Len(due)
      BY <2>1, <2>3
    <3>2. /\ SubSeq(q, 1, Len(q)) \in Seq(Msgs) /\ Len(SubSeq(q, 1, Len(q))) = Len(q)
          /\ \A i \in 1..Len(q) : SubSeq(q, 1, Len(q))[i] = q[i]
      BY <2>1
    <3>3. /\ SubSeq(due, 1, Len(q)) \in Seq(Msgs) /\ Len(SubSeq(due, 1, Len(q))) = Len(q)
          /\ \A i \in 1..Len(q) : SubSeq(due, 1, Len(q))[i] = due[i]
      BY <2>1, <2>2, <3>1
    <3>4. SubSeq(q, 1, Len(q)) = SubSeq(due, 1, Len(q))
      BY <2>4, <3>2, <3>3, SeqEqual
    <3> QED BY <3>1, <3>4 DEF IsPrefix
  <2>6. ASSUME c \in subscribers PROVE q = due
    <3>1. Len(q) = Len(due)
      BY <2>1, <2>3, <2>6
    <3> QED BY <2>1, <2>2, <2>4, <3>1, SeqEqual
  <2> QED BY <2>5, <2>6 DEF q, n, due
<1>3. ServiceTypes /\ BuffersInv /\ [RealtimeNext]_serviceVars => BuffersInv'
  BY BuffersStep DEF ServiceTypes
<1> QED BY <1>1, <1>2, <1>3, RealtimeTypes, PTL DEF RealtimeSpec

-----------------------------------------------------------------------------
(* 7. The realtime service: the memory of the deduper *)

\* The deduper remembers the newest events that were published.
SeenInv ==
  /\ Len(seen) <= DedupCapacity /\ Len(seen) <= Len(published)
  /\ Len(seen) < DedupCapacity => Len(seen) = Len(published)
  /\ \A i \in 1..Len(seen) : seen[i] = Key(published[(Len(published) - Len(seen)) + i])

\* dedupCapacity: of that many events and the next one, no two are the same.
NoRepeatInMemory ==
  \A i, j \in DOMAIN published :
    i < j /\ j - i <= DedupCapacity => Key(published[i]) # Key(published[j])

\* What the deduper remembers, and what follows from it.
MemoryInv == SeenInv /\ NoRepeatInMemory

\* An event that is published: where the key comes.
LEMMA Remembered ==
  ASSUME FanoutTypes, SeenInv, NEW l \in Msgs,
         seen' = Remember(Key(l)), Publish(l)
  PROVE  SeenInv'
<1> DEFINE n == Len(seen)
           m == Len(published)
           k == Len(seen')
<1>1. /\ Len(published') = m + 1 /\ m \in Nat /\ published'[m + 1] = l
      /\ \A i \in 1..m : published'[i] = published[i]
  BY AppendProperties DEF Publish, FanoutTypes
<1>2. /\ n \in Nat /\ n <= DedupCapacity /\ n <= m /\ (n < DedupCapacity => n = m)
      /\ \A i \in 1..n : seen[i] = Key(published[(m - n) + i])
      /\ DedupCapacity \in Nat \ {0} /\ seen \in Seq(Nat \X BOOLEAN)
      /\ Key(l) \in Nat \X BOOLEAN
  <2>1. n \in Nat /\ seen \in Seq(Nat \X BOOLEAN)
    BY DEF FanoutTypes
  <2>2. DedupCapacity \in Nat \ {0}
    BY RealtimeBounds
  <2>3. Key(l) \in Nat \X BOOLEAN
    BY <2>1, RememberType
  <2> QED BY <2>1, <2>2, <2>3 DEF SeenInv
<1>3. CASE n = DedupCapacity
  <2> DEFINE rest == Tail(seen)
  <2>1. seen # <<>>
    BY <1>2, <1>3
  <2>2. /\ rest \in Seq(Nat \X BOOLEAN) /\ Len(rest) = n - 1
        /\ \A i \in 1..Len(rest) : rest[i] = seen[i + 1]
    BY <1>2, <2>1, HeadAndTail
  <2>3. seen' = Append(rest, Key(l))
    BY <1>3 DEF Remember
  <2> HIDE DEF rest
  <2>4. /\ k = n /\ seen'[n] = Key(l)
        /\ \A i \in 1..(n - 1) : seen'[i] = seen[i + 1]
    <3>1. /\ Len(Append(rest, Key(l))) = Len(rest) + 1
          /\ \A i \in 1..Len(rest) : Append(rest, Key(l))[i] = rest[i]
          /\ Append(rest, Key(l))[Len(rest) + 1] = Key(l)
      BY <1>2, <2>2, AppendProperties
    <3>2. Len(rest) + 1 = n
      BY <1>2, <2>2
    <3> QED BY <2>2, <2>3, <3>1, <3>2
  <2> HIDE DEF n, m, k
  <2>5. ASSUME NEW i \in 1..k PROVE seen'[i] = Key(published'[((m + 1) - k) + i])
    <3>1. CASE i = n
      <4>1. ((m + 1) - k) + i = m + 1
        BY <1>1, <1>2, <2>4, <3>1
      <4> QED BY <1>1, <2>4, <3>1, <4>1
    <3>2. CASE i # n
      <4>1. i \in 1..(n - 1) /\ i + 1 \in 1..n
        BY <1>2, <2>4, <3>2
      <4>2. (m - n) + (i + 1) = ((m + 1) - k) + i /\ (m - n) + (i + 1) \in 1..m
        BY <1>1, <1>2, <2>4, <4>1
      <4> QED BY <1>1, <1>2, <2>4, <4>1, <4>2
    <3> QED BY <3>1, <3>2
  <2>6. k <= DedupCapacity /\ k <= m + 1 /\ ~(k < DedupCapacity)
    BY <1>1, <1>2, <1>3, <2>4
  <2> QED BY <1>1, <2>5, <2>6 DEF SeenInv, k
<1>4. CASE n # DedupCapacity
  <2>1. n = m /\ n < DedupCapacity
    BY <1>2, <1>4
  <2>2. seen' = Append(seen, Key(l))
    BY <1>4 DEF Remember
  <2>3. /\ k = n + 1 /\ seen'[n + 1] = Key(l)
        /\ \A i \in 1..n : seen'[i] = seen[i]
    BY <1>2, <2>2, AppendProperties
  <2> HIDE DEF n, m, k
  <2>4. ASSUME NEW i \in 1..k PROVE seen'[i] = Key(published'[((m + 1) - k) + i])
    <3>0. ((m + 1) - k) + i = i /\ (m - n) + i = i
      BY <1>1, <1>2, <2>1, <2>3
    <3>1. CASE i = n + 1
      BY <1>1, <2>1, <2>3, <3>0, <3>1
    <3>2. CASE i # n + 1
      <4>1. i \in 1..n /\ i \in 1..m
        BY <1>2, <2>1, <2>3, <3>2
      <4> QED BY <1>1, <1>2, <2>3, <3>0, <4>1
    <3> QED BY <3>1, <3>2
  <2>5. k <= DedupCapacity /\ k = m + 1
    BY <1>1, <1>2, <2>1, <2>3
  <2> QED BY <1>1, <2>4, <2>5 DEF SeenInv, k
<1> QED BY <1>3, <1>4

\* What was published within the memory of the deduper is remembered.
LEMMA NewestAreSeen ==
  ASSUME FanoutTypes, SeenInv, NEW i \in 1..Len(published),
         (Len(published) + 1) - i <= DedupCapacity
  PROVE  Key(published[i]) \in Range(seen)
<1> DEFINE n == Len(seen)
           m == Len(published)
           a == i - (m - n)
<1>1. /\ n \in Nat /\ m \in Nat /\ n <= DedupCapacity /\ n <= m /\ (n < DedupCapacity => n = m)
      /\ \A p \in 1..n : seen[p] = Key(published[(m - n) + p])
      /\ DedupCapacity \in Nat \ {0} /\ DOMAIN seen = 1..n
  BY RealtimeBounds DEF FanoutTypes, SeenInv
<1> HIDE DEF n, m
<1>2. i \in 1..m /\ (m + 1) - i <= DedupCapacity
  BY DEF m
<1>3. a \in 1..n /\ (m - n) + a = i
  BY <1>1, <1>2
<1>4. seen[a] = Key(published[i])
  BY <1>1, <1>3
<1> QED BY <1>1, <1>3, <1>4 DEF Range

\* Every step keeps it.
LEMMA MemoryStep ==
  ListTypes /\ FanoutTypes /\ MemoryInv /\ [RealtimeNext]_serviceVars => MemoryInv'
<1> SUFFICES ASSUME ListTypes, FanoutTypes, MemoryInv, [RealtimeNext]_serviceVars
             PROVE  MemoryInv'
  OBVIOUS
<1>1. ASSUME UNCHANGED <<seen, published>> PROVE MemoryInv'
  BY <1>1 DEF MemoryInv, SeenInv, NoRepeatInMemory, Key
<1>2. ASSUME NEW l \in Msgs, Handled(l) PROVE MemoryInv'
  <2>1. CASE UNCHANGED <<seen, fanout, reconnectFrom>>
    BY <1>1, <2>1 DEF fanout
  <2>2. CASE Key(l) \notin Range(seen) /\ seen' = Remember(Key(l)) /\ Publish(l)
    <3>1. SeenInv'
      BY <1>2, <2>2, Remembered DEF MemoryInv
    <3>2. /\ Len(published') = Len(published) + 1 /\ Len(published) \in Nat
          /\ published'[Len(published) + 1] = l
          /\ \A i \in 1..Len(published) : published'[i] = published[i]
          /\ DOMAIN published' = 1..Len(published') /\ DOMAIN published = 1..Len(published)
      BY <2>2, AppendProperties DEF Publish, FanoutTypes
    <3>3. ASSUME NEW i \in 1..Len(published'), NEW j \in 1..Len(published'),
                 i < j, j - i <= DedupCapacity
          PROVE  Key(published'[i]) # Key(published'[j])
      <4>1. i \in 1..Len(published) /\ published'[i] = published[i]
        BY <3>2, <3>3
      <4>2. CASE j = Len(published) + 1
        <5>1. Key(published[i]) \in Range(seen)
          BY <3>3, <4>1, <4>2, NewestAreSeen DEF MemoryInv
        <5> QED BY <2>2, <3>2, <4>1, <4>2, <5>1
      <4>3. CASE j # Len(published) + 1
        <5>1. j \in 1..Len(published) /\ published'[j] = published[j]
          BY <3>2, <4>3
        <5> QED BY <3>2, <3>3, <4>1, <5>1 DEF MemoryInv, NoRepeatInMemory
      <4> QED BY <4>2, <4>3
    <3>4. NoRepeatInMemory'
      BY <3>2, <3>3 DEF NoRepeatInMemory, Key
    <3> QED BY <3>1, <3>4 DEF MemoryInv
  <2> QED BY <1>2, <2>1, <2>2, HandleLogDoes DEF Handled
<1> QED BY <1>1, <1>2, WhoPublishes

\* Accept(): whatever is replayed, however often the service reconnects, an event does
\* not come twice within dedupCapacity events.
THEOREM NoEventRepeats == RealtimeSpec => [](MemoryInv /\ ServiceTypes)
<1>1. RealtimeInit => MemoryInv
  <2> SUFFICES ASSUME RealtimeInit PROVE MemoryInv
    OBVIOUS
  <2>1. Len(seen) = 0 /\ Len(published) = 0 /\ DOMAIN published = {}
    BY DEF RealtimeInit
  <2> QED BY <2>1, RealtimeBounds DEF MemoryInv, SeenInv, NoRepeatInMemory
<1>2. ServiceTypes /\ MemoryInv /\ [RealtimeNext]_serviceVars => MemoryInv'
  BY MemoryStep DEF ServiceTypes
<1> QED BY <1>1, <1>2, RealtimeTypes, PTL DEF RealtimeSpec

-----------------------------------------------------------------------------
(* 8. The realtime service: the chain, and what is said of it *)

\* No two logs of a list are of the same trade.
TellApart(list) == \A i, j \in DOMAIN list : list[i].id = list[j].id => i = j

\* A trade is on the chain once, in a block its market exists in.
ChainInv ==
  /\ \A l \in OnChain : /\ ~l.removed /\ l.block <= height /\ l.id \in 1..traded
                        /\ SourceStartBlock(l.source) <= l.block
  /\ TellApart(chain)

\* The logs the service was sent and has not forgotten, and its events.
Mentions == Range(logs) \cup Range(batch) \cup Range(published)

\* What a log in a channel or an event says of a trade that is on the chain: a trade
\* is only ever mined again in a later block.
MentionSound(e) ==
  /\ e.id \in 1..traded /\ e.block <= height
  /\ \A l \in OnChain : l.id = e.id =>
       /\ e.source = l.source /\ e.block <= l.block
       /\ e.removed => e.block < l.block
       /\ e.id \notin remined => e.block = l.block

\* So it is of all of them.
MentionsInv == \A e \in Mentions : MentionSound(e)

\* The service has seen no block that was not there.
HeightsInv == reconnectFrom <= height /\ head <= height

\* What the node knows and said.
NodeInv == ChainInv /\ MentionsInv /\ HeightsInv

\* The logs on the chain, and those that were heard of, are logs.
LEMMA LogFields ==
  ASSUME ServiceTypes
  PROVE  /\ OnChain \subseteq Msgs /\ Mentions \subseteq Msgs
         /\ \A e \in Msgs : e.id \in Nat /\ e.block \in Nat /\ e.source \in Sources
                            /\ e.removed \in BOOLEAN
<1>1. /\ Range(chain) \subseteq Msgs /\ Range(logs) \subseteq Msgs
      /\ Range(batch) \subseteq Msgs /\ Range(published) \subseteq Msgs
  BY Ranges DEF ServiceTypes, ListTypes, FanoutTypes
<1> QED BY <1>1 DEF OnChain, Mentions, Msgs

\* Two logs of a trade on the chain are one.
LEMMA OneLog ==
  ASSUME ServiceTypes, ChainInv
  PROVE  \A l, m \in OnChain : l.id = m.id => l = m
BY DEF ChainInv, TellApart, OnChain, Range

\* Lists that share no id.
LEMMA ConcatTellsApart ==
  ASSUME NEW S, NEW s \in Seq(S), NEW t \in Seq(S), TellApart(s), TellApart(t),
         \A i \in 1..Len(s), j \in 1..Len(t) : s[i].id # t[j].id
  PROVE  TellApart(s \o t)
<1> DEFINE u == s \o t
<1>1. /\ u \in Seq(S) /\ Len(u) = Len(s) + Len(t) /\ DOMAIN u = 1..Len(u)
      /\ \A i \in 1..Len(u) : u[i] = IF i <= Len(s) THEN s[i] ELSE t[i - Len(s)]
      /\ Len(s) \in Nat /\ Len(t) \in Nat /\ DOMAIN s = 1..Len(s) /\ DOMAIN t = 1..Len(t)
  BY ConcatProperties
<1> HIDE DEF u
<1>2. ASSUME NEW i \in 1..Len(u), NEW j \in 1..Len(u), u[i].id = u[j].id PROVE i = j
  <2>1. CASE i <= Len(s) /\ j <= Len(s)
    <3>1. i \in 1..Len(s) /\ j \in 1..Len(s) /\ u[i] = s[i] /\ u[j] = s[j]
      BY <1>1, <2>1
    <3> QED BY <1>1, <1>2, <3>1 DEF TellApart
  <2>2. CASE i > Len(s) /\ j > Len(s)
    <3>1. i - Len(s) \in 1..Len(t) /\ j - Len(s) \in 1..Len(t)
          /\ u[i] = t[i - Len(s)] /\ u[j] = t[j - Len(s)]
      BY <1>1, <2>2
    <3>2. i - Len(s) = j - Len(s)
      BY <1>1, <1>2, <3>1 DEF TellApart
    <3> QED BY <1>1, <3>2
  <2>3. CASE i <= Len(s) /\ j > Len(s)
    <3>1. i \in 1..Len(s) /\ j - Len(s) \in 1..Len(t) /\ u[i] = s[i] /\ u[j] = t[j - Len(s)]
      BY <1>1, <2>3
    <3> QED BY <1>2, <3>1
  <2>4. CASE i > Len(s) /\ j <= Len(s)
    <3>1. j \in 1..Len(s) /\ i - Len(s) \in 1..Len(t) /\ u[j] = s[j] /\ u[i] = t[i - Len(s)]
      BY <1>1, <2>4
    <3> QED BY <1>2, <3>1
  <2> QED BY <1>1, <2>1, <2>2, <2>3, <2>4
<1> QED BY <1>1, <1>2 DEF TellApart, u

\* A new block puts new trades on the chain, and the node speaks of them.
LEMMA NewBlockKeeps ==
  ASSUME ServiceTypes, ServiceTypes', NodeInv, NewBlock
  PROVE  NodeInv'
<1> USE DEF nodeVars, memory, connection, fanout, counts, records
<1>1. PICK block \in Seq(Msgs) :
           /\ chain' = chain \o block /\ logs' = logs \o Feed(block)
           /\ traded' = traded + Len(block) /\ height' = height + 1
           /\ \A i \in 1..Len(block) :
                /\ block[i].id = traded + i /\ block[i].block = height + 1
                /\ ~block[i].removed
                /\ SourceStartBlock(block[i].source) <= height + 1
  BY NewBlockSends DEF ServiceTypes
<1>2. /\ traded \in Nat /\ height \in Nat /\ chain \in Seq(Msgs) /\ logs \in Seq(Msgs)
      /\ Len(block) \in Nat /\ DOMAIN block = 1..Len(block) /\ DOMAIN chain = 1..Len(chain)
      /\ reconnectFrom \in Nat /\ head \in Nat
  BY DEF ServiceTypes, ListTypes, MemoryTypes
<1>3. Range(block) = {block[i] : i \in 1..Len(block)}
  BY RangeEquality
<1>4. \A l \in Range(block) :
         /\ l \in Msgs /\ l.block = height' /\ ~l.removed /\ SourceStartBlock(l.source) <= l.block
         /\ l.id > traded /\ l.id \in 1..traded'
  <2> SUFFICES ASSUME NEW i \in 1..Len(block)
               PROVE  /\ block[i] \in Msgs /\ block[i].block = height' /\ ~block[i].removed
                      /\ SourceStartBlock(block[i].source) <= block[i].block
                      /\ block[i].id > traded /\ block[i].id \in 1..traded'
    BY <1>3
  <2>1. block[i] \in Msgs
    BY <1>1
  <2>2. /\ block[i].id = traded + i /\ block[i].block = height'
        /\ ~block[i].removed /\ SourceStartBlock(block[i].source) <= block[i].block
    BY <1>1
  <2>3. traded + i > traded /\ traded + i \in 1..(traded + Len(block))
    BY <1>2
  <2> QED BY <1>1, <2>1, <2>2, <2>3
<1>5. OnChain' = OnChain \cup Range(block)
  BY <1>1, <1>2, Ranges DEF OnChain
<1>6. Mentions' \subseteq Mentions \cup Range(block)
  <2>1. Feed(block) \in Seq(Msgs) /\ Range(Feed(block)) \subseteq Range(block)
    BY FeedSends
  <2>2. Range(logs') = Range(logs) \cup Range(Feed(block))
    BY <1>1, <1>2, <2>1, Ranges
  <2>3. UNCHANGED <<batch, published, reconnectFrom, head>>
    BY DEF NewBlock
  <2> QED BY <2>1, <2>2, <2>3 DEF Mentions
<1>7. TellApart(block)
  BY <1>1, <1>2 DEF TellApart
<1>8. \A l, m \in Range(block) : l.id = m.id => l = m
  BY <1>2, <1>7 DEF TellApart, Range
<1>9. ChainInv'
  <2>1. ASSUME NEW l \in OnChain'
        PROVE  ~l.removed /\ l.block <= height' /\ l.id \in 1..traded'
               /\ SourceStartBlock(l.source) <= l.block
    <3>1. CASE l \in OnChain
      <4>1. l.block \in Nat /\ l.id \in Nat
        BY <3>1, LogFields
      <4> QED BY <1>1, <1>2, <3>1, <4>1 DEF NodeInv, ChainInv
    <3>2. CASE l \in Range(block)
      BY <1>1, <1>2, <1>4, <3>2
    <3> QED BY <1>5, <2>1, <3>1, <3>2
  <2>2. TellApart(chain')
    <3>1. ASSUME NEW i \in 1..Len(chain), NEW j \in 1..Len(block)
          PROVE  chain[i].id # block[j].id
      <4>1. chain[i] \in OnChain /\ block[j] \in Range(block)
        BY <1>2, <1>3 DEF OnChain, Range
      <4>2. chain[i].id \in 1..traded /\ block[j].id > traded
        BY <1>4, <4>1 DEF NodeInv, ChainInv
      <4> QED BY <1>2, <4>2
    <3>2. TellApart(chain)
      BY DEF NodeInv, ChainInv
    <3> QED BY <1>1, <1>2, <1>7, <3>1, <3>2, ConcatTellsApart
  <2> QED BY <2>1, <2>2 DEF ChainInv, TellApart, SourceStartBlock
<1>10. remined' = remined
  BY DEF NewBlock
<1>11. MentionsInv'
  <2> SUFFICES ASSUME NEW e \in Mentions' PROVE MentionSound(e)'
    BY DEF MentionsInv
  <2>1. CASE e \in Mentions
    <3>1. /\ e.id \in 1..traded /\ e.block <= height /\ e.block \in Nat
      BY <2>1, LogFields DEF NodeInv, MentionsInv, MentionSound
    <3>2. e.id \in 1..traded' /\ e.block <= height'
      BY <1>1, <1>2, <3>1
    <3>3. ASSUME NEW l \in OnChain', l.id = e.id
          PROVE  /\ e.source = l.source /\ e.block <= l.block
                 /\ e.removed => e.block < l.block
                 /\ e.id \notin remined => e.block = l.block
      <4>1. l \in OnChain
        BY <1>2, <1>4, <1>5, <3>1, <3>3
      <4> QED BY <2>1, <3>3, <4>1 DEF NodeInv, MentionsInv, MentionSound
    <3> QED BY <1>10, <3>2, <3>3 DEF MentionSound
  <2>2. CASE e \in Range(block)
    <3>1. e.id \in 1..traded' /\ e.block <= height' /\ e.block \in Nat /\ ~e.removed
      BY <1>1, <1>2, <1>4, <2>2
    <3>2. ASSUME NEW l \in OnChain', l.id = e.id PROVE l = e
      <4>1. l \notin OnChain
        <5>1. ASSUME l \in OnChain PROVE FALSE
          <6>1. l.id \in 1..traded /\ e.id > traded
            BY <1>4, <2>2, <5>1 DEF NodeInv, ChainInv
          <6> QED BY <1>2, <3>2, <6>1
        <5> QED BY <5>1
      <4> QED BY <1>5, <1>8, <2>2, <3>2, <4>1
    <3> QED BY <3>1, <3>2 DEF MentionSound
  <2> QED BY <1>6, <2>1, <2>2
<1>12. HeightsInv'
  BY <1>1, <1>2 DEF NewBlock, HeightsInv, NodeInv
<1> QED BY <1>9, <1>11, <1>12 DEF NodeInv

\* Ranges of the parts of a reorganisation.
ForkSets(keep, kept, orphans, retract, again, block) ==
  /\ Range(kept) = {l \in OnChain : l.block <= keep}
  /\ Range(orphans) = {l \in OnChain : l.block > keep}
  /\ OnChain' = Range(kept) \cup Range(block)
  /\ Range(logs') = Range(logs) \cup Range(Feed(retract)) \cup Range(Feed(block))
  /\ \A e \in Range(retract) : \E o \in Range(orphans) :
       e.id = o.id /\ e.source = o.source /\ e.block = o.block /\ e.removed
  /\ \A o \in Range(orphans) : \E e \in Range(retract) :
       e.id = o.id /\ e.source = o.source /\ e.block = o.block /\ e.removed
  /\ \A e \in Range(block) : \E o \in Range(again) :
       /\ e.id = o.id /\ e.source = o.source /\ e.block = height + 1 /\ e.removed = o.removed
  /\ \A o \in Range(again) : \E e \in Range(block) : e.id = o.id
  /\ Range(again) = Range(orphans) \/ (again = <<>> /\ block = <<>>)
  /\ TellApart(kept) /\ TellApart(orphans) /\ TellApart(retract) /\ TellApart(block)

\* The lists of a reorganisation, as sets.
LEMMA ForkRanges ==
  ASSUME ServiceTypes, ChainInv,
         NEW kept \in Seq(Msgs), NEW orphans \in Seq(Msgs), NEW retract \in Seq(Msgs),
         NEW again \in Seq(Msgs), NEW block \in Seq(Msgs), NEW keep \in Nat,
         ForkParts(keep, kept, orphans, retract, again, block)
  PROVE  ForkSets(keep, kept, orphans, retract, again, block)
<1>1. chain \in Seq(Msgs) /\ logs \in Seq(Msgs) /\ TellApart(chain)
  BY DEF ServiceTypes, ListTypes, ChainInv
<1>2. /\ kept = Filter(chain, {l \in OnChain : l.block <= keep})
      /\ orphans = Filter(chain, {l \in OnChain : l.block > keep})
      /\ again \in {orphans, <<>>}
      /\ Len(retract) = Len(orphans) /\ Len(block) = Len(again)
      /\ \A i \in 1..Len(orphans) : /\ retract[i].id = orphans[i].id /\ retract[i].removed
                                    /\ retract[i].source = orphans[i].source
                                    /\ retract[i].block = orphans[i].block
      /\ \A i \in 1..Len(again) : /\ block[i].id = again[i].id /\ block[i].block = height + 1
                                  /\ block[i].removed = again[i].removed
                                  /\ block[i].source = again[i].source
      /\ chain' = kept \o block /\ logs' = logs \o Feed(retract) \o Feed(block)
  BY DEF ForkParts
<1>3. /\ Range(kept) = Range(chain) \cap {l \in OnChain : l.block <= keep}
      /\ Range(orphans) = Range(chain) \cap {l \in OnChain : l.block > keep}
  BY <1>1, <1>2, FilterKeeps
<1>4. TellApart(kept) /\ TellApart(orphans)
  <2>1. \A a, b \in DOMAIN chain : chain[a].id = chain[b].id => a = b
    BY <1>1 DEF TellApart
  <2>2. \A upTo : \A i, j \in DOMAIN Filter(chain, upTo) :
          Filter(chain, upTo)[i].id = Filter(chain, upTo)[j].id => i = j
    BY <1>1, <2>1, FilterDistinct
  <2>3. \A i, j \in DOMAIN kept : kept[i].id = kept[j].id => i = j
    BY <1>2, <2>2
  <2>4. \A i, j \in DOMAIN orphans : orphans[i].id = orphans[j].id => i = j
    BY <1>2, <2>2
  <2> QED BY <2>3, <2>4 DEF TellApart
<1>5. /\ DOMAIN kept = 1..Len(kept) /\ DOMAIN orphans = 1..Len(orphans)
      /\ DOMAIN retract = 1..Len(orphans) /\ DOMAIN block = 1..Len(again)
      /\ DOMAIN again = 1..Len(again)
  BY <1>2, LenProperties
<1>6. TellApart(retract) /\ TellApart(block)
  <2>1. TellApart(retract)
    <3> SUFFICES ASSUME NEW i \in 1..Len(orphans), NEW j \in 1..Len(orphans),
                        retract[i].id = retract[j].id
                 PROVE  i = j
      BY <1>5 DEF TellApart
    <3>1. orphans[i].id = orphans[j].id
      BY <1>2
    <3> QED BY <1>4, <1>5, <3>1 DEF TellApart
  <2>2. TellApart(again)
    <3>1. CASE again = orphans
      BY <1>4, <3>1
    <3>2. CASE again = <<>>
      BY <3>2 DEF TellApart
    <3> QED BY <1>2, <3>1, <3>2
  <2>3. TellApart(block)
    <3> SUFFICES ASSUME NEW i \in 1..Len(again), NEW j \in 1..Len(again),
                        block[i].id = block[j].id
                 PROVE  i = j
      BY <1>5 DEF TellApart
    <3>1. again[i].id = again[j].id
      BY <1>2
    <3> QED BY <1>5, <2>2, <3>1 DEF TellApart
  <2> QED BY <2>1, <2>3
<1>7. OnChain' = Range(kept) \cup Range(block)
  <2>1. Range(kept \o block) = Range(kept) \cup Range(block)
    BY RangeConcatenation
  <2> QED BY <1>2, <2>1 DEF OnChain
<1>8. Range(logs') = Range(logs) \cup Range(Feed(retract)) \cup Range(Feed(block))
  <2>1. Feed(retract) \in Seq(Msgs) /\ Feed(block) \in Seq(Msgs)
    BY FeedSends
  <2>2. logs \o Feed(retract) \in Seq(Msgs)
        /\ Range(logs \o Feed(retract)) = Range(logs) \cup Range(Feed(retract))
    BY <1>1, <2>1, Ranges
  <2> DEFINE upTo == logs \o Feed(retract)
             last == Feed(block)
  <2>3. logs' = upTo \o last /\ upTo \in Seq(Msgs) /\ last \in Seq(Msgs)
    BY <1>2, <2>1, <2>2
  <2> HIDE DEF upTo, last
  <2>4. Range(logs') = Range(upTo) \cup Range(last)
    BY <2>3, RangeConcatenation
  <2> QED BY <2>2, <2>4 DEF upTo, last
<1>r. /\ Range(retract) = {retract[i] : i \in 1..Len(orphans)}
      /\ Range(orphans) = {orphans[i] : i \in 1..Len(orphans)}
      /\ Range(block) = {block[i] : i \in 1..Len(again)}
      /\ Range(again) = {again[i] : i \in 1..Len(again)}
  <2>1. Range(retract) = {retract[i] : i \in 1..Len(retract)}
    BY RangeEquality
  <2>2. Range(orphans) = {orphans[i] : i \in 1..Len(orphans)}
    BY RangeEquality
  <2>3. Range(block) = {block[i] : i \in 1..Len(block)}
    BY RangeEquality
  <2>4. Range(again) = {again[i] : i \in 1..Len(again)}
    BY RangeEquality
  <2>5. Len(retract) = Len(orphans) /\ Len(block) = Len(again)
    BY <1>2
  <2> QED BY <2>1, <2>2, <2>3, <2>4, <2>5
<1>9. \A e \in Range(retract) : \E o \in Range(orphans) :
       e.id = o.id /\ e.source = o.source /\ e.block = o.block /\ e.removed
  <2> SUFFICES ASSUME NEW i \in 1..Len(orphans)
               PROVE  \E o \in Range(orphans) :
                        /\ retract[i].id = o.id /\ retract[i].source = o.source
                        /\ retract[i].block = o.block /\ retract[i].removed
    BY <1>r
  <2>1. orphans[i] \in Range(orphans)
    BY <1>r
  <2> QED BY <1>2, <2>1
<1>10. \A o \in Range(orphans) : \E e \in Range(retract) :
       e.id = o.id /\ e.source = o.source /\ e.block = o.block /\ e.removed
  <2> SUFFICES ASSUME NEW i \in 1..Len(orphans)
               PROVE  \E e \in Range(retract) :
                        /\ e.id = orphans[i].id /\ e.source = orphans[i].source
                        /\ e.block = orphans[i].block /\ e.removed
    BY <1>r
  <2> QED BY <1>2, <1>r
<1>11. \A e \in Range(block) : \E o \in Range(again) :
       /\ e.id = o.id /\ e.source = o.source /\ e.block = height + 1 /\ e.removed = o.removed
  <2> SUFFICES ASSUME NEW e \in Range(block)
               PROVE  \E o \in Range(again) :
                        /\ e.id = o.id /\ e.source = o.source
                        /\ e.block = height + 1 /\ e.removed = o.removed
    OBVIOUS
  <2>1. PICK i \in 1..Len(again) : e = block[i]
    BY <1>r
  <2>2. again[i] \in Range(again)
    BY <1>r
  <2> QED BY <1>2, <2>1, <2>2
<1>12. \A o \in Range(again) : \E e \in Range(block) : e.id = o.id
  <2> SUFFICES ASSUME NEW i \in 1..Len(again)
               PROVE  \E e \in Range(block) : e.id = again[i].id
    BY <1>r
  <2> QED BY <1>2, <1>r
<1>13. Range(again) = Range(orphans) \/ (again = <<>> /\ block = <<>>)
  <2>1. CASE again = <<>>
    <3>1. Len(block) = 0
      BY <1>2, <2>1
    <3> QED BY <2>1, <3>1, EmptySeq
  <2> QED BY <1>2, <2>1
<1> QED BY <1>3, <1>4, <1>6, <1>7, <1>8, <1>9, <1>10, <1>11, <1>12, <1>13 DEF ForkSets, OnChain

\* A reorganisation moves the trades that it mines again to a later block.
LEMMA ForkKeeps ==
  ASSUME ServiceTypes, ServiceTypes', NodeInv, Fork
  PROVE  NodeInv'
<1> USE DEF nodeVars, memory, connection, fanout, counts, records
<1>1. PICK kept, orphans, retract, again, block \in Seq(Msgs), keep \in Nat :
           ForkParts(keep, kept, orphans, retract, again, block)
  BY ForkSends DEF ServiceTypes
<1>2. ForkSets(keep, kept, orphans, retract, again, block)
  BY <1>1, ForkRanges DEF NodeInv
<1>3. /\ height' = height + 1 /\ traded' = traded
      /\ chain' = kept \o block
      /\ remined' = remined \cup IdsOf(Range(again))
      /\ \A l \in Range(again) : Alive(l.source, height + 1)
      /\ keep < height
  <2>1. keep \in indexed..(height - 1) /\ height \in Nat /\ indexed \in Nat
    BY <1>1 DEF ForkParts, ListTypes, ServiceTypes
  <2>2. keep < height
    BY <2>1
  <2> QED BY <1>1, <2>2 DEF ForkParts, Fork
<1>4. traded \in Nat /\ height \in Nat /\ reconnectFrom \in Nat /\ head \in Nat
  BY DEF ServiceTypes, ListTypes, MemoryTypes
<1>5. \A l \in OnChain : /\ l \in Msgs /\ l.block \in Nat /\ l.id \in 1..traded /\ l.block <= height
                         /\ ~l.removed /\ SourceStartBlock(l.source) <= l.block
  BY LogFields DEF NodeInv, ChainInv
<1>6. \A l, m \in OnChain : l.id = m.id => l = m
  BY OneLog DEF NodeInv
<1>7. Range(orphans) \subseteq OnChain /\ Range(again) \subseteq Range(orphans)
      /\ Range(kept) \subseteq OnChain
  <2>1. Range(<<>>) = {}
    BY DEF Range
  <2> QED BY <1>2, <2>1 DEF ForkSets
<1>8. \A l \in Range(kept), e \in Range(orphans) : l.id # e.id
  BY <1>2, <1>4, <1>5, <1>6, <1>7 DEF ForkSets
<1>9. \A e \in Range(block) : \E o \in Range(again) :
       /\ e.id = o.id /\ e.source = o.source /\ e.block = height + 1 /\ ~e.removed
       /\ SourceStartBlock(e.source) <= height + 1
       /\ o \in Range(orphans) /\ o \in OnChain
  <2> SUFFICES ASSUME NEW e \in Range(block)
               PROVE  \E o \in Range(again) :
                        /\ e.id = o.id /\ e.source = o.source /\ e.block = height + 1 /\ ~e.removed
                        /\ SourceStartBlock(e.source) <= height + 1
                        /\ o \in Range(orphans) /\ o \in OnChain
    OBVIOUS
  <2>1. PICK o \in Range(again) :
       /\ e.id = o.id /\ e.source = o.source /\ e.block = height + 1 /\ e.removed = o.removed
    BY <1>2 DEF ForkSets
  <2>2. o \in Range(orphans) /\ o \in OnChain
    BY <1>7, <2>1
  <2>3. Alive(o.source, height + 1)
    BY <1>3, <2>1
  <2> QED BY <1>5, <2>1, <2>2, <2>3 DEF Alive
<1>10. \A e \in Range(block) : e.id \in remined'
  BY <1>3, <1>9 DEF IdsOf
<1>11. Mentions' \subseteq Mentions \cup Range(retract) \cup Range(block)
  <2>1. Range(Feed(block)) \subseteq Range(block) /\ Range(Feed(retract)) \subseteq Range(retract)
    BY FeedSends
  <2>2. UNCHANGED <<batch, published, reconnectFrom, head>>
    BY DEF Fork
  <2> QED BY <1>2, <2>1, <2>2 DEF Mentions, ForkSets
<1>12. ChainInv'
  <2>1. ASSUME NEW l \in OnChain'
        PROVE  ~l.removed /\ l.block <= height' /\ l.id \in 1..traded'
               /\ SourceStartBlock(l.source) <= l.block
    <3>1. CASE l \in Range(kept)
      <4>1. l \in OnChain
        BY <1>7, <3>1
      <4> QED BY <1>3, <1>4, <1>5, <4>1
    <3>2. CASE l \in Range(block)
      <4>1. l.block = height + 1 /\ ~l.removed /\ SourceStartBlock(l.source) <= height + 1
            /\ l.id \in 1..traded
        BY <1>5, <1>9, <3>2
      <4> QED BY <1>3, <1>4, <4>1
    <3> QED BY <1>2, <2>1, <3>1, <3>2 DEF ForkSets
  <2>2. TellApart(chain')
    <3>1. ASSUME NEW i \in 1..Len(kept), NEW j \in 1..Len(block)
          PROVE  kept[i].id # block[j].id
      <4>1. kept[i] \in Range(kept) /\ block[j] \in Range(block)
        BY DEF Range
      <4> QED BY <1>8, <1>9, <4>1
    <3>2. TellApart(kept) /\ TellApart(block)
      BY <1>2 DEF ForkSets
    <3> QED BY <1>3, <3>1, <3>2, ConcatTellsApart
  <2> QED BY <2>1, <2>2 DEF ChainInv, TellApart, SourceStartBlock
<1>13. \A l, m \in Range(block) : l.id = m.id => l.source = m.source /\ l.block = m.block
  <2> SUFFICES ASSUME NEW l \in Range(block), NEW m \in Range(block), l.id = m.id
               PROVE  l.source = m.source /\ l.block = m.block
    OBVIOUS
  <2>1. PICK o \in OnChain : l.id = o.id /\ l.source = o.source /\ l.block = height + 1
    BY <1>9
  <2>2. PICK p \in OnChain : m.id = p.id /\ m.source = p.source /\ m.block = height + 1
    BY <1>9
  <2>3. o = p
    BY <1>6, <2>1, <2>2
  <2> QED BY <2>1, <2>2, <2>3
<1>14. ASSUME NEW e, NEW l \in OnChain', l.id = e.id,
              e \in Mentions \/ e \in Range(retract) \/ e \in Range(block)
       PROVE  /\ e.source = l.source /\ e.block <= l.block
              /\ e.removed => e.block < l.block
              /\ e.id \notin remined' => e.block = l.block
  <2>1. CASE l \in Range(kept)
    <3>1. l \in OnChain
      BY <1>7, <2>1
    <3>2. e \notin Range(block) /\ e \notin Range(retract)
      <4>1. ASSUME e \in Range(block) PROVE FALSE
        <5>1. PICK o \in Range(orphans) : e.id = o.id
          BY <1>9, <4>1
        <5> QED BY <1>8, <1>14, <2>1, <5>1
      <4>2. ASSUME e \in Range(retract) PROVE FALSE
        <5>1. PICK o \in Range(orphans) : e.id = o.id
          BY <1>2, <4>2 DEF ForkSets
        <5> QED BY <1>8, <1>14, <2>1, <5>1
      <4> QED BY <4>1, <4>2
    <3>3. MentionSound(e)
      BY <1>14, <3>2 DEF NodeInv, MentionsInv
    <3>4. e.id \notin remined' => e.id \notin remined
      BY <1>3
    <3> QED BY <1>14, <3>1, <3>3, <3>4 DEF MentionSound
  <2>2. CASE l \in Range(block)
    <3>1. PICK o \in OnChain : o \in Range(orphans) /\ l.id = o.id /\ l.source = o.source
                               /\ l.block = height + 1
      BY <1>9, <2>2
    <3>2. e.id \in remined'
      BY <1>10, <1>14, <2>2
    <3>3. CASE e \in Mentions
      <4>1. MentionSound(e) /\ e.block \in Nat
        BY <3>3, LogFields DEF NodeInv, MentionsInv
      <4>2. e.source = o.source /\ e.block <= height
        BY <1>14, <3>1, <4>1 DEF MentionSound
      <4> QED BY <1>4, <3>1, <3>2, <4>1, <4>2
    <3>4. CASE e \in Range(retract)
      <4>1. PICK p \in Range(orphans) : e.id = p.id /\ e.source = p.source /\ e.block = p.block
        BY <1>2, <3>4 DEF ForkSets
      <4>2. p = o /\ p.block \in Nat /\ p.block <= height
        BY <1>5, <1>6, <1>7, <1>14, <3>1, <4>1
      <4> QED BY <1>4, <3>1, <3>2, <4>1, <4>2
    <3>5. CASE e \in Range(block)
      <4>1. e.source = l.source /\ e.block = l.block /\ ~e.removed /\ e.block = height + 1
        BY <1>9, <1>13, <1>14, <2>2, <3>5
      <4> QED BY <1>4, <3>2, <4>1
    <3> QED BY <1>14, <3>3, <3>4, <3>5
  <2> QED BY <1>2, <1>14, <2>1, <2>2 DEF ForkSets
<1>15. MentionsInv'
  <2> SUFFICES ASSUME NEW e \in Mentions' PROVE MentionSound(e)'
    BY DEF MentionsInv
  <2>1. e \in Mentions \/ e \in Range(retract) \/ e \in Range(block)
    BY <1>11
  <2>2. e.id \in 1..traded /\ e.block <= height + 1
    <3>1. CASE e \in Mentions
      <4>1. MentionSound(e) /\ e.block \in Nat
        BY <3>1, LogFields DEF NodeInv, MentionsInv
      <4> QED BY <1>4, <4>1 DEF MentionSound
    <3>2. CASE e \in Range(retract)
      <4>1. PICK p \in Range(orphans) : e.id = p.id /\ e.block = p.block
        BY <1>2, <3>2 DEF ForkSets
      <4>2. p \in OnChain
        BY <1>7, <4>1
      <4> QED BY <1>4, <1>5, <4>1, <4>2
    <3>3. CASE e \in Range(block)
      BY <1>4, <1>5, <1>9, <3>3
    <3> QED BY <2>1, <3>1, <3>2, <3>3
  <2>3. e.id \in 1..traded' /\ e.block <= height'
    BY <1>3, <2>2
  <2> QED BY <1>14, <2>1, <2>3 DEF MentionSound
<1>16. HeightsInv'
  BY <1>3, <1>4 DEF Fork, HeightsInv, NodeInv
<1> QED BY <1>12, <1>15, <1>16 DEF NodeInv

\* What is asked for of the chain is on it.
LEMMA FilterLogsDoes ==
  ASSUME ServiceTypes, FilterLogs
  PROVE  \E s \in DOMAIN pendingBackfills :
           /\ current' = {s} /\ InBound(s) /\ s \in Sources /\ pendingBackfills[s] \in Nat
           /\ Range(batch') = {l \in OnChain : l.source = s /\ l.block \in pendingBackfills[s]..head}
<1>1. PICK s \in DOMAIN pendingBackfills :
           /\ InBound(s) /\ current' = {s}
           /\ batch' = Filter(chain, {l \in OnChain :
                         l.source = s /\ l.block \in pendingBackfills[s]..head})
  BY DEF FilterLogs
<1>2. Range(batch') = Range(chain) \cap {l \in OnChain :
                         l.source = s /\ l.block \in pendingBackfills[s]..head}
  BY <1>1, FilterKeeps DEF ServiceTypes, ListTypes
<1>3. s \in Sources /\ pendingBackfills[s] \in Nat
  BY <1>1 DEF ServiceTypes, MemoryTypes
<1> QED BY <1>1, <1>2, <1>3 DEF OnChain

\* Besides the chain, only what is asked for of it becomes known.
LEMMA OthersKeepNode ==
  ASSUME ServiceTypes, ServiceTypes', NodeInv, [RealtimeNext]_serviceVars, ~NewBlock, ~Fork
  PROVE  NodeInv'
<1> USE DEF nodeVars, memory, connection, fanout, counts, records, serviceVars
<1>0. /\ chain \in Seq(Msgs) /\ logs \in Seq(Msgs) /\ batch \in Seq(Msgs)
      /\ published \in Seq(Msgs) /\ height \in Nat /\ reconnectFrom \in Nat /\ head \in Nat
  BY DEF ServiceTypes, ListTypes, MemoryTypes, FanoutTypes
<1>1. UNCHANGED <<chain, height, traded, remined>>
  <2>1. CASE World
    BY <2>1 DEF World, IndexerCommits, DiscardLog, Outage, Disconnect
  <2>2. CASE Service
    BY <2>2 DEF Service, Connect, Subscribe, ReadHead, CatchUp, FilterLogs, Replay, Replayed,
                TakeLog, Tick, Resubscribe, Refuse, Disconnect
  <2>3. CASE Browsers
    BY <2>3 DEF Browsers, Join, Write, Leave
  <2> QED BY <2>1, <2>2, <2>3 DEF RealtimeNext
<1>2. Range(logs') \subseteq Range(logs)
  <2>0. Range(<<>>) = {} /\ (logs # <<>> => Range(Tail(logs)) \subseteq Range(logs))
    <3>1. logs # <<>> => Range(Tail(logs)) \subseteq Range(logs)
      BY <1>0, HeadAndTail
    <3> QED BY <3>1 DEF Range
  <2>1. CASE World
    BY <2>0, <2>1 DEF World, IndexerCommits, DiscardLog, Outage, Disconnect
  <2>2. CASE Service
    BY <2>0, <2>2 DEF Service, Connect, Subscribe, ReadHead, CatchUp, FilterLogs, Replay,
       Replayed, TakeLog, Tick, Resubscribe, Refuse, Disconnect, ReplaceSubscription
  <2>3. CASE Browsers
    BY <2>3 DEF Browsers, Join, Write, Leave
  <2> QED BY <2>1, <2>2, <2>3 DEF RealtimeNext
<1>3. Range(batch') \subseteq Range(batch) \cup OnChain
  <2>0. Range(<<>>) = {} /\ (batch # <<>> => Range(Tail(batch)) \subseteq Range(batch))
    <3>1. batch # <<>> => Range(Tail(batch)) \subseteq Range(batch)
      BY <1>0, HeadAndTail
    <3> QED BY <3>1 DEF Range
  <2>1. CASE World
    BY <2>0, <2>1 DEF World, IndexerCommits, DiscardLog, Outage, Disconnect
  <2>2. CASE FilterLogs
    BY <2>2, FilterLogsDoes
  <2>3. CASE Service /\ ~FilterLogs
    BY <2>0, <2>3 DEF Service, Connect, Subscribe, ReadHead, CatchUp, Replay,
       Replayed, TakeLog, Tick, Resubscribe, Refuse, Disconnect
  <2>4. CASE Browsers
    BY <2>4 DEF Browsers, Join, Write, Leave
  <2> QED BY <2>1, <2>2, <2>3, <2>4 DEF RealtimeNext
<1>4. Range(published') \subseteq Range(published) \cup Range(logs) \cup Range(batch)
      /\ (UNCHANGED reconnectFrom \/ ReadHead \/ \E l \in Mentions : reconnectFrom' = l.block)
  <2>1. CASE Replay \/ TakeLog
    <3>1. PICK l \in Msgs : Handled(l)
      BY <2>1, WhoPublishes DEF ServiceTypes
    <3>2. l \in Range(logs) \cup Range(batch)
      BY <1>0, <3>1, HeadAndTail DEF Handled
    <3>3. Range(published') \subseteq Range(published) \cup {l}
      <4>1. CASE UNCHANGED fanout
        BY <4>1
      <4>2. CASE Publish(l)
        BY <1>0, <4>2, Ranges DEF Publish
      <4> QED BY <3>1, <4>1, <4>2, HandleLogDoes DEF Handled
    <3>4. UNCHANGED reconnectFrom \/ reconnectFrom' = l.block
      BY <3>1 DEF Handled, HandleLog
    <3> QED BY <3>2, <3>3, <3>4 DEF Mentions
  <2>2. CASE ~Replay /\ ~TakeLog
    <3>1. UNCHANGED published
      BY <2>2, WhoPublishes DEF ServiceTypes, Handled
    <3>2. UNCHANGED reconnectFrom \/ ReadHead
      <4>1. CASE World
        BY <4>1 DEF World, IndexerCommits, DiscardLog, Outage, Disconnect
      <4>2. CASE Service
        BY <2>2, <4>2 DEF Service, Connect, Subscribe, CatchUp, FilterLogs, Replayed, Tick,
           Resubscribe, Refuse, Disconnect
      <4>3. CASE Browsers
        BY <4>3 DEF Browsers, Join, Write, Leave
      <4> QED BY <4>1, <4>2, <4>3 DEF RealtimeNext
    <3> QED BY <3>1, <3>2
  <2> QED BY <2>1, <2>2
<1>5. head' <= height
  <2>1. CASE CatchUp
    BY <1>0, <2>1 DEF CatchUp, NodeInv, HeightsInv
  <2>2. CASE World
    BY <1>0, <2>2 DEF World, IndexerCommits, DiscardLog, Outage, Disconnect, NodeInv, HeightsInv
  <2>3. CASE Service /\ ~CatchUp
    BY <1>0, <2>3 DEF Service, Connect, Subscribe, ReadHead, FilterLogs, Replay, Replayed,
       TakeLog, Tick, Resubscribe, Refuse, Disconnect, NodeInv, HeightsInv
  <2>4. CASE Browsers
    BY <1>0, <2>4 DEF Browsers, Join, Write, Leave, NodeInv, HeightsInv
  <2> QED BY <1>0, <2>1, <2>2, <2>3, <2>4 DEF RealtimeNext, NodeInv, HeightsInv
<1>6. Mentions' \subseteq Mentions \cup OnChain /\ OnChain' = OnChain
  BY <1>1, <1>2, <1>3, <1>4 DEF Mentions, OnChain
<1>7. ChainInv'
  BY <1>1 DEF ChainInv, NodeInv, OnChain, TellApart, SourceStartBlock
<1>8. MentionsInv'
  <2> SUFFICES ASSUME NEW e \in Mentions' PROVE MentionSound(e)'
    BY DEF MentionsInv
  <2>1. CASE e \in Mentions
    <3>1. MentionSound(e)
      BY <2>1 DEF NodeInv, MentionsInv
    <3> QED BY <1>1, <1>6, <3>1 DEF MentionSound
  <2>2. CASE e \in OnChain
    <3>1. /\ ~e.removed /\ e.block <= height /\ e.id \in 1..traded /\ e.block \in Nat
      BY <2>2, LogFields DEF NodeInv, ChainInv
    <3>2. \A l \in OnChain : l.id = e.id => l = e
      BY <2>2, OneLog DEF NodeInv
    <3>3. MentionSound(e)
      BY <3>1, <3>2 DEF MentionSound
    <3> QED BY <1>1, <1>6, <3>3 DEF MentionSound
  <2> QED BY <1>6, <2>1, <2>2
<1>9. HeightsInv'
  <2>1. reconnectFrom' <= height
    <3>1. CASE ReadHead
      BY <1>0, <3>1 DEF ReadHead
    <3>2. ASSUME NEW l \in Mentions, reconnectFrom' = l.block PROVE reconnectFrom' <= height
      BY <3>2 DEF NodeInv, MentionsInv, MentionSound
    <3> QED BY <1>4, <3>1, <3>2 DEF NodeInv, HeightsInv
  <2> QED BY <1>1, <1>5, <2>1 DEF HeightsInv
<1> QED BY <1>7, <1>8, <1>9 DEF NodeInv

\* Of the chain and what is said of it: a trade is on the chain once, and every log
\* or event of a trade on it names its market and a block that is not above its own.
THEOREM NodeInvariant == RealtimeSpec => [](NodeInv /\ ServiceTypes)
<1>1. RealtimeInit => NodeInv
  <2> SUFFICES ASSUME RealtimeInit PROVE NodeInv
    OBVIOUS
  <2>1. OnChain = {} /\ Mentions = {} /\ DOMAIN chain = {}
    BY DEF RealtimeInit, OnChain, Mentions, Range
  <2>2. reconnectFrom <= height /\ head <= height
    BY DEF RealtimeInit
  <2> QED BY <2>1, <2>2 DEF NodeInv, ChainInv, MentionsInv, HeightsInv, TellApart
<1>2. ServiceTypes /\ ServiceTypes' /\ NodeInv /\ [RealtimeNext]_serviceVars => NodeInv'
  BY NewBlockKeeps, ForkKeeps, OthersKeepNode
<1> QED BY <1>1, <1>2, RealtimeTypes, PTL DEF RealtimeSpec

-----------------------------------------------------------------------------
(* 9. The realtime service: no trade is forgotten *)

\* The points at which the subscription is to the registered sources.
Subscribing == {"readHead", "catchUp", "backfill", "replay", "live"}

\* Where the connection stands, and from where the sources are to be replayed.
ConnectionInv ==
  /\ pc \in {"down", "connected"} => subscribed = {} /\ logs = <<>>
  /\ pc # "replay" => batch = <<>>
  /\ pc \in Subscribing => subscribed = registry
  /\ pc # "down" => registryLoaded
  /\ pc = "rediscovered" => \A s \in registry \ subscribed :
        s \in DOMAIN pendingBackfills /\ pendingBackfills[s] = SourceStartBlock(s)
  /\ pc \in {"catchUp", "backfill", "replay", "live", "rediscovered"} => reconnectFrom > 0
  /\ reconnectFrom = 0 => \A s \in DOMAIN since :
        s \in DOMAIN pendingBackfills /\ pendingBackfills[s] <= since[s]
  /\ \A s \in DOMAIN pendingBackfills :
        pendingBackfills[s] <= reconnectFrom \/ pendingBackfills[s] <= SourceStartBlock(s)

\* What a replay leaves out: the blocks above the head it read are in the live
\* channel, those up to it in the batch or published.
LiveAbove ==
  pc \in {"backfill", "replay"} =>
    \A l \in OnChain : l.block > head /\ l.source \in subscribed => l \in Range(logs)

\* The batch of a source: its trades up to the head that are not published yet.
BatchOf(s) ==
  /\ s \in DOMAIN pendingBackfills /\ current = {s}
  /\ \A e \in Range(batch) : e.source = s /\ ~e.removed /\ e.block >= pendingBackfills[s]
  /\ \A l \in OnChain : l.source = s /\ l.block >= pendingBackfills[s] /\ l.block <= head
       => l \in Range(batch) \/ l.id \in PublishedTrades

\* Both, while a replay is under way.
ReplayInv == LiveAbove /\ (pc = "replay" => \E s \in Sources : BatchOf(s))

\* A trade in a channel, one that will be replayed, and one the next connection asks for.
Queued(l) == \E e \in Range(logs) \cup Range(batch) : e.id = l.id /\ ~e.removed
Pending(l) == l.source \in DOMAIN pendingBackfills /\ pendingBackfills[l.source] <= l.block
AskedFor(l) == pc \in {"down", "connected"} /\ 0 < reconnectFrom /\ reconnectFrom <= l.block

\* Where a trade the service owes may be.
Accounted(l) ==
  l.id \in PublishedTrades \/ Queued(l) \/ Pending(l) \/ AskedFor(l) \/ GivenUp(l)

\* Nothing the service owes is lost, and why.
LedgerInv == ConnectionInv /\ ReplayInv /\ \A l \in OnChain : Owed(l) => Accounted(l)

\* That is the property of the run.
LEMMA AccountedIs ==
  (\A l \in OnChain : Owed(l) => Accounted(l)) <=> EveryTradeAccounted
BY DEF EveryTradeAccounted, Accounted, InReach, Queued, Pending, AskedFor

\* What the deduper knows was published.
LEMMA SeenWasPublished ==
  ASSUME FanoutTypes, SeenInv, NEW l \in Msgs, Key(l) \in Range(seen), ~l.removed
  PROVE  l.id \in PublishedTrades
<1>1. PICK i \in 1..Len(seen) : Key(l) = seen[i]
  BY DEF FanoutTypes, Range
<1> DEFINE j == (Len(published) - Len(seen)) + i
           e == published[j]
<1>2. seen[i] = Key(e)
  BY <1>1 DEF SeenInv
<1>3. j \in 1..Len(published) /\ published \in Seq(Msgs)
  BY <1>1 DEF SeenInv, FanoutTypes
<1>4. e \in Range(published) /\ e \in Msgs
  BY <1>3 DEF Range
<1> HIDE DEF e
<1>5. e.id = l.id /\ e.removed = l.removed
  BY <1>1, <1>2 DEF Key
<1> QED BY <1>4, <1>5 DEF PublishedTrades, IdsOf

\* A log that is handled is a published one then.
LEMMA HandledIsPublished ==
  ASSUME ServiceTypes, SeenInv, NEW l \in Msgs, Handled(l)
  PROVE  /\ PublishedTrades \subseteq PublishedTrades'
         /\ ~l.removed => l.id \in PublishedTrades'
         /\ reconnectFrom <= reconnectFrom' /\ reconnectFrom' \in Nat
<1>0. published \in Seq(Msgs) /\ reconnectFrom \in Nat /\ l.block \in Nat
  BY LogFields DEF ServiceTypes, FanoutTypes, MemoryTypes
<1>1. CASE Key(l) \in Range(seen) /\ UNCHANGED <<seen, fanout, reconnectFrom>>
  <2>1. published' = published
    BY <1>1 DEF fanout
  <2>2. PublishedTrades' = PublishedTrades
    BY <2>1 DEF PublishedTrades
  <2> QED BY <1>0, <1>1, <2>2, SeenWasPublished DEF ServiceTypes
<1>2. CASE Publish(l)
  <2>1. Range(published') = Range(published) \cup {l}
    BY <1>0, <1>2, Ranges DEF Publish
  <2>2. reconnectFrom <= reconnectFrom' /\ reconnectFrom' \in Nat
    BY <1>0 DEF Handled, HandleLog
  <2> QED BY <2>1, <2>2 DEF PublishedTrades, IdsOf
<1> QED BY <1>1, <1>2, HandleLogDoes DEF Handled

\* What the chain gains, and what the service hears of it.
LEMMA ChainGrows ==
  ASSUME ServiceTypes, NodeInv, NewBlock \/ Fork
  PROVE  /\ \E fresh \in SUBSET Msgs :
              /\ OnChain' \subseteq OnChain \cup fresh
              /\ \A l \in fresh : /\ ~l.removed /\ l.block = height + 1
                                  /\ SourceStartBlock(l.source) <= l.block
                                  /\ l.source \in subscribed => l \in Range(logs')
         /\ Range(logs) \subseteq Range(logs')
         /\ UNCHANGED <<pc, memory, reconnectFrom, seen, subscribed, head, batch, current,
                        fanout, since, skipped, dropped>>
<1> USE DEF nodeVars, memory, connection, fanout, counts, records
<1>0. logs \in Seq(Msgs) /\ chain \in Seq(Msgs)
  BY DEF ServiceTypes, ListTypes
<1>1. CASE NewBlock
  <2>1. PICK block \in Seq(Msgs) :
           /\ chain' = chain \o block /\ logs' = logs \o Feed(block)
           /\ traded' = traded + Len(block) /\ height' = height + 1
           /\ \A i \in 1..Len(block) :
                /\ block[i].id = traded + i /\ block[i].block = height + 1
                /\ ~block[i].removed
                /\ SourceStartBlock(block[i].source) <= height + 1
    BY <1>1, NewBlockSends DEF ServiceTypes
  <2>2. Range(block) = {block[i] : i \in 1..Len(block)} /\ Range(block) \subseteq Msgs
    BY RangeEquality, Ranges
  <2>3. \A l \in Range(block) : /\ ~l.removed /\ l.block = height + 1
                                /\ SourceStartBlock(l.source) <= l.block
    BY <2>1, <2>2
  <2>4. /\ Feed(block) \in Seq(Msgs)
        /\ Range(Feed(block)) = {l \in Range(block) : l.source \in subscribed}
    BY FeedSends
  <2>5. OnChain' = OnChain \cup Range(block)
    BY <1>0, <2>1, RangeConcatenation DEF OnChain
  <2>6. Range(logs') = Range(logs) \cup Range(Feed(block))
    BY <1>0, <2>1, <2>4, RangeConcatenation
  <2>7. UNCHANGED <<pc, memory, reconnectFrom, seen, subscribed, head, batch, current,
                    fanout, since, skipped, dropped>>
    BY <1>1 DEF NewBlock
  <2> QED BY <2>2, <2>3, <2>4, <2>5, <2>6, <2>7
<1>2. CASE Fork
  <2>1. PICK kept, orphans, retract, again, block \in Seq(Msgs), keep \in Nat :
           ForkParts(keep, kept, orphans, retract, again, block)
    BY <1>2, ForkSends DEF ServiceTypes
  <2>2. ForkSets(keep, kept, orphans, retract, again, block)
    BY <2>1, ForkRanges DEF NodeInv
  <2>3. Range(block) \subseteq Msgs
    BY Ranges
  <2>4. ASSUME NEW l \in Range(block)
        PROVE  /\ ~l.removed /\ l.block = height + 1
               /\ SourceStartBlock(l.source) <= l.block
    <3>1. PICK o \in Range(again) :
            l.source = o.source /\ l.block = height + 1 /\ l.removed = o.removed
      BY <2>2, <2>4 DEF ForkSets
    <3>2. Alive(o.source, height + 1)
      BY <2>1, <3>1 DEF ForkParts
    <3>3. o \in OnChain
      <4>1. again # <<>>
        BY <3>1 DEF Range
      <4> QED BY <2>2, <3>1, <4>1 DEF ForkSets
    <3> QED BY <3>1, <3>2, <3>3 DEF Alive, NodeInv, ChainInv
  <2>5. Range(Feed(block)) = {l \in Range(block) : l.source \in subscribed}
    BY FeedSends
  <2>6. OnChain' \subseteq OnChain \cup Range(block)
    BY <2>2 DEF ForkSets
  <2>7. Range(logs) \cup Range(Feed(block)) \subseteq Range(logs')
    BY <2>2 DEF ForkSets
  <2>8. UNCHANGED <<pc, memory, reconnectFrom, seen, subscribed, head, batch, current,
                    fanout, since, skipped, dropped>>
    BY <1>2 DEF Fork
  <2> QED BY <2>3, <2>4, <2>5, <2>6, <2>7, <2>8
<1> QED BY <1>1, <1>2

\* A new trade of a market the service answers for is heard of or asked for later.
LEMMA NewTradeReached ==
  ASSUME ServiceTypes, NodeInv, ConnectionInv, NEW l \in Msgs, l.block = height + 1,
         SourceStartBlock(l.source) <= l.block,
         l.source \in DOMAIN since, since[l.source] <= l.block
  PROVE  l.source \in subscribed \/ Pending(l) \/ AskedFor(l)
<1>0. /\ l.source \in registry /\ l.source \in Sources /\ height \in Nat
      /\ reconnectFrom \in Nat /\ reconnectFrom <= height /\ since[l.source] \in Nat
      /\ pc \in Phases
      /\ SourceStartBlock(l.source) \in Nat
      /\ \A s \in DOMAIN pendingBackfills : pendingBackfills[s] \in Nat
  BY SourceStarts DEF ServiceTypes, ListTypes, MemoryTypes, NodeInv, HeightsInv
<1>1. CASE pc \in Subscribing
  BY <1>0, <1>1 DEF ConnectionInv
<1>2. CASE pc = "rediscovered"
  BY <1>0, <1>2 DEF ConnectionInv, Pending
<1>3. CASE pc \in {"down", "connected"} /\ reconnectFrom > 0
  BY <1>0, <1>3 DEF AskedFor
<1>4. CASE reconnectFrom = 0
  <2>1. l.source \in DOMAIN pendingBackfills /\ pendingBackfills[l.source] <= since[l.source]
    BY <1>4 DEF ConnectionInv
  <2> QED BY <1>0, <2>1 DEF Pending
<1> QED BY <1>0, <1>1, <1>2, <1>3, <1>4 DEF Phases, Subscribing

\* A new block or a reorganisation.
LEMMA ChainKeepsLedger ==
  ASSUME ServiceTypes, ServiceTypes', NodeInv, LedgerInv, NewBlock \/ Fork
  PROVE  LedgerInv'
<1>1. PICK fresh \in SUBSET Msgs :
              /\ OnChain' \subseteq OnChain \cup fresh
              /\ \A l \in fresh : /\ ~l.removed /\ l.block = height + 1
                                  /\ SourceStartBlock(l.source) <= l.block
                                  /\ l.source \in subscribed => l \in Range(logs')
  BY ChainGrows
<1>2. /\ Range(logs) \subseteq Range(logs')
      /\ UNCHANGED <<pc, memory, reconnectFrom, seen, subscribed, head, batch, current,
                     fanout, since, skipped, dropped>>
  BY ChainGrows
<1>3. PublishedTrades' = PublishedTrades
  BY <1>2 DEF PublishedTrades, fanout
<1>4. UNCHANGED <<registry, registryLoaded, pendingBackfills>>
  BY <1>2 DEF memory
<1>5. ConnectionInv'
  <2>1. ASSUME pc \in {"down", "connected"} PROVE logs' = <<>>
    <3>1. subscribed = {} /\ logs = <<>>
      BY <2>1 DEF LedgerInv, ConnectionInv
    <3>2. \A list \in Seq(Msgs) : Feed(list) = <<>>
      <4> SUFFICES ASSUME NEW list \in Seq(Msgs) PROVE Feed(list) = <<>>
        OBVIOUS
      <4> DEFINE f == Feed(list)
      <4>1. f \in Seq(Msgs) /\ Range(f) = {}
        BY <3>1, FeedSends
      <4> HIDE DEF f
      <4>2. Len(f) = 0
        <5>1. Len(f) \in Nat /\ \A i \in 1..Len(f) : f[i] \in Range(f)
          BY <4>1, RangeEquality
        <5>2. ~(1 \in 1..Len(f))
          BY <4>1, <5>1
        <5> QED BY <5>1, <5>2
      <4> QED BY <4>1, <4>2 DEF f
    <3>3. CASE NewBlock
      <4>1. PICK block \in Seq(Msgs) : logs' = logs \o Feed(block)
        BY <3>3, NewBlockSends DEF ServiceTypes
      <4> QED BY <3>1, <3>2, <4>1
    <3>4. CASE Fork
      <4>1. PICK kept, orphans, retract, again, block \in Seq(Msgs), keep \in Nat :
               ForkParts(keep, kept, orphans, retract, again, block)
        BY <3>4, ForkSends DEF ServiceTypes
      <4>2. logs' = logs \o Feed(retract) \o Feed(block)
        BY <4>1 DEF ForkParts
      <4> QED BY <3>1, <3>2, <4>2
    <3> QED BY <3>3, <3>4
  <2> QED BY <1>2, <1>4, <2>1 DEF LedgerInv, ConnectionInv, SourceStartBlock
<1>6. ReplayInv'
  <2>0. head \in Nat /\ head <= height /\ height \in Nat
    BY DEF ServiceTypes, ListTypes, MemoryTypes, NodeInv, HeightsInv
  <2>1. LiveAbove'
    BY <1>1, <1>2 DEF LedgerInv, ReplayInv, LiveAbove
  <2>2. ASSUME NEW s \in Sources, BatchOf(s) PROVE BatchOf(s)'
    <3>1. \A l \in fresh : ~(l.block <= head)
      BY <1>1, <2>0
    <3>2. ASSUME NEW l \in OnChain', l.source = s, l.block >= pendingBackfills[s], l.block <= head
          PROVE  l \in Range(batch) \/ l.id \in PublishedTrades
      <4>1. l \in OnChain
        BY <1>1, <3>1, <3>2
      <4> QED BY <2>2, <3>2, <4>1 DEF BatchOf
    <3> QED BY <1>2, <1>3, <1>4, <2>2, <3>2 DEF BatchOf
  <2> QED BY <1>2, <2>1, <2>2 DEF LedgerInv, ReplayInv
<1>7. ASSUME NEW l \in OnChain', Owed(l)' PROVE Accounted(l)'
  <2>1. CASE l \in OnChain
    <3>1. Owed(l)
      BY <1>2, <1>7, <2>1 DEF Owed
    <3>2. Accounted(l)
      BY <2>1, <3>1 DEF LedgerInv
    <3> QED BY <1>2, <1>3, <1>4, <3>2 DEF Accounted, Queued, Pending, AskedFor, GivenUp, Key
  <2>2. CASE l \in fresh
    <3>1. l.source \in DOMAIN since /\ since[l.source] <= l.block
      BY <1>2, <1>7 DEF Owed
    <3>2. l.source \in subscribed \/ Pending(l) \/ AskedFor(l)
      BY <1>1, <2>2, <3>1, NewTradeReached DEF LedgerInv
    <3>3. CASE l.source \in subscribed
      BY <1>1, <2>2, <3>3 DEF Accounted, Queued
    <3> QED BY <1>2, <1>4, <3>2, <3>3 DEF Accounted, Pending, AskedFor
  <2> QED BY <1>1, <2>1, <2>2
<1> QED BY <1>5, <1>6, <1>7 DEF LedgerInv

\* Discovery: a new market is to be replayed from its first block.
LEMMA ReconcileKeepsLedger ==
  ASSUME ServiceTypes, ServiceTypes', NodeInv, LedgerInv, Connect \/ Tick
  PROVE  LedgerInv'
<1> USE DEF nodeVars, memory, connection, fanout, counts, records
<1>1. /\ Reconcile
      /\ UNCHANGED <<nodeVars, reconnectFrom, seen, connection, counts, fanout, skipped,
                     dropped, unheard>>
      /\ \/ pc = "down" /\ pc' = "connected"
         \/ pc = "live" /\ pc' = "rediscovered"
  BY DEF Connect, Tick
<1>2. /\ registryLoaded'
      /\ \A s \in DOMAIN since' :
              \/ /\ s \in DOMAIN since /\ s \notin registry' \ registry
                 /\ since'[s] = since[s]
                 /\ s \in DOMAIN pendingBackfills =>
                      /\ s \in DOMAIN pendingBackfills'
                      /\ pendingBackfills'[s] = pendingBackfills[s]
              \/ /\ registryLoaded /\ s \in registry' \ registry
                 /\ since'[s] = SourceStartBlock(s)
                 /\ s \in DOMAIN pendingBackfills' /\ pendingBackfills'[s] = SourceStartBlock(s)
      /\ \A s \in DOMAIN pendingBackfills' :
              \/ /\ s \in DOMAIN pendingBackfills /\ s \notin registry' \ registry
                 /\ pendingBackfills'[s] = pendingBackfills[s]
              \/ /\ registryLoaded /\ s \in registry' \ registry
                 /\ pendingBackfills'[s] = SourceStartBlock(s)
      /\ \A s \in registry' \ registry :
              registryLoaded =>
                s \in DOMAIN pendingBackfills' /\ pendingBackfills'[s] = SourceStartBlock(s)
  BY <1>1, ReconcileDoes DEF ServiceTypes
<1>s. \A s \in Sources : SourceStartBlock(s) \in Nat
  BY SourceStarts
<1>t. DOMAIN since' \subseteq Sources /\ DOMAIN pendingBackfills' \subseteq Sources
  BY DEF ServiceTypes, MemoryTypes
<1>3. ConnectionInv'
  <2>1. pc' = "rediscovered" => \A s \in registry' \ subscribed' :
          s \in DOMAIN pendingBackfills' /\ pendingBackfills'[s] = SourceStartBlock(s)
    <3>1. pc = "live" => subscribed = registry /\ registryLoaded /\ subscribed' = subscribed
      BY <1>1 DEF LedgerInv, ConnectionInv, Subscribing
    <3> QED BY <1>1, <1>2, <3>1
  <2>2. reconnectFrom' = 0 => \A s \in DOMAIN since' :
          s \in DOMAIN pendingBackfills' /\ pendingBackfills'[s] <= since'[s]
    <3> SUFFICES ASSUME reconnectFrom = 0, NEW s \in DOMAIN since'
                 PROVE  s \in DOMAIN pendingBackfills' /\ pendingBackfills'[s] <= since'[s]
      BY <1>1
    <3>1. SourceStartBlock(s) <= SourceStartBlock(s)
      BY <1>s, <1>t
    <3> QED BY <1>2, <3>1 DEF LedgerInv, ConnectionInv
  <2>3. \A s \in DOMAIN pendingBackfills' :
          pendingBackfills'[s] <= reconnectFrom' \/ pendingBackfills'[s] <= SourceStartBlock(s)
    <3> SUFFICES ASSUME NEW s \in DOMAIN pendingBackfills'
                 PROVE  pendingBackfills'[s] <= reconnectFrom
                        \/ pendingBackfills'[s] <= SourceStartBlock(s)
      BY <1>1
    <3>1. SourceStartBlock(s) <= SourceStartBlock(s)
      BY <1>s, <1>t
    <3> QED BY <1>2, <3>1 DEF LedgerInv, ConnectionInv
  <2>4. pc' \in {"down", "connected"} => subscribed' = {} /\ logs' = <<>>
    BY <1>1 DEF LedgerInv, ConnectionInv
  <2>5. batch' = <<>> /\ pc' \notin Subscribing
    BY <1>1 DEF LedgerInv, ConnectionInv, Subscribing
  <2>6. pc' \in {"catchUp", "backfill", "replay", "live", "rediscovered"} => reconnectFrom' > 0
    BY <1>1 DEF LedgerInv, ConnectionInv
  <2> QED BY <1>2, <2>1, <2>2, <2>3, <2>4, <2>5, <2>6 DEF ConnectionInv, SourceStartBlock
<1>4. ReplayInv'
  BY <1>1 DEF ReplayInv, LiveAbove
<1>5. ASSUME NEW l \in OnChain', Owed(l)' PROVE Accounted(l)'
  <2>1. l \in OnChain /\ l \in Msgs /\ l.block \in Nat /\ l.source \in Sources
    BY <1>1, <1>5, LogFields DEF OnChain
  <2>2. l.source \in DOMAIN since' /\ since'[l.source] <= l.block
    BY <1>5 DEF Owed
  <2>3. CASE /\ l.source \in DOMAIN since /\ since'[l.source] = since[l.source]
             /\ l.source \in DOMAIN pendingBackfills =>
                  /\ l.source \in DOMAIN pendingBackfills'
                  /\ pendingBackfills'[l.source] = pendingBackfills[l.source]
    <3>1. Accounted(l)
      BY <2>1, <2>2, <2>3 DEF LedgerInv, Owed
    <3> QED BY <1>1, <2>3, <3>1
            DEF Accounted, Queued, Pending, AskedFor, GivenUp, Key, PublishedTrades
  <2>4. CASE l.source \in DOMAIN pendingBackfills'
             /\ pendingBackfills'[l.source] = SourceStartBlock(l.source)
    <3>1. SourceStartBlock(l.source) <= l.block
      BY <2>1 DEF NodeInv, ChainInv
    <3> QED BY <2>4, <3>1 DEF Accounted, Pending
  <2> QED BY <1>2, <2>2, <2>3, <2>4
<1> QED BY <1>3, <1>4, <1>5 DEF LedgerInv

\* The first subscription of a connection: every source is replayed.
LEMMA SubscribeKeepsLedger ==
  ASSUME ServiceTypes, ServiceTypes', NodeInv, LedgerInv, Subscribe
  PROVE  LedgerInv'
<1> USE DEF nodeVars, memory, connection, fanout, counts, records
<1>1. /\ pc = "connected" /\ subscribed' = registry /\ logs' = <<>>
      /\ dropped' = dropped \cup {Key(l) : l \in Range(logs)}
      /\ UNCHANGED <<nodeVars, registry, registryLoaded, reconnectFrom, seen, head, batch,
                     current, counts, fanout, since, skipped, unheard>>
  BY DEF Subscribe, ReplaceSubscription
<1>2. /\ logs = <<>> /\ batch = <<>> /\ registryLoaded
      /\ \A s \in DOMAIN pendingBackfills :
           pendingBackfills[s] <= reconnectFrom \/ pendingBackfills[s] <= SourceStartBlock(s)
      /\ reconnectFrom = 0 => \A s \in DOMAIN since :
           s \in DOMAIN pendingBackfills /\ pendingBackfills[s] <= since[s]
  BY <1>1 DEF LedgerInv, ConnectionInv
<1>3. /\ reconnectFrom \in Nat /\ DOMAIN since \subseteq registry /\ registry \subseteq Sources
      /\ \A s \in DOMAIN pendingBackfills : pendingBackfills[s] \in Nat
      /\ \A s \in Sources : SourceStartBlock(s) \in Nat
  BY SourceStarts DEF ServiceTypes, MemoryTypes
<1>4. CASE reconnectFrom > 0
  <2>1. pc' = "catchUp" /\ QueueReconnectBackfill
    BY <1>4 DEF Subscribe
  <2>2. /\ DOMAIN pendingBackfills' = registry
        /\ \A s \in registry :
             \/ s \in DOMAIN pendingBackfills /\ pendingBackfills'[s] = pendingBackfills[s]
             \/ pendingBackfills'[s] = reconnectFrom
             \/ pendingBackfills'[s] = SourceStartBlock(s)
    BY <2>1, ReconnectDoes DEF ServiceTypes
  <2>3. \A s \in registry : /\ pendingBackfills'[s] <= reconnectFrom
                               \/ pendingBackfills'[s] <= SourceStartBlock(s)
    <3> SUFFICES ASSUME NEW s \in registry
                 PROVE  pendingBackfills'[s] <= reconnectFrom
                        \/ pendingBackfills'[s] <= SourceStartBlock(s)
      OBVIOUS
    <3>1. SourceStartBlock(s) \in Nat
      BY <1>3
    <3> QED BY <1>2, <1>3, <2>2, <3>1
  <2>4. ConnectionInv'
    BY <1>1, <1>2, <1>4, <2>1, <2>2, <2>3 DEF ConnectionInv, Subscribing, SourceStartBlock
  <2>5. ReplayInv'
    BY <2>1 DEF ReplayInv, LiveAbove
  <2>6. ASSUME NEW l \in OnChain', Owed(l)' PROVE Accounted(l)'
    <3>1. l \in OnChain /\ l.block \in Nat /\ l.source \in Sources
          /\ SourceStartBlock(l.source) <= l.block
      BY <1>1, <2>6, LogFields DEF OnChain, NodeInv, ChainInv
    <3>2. l.source \in DOMAIN since /\ since[l.source] <= l.block
      BY <1>1, <2>6 DEF Owed
    <3>3. Accounted(l) /\ ~Queued(l)
      <4>1. Accounted(l)
        BY <3>1, <3>2 DEF LedgerInv, Owed
      <4>2. ~Queued(l)
        BY <1>2 DEF Queued, Range
      <4> QED BY <4>1, <4>2
    <3>4. CASE l.id \in PublishedTrades \/ GivenUp(l)
      BY <1>1, <3>4 DEF Accounted, GivenUp, PublishedTrades, Key
    <3>5. CASE Pending(l)
      <4>1. l.source \in registry /\ l.source \in DOMAIN pendingBackfills'
        BY <1>3, <2>2, <3>2
      <4>2. pendingBackfills'[l.source] <= l.block
        <5>1. CASE l.source \in DOMAIN pendingBackfills
                   /\ pendingBackfills'[l.source] = pendingBackfills[l.source]
          BY <3>5, <5>1 DEF Pending
        <5>2. CASE pendingBackfills'[l.source] = SourceStartBlock(l.source)
          BY <3>1, <5>2
        <5>3. CASE l.source \notin DOMAIN pendingBackfills
          BY <3>5, <5>3 DEF Pending
        <5> QED BY <2>1, <2>2, <3>5, <4>1, <5>1, <5>2, <5>3, ReconnectDoes
                DEF ServiceTypes, Pending
      <4> QED BY <4>1, <4>2 DEF Accounted, Pending
    <3>6. CASE AskedFor(l)
      <4>1. l.source \in registry /\ l.source \in DOMAIN pendingBackfills'
        BY <1>3, <2>2, <3>2
      <4>2. reconnectFrom <= l.block
        BY <3>6 DEF AskedFor
      <4>3. pendingBackfills'[l.source] <= reconnectFrom
            \/ pendingBackfills'[l.source] <= SourceStartBlock(l.source)
        BY <2>3, <4>1
      <4>4. pendingBackfills'[l.source] \in Nat /\ SourceStartBlock(l.source) \in Nat
        BY <1>3, <3>1, <4>1 DEF ServiceTypes, MemoryTypes
      <4>5. pendingBackfills'[l.source] <= l.block
        BY <1>3, <3>1, <4>2, <4>3, <4>4
      <4> QED BY <4>1, <4>5 DEF Accounted, Pending
    <3> QED BY <3>3, <3>4, <3>5, <3>6 DEF Accounted
  <2> QED BY <2>4, <2>5, <2>6 DEF LedgerInv
<1>5. CASE ~(reconnectFrom > 0)
  <2>1. pc' = "readHead" /\ UNCHANGED pendingBackfills
    BY <1>5 DEF Subscribe
  <2>2. ConnectionInv'
    BY <1>1, <1>2, <2>1 DEF ConnectionInv, Subscribing, SourceStartBlock
  <2>3. ReplayInv'
    BY <2>1 DEF ReplayInv, LiveAbove
  <2>4. ASSUME NEW l \in OnChain', Owed(l)' PROVE Accounted(l)'
    <3>1. l \in OnChain /\ l.source \in DOMAIN since /\ since[l.source] <= l.block
      BY <1>1, <2>4 DEF OnChain, Owed
    <3>2. Accounted(l)
      BY <3>1 DEF LedgerInv, Owed
    <3>3. ~AskedFor(l)
      BY <1>5 DEF AskedFor
    <3> QED BY <1>1, <1>2, <2>1, <3>2, <3>3
            DEF Accounted, GivenUp, Key, PublishedTrades, Pending, Queued
  <2> QED BY <2>2, <2>3, <2>4 DEF LedgerInv
<1> QED BY <1>4, <1>5

\* The first connection of the process begins at the head.
LEMMA ReadHeadKeepsLedger ==
  ASSUME ServiceTypes, ServiceTypes', NodeInv, LedgerInv, ReadHead
  PROVE  LedgerInv'
<1> USE DEF nodeVars, memory, connection, fanout, counts, records
<1>1. /\ pc = "readHead" /\ pc' = "catchUp" /\ reconnectFrom' = height
      /\ since' = [s \in registry |-> IF s \in DOMAIN since THEN since[s] ELSE height + 1]
      /\ UNCHANGED <<nodeVars, memory, seen, connection, counts, fanout, skipped,
                     dropped, unheard>>
  BY DEF ReadHead
<1>2. /\ height \in Nat \ {0} /\ reconnectFrom \in Nat /\ reconnectFrom <= height
      /\ DOMAIN pendingBackfills \subseteq Sources
      /\ \A s \in DOMAIN pendingBackfills : pendingBackfills[s] \in Nat
      /\ \A s \in Sources : SourceStartBlock(s) \in Nat
  BY SourceStarts DEF ServiceTypes, ListTypes, MemoryTypes, NodeInv, HeightsInv
<1>3. ConnectionInv'
  <2>1. \A s \in DOMAIN pendingBackfills :
          pendingBackfills[s] <= height \/ pendingBackfills[s] <= SourceStartBlock(s)
    <3> SUFFICES ASSUME NEW s \in DOMAIN pendingBackfills
                 PROVE  pendingBackfills[s] <= height
                        \/ pendingBackfills[s] <= SourceStartBlock(s)
      OBVIOUS
    <3>1. pendingBackfills[s] <= reconnectFrom \/ pendingBackfills[s] <= SourceStartBlock(s)
      BY DEF LedgerInv, ConnectionInv
    <3>2. pendingBackfills[s] \in Nat /\ SourceStartBlock(s) \in Nat
      BY <1>2
    <3> QED BY <1>2, <3>1, <3>2
  <2>2. batch = <<>> /\ subscribed = registry /\ registryLoaded
    BY <1>1 DEF LedgerInv, ConnectionInv, Subscribing
  <2>3. reconnectFrom' > 0 /\ reconnectFrom' # 0
    BY <1>1, <1>2
  <2> QED BY <1>1, <2>1, <2>2, <2>3 DEF ConnectionInv, Subscribing, SourceStartBlock
<1>4. ReplayInv'
  BY <1>1 DEF ReplayInv, LiveAbove
<1>5. ASSUME NEW l \in OnChain', Owed(l)' PROVE Accounted(l)'
  <2>1. l \in OnChain /\ l.block \in Nat /\ l.block <= height
    BY <1>1, <1>5, LogFields DEF OnChain, NodeInv, ChainInv
  <2>2. l.source \in DOMAIN since' /\ since'[l.source] <= l.block
    BY <1>5 DEF Owed
  <2>3. l.source \in DOMAIN since /\ since[l.source] <= l.block
    <3>1. l.source \in registry
          /\ since'[l.source] = IF l.source \in DOMAIN since THEN since[l.source] ELSE height + 1
      BY <1>1, <2>2
    <3>2. ~(height + 1 <= l.block)
      BY <1>2, <2>1
    <3> QED BY <2>2, <3>1, <3>2
  <2>4. Accounted(l)
    BY <2>1, <2>3 DEF LedgerInv, Owed
  <2>5. ~AskedFor(l)
    BY <1>1 DEF AskedFor
  <2> QED BY <1>1, <2>4, <2>5
          DEF Accounted, GivenUp, Key, PublishedTrades, Pending, Queued
<1> QED BY <1>3, <1>4, <1>5 DEF LedgerInv

\* The head of a replay, and the logs of one source.
LEMMA CatchUpKeepsLedger ==
  ASSUME ServiceTypes, NodeInv, LedgerInv, CatchUp
  PROVE  LedgerInv'
<1> USE DEF nodeVars, memory, connection, fanout, counts, records
<1>1. /\ pc = "catchUp" /\ pc' \in {"live", "backfill"}
      /\ pc' = "backfill" => head' = height
      /\ UNCHANGED <<nodeVars, memory, reconnectFrom, seen, subscribed, logs, batch,
                     current, counts, fanout, records>>
  BY DEF CatchUp
<1>2. ConnectionInv'
  BY <1>1 DEF LedgerInv, ConnectionInv, Subscribing, SourceStartBlock
<1>3. ReplayInv'
  <2>1. ASSUME NEW l \in OnChain PROVE ~(l.block > height)
    <3>1. l.block <= height /\ l.block \in Nat /\ height \in Nat
      BY LogFields DEF NodeInv, ChainInv, ServiceTypes, ListTypes
    <3> QED BY <3>1
  <2> QED BY <1>1, <2>1 DEF ReplayInv, LiveAbove, OnChain
<1>4. ASSUME NEW l \in OnChain', Owed(l)' PROVE Accounted(l)'
  <2>1. l \in OnChain /\ Owed(l)
    BY <1>1, <1>4 DEF OnChain, Owed
  <2>2. Accounted(l) /\ ~AskedFor(l)
    BY <1>1, <2>1 DEF LedgerInv, AskedFor
  <2> QED BY <1>1, <2>2 DEF Accounted, GivenUp, Key, PublishedTrades, Pending, Queued
<1> QED BY <1>2, <1>3, <1>4 DEF LedgerInv

\* FilterLogs(): what was pending up to the head is in the batch.
LEMMA FilterLogsKeepsLedger ==
  ASSUME ServiceTypes, NodeInv, LedgerInv, FilterLogs
  PROVE  LedgerInv'
<1> USE DEF nodeVars, memory, connection, fanout, counts, records
<1>1. /\ pc = "backfill" /\ pc' = "replay"
      /\ UNCHANGED <<nodeVars, memory, reconnectFrom, seen, subscribed, logs, head,
                     counts, fanout, records>>
  BY DEF FilterLogs
<1>2. PICK s \in DOMAIN pendingBackfills :
           /\ current' = {s} /\ InBound(s) /\ s \in Sources /\ pendingBackfills[s] \in Nat
           /\ Range(batch') = {l \in OnChain : l.source = s /\ l.block \in pendingBackfills[s]..head}
  BY FilterLogsDoes
<1>3. ConnectionInv'
  BY <1>1 DEF LedgerInv, ConnectionInv, Subscribing, SourceStartBlock
<1>4. ReplayInv'
  <2>1. LiveAbove'
    BY <1>1 DEF LedgerInv, ReplayInv, LiveAbove, OnChain
  <2>2. \A l \in OnChain : l.block \in Nat /\ ~l.removed
    BY LogFields DEF NodeInv, ChainInv
  <2>3. head \in Nat
    BY DEF ServiceTypes, MemoryTypes
  <2>4. \A e \in Range(batch') : e.source = s /\ ~e.removed /\ e.block >= pendingBackfills[s]
    BY <1>2, <2>2, <2>3
  <2>5. \A l \in OnChain : l.source = s /\ l.block >= pendingBackfills[s] /\ l.block <= head
          => l \in Range(batch')
    BY <1>2, <2>2, <2>3
  <2>6. BatchOf(s)'
    BY <1>1, <1>2, <2>4, <2>5 DEF BatchOf, OnChain
  <2> QED BY <1>1, <1>2, <2>1, <2>6 DEF ReplayInv
<1>5. ASSUME NEW l \in OnChain', Owed(l)' PROVE Accounted(l)'
  <2>1. l \in OnChain /\ Owed(l)
    BY <1>1, <1>5 DEF OnChain, Owed
  <2>2. Accounted(l) /\ ~AskedFor(l) /\ batch = <<>>
    BY <1>1, <2>1 DEF LedgerInv, AskedFor, ConnectionInv
  <2>3. Queued(l) => Queued(l)'
    BY <1>1, <2>2 DEF Queued, Range
  <2> QED BY <1>1, <2>2, <2>3 DEF Accounted, GivenUp, Key, PublishedTrades, Pending
<1> QED BY <1>3, <1>4, <1>5 DEF LedgerInv

\* A log is handled: published now, or before.
LEMMA HandledKeepsLedger ==
  ASSUME ServiceTypes, NodeInv, SeenInv, LedgerInv, NEW m \in Msgs, Handled(m)
  PROVE  LedgerInv'
<1> USE DEF nodeVars, memory, connection, counts, records
<1>1. /\ pc \in {"replay", "live"}
      /\ UNCHANGED <<nodeVars, pc, memory, subscribed, head, current, since, skipped, dropped>>
  BY DEF Handled, Replay, TakeLog
<1>2. /\ PublishedTrades \subseteq PublishedTrades'
      /\ ~m.removed => m.id \in PublishedTrades'
      /\ reconnectFrom <= reconnectFrom' /\ reconnectFrom' \in Nat
      /\ reconnectFrom > 0 /\ reconnectFrom \in Nat
      /\ DOMAIN pendingBackfills \subseteq Sources
      /\ \A s \in DOMAIN pendingBackfills : pendingBackfills[s] \in Nat
      /\ \A s \in Sources : SourceStartBlock(s) \in Nat
  BY <1>1, HandledIsPublished, SourceStarts
     DEF LedgerInv, ConnectionInv, ServiceTypes, MemoryTypes
<1>3. \/ /\ pc = "replay" /\ UNCHANGED logs /\ Range(batch) = {m} \cup Range(batch')
      \/ /\ pc = "live" /\ UNCHANGED batch /\ Range(logs) = {m} \cup Range(logs')
  <2>1. logs \in Seq(Msgs) /\ batch \in Seq(Msgs)
    BY DEF ServiceTypes, ListTypes
  <2> QED BY <2>1, HeadAndTail DEF Handled, Replay, TakeLog
<1>4. ConnectionInv'
  <2>1. \A s \in DOMAIN pendingBackfills :
          pendingBackfills[s] <= reconnectFrom' \/ pendingBackfills[s] <= SourceStartBlock(s)
    <3> SUFFICES ASSUME NEW s \in DOMAIN pendingBackfills
                 PROVE  pendingBackfills[s] <= reconnectFrom'
                        \/ pendingBackfills[s] <= SourceStartBlock(s)
      OBVIOUS
    <3>1. pendingBackfills[s] <= reconnectFrom \/ pendingBackfills[s] <= SourceStartBlock(s)
      BY DEF LedgerInv, ConnectionInv
    <3>2. pendingBackfills[s] \in Nat /\ SourceStartBlock(s) \in Nat
      BY <1>2
    <3> QED BY <1>2, <3>1, <3>2
  <2>2. reconnectFrom' > 0 /\ reconnectFrom' # 0
    BY <1>2
  <2>3. subscribed = registry /\ registryLoaded /\ (pc # "replay" => batch' = <<>>)
    BY <1>1, <1>3 DEF LedgerInv, ConnectionInv, Subscribing
  <2> QED BY <1>1, <2>1, <2>2, <2>3 DEF ConnectionInv, Subscribing, SourceStartBlock
<1>5. ReplayInv'
  <2>1. CASE pc = "replay"
    <3>1. UNCHANGED logs /\ Range(batch) = {m} \cup Range(batch')
      BY <1>3, <2>1
    <3>2. LiveAbove'
      BY <1>1, <3>1 DEF LedgerInv, ReplayInv, LiveAbove, OnChain
    <3>3. PICK s \in Sources : BatchOf(s)
      BY <2>1 DEF LedgerInv, ReplayInv
    <3>4. \A l \in OnChain : l.source = s /\ l.block >= pendingBackfills[s] /\ l.block <= head
             => l \in Range(batch') \/ l.id \in PublishedTrades'
      <4> SUFFICES ASSUME NEW l \in OnChain, l.source = s, l.block >= pendingBackfills[s],
                          l.block <= head
                   PROVE  l \in Range(batch') \/ l.id \in PublishedTrades'
        OBVIOUS
      <4>1. l \in Range(batch) \/ l.id \in PublishedTrades
        BY <3>3 DEF BatchOf
      <4>2. ~l.removed
        BY DEF NodeInv, ChainInv
      <4> QED BY <1>2, <3>1, <4>1, <4>2
    <3>5. BatchOf(s)'
      BY <1>1, <3>1, <3>3, <3>4 DEF BatchOf, OnChain
    <3> QED BY <3>2, <3>5 DEF ReplayInv
  <2>2. CASE pc = "live"
    BY <1>1, <2>2 DEF ReplayInv, LiveAbove
  <2> QED BY <1>3, <2>1, <2>2
<1>6. ASSUME NEW l \in OnChain', Owed(l)' PROVE Accounted(l)'
  <2>1. l \in OnChain /\ Owed(l)
    BY <1>1, <1>6 DEF OnChain, Owed
  <2>2. Accounted(l) /\ ~AskedFor(l)
    BY <1>1, <2>1 DEF LedgerInv, AskedFor
  <2>3. CASE Queued(l)
    <3>1. PICK e \in Range(logs) \cup Range(batch) : e.id = l.id /\ ~e.removed
      BY <2>3 DEF Queued
    <3>2. e = m \/ e \in Range(logs') \cup Range(batch')
      BY <1>3, <3>1
    <3> QED BY <1>2, <3>1, <3>2 DEF Accounted, Queued
  <2> QED BY <1>1, <1>2, <2>2, <2>3 DEF Accounted, GivenUp, Key, Pending
<1> QED BY <1>4, <1>5, <1>6 DEF LedgerInv

\* A source is replayed: what is above the head is in the live channel.
LEMMA ReplayedKeepsLedger ==
  ASSUME ServiceTypes, NodeInv, LedgerInv, Replayed
  PROVE  LedgerInv'
<1> USE DEF nodeVars, memory, connection, fanout, counts, records
<1>1. /\ pc = "replay" /\ batch = <<>> /\ pc' \in {"live", "backfill"}
      /\ pc' = "backfill" => UNCHANGED head
      /\ pendingBackfills' = [s \in DOMAIN pendingBackfills \ current |-> pendingBackfills[s]]
      /\ UNCHANGED <<nodeVars, registry, registryLoaded, reconnectFrom, seen,
                     subscribed, logs, batch, counts, fanout, records>>
  BY DEF Replayed
<1>2. /\ DOMAIN pendingBackfills' = DOMAIN pendingBackfills \ current
      /\ \A s \in DOMAIN pendingBackfills' : pendingBackfills'[s] = pendingBackfills[s]
  BY <1>1
<1>3. ConnectionInv'
  BY <1>1, <1>2 DEF LedgerInv, ConnectionInv, Subscribing, SourceStartBlock
<1>4. ReplayInv'
  BY <1>1 DEF LedgerInv, ReplayInv, LiveAbove, OnChain
<1>5. ASSUME NEW l \in OnChain', Owed(l)' PROVE Accounted(l)'
  <2>1. l \in OnChain /\ Owed(l)
    BY <1>1, <1>5 DEF OnChain, Owed
  <2>2. Accounted(l) /\ ~AskedFor(l)
    BY <1>1, <2>1 DEF LedgerInv, AskedFor
  <2>3. CASE Pending(l)
    <3>1. CASE l.source \notin current
      BY <1>2, <2>3, <3>1 DEF Accounted, Pending
    <3>2. CASE l.source \in current
      <4>1. PICK s \in Sources : BatchOf(s)
        BY <1>1 DEF LedgerInv, ReplayInv
      <4>2. l.source = s /\ pendingBackfills[s] <= l.block /\ l.block \in Nat /\ head \in Nat
            /\ pendingBackfills[s] \in Nat
        BY <2>1, <2>3, <3>2, <4>1, LogFields DEF BatchOf, Pending, ServiceTypes, MemoryTypes
      <4>3. CASE l.block <= head
        <5>1. Range(batch) = {}
          BY <1>1 DEF Range
        <5>2. l.id \in PublishedTrades
          BY <2>1, <4>1, <4>2, <4>3, <5>1 DEF BatchOf
        <5> QED BY <1>1, <5>2 DEF Accounted, PublishedTrades
      <4>4. CASE l.block > head
        <5>1. l.source \in subscribed
          <6>1. subscribed = registry
            BY <1>1 DEF LedgerInv, ConnectionInv, Subscribing
          <6>2. l.source \in registry
            BY <2>3 DEF Pending, ServiceTypes, MemoryTypes
          <6> QED BY <6>1, <6>2
        <5>2. l \in Range(logs)
          BY <1>1, <2>1, <4>4, <5>1 DEF LedgerInv, ReplayInv, LiveAbove
        <5>3. ~l.removed
          BY <2>1 DEF NodeInv, ChainInv
        <5> QED BY <1>1, <5>2, <5>3 DEF Accounted, Queued
      <4> QED BY <4>2, <4>3, <4>4
    <3> QED BY <3>1, <3>2
  <2> QED BY <1>1, <2>2, <2>3 DEF Accounted, GivenUp, Key, PublishedTrades, Queued
<1> QED BY <1>3, <1>4, <1>5 DEF LedgerInv

\* What is read or left unread in the channel without being handled is given up.
LEMMA DiscardKeepsLedger ==
  ASSUME ServiceTypes, NodeInv, LedgerInv, DiscardLog
  PROVE  LedgerInv'
<1> USE DEF nodeVars, memory, connection, fanout, counts, records
<1>1. /\ pc = "live" /\ logs # <<>> /\ logs' = Tail(logs)
      /\ skipped' = skipped \cup {Head(logs).id}
      /\ UNCHANGED <<nodeVars, pc, memory, reconnectFrom, seen, subscribed, head, batch,
                     current, outages, fanout, since, dropped, unheard>>
  BY DEF DiscardLog
<1>2. Range(logs) = {Head(logs)} \cup Range(logs')
  BY <1>1, HeadAndTail DEF ServiceTypes, ListTypes
<1>3. ConnectionInv'
  BY <1>1 DEF LedgerInv, ConnectionInv, SourceStartBlock
<1>4. ReplayInv'
  BY <1>1 DEF ReplayInv, LiveAbove
<1>5. ASSUME NEW l \in OnChain', Owed(l)' PROVE Accounted(l)'
  <2>1. l \in OnChain /\ Owed(l)
    BY <1>1, <1>5 DEF OnChain, Owed
  <2>2. Accounted(l)
    BY <2>1 DEF LedgerInv
  <2>3. CASE Queued(l)
    <3>1. PICK e \in Range(logs) \cup Range(batch) : e.id = l.id /\ ~e.removed
      BY <2>3 DEF Queued
    <3> QED BY <1>1, <1>2, <3>1 DEF Accounted, Queued, GivenUp
  <2> QED BY <1>1, <2>2, <2>3
          DEF Accounted, GivenUp, Key, PublishedTrades, Pending, AskedFor
<1> QED BY <1>3, <1>4, <1>5 DEF LedgerInv

\* A new subscription: what the old channel held is given up, or is pending.
LEMMA ResubscribeKeepsLedger ==
  ASSUME ServiceTypes, NodeInv, LedgerInv, Resubscribe
  PROVE  LedgerInv'
<1> USE DEF nodeVars, memory, connection, fanout, counts, records
<1>1. /\ pc = "rediscovered" /\ pc' = "catchUp" /\ subscribed' = registry /\ logs' = <<>>
      /\ dropped' = dropped \cup {Key(l) : l \in Range(logs)}
      /\ UNCHANGED <<nodeVars, memory, reconnectFrom, seen, head, batch, current, counts,
                     fanout, since, skipped, unheard>>
  BY DEF Resubscribe, ReplaceSubscription
<1>2. batch = <<>> /\ Range(batch) = {}
  BY <1>1 DEF LedgerInv, ConnectionInv, Range
<1>3. ConnectionInv'
  BY <1>1 DEF LedgerInv, ConnectionInv, Subscribing, SourceStartBlock
<1>4. ReplayInv'
  BY <1>1 DEF ReplayInv, LiveAbove
<1>5. ASSUME NEW l \in OnChain', Owed(l)' PROVE Accounted(l)'
  <2>1. l \in OnChain /\ Owed(l) /\ l.removed = FALSE
    <3>1. l \in OnChain /\ Owed(l)
      BY <1>1, <1>5 DEF OnChain, Owed
    <3>2. l \in Msgs /\ ~l.removed
      BY <3>1, LogFields DEF NodeInv, ChainInv
    <3> QED BY <3>1, <3>2 DEF Msgs
  <2>2. Accounted(l) /\ ~AskedFor(l)
    BY <1>1, <2>1 DEF LedgerInv, AskedFor
  <2>3. CASE Queued(l)
    <3>1. PICK e \in Range(logs) : e.id = l.id /\ ~e.removed
      BY <1>2, <2>3 DEF Queued
    <3>2. e.removed = FALSE
      <4>1. e \in Msgs
        BY <3>1, LogFields DEF Mentions
      <4> QED BY <3>1, <4>1 DEF Msgs
    <3>3. Key(e) = Key(l)
      BY <2>1, <3>1, <3>2 DEF Key
    <3>4. Key(l) \in dropped'
      BY <1>1, <3>1, <3>3
    <3> QED BY <3>4 DEF Accounted, GivenUp, Key
  <2> QED BY <1>1, <2>2, <2>3 DEF Accounted, GivenUp, Key, PublishedTrades, Pending
<1> QED BY <1>3, <1>4, <1>5 DEF LedgerInv

\* The connection ends: what was delivered from the last block on is asked for again.
LEMMA DisconnectKeepsLedger ==
  ASSUME ServiceTypes, NodeInv, LedgerInv, Disconnect
  PROVE  LedgerInv'
<1> USE DEF nodeVars, memory, connection, fanout, counts, records
<1>1. /\ pc' = "down" /\ subscribed' = {} /\ logs' = <<>> /\ batch' = <<>>
      /\ dropped' = dropped \cup
           {Key(l) : l \in {e \in Range(logs) : ~e.removed /\ e.block < reconnectFrom}}
      /\ UNCHANGED <<nodeVars, memory, reconnectFrom, seen, skips, fanout, since, skipped>>
  BY DEF Disconnect
<1>2. ConnectionInv'
  BY <1>1 DEF LedgerInv, ConnectionInv, Subscribing, SourceStartBlock
<1>3. ReplayInv'
  BY <1>1 DEF ReplayInv, LiveAbove
<1>4. ASSUME NEW l \in OnChain', Owed(l)' PROVE Accounted(l)'
  <2>1. l \in OnChain /\ Owed(l) /\ l.removed = FALSE /\ l.block \in Nat /\ l.source \in Sources
    <3>1. l \in OnChain /\ Owed(l)
      BY <1>1, <1>4 DEF OnChain, Owed
    <3>2. l \in Msgs /\ ~l.removed
      BY <3>1, LogFields DEF NodeInv, ChainInv
    <3> QED BY <3>1, <3>2 DEF Msgs
  <2>2. Accounted(l)
    BY <2>1 DEF LedgerInv
  <2>3. CASE Queued(l)
    <3>1. PICK e \in Range(logs) \cup Range(batch) : e.id = l.id /\ ~e.removed
      BY <2>3 DEF Queued
    <3>2. /\ e \in Msgs /\ e.removed = FALSE /\ e.block \in Nat
          /\ e.block <= l.block /\ e.source = l.source
      <4>1. e \in Mentions /\ e \in Msgs
        BY <3>1, LogFields DEF Mentions
      <4>2. MentionSound(e)
        BY <4>1 DEF NodeInv, MentionsInv
      <4> QED BY <2>1, <3>1, <4>1, <4>2 DEF MentionSound, Msgs
    <3>3. reconnectFrom \in Nat /\ \A s \in DOMAIN pendingBackfills : pendingBackfills[s] \in Nat
      BY DEF ServiceTypes, MemoryTypes
    <3>4. CASE e \in Range(logs) /\ e.block < reconnectFrom
      <4>1. Key(e) = Key(l)
        BY <2>1, <3>1, <3>2 DEF Key
      <4>2. Key(l) \in dropped'
        BY <1>1, <3>1, <3>4, <4>1
      <4> QED BY <4>2 DEF Accounted, GivenUp, Key
    <3>5. CASE e \in Range(logs) /\ ~(e.block < reconnectFrom)
      <4>1. CASE reconnectFrom > 0
        BY <1>1, <2>1, <3>2, <3>3, <3>5, <4>1 DEF Accounted, AskedFor
      <4>2. CASE reconnectFrom = 0
        <5>1. l.source \in DOMAIN since /\ since[l.source] <= l.block
          BY <2>1 DEF Owed
        <5>2. l.source \in DOMAIN pendingBackfills
              /\ pendingBackfills[l.source] <= since[l.source]
          BY <4>2, <5>1 DEF LedgerInv, ConnectionInv
        <5>3. since[l.source] \in Nat
          BY <5>1 DEF ServiceTypes, MemoryTypes
        <5>4. pendingBackfills[l.source] <= l.block
          BY <2>1, <3>3, <5>1, <5>2, <5>3
        <5> QED BY <1>1, <5>2, <5>4 DEF Accounted, Pending
      <4> QED BY <3>3, <4>1, <4>2
    <3>6. CASE e \in Range(batch)
      <4>1. pc = "replay"
        BY <3>6 DEF LedgerInv, ConnectionInv, Range
      <4>2. PICK s \in Sources : BatchOf(s)
        BY <4>1 DEF LedgerInv, ReplayInv
      <4>3. s \in DOMAIN pendingBackfills /\ l.source = s /\ pendingBackfills[s] <= e.block
        BY <3>2, <3>3, <3>6, <4>2 DEF BatchOf
      <4>4. pendingBackfills[s] <= l.block
        BY <2>1, <3>2, <3>3, <4>3
      <4> QED BY <1>1, <4>3, <4>4 DEF Accounted, Pending
    <3> QED BY <3>1, <3>4, <3>5, <3>6
  <2> QED BY <1>1, <2>2, <2>3
          DEF Accounted, GivenUp, Key, PublishedTrades, Pending, AskedFor
<1> QED BY <1>2, <1>3, <1>4 DEF LedgerInv

\* Browsers and the indexer do not touch it.
LEMMA OthersKeepLedger ==
  ASSUME LedgerInv, IndexerCommits \/ Browsers \/ UNCHANGED serviceVars
  PROVE  LedgerInv'
<1> USE DEF nodeVars, memory, connection, counts, records
<1>1. UNCHANGED <<chain, pc, memory, reconnectFrom, connection, published, since, skipped, dropped>>
  BY DEF IndexerCommits, Browsers, Join, Write, Leave, serviceVars, fanout
<1>2. ConnectionInv'
  BY <1>1 DEF LedgerInv, ConnectionInv, SourceStartBlock
<1>3. ReplayInv'
  BY <1>1 DEF LedgerInv, ReplayInv, LiveAbove, BatchOf, OnChain, PublishedTrades
<1>4. ASSUME NEW l \in OnChain', Owed(l)' PROVE Accounted(l)'
  <2>1. l \in OnChain /\ Owed(l)
    BY <1>1, <1>4 DEF OnChain, Owed
  <2>2. Accounted(l)
    BY <2>1 DEF LedgerInv
  <2> QED BY <1>1, <2>2
          DEF Accounted, GivenUp, Key, PublishedTrades, Pending, AskedFor, Queued
<1> QED BY <1>2, <1>3, <1>4 DEF LedgerInv

\* The ledger of the trades the service answers for is kept.
THEOREM LedgerInvariant ==
  RealtimeSpec => [](LedgerInv /\ MemoryInv /\ NodeInv /\ ServiceTypes)
<1>1. RealtimeInit => LedgerInv
  <2> SUFFICES ASSUME RealtimeInit PROVE LedgerInv
    OBVIOUS
  <2>1. OnChain = {} /\ DOMAIN pendingBackfills = {} /\ DOMAIN since = {}
    BY DEF RealtimeInit, OnChain, Range
  <2>2. ConnectionInv /\ ReplayInv
    BY <2>1 DEF RealtimeInit, ConnectionInv, ReplayInv, LiveAbove, Subscribing
  <2> QED BY <2>1, <2>2 DEF LedgerInv
<1>2. /\ ServiceTypes /\ ServiceTypes' /\ NodeInv /\ MemoryInv /\ LedgerInv
      /\ [RealtimeNext]_serviceVars
      => LedgerInv'
  <2> SUFFICES ASSUME ServiceTypes, ServiceTypes', NodeInv, MemoryInv, LedgerInv,
                      [RealtimeNext]_serviceVars
               PROVE  LedgerInv'
    OBVIOUS
  <2>1. CASE NewBlock \/ Fork
    BY <2>1, ChainKeepsLedger
  <2>2. CASE Connect \/ Tick
    BY <2>2, ReconcileKeepsLedger
  <2>3. CASE Subscribe
    BY <2>3, SubscribeKeepsLedger
  <2>4. CASE ReadHead
    BY <2>4, ReadHeadKeepsLedger
  <2>5. CASE CatchUp
    BY <2>5, CatchUpKeepsLedger
  <2>6. CASE FilterLogs
    BY <2>6, FilterLogsKeepsLedger
  <2>7. CASE Replay \/ TakeLog
    BY <2>7, WhoPublishes, HandledKeepsLedger DEF ServiceTypes, MemoryInv
  <2>8. CASE Replayed
    BY <2>8, ReplayedKeepsLedger
  <2>9. CASE DiscardLog
    BY <2>9, DiscardKeepsLedger
  <2>10. CASE Resubscribe
    BY <2>10, ResubscribeKeepsLedger
  <2>11. CASE Refuse \/ Outage
    BY <2>11, DisconnectKeepsLedger DEF Refuse, Outage
  <2>12. CASE IndexerCommits \/ Browsers \/ UNCHANGED serviceVars
    BY <2>12, OthersKeepLedger
  <2> QED BY <2>1, <2>2, <2>3, <2>4, <2>5, <2>6, <2>7, <2>8, <2>9, <2>10, <2>11, <2>12
          DEF RealtimeNext, World, Service
<1> QED BY <1>1, <1>2, RealtimeTypes, NodeInvariant, NoEventRepeats, PTL DEF RealtimeSpec

\* queueReconnectBackfill() and backfillPending(): whatever block an outage begins and
\* ends in, and however discovery, replays and the live channel interleave, a trade of
\* a market the service answers for is published, or is in a channel, or will be asked
\* for; unless its header could not be read or its channel was not read to the end.
THEOREM EveryTradeIsAccounted == RealtimeSpec => []EveryTradeAccounted
<1>1. LedgerInv => EveryTradeAccounted
  BY AccountedIs DEF LedgerInv
<1> QED BY <1>1, LedgerInvariant, PTL

-----------------------------------------------------------------------------
(* 10. The realtime service: what the last event of a trade says *)

\* The last of what a list says of a trade is that it is gone; a list says nothing else.
SaysGone(list, id) ==
  \E i \in DOMAIN list :
    /\ list[i].id = id /\ list[i].removed
    /\ \A j \in DOMAIN list : j > i /\ list[j].id = id => list[j].removed

\* A list says nothing of a trade but that it is gone.
AllGone(list, id) == \A e \in Range(list) : e.id = id => e.removed

\* No list retracts a trade twice, but for those in again.
RetractsOnce(list, again) ==
  \A i, j \in DOMAIN list :
    list[i].removed /\ list[j].removed /\ list[i].id = list[j].id
      => i = j \/ list[i].id \in again

\* Of two lists the later has the last word.
LEMMA SaysGoneConcat ==
  ASSUME NEW S, NEW s \in Seq(S), NEW t \in Seq(S), NEW id
  PROVE  /\ SaysGone(s, id) /\ AllGone(t, id) => SaysGone(s \o t, id)
         /\ SaysGone(t, id) => SaysGone(s \o t, id)
         /\ AllGone(s, id) /\ AllGone(t, id) => AllGone(s \o t, id)
<1> DEFINE u == s \o t
<1>1. /\ u \in Seq(S) /\ Len(u) = Len(s) + Len(t) /\ DOMAIN u = 1..Len(u)
      /\ \A i \in 1..Len(u) : u[i] = IF i <= Len(s) THEN s[i] ELSE t[i - Len(s)]
      /\ Len(s) \in Nat /\ Len(t) \in Nat /\ DOMAIN s = 1..Len(s) /\ DOMAIN t = 1..Len(t)
  BY ConcatProperties
<1>2. Range(u) = Range(s) \cup Range(t)
  BY RangeConcatenation
<1>3. Range(t) = {t[i] : i \in 1..Len(t)}
  BY RangeEquality
<1> HIDE DEF u
<1>4. ASSUME SaysGone(s, id), AllGone(t, id) PROVE SaysGone(u, id)
  <2>1. PICK i \in 1..Len(s) :
          /\ s[i].id = id /\ s[i].removed
          /\ \A j \in 1..Len(s) : j > i /\ s[j].id = id => s[j].removed
    BY <1>1, <1>4 DEF SaysGone
  <2>2. i \in 1..Len(u) /\ u[i] = s[i]
    BY <1>1, <2>1
  <2>3. ASSUME NEW j \in 1..Len(u), j > i, u[j].id = id PROVE u[j].removed
    <3>1. CASE j <= Len(s)
      <4>1. j \in 1..Len(s) /\ u[j] = s[j]
        BY <1>1, <3>1
      <4> QED BY <2>1, <2>3, <4>1
    <3>2. CASE ~(j <= Len(s))
      <4>1. j - Len(s) \in 1..Len(t) /\ u[j] = t[j - Len(s)]
        BY <1>1, <3>2
      <4>2. u[j] \in Range(t)
        BY <1>3, <4>1
      <4> QED BY <1>4, <2>3, <4>2 DEF AllGone
    <3> QED BY <3>1, <3>2
  <2> QED BY <1>1, <2>1, <2>2, <2>3 DEF SaysGone
<1>5. ASSUME SaysGone(t, id) PROVE SaysGone(u, id)
  <2>1. PICK i \in 1..Len(t) :
          /\ t[i].id = id /\ t[i].removed
          /\ \A j \in 1..Len(t) : j > i /\ t[j].id = id => t[j].removed
    BY <1>1, <1>5 DEF SaysGone
  <2>2. Len(s) + i \in 1..Len(u) /\ ~(Len(s) + i <= Len(s)) /\ (Len(s) + i) - Len(s) = i
    BY <1>1, <2>1
  <2>3. u[Len(s) + i] = t[i]
    BY <1>1, <2>2
  <2>4. ASSUME NEW j \in 1..Len(u), j > Len(s) + i, u[j].id = id PROVE u[j].removed
    <3>1. j - Len(s) \in 1..Len(t) /\ u[j] = t[j - Len(s)] /\ j - Len(s) > i
      BY <1>1, <2>1, <2>4
    <3> QED BY <2>1, <2>4, <3>1
  <2> QED BY <1>1, <2>1, <2>2, <2>3, <2>4 DEF SaysGone
<1>6. ASSUME AllGone(s, id), AllGone(t, id) PROVE AllGone(u, id)
  BY <1>2, <1>6 DEF AllGone
<1> QED BY <1>4, <1>5, <1>6 DEF u

\* The head of a channel is taken: it had the last word, or the rest has it.
LEMMA SaysGoneTail ==
  ASSUME NEW S, NEW list \in Seq(S), list # <<>>, NEW id, SaysGone(list, id)
  PROVE  \/ SaysGone(Tail(list), id)
         \/ Head(list).id = id /\ Head(list).removed /\ AllGone(Tail(list), id)
<1> DEFINE rest == Tail(list)
<1>1. /\ rest \in Seq(S) /\ Len(rest) = Len(list) - 1 /\ Head(list) = list[1]
      /\ \A i \in 1..Len(rest) : rest[i] = list[i + 1]
      /\ DOMAIN rest = 1..Len(rest) /\ DOMAIN list = 1..Len(list) /\ Len(list) \in Nat
  BY HeadAndTail
<1>2. Range(rest) = {rest[i] : i \in 1..Len(rest)}
  BY <1>1, RangeEquality
<1> HIDE DEF rest
<1>3. PICK i \in 1..Len(list) :
        /\ list[i].id = id /\ list[i].removed
        /\ \A j \in 1..Len(list) : j > i /\ list[j].id = id => list[j].removed
  BY <1>1 DEF SaysGone
<1>4. CASE i = 1
  <2>1. ASSUME NEW e \in Range(rest), e.id = id PROVE e.removed
    <3>1. PICK j \in 1..Len(rest) : e = rest[j]
      BY <1>2
    <3>2. j + 1 \in 1..Len(list) /\ j + 1 > i /\ e = list[j + 1]
      BY <1>1, <1>4, <3>1
    <3> QED BY <1>3, <2>1, <3>2
  <2> QED BY <1>1, <1>3, <1>4, <2>1 DEF AllGone, rest
<1>5. CASE i # 1
  <2>1. i - 1 \in 1..Len(rest) /\ (i - 1) + 1 = i
    BY <1>1, <1>5
  <2>2. rest[i - 1] = list[i]
    <3>1. rest[i - 1] = list[(i - 1) + 1]
      BY <1>1, <2>1
    <3> QED BY <2>1, <3>1
  <2>3. ASSUME NEW j \in 1..Len(rest), j > i - 1, rest[j].id = id PROVE rest[j].removed
    <3>1. j + 1 \in 1..Len(list) /\ j + 1 > i /\ rest[j] = list[j + 1]
      BY <1>1, <2>1, <2>3
    <3> QED BY <1>3, <2>3, <3>1
  <2> QED BY <1>1, <1>3, <2>1, <2>2, <2>3 DEF SaysGone, rest
<1> QED BY <1>4, <1>5

\* A list that says nothing else and says something.
LEMMA GoneIsSaid ==
  ASSUME NEW S, NEW list \in Seq(S), NEW id, AllGone(list, id),
         NEW e \in Range(list), e.id = id
  PROVE  SaysGone(list, id)
<1>1. PICK i \in DOMAIN list : e = list[i]
  BY DEF Range
<1>2. \A j \in DOMAIN list : list[j] \in Range(list)
  BY DEF Range
<1> QED BY <1>1, <1>2 DEF SaysGone, AllGone

\* Two lists that retract no trade twice, and no trade both.
LEMMA RetractsOnceConcat ==
  ASSUME NEW S, NEW s \in Seq(S), NEW t \in Seq(S), NEW again,
         RetractsOnce(s, again), RetractsOnce(t, again),
         \A d \in Range(s), e \in Range(t) :
            d.removed /\ e.removed /\ d.id = e.id => d.id \in again
  PROVE  RetractsOnce(s \o t, again)
<1> DEFINE u == s \o t
<1>1. /\ u \in Seq(S) /\ Len(u) = Len(s) + Len(t) /\ DOMAIN u = 1..Len(u)
      /\ \A i \in 1..Len(u) : u[i] = IF i <= Len(s) THEN s[i] ELSE t[i - Len(s)]
      /\ Len(s) \in Nat /\ Len(t) \in Nat /\ DOMAIN s = 1..Len(s) /\ DOMAIN t = 1..Len(t)
  BY ConcatProperties
<1> HIDE DEF u
<1>2. \A i \in 1..Len(s) : s[i] \in Range(s)
  BY <1>1 DEF Range
<1>3. \A i \in 1..Len(t) : t[i] \in Range(t)
  BY <1>1 DEF Range
<1>4. ASSUME NEW i \in 1..Len(u), NEW j \in 1..Len(u),
             u[i].removed, u[j].removed, u[i].id = u[j].id
      PROVE  i = j \/ u[i].id \in again
  <2>1. CASE i <= Len(s) /\ j <= Len(s)
    <3>1. i \in 1..Len(s) /\ j \in 1..Len(s) /\ u[i] = s[i] /\ u[j] = s[j]
      BY <1>1, <2>1
    <3> QED BY <1>1, <1>4, <3>1 DEF RetractsOnce
  <2>2. CASE i > Len(s) /\ j > Len(s)
    <3>1. i - Len(s) \in 1..Len(t) /\ j - Len(s) \in 1..Len(t)
          /\ u[i] = t[i - Len(s)] /\ u[j] = t[j - Len(s)]
      BY <1>1, <2>2
    <3>2. i - Len(s) = j - Len(s) \/ u[i].id \in again
      BY <1>1, <1>4, <3>1 DEF RetractsOnce
    <3> QED BY <1>1, <3>2
  <2>3. CASE i <= Len(s) /\ j > Len(s)
    <3>1. i \in 1..Len(s) /\ j - Len(s) \in 1..Len(t) /\ u[i] = s[i] /\ u[j] = t[j - Len(s)]
      BY <1>1, <2>3
    <3> QED BY <1>2, <1>3, <1>4, <3>1
  <2>4. CASE i > Len(s) /\ j <= Len(s)
    <3>1. j \in 1..Len(s) /\ i - Len(s) \in 1..Len(t) /\ u[j] = s[j] /\ u[i] = t[i - Len(s)]
      BY <1>1, <2>4
    <3> QED BY <1>2, <1>3, <1>4, <3>1
  <2> QED BY <1>1, <2>1, <2>2, <2>3, <2>4
<1> QED BY <1>1, <1>4 DEF RetractsOnce, u

\* The rest of a list retracts no trade twice, and none its head retracts.
LEMMA RetractsOnceTail ==
  ASSUME NEW S, NEW list \in Seq(S), list # <<>>, NEW again, RetractsOnce(list, again)
  PROVE  /\ RetractsOnce(Tail(list), again)
         /\ \A d \in Range(Tail(list)) :
              d.removed /\ Head(list).removed /\ d.id = Head(list).id => d.id \in again
<1> DEFINE rest == Tail(list)
<1>1. /\ rest \in Seq(S) /\ Len(rest) = Len(list) - 1 /\ Head(list) = list[1]
      /\ \A i \in 1..Len(rest) : rest[i] = list[i + 1]
      /\ DOMAIN rest = 1..Len(rest) /\ DOMAIN list = 1..Len(list) /\ Len(list) \in Nat \ {0}
  BY HeadAndTail
<1>2. Range(rest) = {rest[i] : i \in 1..Len(rest)}
  BY <1>1, RangeEquality
<1> HIDE DEF rest
<1>3. \A i, j \in 1..Len(list) :
        list[i].removed /\ list[j].removed /\ list[i].id = list[j].id
          => i = j \/ list[i].id \in again
  BY <1>1 DEF RetractsOnce
<1>4. ASSUME NEW i \in 1..Len(rest), NEW j \in 1..Len(rest),
             rest[i].removed, rest[j].removed, rest[i].id = rest[j].id
      PROVE  i = j \/ rest[i].id \in again
  <2>1. i + 1 \in 1..Len(list) /\ j + 1 \in 1..Len(list) /\ (i + 1 = j + 1 => i = j)
    BY <1>1
  <2> QED BY <1>1, <1>3, <1>4, <2>1
<1>5. ASSUME NEW d \in Range(rest), d.removed, Head(list).removed, d.id = Head(list).id
      PROVE  d.id \in again
  <2>1. PICK i \in 1..Len(rest) : d = rest[i]
    BY <1>2
  <2>2. i + 1 \in 1..Len(list) /\ 1 \in 1..Len(list) /\ i + 1 # 1
    BY <1>1
  <2> QED BY <1>1, <1>3, <1>5, <2>1, <2>2
<1> QED BY <1>1, <1>4, <1>5 DEF RetractsOnce, rest

\* A trade is retracted once while it is not mined again, and never by a replay.
RetractInv ==
  /\ RetractsOnce(logs, remined)
  /\ \A d \in Range(logs), e \in Range(published) :
       d.removed /\ e.removed /\ d.id = e.id => d.id \in remined
  /\ \A e \in Range(batch) : ~e.removed

\* The trades whose last event need not be a retraction.
Excused(id) ==
  id \in IdsOf(OnChain) \/ id \in remined \/ id \in unheard \/ <<id, TRUE>> \in dropped

\* The last word on a trade, published or still to be taken, is that it is gone.
Announced(id) ==
  \/ SaysGone(logs, id)
  \/ SaysGone(published, id) /\ AllGone(logs, id) /\ AllGone(batch, id)

\* The last word on a trade that is not on the chain is its retraction.
OrphanInv == \A e \in Mentions : e.removed \/ Excused(e.id) \/ Announced(e.id)

\* Both.
GoneInv == RetractInv /\ OrphanInv

\* A retraction in a channel and one more of its trade: the trade was mined again.
LEMMA RetractedTwice ==
  ASSUME ServiceTypes, NodeInv, NEW e \in Mentions, e.removed, NEW o \in OnChain, e.id = o.id
  PROVE  e.id \in remined
<1>1. MentionSound(e) /\ e.block \in Nat /\ o.block \in Nat
  BY LogFields DEF NodeInv, MentionsInv
<1> QED BY <1>1 DEF MentionSound

\* The trades of a new block are on the chain.
LEMMA NewBlockKeepsGone ==
  ASSUME ServiceTypes, NodeInv, GoneInv, NewBlock
  PROVE  GoneInv'
<1> USE DEF nodeVars, memory, connection, fanout, counts, records
<1>1. PICK block \in Seq(Msgs) :
         /\ chain' = chain \o block /\ logs' = logs \o Feed(block)
         /\ traded' = traded + Len(block) /\ height' = height + 1
         /\ \A i \in 1..Len(block) :
              /\ block[i].id = traded + i /\ block[i].block = height + 1
              /\ ~block[i].removed
              /\ SourceStartBlock(block[i].source) <= height + 1
  BY NewBlockSends DEF ServiceTypes
<1>2. UNCHANGED <<remined, unheard, dropped, batch, published>>
  BY DEF NewBlock
<1>3. traded \in Nat /\ logs \in Seq(Msgs) /\ chain \in Seq(Msgs)
  BY DEF ServiceTypes, ListTypes
<1>4. \A l \in Range(block) : ~l.removed /\ l.id > traded
  <2>1. Range(block) = {block[i] : i \in 1..Len(block)} /\ Len(block) \in Nat
    BY RangeEquality
  <2>2. \A i \in 1..Len(block) : ~block[i].removed /\ block[i].id > traded
    BY <1>1, <1>3, <2>1
  <2> QED BY <2>1, <2>2
<1> DEFINE sent == Feed(block)
<1>5. sent \in Seq(Msgs) /\ Range(sent) \subseteq Range(block) /\ logs' = logs \o sent
  BY <1>1, FeedSends
<1>6. Range(logs') = Range(logs) \cup Range(sent) /\ OnChain' = OnChain \cup Range(block)
  BY <1>1, <1>3, <1>5, RangeConcatenation DEF OnChain
<1> HIDE DEF sent
<1>7. RetractInv'
  <2>1. RetractsOnce(sent, remined)
    BY <1>4, <1>5 DEF RetractsOnce, Range
  <2>2. RetractsOnce(logs \o sent, remined)
    BY <1>3, <1>4, <1>5, <2>1, RetractsOnceConcat DEF GoneInv, RetractInv
  <2> QED BY <1>2, <1>4, <1>5, <1>6, <2>2 DEF GoneInv, RetractInv
<1>8. \A e \in Mentions : AllGone(sent, e.id)
  <2> SUFFICES ASSUME NEW e \in Mentions, NEW l \in Range(sent), l.id = e.id PROVE FALSE
    BY DEF AllGone
  <2>1. e.id \in 1..traded /\ e.id > traded
    BY <1>4, <1>5 DEF NodeInv, MentionsInv, MentionSound
  <2> QED BY <1>3, <2>1
<1>9. OrphanInv'
  <2> SUFFICES ASSUME NEW e \in Mentions'
               PROVE  e.removed \/ Excused(e.id)' \/ Announced(e.id)'
    BY DEF OrphanInv
  <2>1. CASE e \in Mentions
    <3>1. Excused(e.id) => Excused(e.id)'
      BY <1>2, <1>6 DEF Excused, IdsOf
    <3>2. Announced(e.id) => Announced(e.id)'
      BY <1>2, <1>3, <1>5, <1>8, <2>1, SaysGoneConcat DEF Announced
    <3> QED BY <2>1, <3>1, <3>2 DEF GoneInv, OrphanInv
  <2>2. CASE e \in Range(block)
    BY <1>6, <2>2 DEF Excused, IdsOf
  <2> QED BY <1>2, <1>5, <1>6, <2>1, <2>2 DEF Mentions
<1> QED BY <1>7, <1>9 DEF GoneInv

\* The node retracts every orphan it can tell the service of.
LEMMA ForkKeepsGone ==
  ASSUME ServiceTypes, NodeInv, GoneInv, Fork
  PROVE  GoneInv'
<1> USE DEF nodeVars, memory, connection, fanout, counts, records
<1>1. PICK kept, orphans, retract, again, block \in Seq(Msgs), keep \in Nat :
           ForkParts(keep, kept, orphans, retract, again, block)
  BY ForkSends DEF ServiceTypes
<1>2. ForkSets(keep, kept, orphans, retract, again, block)
  BY <1>1, ForkRanges DEF NodeInv
<1>3. /\ UNCHANGED <<dropped, batch, published>> /\ logs \in Seq(Msgs)
      /\ remined' = remined \cup IdsOf(Range(again))
      /\ unheard' = unheard \cup IdsOf(Range(orphans) \ Range(Feed(orphans)))
  BY <1>1 DEF Fork, ForkParts, ServiceTypes, ListTypes
<1> DEFINE gone == Feed(retract)
           sent == Feed(block)
<1>4. /\ gone \in Seq(Msgs) /\ Range(gone) = {l \in Range(retract) : l.source \in subscribed}
      /\ sent \in Seq(Msgs) /\ Range(sent) \subseteq Range(block)
      /\ logs' = (logs \o gone) \o sent
      /\ Range(logs') = Range(logs) \cup Range(gone) \cup Range(sent)
  BY <1>1, <1>2, FeedSends DEF ForkParts, ForkSets
<1>5. \A e \in Range(retract) : e.removed /\ \E o \in Range(orphans) :
         e.id = o.id /\ e.source = o.source
  BY <1>2 DEF ForkSets
<1>6. \A l \in Range(orphans) : l \in OnChain /\ ~l.removed
  BY <1>2 DEF ForkSets, NodeInv, ChainInv
<1>7. \A e \in Range(block) : ~e.removed /\ e.id \in remined' /\ \E o \in OnChain : e.id = o.id
  <2> SUFFICES ASSUME NEW e \in Range(block)
               PROVE  ~e.removed /\ e.id \in remined' /\ \E o \in OnChain : e.id = o.id
    OBVIOUS
  <2>1. PICK o \in Range(again) : e.id = o.id /\ e.removed = o.removed
    BY <1>2 DEF ForkSets
  <2>2. o \in Range(orphans)
    <3>1. again # <<>>
      BY <2>1 DEF Range
    <3> QED BY <1>2, <2>1, <3>1 DEF ForkSets
  <2> QED BY <1>3, <1>6, <2>1, <2>2 DEF IdsOf
<1>8. RetractsOnce(gone, remined')
  <2>1. \A i, j \in DOMAIN gone : gone[i].id = gone[j].id => i = j
    <3>1. \A a, b \in DOMAIN retract : retract[a].id = retract[b].id => a = b
      BY <1>2 DEF ForkSets, TellApart
    <3> QED BY <3>1, FilterDistinct DEF Feed
  <2> QED BY <2>1 DEF RetractsOnce
<1> HIDE DEF gone, sent
<1>9. RetractInv'
  <2>1. RetractsOnce(logs, remined')
    BY <1>3 DEF GoneInv, RetractInv, RetractsOnce
  <2>2. \A d \in Mentions, e \in Range(gone) : d.removed /\ d.id = e.id => d.id \in remined
    <3> SUFFICES ASSUME NEW d \in Mentions, NEW e \in Range(gone), d.removed, d.id = e.id
                 PROVE  d.id \in remined
      OBVIOUS
    <3>1. PICK o \in OnChain : e.id = o.id
      BY <1>4, <1>5, <1>6
    <3> QED BY <3>1, RetractedTwice
  <2>3. RetractsOnce(logs \o gone, remined') /\ logs \o gone \in Seq(Msgs)
    <3>1. \A d \in Range(logs), e \in Range(gone) :
             d.removed /\ e.removed /\ d.id = e.id => d.id \in remined'
      BY <1>3, <2>2 DEF Mentions
    <3>2. RetractsOnce(logs \o gone, remined')
      BY <1>3, <1>4, <1>8, <2>1, <3>1, RetractsOnceConcat
    <3> QED BY <1>3, <1>4, <3>2
  <2>4. RetractsOnce(logs', remined')
    <3>1. RetractsOnce(sent, remined')
      BY <1>4, <1>7 DEF RetractsOnce, Range
    <3>2. \A d \in Range(logs \o gone), e \in Range(sent) :
             d.removed /\ e.removed /\ d.id = e.id => d.id \in remined'
      BY <1>4, <1>7
    <3>3. RetractsOnce((logs \o gone) \o sent, remined')
      BY <1>4, <2>3, <3>1, <3>2, RetractsOnceConcat
    <3> QED BY <1>4, <3>3
  <2>5. \A d \in Range(logs'), e \in Range(published) :
           d.removed /\ e.removed /\ d.id = e.id => d.id \in remined'
    <3> SUFFICES ASSUME NEW d \in Range(logs'), NEW e \in Range(published),
                        d.removed, e.removed, d.id = e.id
                 PROVE  d.id \in remined'
      OBVIOUS
    <3>1. CASE d \in Range(logs)
      BY <1>3, <3>1 DEF GoneInv, RetractInv
    <3>2. CASE d \in Range(gone)
      BY <1>3, <2>2, <3>2 DEF Mentions
    <3>3. CASE d \in Range(sent)
      BY <1>4, <1>7, <3>3
    <3> QED BY <1>4, <3>1, <3>2, <3>3
  <2> QED BY <1>3, <2>4, <2>5 DEF GoneInv, RetractInv
<1>10. ASSUME NEW e \in Mentions, ~e.removed
       PROVE  Excused(e.id)' \/ Announced(e.id)'
  <2>1. CASE e.id \in remined \/ e.id \in unheard \/ <<e.id, TRUE>> \in dropped
    BY <1>3, <2>1 DEF Excused
  <2>2. CASE e.id \in IdsOf(OnChain)
    <3>1. PICK o \in OnChain : o.id = e.id
      BY <2>2 DEF IdsOf
    <3>2. CASE o \in Range(kept)
      BY <1>2, <3>1, <3>2 DEF Excused, IdsOf, ForkSets
    <3>3. CASE o \in Range(orphans) /\ Range(again) = Range(orphans)
      BY <1>3, <3>1, <3>3 DEF Excused, IdsOf
    <3>4. CASE o \in Range(orphans) /\ again = <<>> /\ block = <<>> /\ o.source \in subscribed
      <4>1. PICK r \in Range(retract) : r.id = o.id /\ r.source = o.source /\ r.removed
        BY <1>2, <3>4 DEF ForkSets
      <4>2. r \in Range(gone)
        BY <1>4, <3>4, <4>1
      <4>3. AllGone(gone, e.id)
        BY <1>4, <1>5 DEF AllGone
      <4>4. SaysGone(gone, e.id)
        BY <1>4, <3>1, <4>1, <4>2, <4>3, GoneIsSaid
      <4>5. SaysGone(logs \o gone, e.id) /\ logs \o gone \in Seq(Msgs)
        BY <1>3, <1>4, <4>4, SaysGoneConcat
      <4>6. AllGone(sent, e.id)
        BY <1>4, <3>4 DEF AllGone, Range
      <4>7. SaysGone((logs \o gone) \o sent, e.id)
        BY <1>4, <4>5, <4>6, SaysGoneConcat
      <4> QED BY <1>4, <4>7 DEF Announced
    <3>5. CASE o \in Range(orphans) /\ o.source \notin subscribed
      <4>1. o \notin Range(Feed(orphans))
        BY <3>5, FeedSends
      <4> QED BY <1>3, <3>1, <3>5, <4>1 DEF Excused, IdsOf
    <3>6. o \in Range(kept) \/ o \in Range(orphans)
      <4>1. o.block \in Nat
        BY <3>1, LogFields
      <4>2. o.block <= keep \/ o.block > keep
        BY <4>1
      <4> QED BY <1>2, <3>1, <4>2 DEF ForkSets
    <3>7. Range(again) = Range(orphans) \/ (again = <<>> /\ block = <<>>)
      BY <1>2 DEF ForkSets
    <3> QED BY <3>2, <3>3, <3>4, <3>5, <3>6, <3>7
  <2>3. CASE Announced(e.id) /\ e.id \notin IdsOf(OnChain)
    <3>1. AllGone(gone, e.id)
      BY <1>4, <1>5 DEF AllGone
    <3>2. AllGone(sent, e.id)
      <4> SUFFICES ASSUME NEW l \in Range(sent), l.id = e.id PROVE FALSE
        BY DEF AllGone
      <4>1. PICK o \in OnChain : l.id = o.id
        BY <1>4, <1>7
      <4> QED BY <2>3, <4>1 DEF IdsOf
    <3>3. logs \o gone \in Seq(Msgs)
      BY <1>3, <1>4
    <3>4. SaysGone(logs, e.id) => SaysGone(logs', e.id)
      <4>1. SaysGone(logs, e.id) => SaysGone(logs \o gone, e.id)
        BY <1>3, <1>4, <3>1, SaysGoneConcat
      <4>2. SaysGone(logs \o gone, e.id) => SaysGone((logs \o gone) \o sent, e.id)
        BY <1>4, <3>2, <3>3, SaysGoneConcat
      <4> QED BY <1>4, <4>1, <4>2
    <3>5. AllGone(logs, e.id) => AllGone(logs', e.id)
      BY <1>4, <3>1, <3>2 DEF AllGone
    <3> QED BY <1>3, <2>3, <3>4, <3>5 DEF Announced
  <2> QED BY <1>10, <2>1, <2>2, <2>3 DEF GoneInv, OrphanInv, Excused
<1>11. OrphanInv'
  <2> SUFFICES ASSUME NEW e \in Mentions'
               PROVE  e.removed \/ Excused(e.id)' \/ Announced(e.id)'
    BY DEF OrphanInv
  <2>1. e \in Mentions \/ e \in Range(gone) \/ e \in Range(sent)
    BY <1>3, <1>4 DEF Mentions
  <2>2. CASE e \in Range(gone)
    BY <1>4, <1>5, <2>2
  <2>3. CASE e \in Range(sent)
    <3>1. e \in OnChain'
      BY <1>2, <1>4, <2>3 DEF ForkSets
    <3> QED BY <3>1 DEF Excused, IdsOf
  <2> QED BY <1>10, <2>1, <2>2, <2>3
<1> QED BY <1>9, <1>11 DEF GoneInv

\* Where the logs of a handled one come from, and what its event does.
LEMMA HandledPublishes ==
  ASSUME ServiceTypes, SeenInv, NEW l \in Msgs, Handled(l)
  PROVE  /\ Range(published') \subseteq Range(published) \cup {l}
         /\ \A id : /\ l.id # id \/ l.removed
                    /\ SaysGone(published, id)
                    => SaysGone(published', id)
         /\ l.removed => \/ SaysGone(published', l.id)
                         \/ \E e \in Range(published) : e.id = l.id /\ e.removed
<1>0. published \in Seq(Msgs)
  BY DEF ServiceTypes, FanoutTypes
<1>1. CASE Key(l) \in Range(seen) /\ UNCHANGED <<seen, fanout, reconnectFrom>>
  <2>1. published' = published
    BY <1>1 DEF fanout
  <2>2. ASSUME l.removed PROVE \E e \in Range(published) : e.id = l.id /\ e.removed
    <3>1. PICK i \in 1..Len(seen) : Key(l) = seen[i]
      BY <1>1 DEF ServiceTypes, FanoutTypes, Range
    <3> DEFINE j == (Len(published) - Len(seen)) + i
               e == published[j]
    <3>2. seen[i] = Key(e)
      BY <3>1 DEF SeenInv
    <3>3. j \in 1..Len(published)
      BY <1>0, <3>1 DEF SeenInv, ServiceTypes, FanoutTypes
    <3>4. e \in Range(published)
      BY <1>0, <3>3 DEF Range
    <3> HIDE DEF e
    <3>5. e.id = l.id /\ e.removed = l.removed
      BY <3>1, <3>2 DEF Key
    <3> QED BY <2>2, <3>4, <3>5
  <2> QED BY <2>1, <2>2
<1>2. CASE Publish(l)
  <2> DEFINE one == <<l>>
  <2>1. published' = published \o one /\ one \in Seq(Msgs) /\ Range(one) = {l}
    <3>1. published' = Append(published, l)
      BY <1>2 DEF Publish
    <3> QED BY <1>0, <3>1, AppendIsConcat DEF Range
  <2> HIDE DEF one
  <2>2. Range(published') = Range(published) \cup {l}
    <3>1. Range(published \o one) = Range(published) \cup Range(one)
      BY <1>0, <2>1, RangeConcatenation
    <3> QED BY <2>1, <3>1
  <2>3. \A id : (l.id # id \/ l.removed) => AllGone(one, id)
    BY <2>1 DEF AllGone
  <2>4. \A id : (l.id # id \/ l.removed) /\ SaysGone(published, id) => SaysGone(published', id)
    BY <1>0, <2>1, <2>3, SaysGoneConcat
  <2>5. ASSUME l.removed PROVE SaysGone(published', l.id)
    <3>1. AllGone(one, l.id)
      BY <2>3, <2>5
    <3>2. SaysGone(one, l.id)
      BY <2>1, <3>1, GoneIsSaid
    <3> QED BY <1>0, <2>1, <3>2, SaysGoneConcat
  <2> QED BY <2>2, <2>4, <2>5
<1> QED BY <1>1, <1>2, HandleLogDoes DEF Handled

\* One log of a replay: not a retraction.
LEMMA ReplayKeepsGone ==
  ASSUME ServiceTypes, SeenInv, GoneInv, NEW l \in Msgs, Handled(l), Replay,
         l = Head(batch), batch # <<>>
  PROVE  GoneInv'
<1> USE DEF nodeVars, memory, connection, counts, records
<1>1. UNCHANGED <<chain, remined, logs, unheard, dropped>>
  BY DEF Replay
<1>2. Range(batch) = {l} \cup Range(batch')
  BY HeadAndTail DEF Replay, ServiceTypes, ListTypes
<1>3. ~l.removed /\ l \in Mentions
  BY <1>2 DEF GoneInv, RetractInv, Mentions
<1>4. Range(published') \subseteq Range(published) \cup {l}
  BY HandledPublishes
<1>5. \A id : l.id # id /\ SaysGone(published, id) => SaysGone(published', id)
  BY HandledPublishes
<1>6. RetractInv'
  BY <1>1, <1>2, <1>3, <1>4 DEF GoneInv, RetractInv
<1>7. OrphanInv'
  <2> SUFFICES ASSUME NEW e \in Mentions'
               PROVE  e.removed \/ Excused(e.id)' \/ Announced(e.id)'
    BY DEF OrphanInv
  <2>1. e \in Mentions
    BY <1>1, <1>2, <1>3, <1>4 DEF Mentions
  <2>2. Announced(e.id) => Announced(e.id)'
    <3>1. ASSUME AllGone(batch, e.id) PROVE l.id # e.id /\ AllGone(batch', e.id)
      BY <1>2, <1>3, <3>1 DEF AllGone
    <3> QED BY <1>1, <1>5, <3>1 DEF Announced
  <2> QED BY <1>1, <2>1, <2>2 DEF GoneInv, OrphanInv, Excused, OnChain
<1> QED BY <1>6, <1>7 DEF GoneInv

\* One log of the live channel.
LEMMA TakeLogKeepsGone ==
  ASSUME ServiceTypes, SeenInv, ConnectionInv, GoneInv, NEW l \in Msgs, Handled(l), TakeLog,
         l = Head(logs), logs # <<>>
  PROVE  GoneInv'
<1> USE DEF nodeVars, memory, connection, counts, records
<1>1. UNCHANGED <<chain, remined, batch, unheard, dropped>> /\ logs' = Tail(logs) /\ batch = <<>>
  BY DEF TakeLog, ConnectionInv
<1>0. logs \in Seq(Msgs)
  BY DEF ServiceTypes, ListTypes
<1>2. Range(logs) = {l} \cup Range(logs')
  BY <1>0, <1>1, HeadAndTail
<1>3. l \in Mentions /\ Range(batch) = {}
  BY <1>1, <1>2 DEF Mentions, Range
<1>4. /\ Range(published') \subseteq Range(published) \cup {l}
      /\ \A id : (l.id # id \/ l.removed) /\ SaysGone(published, id) => SaysGone(published', id)
      /\ l.removed => \/ SaysGone(published', l.id)
                      \/ \E e \in Range(published) : e.id = l.id /\ e.removed
  BY HandledPublishes
<1>5. RetractInv'
  <2>1. /\ RetractsOnce(logs', remined)
        /\ \A d \in Range(logs') : d.removed /\ l.removed /\ d.id = l.id => d.id \in remined
    BY <1>0, <1>1, RetractsOnceTail DEF GoneInv, RetractInv
  <2> QED BY <1>1, <1>2, <1>4, <2>1 DEF GoneInv, RetractInv
<1>6. OrphanInv'
  <2> SUFFICES ASSUME NEW e \in Mentions'
               PROVE  e.removed \/ Excused(e.id)' \/ Announced(e.id)'
    BY DEF OrphanInv
  <2>1. e \in Mentions
    BY <1>1, <1>2, <1>3, <1>4 DEF Mentions
  <2>2. CASE e.removed \/ Excused(e.id)
    BY <1>1, <2>2 DEF Excused, OnChain
  <2>3. CASE SaysGone(logs, e.id)
    <3>1. CASE SaysGone(logs', e.id)
      BY <3>1 DEF Announced
    <3>2. CASE l.id = e.id /\ l.removed /\ AllGone(logs', e.id)
      <4>1. CASE SaysGone(published', l.id)
        BY <1>1, <1>3, <3>2, <4>1 DEF Announced, AllGone
      <4>2. CASE \E p \in Range(published) : p.id = l.id /\ p.removed
        <5>1. l.id \in remined
          BY <1>2, <3>2, <4>2 DEF GoneInv, RetractInv
        <5> QED BY <1>1, <3>2, <5>1 DEF Excused
      <4> QED BY <1>4, <3>2, <4>1, <4>2
    <3> QED BY <1>0, <1>1, <2>3, <3>1, <3>2, SaysGoneTail
  <2>4. CASE SaysGone(published, e.id) /\ AllGone(logs, e.id) /\ AllGone(batch, e.id)
    <3>1. AllGone(logs', e.id) /\ (l.id # e.id \/ l.removed)
      BY <1>2, <2>4 DEF AllGone
    <3> QED BY <1>1, <1>4, <2>4, <3>1 DEF Announced
  <2> QED BY <2>1, <2>2, <2>3, <2>4 DEF GoneInv, OrphanInv, Announced
<1> QED BY <1>5, <1>6 DEF GoneInv

\* A log that is discarded is no retraction.
LEMMA DiscardKeepsGone ==
  ASSUME ServiceTypes, GoneInv, DiscardLog
  PROVE  GoneInv'
<1> USE DEF nodeVars, memory, connection, fanout, counts, records
<1>1. /\ UNCHANGED <<chain, remined, batch, unheard, dropped, published>>
      /\ logs' = Tail(logs) /\ logs # <<>> /\ ~Head(logs).removed
  BY DEF DiscardLog
<1>2. logs \in Seq(Msgs)
  BY DEF ServiceTypes, ListTypes
<1>3. Range(logs) = {Head(logs)} \cup Range(logs')
  BY <1>1, <1>2, HeadAndTail
<1>4. RetractInv'
  <2>1. RetractsOnce(logs', remined)
    BY <1>1, <1>2, RetractsOnceTail DEF GoneInv, RetractInv
  <2> QED BY <1>1, <1>3, <2>1 DEF GoneInv, RetractInv
<1>5. OrphanInv'
  <2> SUFFICES ASSUME NEW e \in Mentions'
               PROVE  e.removed \/ Excused(e.id)' \/ Announced(e.id)'
    BY DEF OrphanInv
  <2>1. e \in Mentions
    BY <1>1, <1>3 DEF Mentions
  <2>2. SaysGone(logs, e.id) => SaysGone(logs', e.id)
    BY <1>1, <1>2, SaysGoneTail
  <2>3. AllGone(logs, e.id) => AllGone(logs', e.id)
    BY <1>3 DEF AllGone
  <2>4. Announced(e.id) => Announced(e.id)'
    BY <1>1, <2>2, <2>3 DEF Announced
  <2> QED BY <1>1, <2>1, <2>4 DEF GoneInv, OrphanInv, Excused, OnChain
<1> QED BY <1>4, <1>5 DEF GoneInv

\* A channel is closed: what it said of orphans is lost.
LEMMA ClosingKeepsGone ==
  ASSUME ServiceTypes, ConnectionInv, GoneInv, Subscribe \/ Resubscribe \/ Disconnect
  PROVE  GoneInv'
<1> USE DEF nodeVars, memory, connection, fanout, counts, records
<1>1. /\ UNCHANGED <<chain, remined, published>> /\ logs' = <<>> /\ batch' \in {<<>>, batch}
      /\ unheard \subseteq unheard' /\ dropped \subseteq dropped'
      /\ \/ dropped' = dropped \cup {Key(l) : l \in Range(logs)}
         \/ unheard' = unheard \cup IdsOf({l \in Range(logs) : l.removed})
  BY DEF Subscribe, Resubscribe, Disconnect, ReplaceSubscription
<1>2. Range(logs') = {} /\ Range(batch') \subseteq Range(batch)
  BY <1>1 DEF Range
<1>3. RetractInv'
  BY <1>1, <1>2 DEF GoneInv, RetractInv, RetractsOnce
<1>4. OrphanInv'
  <2> SUFFICES ASSUME NEW e \in Mentions'
               PROVE  e.removed \/ Excused(e.id)' \/ Announced(e.id)'
    BY DEF OrphanInv
  <2>1. e \in Mentions
    BY <1>1, <1>2 DEF Mentions
  <2>2. CASE e.removed \/ Excused(e.id)
    BY <1>1, <2>2 DEF Excused, OnChain
  <2>3. CASE SaysGone(logs, e.id)
    <3>1. PICK l \in Range(logs) : l.id = e.id /\ l.removed
      BY <2>3 DEF SaysGone, Range
    <3>2. l \in Msgs
      BY <3>1, LogFields DEF Mentions
    <3>3. Key(l) = <<e.id, TRUE>>
      BY <3>1, <3>2 DEF Key, Msgs
    <3>4. <<e.id, TRUE>> \in dropped' \/ e.id \in unheard'
      <4>1. CASE dropped' = dropped \cup {Key(m) : m \in Range(logs)}
        BY <3>1, <3>3, <4>1
      <4>2. CASE unheard' = unheard \cup IdsOf({m \in Range(logs) : m.removed})
        BY <3>1, <4>2 DEF IdsOf
      <4> QED BY <1>1, <4>1, <4>2
    <3> QED BY <3>4 DEF Excused
  <2>4. CASE SaysGone(published, e.id) /\ AllGone(logs, e.id) /\ AllGone(batch, e.id)
    BY <1>1, <1>2, <2>4 DEF Announced, AllGone
  <2> QED BY <2>1, <2>2, <2>3, <2>4 DEF GoneInv, OrphanInv, Announced
<1> QED BY <1>3, <1>4 DEF GoneInv

\* A replay asks for what is on the chain.
LEMMA FilterLogsKeepsGone ==
  ASSUME ServiceTypes, NodeInv, ConnectionInv, GoneInv, FilterLogs
  PROVE  GoneInv'
<1> USE DEF nodeVars, memory, connection, fanout, counts, records
<1>1. /\ UNCHANGED <<chain, remined, logs, unheard, dropped, published>>
      /\ Range(batch') \subseteq OnChain /\ Range(batch) = {}
  <2>1. UNCHANGED <<chain, remined, logs, unheard, dropped, published>>
    BY DEF FilterLogs
  <2>2. batch = <<>>
    BY DEF FilterLogs, ConnectionInv
  <2>3. Range(batch) = {}
    BY <2>2 DEF Range
  <2>4. Range(batch') \subseteq OnChain
    BY FilterLogsDoes
  <2> QED BY <2>1, <2>3, <2>4
<1>2. RetractInv'
  BY <1>1 DEF GoneInv, RetractInv, NodeInv, ChainInv
<1>3. OrphanInv'
  <2> SUFFICES ASSUME NEW e \in Mentions'
               PROVE  e.removed \/ Excused(e.id)' \/ Announced(e.id)'
    BY DEF OrphanInv
  <2>1. CASE e \in OnChain
    BY <1>1, <2>1 DEF Excused, IdsOf, OnChain
  <2>2. CASE e \in Mentions /\ e.id \notin IdsOf(OnChain)
    <3>1. AllGone(batch', e.id)
      <4> SUFFICES ASSUME NEW l \in Range(batch'), l.id = e.id PROVE FALSE
        BY DEF AllGone
      <4> QED BY <1>1, <2>2 DEF IdsOf
    <3> QED BY <1>1, <2>2, <3>1 DEF GoneInv, OrphanInv, Excused, Announced, OnChain
  <2>3. CASE e.id \in IdsOf(OnChain)
    BY <1>1, <2>3 DEF Excused, OnChain
  <2> QED BY <1>1, <2>1, <2>2, <2>3 DEF Mentions
<1> QED BY <1>2, <1>3 DEF GoneInv

\* The other steps change neither the chain nor a channel.
LEMMA OthersKeepGone ==
  ASSUME GoneInv, IndexerCommits \/ Connect \/ Tick \/ ReadHead \/ CatchUp \/ Replayed
                  \/ Browsers \/ UNCHANGED serviceVars
  PROVE  GoneInv'
<1> USE DEF nodeVars, memory, connection, counts, records
<1>1. UNCHANGED <<chain, remined, logs, batch, unheard, dropped, published>>
  BY DEF IndexerCommits, Connect, Tick, ReadHead, CatchUp, Replayed, Browsers, Join, Write, Leave,
         serviceVars, fanout
<1> QED BY <1>1 DEF GoneInv, RetractInv, OrphanInv, Mentions, Excused, Announced, OnChain

\* The retractions of the node reach the browsers, or the trade is one of those excused.
THEOREM GoneInvariant == RealtimeSpec => [](GoneInv /\ NodeInv /\ ServiceTypes)
<1>1. RealtimeInit => GoneInv
  <2> SUFFICES ASSUME RealtimeInit PROVE GoneInv
    OBVIOUS
  <2>1. Mentions = {} /\ Range(logs) = {} /\ Range(batch) = {} /\ DOMAIN logs = {}
    BY DEF RealtimeInit, Mentions, Range
  <2> QED BY <2>1 DEF GoneInv, RetractInv, OrphanInv, RetractsOnce
<1>2. /\ ServiceTypes /\ NodeInv /\ MemoryInv /\ LedgerInv /\ GoneInv
      /\ [RealtimeNext]_serviceVars
      => GoneInv'
  <2> SUFFICES ASSUME ServiceTypes, NodeInv, SeenInv, ConnectionInv, GoneInv,
                      [RealtimeNext]_serviceVars
               PROVE  GoneInv'
    BY DEF MemoryInv, LedgerInv
  <2>1. CASE NewBlock
    BY <2>1, NewBlockKeepsGone
  <2>2. CASE Fork
    BY <2>2, ForkKeepsGone
  <2>3. CASE Replay \/ TakeLog
    <3>1. PICK l \in Msgs : Handled(l)
      BY <2>3, WhoPublishes DEF ServiceTypes
    <3> QED BY <3>1, ReplayKeepsGone, TakeLogKeepsGone DEF Handled
  <2>4. CASE DiscardLog
    BY <2>4, DiscardKeepsGone
  <2>5. CASE Subscribe \/ Resubscribe
    BY <2>5, ClosingKeepsGone
  <2>6. CASE Refuse \/ Outage
    BY <2>6, ClosingKeepsGone DEF Refuse, Outage
  <2>7. CASE FilterLogs
    BY <2>7, FilterLogsKeepsGone
  <2>8. CASE IndexerCommits \/ Connect \/ Tick \/ ReadHead \/ CatchUp \/ Replayed
             \/ Browsers \/ UNCHANGED serviceVars
    BY <2>8, OthersKeepGone
  <2> QED BY <2>1, <2>2, <2>3, <2>4, <2>5, <2>6, <2>7, <2>8 DEF RealtimeNext, World, Service
<1> QED BY <1>1, <1>2, LedgerInvariant, PTL DEF RealtimeSpec

\* LastOf is the last event of a trade that was published.
LEMMA LastOfIs ==
  ASSUME published \in Seq(Msgs), NEW id, \E e \in Range(published) : e.id = id
  PROVE  \E i \in 1..Len(published) :
           /\ LastOf(id) = published[i] /\ published[i].id = id
           /\ \A j \in 1..Len(published) : published[j].id = id => j <= i
<1> DEFINE At == {i \in 1..Len(published) : published[i].id = id}
           Back == {n \in 0..Len(published) : Len(published) - n \in At}
<1>1. Len(published) \in Nat /\ DOMAIN published = 1..Len(published)
  OBVIOUS
<1>2. PICK i0 \in 1..Len(published) : published[i0].id = id
  BY <1>1 DEF Range
<1>3. Back \in SUBSET Nat /\ Back # {}
  <2>1. Len(published) - i0 \in 0..Len(published)
        /\ Len(published) - (Len(published) - i0) = i0
    BY <1>1, <1>2
  <2>2. Len(published) - i0 \in Back
    BY <1>2, <2>1
  <2>3. Back \subseteq Nat
    BY <1>1
  <2> HIDE DEF Back
  <2> QED BY <2>2, <2>3
<1>4. PICK n \in Back : \A m \in Back : n <= m
  <2> HIDE DEF Back
  <2> QED BY <1>3, LeastNat
<1> DEFINE i == Len(published) - n
<1>5. i \in 1..Len(published) /\ published[i].id = id
  BY <1>4
<1>6. ASSUME NEW j \in 1..Len(published), published[j].id = id PROVE j <= i
  <2>1. Len(published) - j \in 0..Len(published)
        /\ Len(published) - (Len(published) - j) = j
    BY <1>1
  <2>2. Len(published) - j \in Back
    BY <1>6, <2>1
  <2>3. n <= Len(published) - j /\ n \in Nat
    BY <1>3, <1>4, <2>2
  <2> QED BY <1>1, <2>3
<1> HIDE DEF i
<1>7. ASSUME NEW k \in DOMAIN published, published[k].id = id,
             \A j \in DOMAIN published : published[j].id = id => j <= k
      PROVE  k = i
  BY <1>1, <1>5, <1>6, <1>7
<1>8. (CHOOSE k \in DOMAIN published :
         /\ published[k].id = id
         /\ \A j \in DOMAIN published : published[j].id = id => j <= k) = i
  BY <1>1, <1>5, <1>6, <1>7
<1> QED BY <1>5, <1>6, <1>8 DEF LastOf

\* Accept() and Publish(): when no log is waiting, the last event of every trade that
\* was published says whether it is on the chain; unless it was mined again in another
\* block, or the retraction was never heard or left unread.
THEOREM FeedFollowsTheChain == RealtimeSpec => []FeedMatchesChain
<1>1. ServiceTypes /\ NodeInv /\ GoneInv => FeedMatchesChain
  <2> SUFFICES ASSUME ServiceTypes, NodeInv, GoneInv, Settled, NEW id \in PublishedTrades,
                      id \notin unheard, <<id, TRUE>> \notin dropped, ~MinedAgain(id)
               PROVE  LastOf(id).removed <=> id \notin IdsOf(OnChain)
    BY DEF FeedMatchesChain
  <2>0. published \in Seq(Msgs)
    BY DEF ServiceTypes, FanoutTypes
  <2>1. PICK t \in Range(published) : t.id = id /\ ~t.removed
    BY DEF PublishedTrades, IdsOf
  <2>2. PICK i \in 1..Len(published) :
           /\ LastOf(id) = published[i] /\ published[i].id = id
           /\ \A j \in 1..Len(published) : published[j].id = id => j <= i
    BY <2>0, <2>1, LastOfIs
  <2> DEFINE p == published[i]
  <2>3. p \in Range(published) /\ p \in Mentions /\ p \in Msgs /\ p.id = id /\ LastOf(id) = p
    BY <2>0, <2>2, LogFields DEF Range, Mentions
  <2> HIDE DEF p
  <2>4. MentionSound(p) /\ p.block \in Nat
    BY <2>3, LogFields DEF NodeInv, MentionsInv
  <2>5. ASSUME p.removed, id \in IdsOf(OnChain) PROVE FALSE
    <3>1. PICK l \in OnChain : l.id = id
      BY <2>5 DEF IdsOf
    <3>2. \A m \in OnChain : m.id = id => p.block < m.block /\ m.block \in Nat
      BY <2>3, <2>4, <2>5, LogFields DEF MentionSound
    <3>3. id \in remined
      BY <2>3, <2>4, <3>1, <3>2 DEF MentionSound
    <3>4. \A m \in OnChain : m.id = id => m.block # p.block
      BY <2>4, <3>2
    <3> QED BY <2>3, <3>3, <3>4 DEF MinedAgain
  <2>6. ASSUME ~p.removed, id \notin IdsOf(OnChain) PROVE FALSE
    <3>1. id \notin remined
      BY <2>6 DEF MinedAgain, IdsOf
    <3>2. Announced(id)
      BY <2>3, <2>6, <3>1 DEF GoneInv, OrphanInv, Excused
    <3>3. ~SaysGone(logs, id)
      BY DEF Settled, SaysGone
    <3>4. PICK k \in DOMAIN published :
            /\ published[k].id = id /\ published[k].removed
            /\ \A j \in DOMAIN published : j > k /\ published[j].id = id => published[j].removed
      BY <3>2, <3>3 DEF Announced, SaysGone
    <3>5. k \in 1..Len(published) /\ k <= i /\ i \in DOMAIN published
      BY <2>0, <2>2, <3>4
    <3>6. published[i].removed
      <4>1. CASE k = i
        BY <3>4, <4>1
      <4>2. CASE k # i
        <5>1. i > k
          BY <3>5, <4>2
        <5> QED BY <2>2, <3>4, <3>5, <5>1
      <4> QED BY <4>1, <4>2
    <3> QED BY <2>6, <3>6 DEF p
  <2> QED BY <2>3, <2>5, <2>6
<1> QED BY <1>1, GoneInvariant, PTL

-----------------------------------------------------------------------------
(* 11. The realtime service: published once *)

\* PublishedOnce: what Accept() refuses, over replays, outages and retractions and for
\* every capacity.  NoRepeatInMemory, said of the events that do repeat.
THEOREM TradesPublishedOnce == RealtimeSpec => []PublishedOnce
<1>1. MemoryInv /\ ServiceTypes => PublishedOnce
  <2> SUFFICES ASSUME MemoryInv, ServiceTypes,
                      NEW i \in DOMAIN published, NEW j \in DOMAIN published,
                      i < j, Key(published[i]) = Key(published[j])
               PROVE  j - i > DedupCapacity
    BY DEF PublishedOnce
  <2>1. i \in Nat /\ j \in Nat
    BY DEF ServiceTypes, FanoutTypes
  <2>2. ~(j - i <= DedupCapacity)
    BY DEF MemoryInv, NoRepeatInMemory
  <2> QED BY <2>1, <2>2, RealtimeAssumption
<1> QED BY <1>1, NoEventRepeats, PTL
=============================================================================
