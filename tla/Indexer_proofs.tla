---------------------------- MODULE Indexer_proofs ----------------------------
(***************************************************************************)
(* The indexer for every start block, number of confirmations and batch    *)
(* size, and for every sequence of reorganisations, crashes and restarts.  *)
(*                                                                         *)
(*   1. Chains: prefixes, and what the contracts allow on them.            *)
(*   2. Logs.                                                              *)
(*   3. The invariant: the memory of the process and its rows agree, the   *)
(*      rows are of one fork, and a batch is of that fork or doomed.       *)
(*   4. A reorganisation leaves a batch as it was, dooms it, or slips.     *)
(*   5. Starting, reading the head, checking the tip.                      *)
(*   6. Recovery.                                                          *)
(*   7. A batch: every log of its range is found.                          *)
(*   8. Its blocks are written one by one on top of the stored fork.       *)
(*   9. The invariant holds, and what it says of the index.                *)
(***************************************************************************)
EXTENDS Indexer, SequenceTheorems, FiniteSetTheorems, WellFoundedInduction, TLAPS

-----------------------------------------------------------------------------
(* 1. Chains *)

Chains == Seq(Blocks)

\* The block at height n of a chain, named by its ancestry.
Upto(s, n) == SubSeq(s, 1, n)

LEMMA UptoType ==
  ASSUME NEW s \in Chains, NEW n \in Nat, n <= Len(s)
  PROVE  /\ Upto(s, n) \in Chains
         /\ Len(Upto(s, n)) = n
         /\ \A i \in 1..n : Upto(s, n)[i] = s[i]
<1>1. CASE n = 0
  <2>1. Upto(s, n) = <<>>
    BY <1>1, SubSeqEmpty DEF Upto, Chains
  <2> QED BY <2>1, <1>1, EmptySeq DEF Chains
<1>2. CASE n # 0
  <2>1. 1 \in 1..(Len(s) + 1) /\ n \in 0..Len(s) /\ Len(s) \in Nat
    BY <1>2, LenProperties DEF Chains
  <2>2. \A i \in 1..n : s[i] \in Blocks
    BY <2>1, ElementOfSeq DEF Chains
  <2>3. /\ SubSeq(s, 1, n) \in Seq(Blocks)
        /\ Len(SubSeq(s, 1, n)) = IF 1 <= n THEN n - 1 + 1 ELSE 0
        /\ \A i \in 1..(n - 1 + 1) : SubSeq(s, 1, n)[i] = s[1 + i - 1]
    BY SubSeqProperties, <2>1, <2>2 DEF Chains
  <2>4. n - 1 + 1 = n /\ \A i \in 1..n : 1 + i - 1 = i
    OBVIOUS
  <2> QED BY <2>3, <2>4, <1>2 DEF Upto, Chains
<1> QED BY <1>1, <1>2

LEMMA UptoUpto ==
  ASSUME NEW s \in Chains, NEW n \in Nat, NEW m \in Nat, m <= n, n <= Len(s)
  PROVE  Upto(Upto(s, n), m) = Upto(s, m)
<1>1. m <= Len(s) /\ Len(s) \in Nat
  BY LenProperties DEF Chains
<1>2. Upto(s, n) \in Chains /\ Len(Upto(s, n)) = n /\ \A i \in 1..n : Upto(s, n)[i] = s[i]
  BY UptoType
<1>3. /\ Upto(Upto(s, n), m) \in Chains /\ Len(Upto(Upto(s, n), m)) = m
      /\ \A i \in 1..m : Upto(Upto(s, n), m)[i] = Upto(s, n)[i]
  BY UptoType, <1>2
<1>4. /\ Upto(s, m) \in Chains /\ Len(Upto(s, m)) = m
      /\ \A i \in 1..m : Upto(s, m)[i] = s[i]
  BY UptoType, <1>1
<1>5. \A i \in 1..m : Upto(Upto(s, n), m)[i] = Upto(s, m)[i]
  BY <1>2, <1>3, <1>4
<1> QED BY <1>3, <1>4, <1>5, SeqEqual DEF Chains

LEMMA UptoFull ==
  ASSUME NEW s \in Chains
  PROVE  Upto(s, Len(s)) = s
BY SubSeqFull DEF Upto, Chains

\* A prefix in the sense of the community modules.
LEMMA PrefixUpto ==
  ASSUME NEW s \in Chains, NEW t \in Chains
  PROVE  IsPrefix(s, t) <=> Len(s) <= Len(t) /\ Upto(t, Len(s)) = s
BY UptoFull DEF IsPrefix, Upto

\* What a longer chain says of a shorter one that both contain.
LEMMA UptoShared ==
  ASSUME NEW s \in Chains, NEW t \in Chains, NEW n \in Nat, NEW m \in Nat,
         m <= n, n <= Len(s), n <= Len(t), Upto(s, n) = Upto(t, n)
  PROVE  Upto(s, m) = Upto(t, m)
BY UptoUpto

LEMMA UptoElement ==
  ASSUME NEW s \in Chains, NEW t \in Chains, NEW n \in Nat,
         n <= Len(s), n <= Len(t), Upto(s, n) = Upto(t, n)
  PROVE  \A i \in 1..n : s[i] = t[i]
BY UptoType

\* Heights and legality without cardinalities.
Legal(c) ==
    /\ \A i, j \in DOMAIN c : c[i].tx = c[j].tx /\ c[i].tx \in Txs => i = j
    /\ \A n \in DOMAIN c : c[n].tx \in Txs => n >= StartBlock
    /\ Follows(c, "trade", "launch")
    /\ Follows(c, "graduate", "launch")
    /\ Follows(c, "swap", "graduate")

LEMMA LegalChainLegal ==
  ASSUME NEW c \in Chains, LegalChain(c)
  PROVE  Legal(c)
<1>1. IsFiniteSet(DOMAIN c) /\ DOMAIN c = 1..Len(c) /\ Len(c) \in Nat
  BY LenProperties, FS_Interval DEF Chains
<1>2. ASSUME NEW i \in DOMAIN c, NEW j \in DOMAIN c, c[i].tx = c[j].tx, c[i].tx \in Txs
      PROVE  i = j
  <2> DEFINE H == HeightsOf(c, c[i].tx)
  <2>1. H \subseteq DOMAIN c /\ i \in H /\ j \in H
    BY <1>2 DEF HeightsOf
  <2>2. IsFiniteSet(H) /\ Cardinality(H) <= 1
    BY <2>1, <1>1, <1>2, FS_Subset DEF LegalChain
  <2>3. Cardinality({i, j}) <= Cardinality(H)
    BY <2>1, <2>2, FS_Subset
  <2>4. ASSUME i # j PROVE FALSE
    <3>1. Cardinality({i, j}) = 2
      <4>1. IsFiniteSet({i}) /\ Cardinality({i}) = 1 /\ j \notin {i}
        BY <2>4, FS_Singleton
      <4>2. Cardinality({i} \cup {j}) = Cardinality({i}) + 1
        BY <4>1, FS_AddElement
      <4>3. {i} \cup {j} = {i, j}
        OBVIOUS
      <4> QED BY <4>1, <4>2, <4>3
    <3>2. Cardinality(H) \in Nat
      BY <2>2, FS_CardinalityType
    <3> QED BY <3>1, <2>3, <2>2, <3>2
  <2> QED BY <2>4
<1>3. ASSUME NEW n \in DOMAIN c, c[n].tx \in Txs PROVE n >= StartBlock
  <2>1. n \in Nat /\ StartBlock \in Nat /\ n >= 1
    BY <1>1, IndexerConstantsType
  <2>2. CASE n < StartBlock
    BY <2>1, <2>2, <1>3 DEF LegalChain, Txs
  <2> QED BY <2>1, <2>2
<1> QED BY <1>2, <1>3 DEF LegalChain, Legal

LEMMA LegalUpto ==
  ASSUME NEW c \in Chains, Legal(c), NEW n \in Nat, n <= Len(c)
  PROVE  Legal(Upto(c, n))
<1> DEFINE d == Upto(c, n)
<1>1. /\ DOMAIN d = 1..n /\ DOMAIN c = 1..Len(c) /\ Len(c) \in Nat
      /\ \A i \in 1..n : d[i] = c[i] /\ i \in DOMAIN c
  <2>1. d \in Seq(Blocks) /\ Len(d) = n /\ \A i \in 1..n : d[i] = c[i]
    BY UptoType DEF Chains
  <2>2. DOMAIN d = 1..n /\ DOMAIN c = 1..Len(c) /\ Len(c) \in Nat
    BY <2>1, LenProperties DEF Chains
  <2>3. \A i \in 1..n : i \in 1..Len(c)
    BY <2>2
  <2> QED BY <2>1, <2>2, <2>3
<1> HIDE DEF d
<1>2. \A tx : \A i : i \in HeightsOf(d, tx) <=> i \in HeightsOf(c, tx) /\ i <= n
  BY <1>1 DEF HeightsOf
<1>3. \A later, earlier : Follows(c, later, earlier) => Follows(d, later, earlier)
  <2> SUFFICES ASSUME NEW later, NEW earlier, Follows(c, later, earlier),
                      NEW i \in HeightsOf(d, later)
               PROVE  \E m \in HeightsOf(d, earlier) : m < i
    BY DEF Follows
  <2>1. PICK m \in HeightsOf(c, earlier) : m < i
    BY <1>2 DEF Follows
  <2>2. m \in Nat /\ i \in Nat /\ i <= n
    BY <1>1, <1>2 DEF HeightsOf
  <2> QED BY <2>1, <2>2, <1>2
<1>4. \A i, j \in DOMAIN d : d[i].tx = d[j].tx /\ d[i].tx \in Txs => i = j
  BY <1>1 DEF Legal
<1>5. \A i \in DOMAIN d : d[i].tx \in Txs => i >= StartBlock
  BY <1>1 DEF Legal
<1> QED BY <1>2, <1>3, <1>4, <1>5 DEF Legal, d

-----------------------------------------------------------------------------
(* 2. Logs *)

Log(c, n, k) == [kind |-> k, block |-> Upto(c, n)]

LEMMA InLogs ==
  ASSUME NEW from, NEW to, NEW kinds
  PROVE  \A l : l \in FilterLogs(from, to, kinds) <=>
                \E n \in (from..to) \cap DOMAIN chain, k \in kinds :
                   k \in EventsOf(chain[n].tx) /\ l = Log(chain, n, k)
BY DEF FilterLogs, Log, Upto, Header

LEMMA EventKinds ==
  ASSUME NEW tx
  PROVE  /\ EventsOf(tx) \subseteq Kinds
         /\ tx \notin Txs => EventsOf(tx) = {}
         /\ \A other : \A k \in EventsOf(tx) : k \in EventsOf(other) => tx = other
BY DEF EventsOf, Kinds, Txs

LEMMA LogType ==
  ASSUME NEW c \in Chains, NEW n \in Nat, n <= Len(c), NEW k \in Kinds
  PROVE  /\ Log(c, n, k) \in [kind : Kinds, block : Chains]
         /\ Log(c, n, k).kind = k
         /\ Log(c, n, k).block = Upto(c, n)
         /\ Len(Log(c, n, k).block) = n
BY UptoType DEF Log

\* Of numbers, one is the least.
LEMMA LeastNat ==
  ASSUME NEW T \in SUBSET Nat, T # {}
  PROVE  \E n \in T : \A m \in T : n <= m
<1>1. IsWellFoundedOn(OpToRel(<,Nat), Nat)
  BY NatLessThanWellFounded
<1>2. PICK x \in T : \A y \in T : ~ (<<y, x>> \in OpToRel(<,Nat))
  BY <1>1, WFMin
<1>3. \A y \in T : ~(y < x)
  BY <1>2 DEF OpToRel
<1> QED BY <1>3

LEMMA MinType ==
  ASSUME NEW T \in SUBSET Nat, T # {}
  PROVE  Min(T) \in T /\ \A m \in T : Min(T) <= m
BY LeastNat DEF Min

-----------------------------------------------------------------------------
(* 3. The invariant *)

\* The types of the rows and of the process.
Types ==
    /\ chain \in Chains /\ Len(chain) <= MaxHeight /\ Legal(chain)
    /\ blockAt \in [1..MaxHeight -> {None} \cup Chains]
    /\ \A n \in 1..MaxHeight : blockAt[n] # None => Len(blockAt[n]) = n
    /\ events \in [Kinds -> {None} \cup Chains]
    /\ trades \in [TradeKinds -> {None} \cup Chains]
    /\ metrics = Rebuild(blockAt, events, trades)
    /\ checkpoint \in [number : Nat, hash : {None} \cup Chains]
    /\ pc \in {"stopped", "head", "check", "recover", "scan",
              "launches", "settlements", "senders", "apply"}
    /\ last \in Nat /\ target \in Nat /\ end \in Nat
    /\ lastHash \in {None} \cup Chains
    /\ found \subseteq [kind : Kinds, block : Chains]
    /\ todo \subseteq Nat
    /\ slipped \in BOOLEAN

\* What the process remembers is what it stored, or the start block it was
\* configured with, and a batch lies between that and the confirmed head.
AtCheckpoint ==
    \/ lastHash = checkpoint.hash /\ last = checkpoint.number
    \/ lastHash = None /\ last + 1 = StartBlock /\ checkpoint.number < StartBlock

CheckpointStored ==
    IF checkpoint.hash = None
    THEN checkpoint.number = 0
    ELSE /\ checkpoint.number \in 1..MaxHeight
         /\ Len(checkpoint.hash) = checkpoint.number
         /\ blockAt[checkpoint.number] = checkpoint.hash
         /\ checkpoint.number + Confirmations <= Len(chain)

BatchBounds ==
    /\ pc = "launches" => end <= last + BatchSize
    /\ InFlight => /\ last < end /\ end <= target
                   /\ \A l \in found : Len(l.block) \in (last + 1)..end
    /\ pc = "apply" => /\ todo # {} /\ todo \subseteq (last + 1)..end
                       /\ \A l \in found : Len(l.block) \in todo

Memory ==
    /\ CheckpointStored
    /\ target = 0 \/ target + Confirmations <= Len(chain)
    /\ pc \notin {"stopped", "recover"} => AtCheckpoint
    /\ pc = "recover" => /\ last <= checkpoint.number
                         /\ lastHash = checkpoint.hash /\ lastHash # None
    /\ pc = "check" => lastHash # None
    /\ pc = "scan" => last < target
    /\ pc # "apply" => todo = {}
    /\ BatchBounds

\* The block of a swap whose last scan did not know the pool.
Missed(k, hash) == k = "UniswapV3Swap" /\ hash \in missed

\* The rows are those of one fork, and none is missing.
BlockRows ==
    \A n \in 1..MaxHeight :
        n >= StartBlock /\ blockAt[n] # None
            => n <= Len(indexed) /\ blockAt[n] = Upto(indexed, n)

EventRow(k, n) ==
    /\ n >= StartBlock
    /\ events[k] = Upto(indexed, n) /\ blockAt[n] = events[k]
    /\ k \in EventsOf(indexed[n].tx)
    /\ ~Missed(k, events[k])

Rows ==
    /\ Legal(indexed)
    /\ BlockRows
    /\ \A k \in Kinds : events[k] # None => \E n \in 1..Len(indexed) : EventRow(k, n)
    /\ \A k \in TradeKinds : trades[k] = events[k]
    /\ \A n \in 1..Len(indexed) : \A k \in EventsOf(indexed[n].tx) :
         ~Missed(k, Upto(indexed, n)) => events[k] = Upto(indexed, n)

\* The kinds of events a batch has looked for, or knows it missed, at each of its
\* steps.
Covered ==
    CASE pc = "launches"    -> scannedKinds \cup {"UniswapV3Swap"}
      [] pc = "settlements" -> Kinds \ {"GraduatedV3"}
      [] OTHER              -> Kinds

\* A batch is of the fork its headers are read from, and misses none of its logs
\* but those of the swaps that are booked as missed...
LogsOfChain ==
    \A l \in found :
        /\ l.block = Upto(chain, Len(l.block))
        /\ l.kind \in EventsOf(chain[Len(l.block)].tx)
        /\ l.kind = "UniswapV3Swap" => events["TokenLaunchedV3"] # None
        /\ ~Missed(l.kind, l.block)

LogsComplete ==
    \A n \in (last + 1)..end : \A k \in EventsOf(chain[n].tx) \cap Covered :
        ~Missed(k, Upto(chain, n)) => Log(chain, n, k) \in found

Good == /\ lastHash # None => lastHash = Upto(chain, last)
        /\ LogsOfChain
        /\ LogsComplete

\* ... or its first block will fail the parent check.
Doomed == /\ lastHash # None /\ lastHash # Upto(chain, last)
          /\ todo = {} \/ last + 1 \in todo

IndexInv ==
    /\ Types
    /\ Memory
    /\ ~slipped => Rows
    /\ ~slipped /\ InFlight => Good \/ Doomed

-----------------------------------------------------------------------------
(* 4. The chain moves *)

\* What a longer or another fork leaves of the chain.
ChainStep ==
    /\ chain' \in Chains /\ Len(chain') <= MaxHeight /\ Legal(chain')
    /\ Len(chain) <= Len(chain')
    /\ slipped' \in BOOLEAN
    /\ slipped => slipped'
    /\ UNCHANGED <<database, memory, missed>>

KeepsBatch ==
    \A n \in 0..target : Upto(chain', n) = Upto(chain, n)

DoomsBatch ==
    /\ lastHash # None /\ lastHash = Upto(chain, last) /\ lastHash # Upto(chain', last)
    /\ todo = {} \/ last + 1 \in todo

LEMMA MineMoves ==
  ASSUME Types, Memory, Mine
  PROVE  ChainStep /\ KeepsBatch
<1>1. PICK tx \in Txs \cup {"none"} : chain' = Append(chain, [tx |-> tx, salt |-> 0])
  BY DEF Mine
<1> DEFINE b == [tx |-> tx, salt |-> 0]
<1>2. b \in Blocks
  BY DEF Blocks
<1>3. chain \in Seq(Blocks) /\ Len(chain) \in Nat
  BY LenProperties DEF Types, Chains
<1> HIDE DEF b
<1>4. /\ chain' \in Chains /\ Len(chain') = Len(chain) + 1
      /\ \A i \in 1..Len(chain) : chain'[i] = chain[i]
  BY <1>1, <1>2, <1>3, AppendProperties DEF Chains, b
<1>5. Legal(chain') /\ Len(chain') <= MaxHeight
  BY <1>4, <1>3, LegalChainLegal, IndexerConstantsType DEF Mine
<1>6. target \in Nat /\ target <= Len(chain) /\ Confirmations \in Nat
  BY <1>3, IndexerConstantsType DEF Types, Memory
<1>7. ASSUME NEW n \in 0..target PROVE Upto(chain', n) = Upto(chain, n)
  <2>1. n \in Nat /\ n <= Len(chain) /\ n <= Len(chain') /\ chain \in Chains
    BY <1>3, <1>4, <1>6 DEF Chains
  <2>2. /\ Upto(chain', n) \in Seq(Blocks) /\ Len(Upto(chain', n)) = n
        /\ \A i \in 1..n : Upto(chain', n)[i] = chain'[i]
    BY UptoType, <2>1, <1>4 DEF Chains
  <2>3. /\ Upto(chain, n) \in Seq(Blocks) /\ Len(Upto(chain, n)) = n
        /\ \A i \in 1..n : Upto(chain, n)[i] = chain[i]
    BY UptoType, <2>1 DEF Chains
  <2>4. \A i \in 1..n : i \in 1..Len(chain)
    BY <2>1, <1>3
  <2> QED BY <2>2, <2>3, <2>4, <1>4, SeqEqual
<1> QED BY <1>4, <1>5, <1>7, <1>3 DEF ChainStep, KeepsBatch, Mine, history, Types

LEMMA ReorgMoves ==
  ASSUME Types, Memory, Reorg
  PROVE  ChainStep /\ (~slipped' /\ InFlight => KeepsBatch \/ DoomsBatch)
<1> DEFINE Fork(depth, txs, salt) == [n \in 1..depth |-> [tx |-> txs[n], salt |-> salt]]
           Replaces(depth, fork) ==
             LET base == Header(Len(chain) - depth)
             IN  /\ fork[1] # chain[Len(base) + 1]
                 /\ LegalChain(base \o fork)
                 /\ chain' = base \o fork
<1>0. PICK depth \in 1..ReorgDepth :
        /\ depth <= Len(chain)
        /\ \E txs \in [1..depth -> Txs \cup {"none"}], salt \in {0, 1} :
             Replaces(depth, Fork(depth, txs, salt))
        /\ slipped' = (slipped \/ (depth > Confirmations /\ InFlight /\ ~Noticed(depth)))
  BY DEF Reorg
<1>1. PICK txs \in [1..depth -> Txs \cup {"none"}], salt \in {0, 1} :
        Replaces(depth, Fork(depth, txs, salt))
  BY <1>0
<1> DEFINE kept == Len(chain) - depth
           base == Upto(chain, kept)
           fork == Fork(depth, txs, salt)
<1>2. /\ depth \in Nat /\ depth >= 1 /\ kept \in Nat /\ kept <= Len(chain)
      /\ Len(chain) \in Nat /\ chain \in Chains /\ kept + depth = Len(chain)
  <2>1. Len(chain) \in Nat /\ chain \in Chains
    BY LenProperties DEF Types, Chains
  <2>2. ReorgDepth \in Nat
    BY IndexerConstantsType
  <2> QED BY <1>0, <2>1, <2>2
<1>3. fork \in Seq(Blocks) /\ Len(fork) = depth
  <2>1. \A n \in 1..depth : [tx |-> txs[n], salt |-> salt] \in Blocks
    BY DEF Blocks
  <2> QED BY <2>1, <1>2
<1>4. base \in Seq(Blocks) /\ Len(base) = kept /\ \A i \in 1..kept : base[i] = chain[i]
  BY UptoType, <1>2 DEF Chains
<1>5. /\ fork[1] # chain[kept + 1] /\ LegalChain(chain') /\ chain' = base \o fork
      /\ slipped' = (slipped \/ (depth > Confirmations /\ InFlight /\ ~Noticed(depth)))
  <2>1. Header(Len(chain) - depth) = base
    BY DEF Header, Upto
  <2> HIDE DEF base, fork
  <2>2. fork[1] # chain[Len(base) + 1] /\ LegalChain(base \o fork) /\ chain' = base \o fork
    BY <1>1, <2>1 DEF fork
  <2> QED BY <2>2, <1>4, <1>0
<1> HIDE DEF base, fork, Fork, Replaces
<1>6. /\ chain' \in Chains /\ Len(chain') = Len(chain)
      /\ \A i \in 1..kept : chain'[i] = chain[i]
      /\ chain'[kept + 1] # chain[kept + 1]
  <2>1. /\ base \o fork \in Seq(Blocks) /\ Len(base \o fork) = Len(base) + Len(fork)
        /\ \A i \in 1..(Len(base) + Len(fork)) :
             (base \o fork)[i] = IF i <= Len(base) THEN base[i] ELSE fork[i - Len(base)]
    BY <1>3, <1>4, ConcatProperties
  <2>2. \A i \in 1..kept : i \in 1..(kept + depth) /\ i <= kept
    BY <1>2
  <2>3. kept + 1 \in 1..(kept + depth) /\ ~(kept + 1 <= kept) /\ kept + 1 - kept = 1
    BY <1>2
  <2>4. (base \o fork)[kept + 1] = fork[1]
    <3>1. Len(base) = kept /\ Len(fork) = depth
      BY <1>3, <1>4
    <3>2. (base \o fork)[kept + 1] = IF kept + 1 <= kept THEN base[kept + 1]
                                     ELSE fork[kept + 1 - kept]
      BY <2>1, <2>3, <3>1
    <3> QED BY <3>2, <2>3
  <2> QED BY <2>1, <2>2, <2>4, <1>2, <1>3, <1>4, <1>5 DEF Chains
<1>7. ChainStep
  <2>1. Legal(chain')
    BY <1>5, <1>6, LegalChainLegal
  <2>2. slipped' \in BOOLEAN /\ (slipped => slipped')
    <3> DEFINE hit == depth > Confirmations /\ InFlight /\ ~Noticed(depth)
    <3>1. slipped' = (slipped \/ hit)
      BY <1>5
    <3> HIDE DEF hit
    <3> QED BY <3>1
  <2>3. UNCHANGED <<database, memory, missed>>
        /\ Len(chain) <= Len(chain') /\ Len(chain') <= MaxHeight
    BY <1>2, <1>6 DEF Reorg, Types
  <2> QED BY <2>1, <2>2, <2>3, <1>6 DEF ChainStep
<1>8. target \in Nat /\ (target = 0 \/ target + Confirmations <= Len(chain))
      /\ Confirmations \in Nat
  BY IndexerConstantsType DEF Types, Memory
<1>9. ASSUME depth <= Confirmations PROVE KeepsBatch
  <2> SUFFICES ASSUME NEW n \in 0..target PROVE Upto(chain', n) = Upto(chain, n)
    BY DEF KeepsBatch
  <2>1. n \in Nat /\ n <= kept /\ n <= Len(chain) /\ n <= Len(chain')
    BY <1>2, <1>6, <1>8, <1>9
  <2>2. /\ Upto(chain', n) \in Seq(Blocks) /\ Len(Upto(chain', n)) = n
        /\ \A i \in 1..n : Upto(chain', n)[i] = chain'[i]
    BY UptoType, <2>1, <1>6 DEF Chains
  <2>3. /\ Upto(chain, n) \in Seq(Blocks) /\ Len(Upto(chain, n)) = n
        /\ \A i \in 1..n : Upto(chain, n)[i] = chain[i]
    BY UptoType, <2>1, <1>2 DEF Chains
  <2>4. \A i \in 1..n : i \in 1..kept
    BY <2>1, <1>2
  <2>5. \A i \in 1..n : chain'[i] = chain[i]
    BY <2>4, <1>6
  <2> HIDE DEF kept
  <2>6. \A i \in 1..Len(Upto(chain', n)) : Upto(chain', n)[i] = Upto(chain, n)[i]
    BY <2>2, <2>3, <2>5
  <2> QED BY <2>2, <2>3, <2>6, SeqEqual
<1>10. ASSUME InFlight, Noticed(depth) PROVE DoomsBatch
  <2>1. lastHash # None /\ lastHash = Upto(chain, last) /\ kept < last
        /\ (todo = {} \/ last + 1 \in todo)
    BY <1>10 DEF Noticed, Header, Upto
  <2>2. last \in Nat /\ last <= Len(chain) /\ last <= Len(chain')
    <3>1. last \in Nat /\ end \in Nat /\ last < end /\ end <= target
      BY <1>10 DEF Types, Memory, BatchBounds
    <3> QED BY <3>1, <1>8, <1>6, <1>2
  <2>3. Upto(chain, last)[kept + 1] = chain[kept + 1]
    BY UptoType, <2>1, <2>2, <1>2
  <2>4. Upto(chain', last)[kept + 1] = chain'[kept + 1]
    BY UptoType, <2>1, <2>2, <1>2, <1>6
  <2> QED BY <2>1, <2>3, <2>4, <1>6 DEF DoomsBatch
<1>11. depth <= Confirmations \/ depth > Confirmations
  BY <1>2, <1>8
<1> QED BY <1>5, <1>7, <1>9, <1>10, <1>11

\* A batch ends below the confirmed head it was planned for.
LEMMA BatchOnChain ==
  ASSUME Types, Memory, InFlight
  PROVE  /\ last \in Nat /\ end \in Nat /\ last < end /\ end <= target
         /\ target + Confirmations <= Len(chain) /\ target \in Nat
         /\ target <= Len(chain) /\ Len(chain) \in Nat /\ Len(chain) <= MaxHeight
         /\ DOMAIN chain = 1..Len(chain)
         /\ MaxHeight \in Nat /\ Confirmations \in Nat /\ BatchSize \in Nat
<1>1. Len(chain) \in Nat /\ DOMAIN chain = 1..Len(chain)
  BY LenProperties DEF Types, Chains
<1>2. MaxHeight \in Nat /\ Confirmations \in Nat /\ BatchSize \in Nat
  BY IndexerConstantsType
<1>3. last \in Nat /\ end \in Nat /\ target \in Nat /\ last < end /\ end <= target
      /\ Len(chain) <= MaxHeight
  BY DEF Types, Memory, BatchBounds
<1>4. target + Confirmations <= Len(chain)
  BY <1>3 DEF Memory
<1> QED BY <1>1, <1>2, <1>3, <1>4

LEMMA ChainStepKeeps ==
  ASSUME IndexInv, ChainStep, ~slipped' /\ InFlight => KeepsBatch \/ DoomsBatch
  PROVE  IndexInv'
<1>0. /\ UNCHANGED <<blockAt, events, trades, metrics, checkpoint, pc, last, lastHash, target,
                     end, found, todo, missed>>
      /\ ~slipped' => ~slipped
  BY DEF ChainStep, database, memory
<1>1. Types'
  <2>1. /\ chain' \in Chains /\ Len(chain') <= MaxHeight /\ Legal(chain')
        /\ slipped' \in BOOLEAN
    BY DEF ChainStep
  <2>2. Types
    BY DEF IndexInv
  <2> QED BY <2>1, <2>2, <1>0 DEF Types
<1>2. Len(chain) \in Nat /\ Len(chain') \in Nat /\ Confirmations \in Nat
  BY LenProperties, IndexerConstantsType DEF IndexInv, Types, ChainStep, Chains
<1>3. Memory'
  <2>1. CheckpointStored'
    BY <1>2 DEF IndexInv, Types, Memory, CheckpointStored, ChainStep, database
  <2>2. (target = 0 \/ target + Confirmations <= Len(chain))'
    BY <1>2 DEF IndexInv, Types, Memory, ChainStep, memory
  <2>3. BatchBounds'
    BY DEF IndexInv, Memory, BatchBounds, InFlight, ChainStep, memory, batch
  <2> QED BY <2>1, <2>2, <2>3 DEF IndexInv, Memory, AtCheckpoint, ChainStep, memory, batch, database
<1>4. ASSUME ~slipped' PROVE Rows'
  <2>1. Rows
    BY <1>4, <1>0 DEF IndexInv
  <2> QED BY <2>1, <1>0 DEF Rows, BlockRows, EventRow, Missed, indexed
<1>5. ASSUME ~slipped', InFlight' PROVE (Good \/ Doomed)'
  <2>1. InFlight /\ ~slipped /\ IndexInv /\ UNCHANGED <<database, memory, missed>>
        /\ chain \in Chains /\ chain' \in Chains
    <3>1. InFlight /\ ~slipped
      BY <1>5, <1>0 DEF InFlight
    <3>2. UNCHANGED <<database, memory, missed>> /\ chain' \in Chains
      BY DEF ChainStep
    <3>3. chain \in Chains
      BY DEF IndexInv, Types
    <3> QED BY <3>1, <3>2, <3>3
  <2>2. /\ last \in Nat /\ end \in Nat /\ last < end /\ end <= target /\ target \in Nat
        /\ target <= Len(chain) /\ target <= Len(chain')
    BY <2>1, <1>2, BatchOnChain DEF IndexInv, ChainStep
  <2>3. CASE DoomsBatch
    BY <2>3, <2>1 DEF DoomsBatch, Doomed, memory, batch
  <2>4. CASE KeepsBatch
    <3>1. \A n \in 1..target : chain'[n] = chain[n]
      <4>1. Upto(chain', target) = Upto(chain, target)
        BY <2>4, <2>2 DEF KeepsBatch
      <4> QED BY <4>1, <2>1, <2>2, UptoElement
    <3>2. \A n \in 0..target : Upto(chain', n) = Upto(chain, n)
      BY <2>4 DEF KeepsBatch
    <3>3. last \in 0..target /\ \A n \in (last + 1)..end : n \in 0..target /\ n \in 1..target
      BY <2>2
    <3>4. CASE Doomed
      BY <3>4, <3>2, <3>3, <2>1 DEF Doomed, memory, batch
    <3>5. CASE Good
      <4>1. (lastHash # None => lastHash = Upto(chain, last))'
        BY <3>5, <3>2, <3>3, <2>1 DEF Good, memory
      <4>2. LogsOfChain'
        <5>1. \A l \in found : Len(l.block) \in (last + 1)..end
          BY <2>1 DEF IndexInv, Memory, BatchBounds
        <5> QED BY <3>5, <5>1, <3>1, <3>2, <3>3, <2>1
                DEF Good, LogsOfChain, Missed, memory, batch, database
      <4>3. LogsComplete'
        <5>1. Covered' = Covered
          BY <2>1 DEF Covered, scannedKinds, memory, database
        <5> QED BY <3>5, <5>1, <3>1, <3>2, <3>3, <2>1
                DEF Good, LogsComplete, Missed, Log, memory, batch
      <4> QED BY <4>1, <4>2, <4>3 DEF Good
    <3> QED BY <3>4, <3>5, <2>1 DEF IndexInv
  <2> QED BY <2>1, <2>3, <2>4, <1>5
<1> QED BY <1>1, <1>3, <1>4, <1>5 DEF IndexInv

-----------------------------------------------------------------------------
(* 5. Between the batches *)

LEMMA StopKeeps ==
  ASSUME IndexInv, UNCHANGED <<chain, database, slipped, missed>>,
         pc' = "stopped" /\ last' = 0 /\ lastHash' = None /\ target' = 0,
         end' = 0 /\ found' = {} /\ todo' = {}
  PROVE  IndexInv'
<1>1. Types'
  BY DEF IndexInv, Types, database
<1>2. Memory'
  BY DEF IndexInv, Memory, CheckpointStored, BatchBounds, InFlight, database
<1>3. ~slipped' => Rows'
  BY DEF IndexInv, Rows, BlockRows, EventRow, Missed, indexed, database
<1>4. ~InFlight'
  BY DEF InFlight
<1> QED BY <1>1, <1>2, <1>3, <1>4 DEF IndexInv

\* A step that writes no rows and is in no batch.
LEMMA OutsideBatch ==
  ASSUME IndexInv, UNCHANGED <<chain, database, batch, slipped, missed>>, ~InFlight',
         Types', Memory'
  PROVE  IndexInv'
BY DEF IndexInv, Rows, BlockRows, EventRow, Missed, indexed, database

LEMMA StartKeeps ==
  ASSUME IndexInv, Start
  PROVE  IndexInv'
<1>1. StartBlock \in Nat
  BY IndexerConstantsType
<1>2. /\ last' = initialCheckpoint.number /\ lastHash' = initialCheckpoint.hash
      /\ pc' = "head" /\ pc = "stopped"
      /\ UNCHANGED <<chain, database, target, batch, history>>
  BY DEF Start
<1>3. Types'
  BY <1>1, <1>2 DEF IndexInv, Types, initialCheckpoint, database, batch, history
<1>4. AtCheckpoint'
  BY <1>1, <1>2 DEF IndexInv, Types, initialCheckpoint, AtCheckpoint, database
<1>5. Memory'
  BY <1>2, <1>4 DEF IndexInv, Memory, CheckpointStored, BatchBounds, InFlight, database, batch
<1> QED BY <1>2, <1>3, <1>5, OutsideBatch DEF InFlight, history

LEMMA ReadHeadKeeps ==
  ASSUME IndexInv, ReadHead
  PROVE  IndexInv'
<1>1. Len(chain) \in Nat /\ Confirmations \in Nat
  BY LenProperties, IndexerConstantsType DEF IndexInv, Types, Chains
<1>2. /\ target' = confirmed /\ pc = "head" /\ pc' \in {"check", "scan", "head"}
      /\ pc' = "check" => lastHash # None
      /\ pc' = "scan" => last < target'
      /\ UNCHANGED <<chain, database, last, lastHash, batch, history>>
  BY DEF ReadHead, batchOrPause
<1>3. target' \in Nat /\ (target' = 0 \/ target' + Confirmations <= Len(chain))
  BY <1>1, <1>2 DEF confirmed
<1>4. Types'
  BY <1>2, <1>3 DEF IndexInv, Types, database, batch, history
<1>5. Memory'
  BY <1>2, <1>3 DEF IndexInv, Memory, CheckpointStored, AtCheckpoint, BatchBounds, InFlight,
                    database, batch
<1> QED BY <1>2, <1>4, <1>5, OutsideBatch DEF InFlight, history

LEMMA CheckTipKeeps ==
  ASSUME IndexInv, CheckTip
  PROVE  IndexInv'
<1>1. /\ pc = "check" /\ pc' \in {"scan", "head", "recover"}
      /\ pc' = "scan" => last < target
      /\ UNCHANGED <<chain, database, last, lastHash, target, batch, history>>
  BY DEF CheckTip, batchOrPause
<1>2. Types'
  BY <1>1 DEF IndexInv, Types, database, batch, history
<1>3. Memory'
  <2>1. lastHash # None /\ AtCheckpoint /\ last \in Nat
    BY <1>1 DEF IndexInv, Memory, Types
  <2>2. AtCheckpoint' /\ last <= checkpoint.number /\ lastHash = checkpoint.hash
    BY <1>1, <2>1 DEF AtCheckpoint, database
  <2> QED BY <1>1, <2>1, <2>2 DEF IndexInv, Memory, CheckpointStored, BatchBounds, InFlight,
                    database, batch
<1> QED BY <1>1, <1>2, <1>3, OutsideBatch DEF InFlight, history

-----------------------------------------------------------------------------
(* 6. Recovery *)

LEMMA OrphanFromRows ==
  ASSUME NEW D, NEW rows \in [D -> {None} \cup Chains], NEW from \in Nat
  PROVE  /\ OrphanFrom(rows, from) \in [D -> {None} \cup Chains]
         /\ \A k \in D : OrphanFrom(rows, from)[k] # None
                          <=> rows[k] # None /\ Len(rows[k]) < from
         /\ \A k \in D : OrphanFrom(rows, from)[k] # None
                          => OrphanFrom(rows, from)[k] = rows[k]
<1>1. DOMAIN rows = D /\ \A k \in D : rows[k] \in {None} \cup Chains
  OBVIOUS
<1>2. \A k \in D : rows[k] # None => Len(rows[k]) \in Nat
  BY <1>1, LenProperties DEF Chains
<1> QED BY <1>1, <1>2 DEF OrphanFrom

LEMMA OrphanFromBlocks ==
  ASSUME Types, NEW from \in Nat
  PROVE  LET blocks == OrphanFrom(blockAt, from)
         IN  /\ blocks \in [1..MaxHeight -> {None} \cup Chains]
             /\ \A n \in 1..MaxHeight : blocks[n] = IF n >= from THEN None ELSE blockAt[n]
<1> DEFINE blocks == OrphanFrom(blockAt, from)
<1>1. /\ blockAt \in [1..MaxHeight -> {None} \cup Chains]
      /\ \A n \in 1..MaxHeight : blockAt[n] # None => Len(blockAt[n]) = n
  BY DEF Types
<1>2. blocks = [n \in 1..MaxHeight |->
                  IF blockAt[n] # None /\ Len(blockAt[n]) >= from THEN None ELSE blockAt[n]]
  BY <1>1 DEF OrphanFrom
<1> HIDE DEF blocks
<1>3. ASSUME NEW n \in 1..MaxHeight
      PROVE  /\ blocks[n] = IF n >= from THEN None ELSE blockAt[n]
             /\ blocks[n] \in {None} \cup Chains
  <2>1. blocks[n] = IF blockAt[n] # None /\ Len(blockAt[n]) >= from THEN None ELSE blockAt[n]
    BY <1>2
  <2>2. CASE blockAt[n] = None
    BY <2>1, <2>2
  <2>3. CASE blockAt[n] # None
    <3>1. Len(blockAt[n]) = n
      BY <1>1, <2>3
    <3> QED BY <2>1, <2>3, <3>1, <1>1
  <2> QED BY <2>2, <2>3
<1>4. DOMAIN blocks = 1..MaxHeight
  BY <1>2
<1>5. blocks \in [1..MaxHeight -> {None} \cup Chains]
  BY <1>2, <1>3
<1> QED BY <1>3, <1>5 DEF blocks

\* Everything is orphaned: the index is empty again.
LEMMA RewindToNothing ==
  ASSUME IndexInv, Rewind(1), UNCHANGED <<chain, target, batch, history>>,
         last' = 0, lastHash' = None, pc' = batchOrPause(0, target), pc = "recover"
  PROVE  IndexInv'
<1> DEFINE blocks == OrphanFrom(blockAt, 1)
<1>1. /\ blockAt' = blocks /\ events' = OrphanFrom(events, 1) /\ trades' = OrphanFrom(trades, 1)
      /\ metrics' = Rebuild(blockAt', events', trades')
      /\ checkpoint' = [number |-> 0, hash |-> None]
  BY DEF Rewind, CommitRows
<1>2. /\ blocks \in [1..MaxHeight -> {None} \cup Chains]
      /\ \A n \in 1..MaxHeight : blocks[n] = None
  <2>1. Types /\ 1 \in Nat /\ \A n \in 1..MaxHeight : n >= 1
    BY IndexerConstantsType DEF IndexInv
  <2> QED BY <2>1, OrphanFromBlocks
<1>3. events' \in [Kinds -> {None} \cup Chains] /\ trades' \in [TradeKinds -> {None} \cup Chains]
  BY <1>1, OrphanFromRows DEF IndexInv, Types
<1>4. pc' \in {"scan", "head"} /\ (pc' = "scan" => 0 < target)
  BY DEF batchOrPause
<1> HIDE DEF blocks
<1>5. Types'
  BY <1>1, <1>2, <1>3, <1>4 DEF IndexInv, Types, batch, history
<1>6. Memory'
  BY <1>1, <1>4 DEF IndexInv, Memory, CheckpointStored, AtCheckpoint, BatchBounds, InFlight, batch
<1>7. ASSUME ~slipped' PROVE Rows'
  <2>1. indexed' = <<>> /\ Len(<<>>) = 0 /\ DOMAIN <<>> = {}
    BY <1>1 DEF indexed
  <2>2. Rows
    BY <1>7 DEF IndexInv, history
  <2>3. \A k \in Kinds : events'[k] = None
    <3> SUFFICES ASSUME NEW k \in Kinds, events[k] # None PROVE Len(events[k]) >= 1
      <4>1. events \in [Kinds -> {None} \cup Chains]
        BY DEF IndexInv, Types
      <4>2. events' = [k \in Kinds |->
                         IF events[k] # None /\ Len(events[k]) >= 1 THEN None ELSE events[k]]
        BY <4>1, <1>1 DEF OrphanFrom
      <4>3. ASSUME NEW k \in Kinds PROVE events'[k] = None
        <5>1. CASE events[k] = None
          BY <5>1, <4>2
        <5>2. CASE events[k] # None
          BY <5>2, <4>2, <4>1
        <5> QED BY <5>1, <5>2
      <4> QED BY <4>3
    <3>1. PICK n \in 1..Len(indexed) : EventRow(k, n)
      BY <2>2 DEF Rows
    <3>2. indexed \in Chains /\ Len(indexed) \in Nat
      BY EmptySeq, LenProperties DEF indexed, IndexInv, Types, Chains
    <3>3. Len(events[k]) = n
      BY <3>1, <3>2, UptoType DEF EventRow
    <3> QED BY <3>3, <3>2
  <2>4. \A k \in TradeKinds : k \in Kinds /\ trades'[k] = None
    <3>1. \A k \in TradeKinds : k \in Kinds
      BY DEF TradeKinds, Kinds
    <3> SUFFICES ASSUME NEW k \in TradeKinds PROVE trades'[k] = events'[k]
      BY <2>3, <3>1
    <3>2. trades[k] = events[k] /\ k \in Kinds
      BY <2>2, <3>1 DEF Rows
    <3> QED BY <1>1, <3>2 DEF OrphanFrom, IndexInv, Types
  <2>5. Legal(<<>>)
    BY DEF Legal, Follows, HeightsOf
  <2> QED BY <1>1, <1>2, <2>1, <2>3, <2>4, <2>5 DEF Rows, BlockRows
<1> QED BY <1>4, <1>5, <1>6, <1>7 DEF IndexInv, InFlight

\* The stored block at height `last' is on the chain: the index is cut down to it.
LEMMA RewindToShared ==
  ASSUME IndexInv, Rewind(last + 1), UNCHANGED <<chain, target, batch, history>>,
         last' = last, lastHash' = storedHash, storedHash = Header(last),
         pc' = batchOrPause(last, target), pc = "recover"
  PROVE  IndexInv'
<1> DEFINE blocks == OrphanFrom(blockAt, last + 1)
           hash == Upto(chain, last)
<1>1. /\ last \in Nat /\ last <= checkpoint.number /\ checkpoint.hash # None
      /\ chain \in Chains /\ Len(chain) \in Nat /\ Legal(chain)
  BY LenProperties DEF IndexInv, Types, Memory, Chains
<1>2. /\ checkpoint.number \in 1..MaxHeight /\ checkpoint.number + Confirmations <= Len(chain)
      /\ MaxHeight \in Nat /\ Confirmations \in Nat
      /\ checkpoint.hash \in Chains /\ Len(checkpoint.hash) = checkpoint.number
  BY <1>1, IndexerConstantsType DEF IndexInv, Types, Memory, CheckpointStored
<1>3. last <= Len(chain) /\ hash \in Chains /\ Len(hash) = last
  BY <1>1, <1>2, UptoType
<1>4. last # 0 /\ last \in 1..MaxHeight /\ blockAt[last] = hash /\ hash # None
  <2>1. hash # None
    BY <1>3, HashType DEF Chains
  <2>2. storedHash = hash
    BY DEF Header, Upto
  <2> QED BY <2>1, <2>2, <1>1, <1>2 DEF storedHash
<1> HIDE DEF hash
<1>5. /\ blocks \in [1..MaxHeight -> {None} \cup Chains]
      /\ blocks[last] = hash
      /\ \A n \in 1..MaxHeight : blocks[n] # None => blocks[n] = blockAt[n] /\ n <= last
      /\ \A n \in 1..last : n \in 1..MaxHeight /\ blocks[n] = blockAt[n]
  <2>1. Types /\ last + 1 \in Nat
    BY <1>1 DEF IndexInv
  <2>2. /\ blocks \in [1..MaxHeight -> {None} \cup Chains]
        /\ \A n \in 1..MaxHeight : blocks[n] = IF n >= last + 1 THEN None ELSE blockAt[n]
    BY <2>1, OrphanFromBlocks
  <2> HIDE DEF blocks
  <2>3. \A n \in 1..last : n \in 1..MaxHeight /\ ~(n >= last + 1)
    BY <1>1, <1>2, <1>4
  <2>4. \A n \in 1..MaxHeight : n >= last + 1 \/ n <= last
    BY <1>1, <1>2
  <2>5. last \in 1..last
    BY <1>4, <1>2
  <2> QED BY <2>2, <2>3, <2>4, <2>5, <1>4
<1>6. /\ blockAt' = blocks
      /\ events' = OrphanFrom(events, last + 1) /\ trades' = OrphanFrom(trades, last + 1)
      /\ metrics' = Rebuild(blockAt', events', trades')
      /\ checkpoint' = [number |-> last, hash |-> hash]
  <2>1. last + 1 # 1 /\ (last + 1) - 1 = last
    BY <1>1, <1>4
  <2>2. (IF last + 1 = 1 THEN None ELSE blocks[(last + 1) - 1]) = hash
    BY <2>1, <1>5
  <2>3. /\ blockAt' = blocks
        /\ events' = OrphanFrom(events, last + 1) /\ trades' = OrphanFrom(trades, last + 1)
        /\ metrics' = Rebuild(blockAt', events', trades')
        /\ checkpoint' = [number |-> (last + 1) - 1,
                          hash |-> IF last + 1 = 1 THEN None ELSE blocks[(last + 1) - 1]]
    BY DEF Rewind, CommitRows
  <2> HIDE DEF blocks
  <2> QED BY <2>1, <2>2, <2>3
<1>7. /\ events \in [Kinds -> {None} \cup Chains] /\ trades \in [TradeKinds -> {None} \cup Chains]
      /\ events' \in [Kinds -> {None} \cup Chains] /\ trades' \in [TradeKinds -> {None} \cup Chains]
      /\ \A k \in Kinds : events'[k] # None <=> events[k] # None /\ Len(events[k]) < last + 1
      /\ \A k \in Kinds : events'[k] # None => events'[k] = events[k]
  BY <1>1, <1>6, OrphanFromRows DEF IndexInv, Types
<1> HIDE DEF blocks
<1>8. lastHash' = hash /\ pc' \in {"scan", "head"} /\ (pc' = "scan" => last < target)
  BY DEF batchOrPause, hash, Header, Upto
<1>9. Types'
  BY <1>1, <1>3, <1>5, <1>6, <1>7, <1>8 DEF IndexInv, Types, batch, history
<1>10. Memory'
  <2>1. CheckpointStored'
    BY <1>1, <1>2, <1>3, <1>4, <1>5, <1>6 DEF CheckpointStored
  <2>2. AtCheckpoint'
    BY <1>6, <1>8 DEF AtCheckpoint
  <2> QED BY <2>1, <2>2, <1>8 DEF IndexInv, Memory, BatchBounds, InFlight, batch
<1>11. ASSUME ~slipped' PROVE Rows'
  <2>1. indexed' = hash /\ DOMAIN hash = 1..last
    BY <1>3, <1>4, <1>6, LenProperties DEF indexed, Chains
  <2>2. Rows /\ indexed \in Chains /\ Len(indexed) = checkpoint.number
        /\ indexed = checkpoint.hash
    BY <1>1, <1>2, <1>11 DEF IndexInv, history, indexed
  <2>3. Legal(hash)
    BY <1>1, <1>3, LegalUpto DEF hash
  <2>4. ASSUME last >= StartBlock
        PROVE  /\ hash = Upto(indexed, last)
               /\ \A n \in 1..last : hash[n] = indexed[n] /\ Upto(hash, n) = Upto(indexed, n)
    <3>1. hash = Upto(indexed, last)
      BY <2>4, <2>2, <1>4 DEF Rows, BlockRows
    <3>2. \A n \in 1..last : Upto(Upto(indexed, last), n) = Upto(indexed, n)
      BY <2>2, <1>1, <1>2, UptoUpto
    <3>3. \A n \in 1..last : Upto(indexed, last)[n] = indexed[n]
      BY <2>2, <1>1, <1>2, UptoType
    <3> QED BY <3>1, <3>2, <3>3
  <2>5. StartBlock \in Nat
    BY IndexerConstantsType
  <2>6. BlockRows'
    <3> SUFFICES ASSUME NEW n \in 1..MaxHeight, n >= StartBlock, blocks[n] # None
                 PROVE  n <= Len(hash) /\ blocks[n] = Upto(hash, n)
      BY <1>6, <2>1 DEF BlockRows
    <3>1. blocks[n] = blockAt[n] /\ n <= last
      BY <1>5
    <3>2. last >= StartBlock /\ n \in 1..last
      BY <3>1, <2>5, <1>1
    <3>3. blockAt[n] = Upto(indexed, n)
      BY <2>2, <3>1 DEF Rows, BlockRows
    <3> QED BY <3>1, <3>2, <3>3, <2>4, <1>3
  <2>7. ASSUME NEW k \in Kinds, events'[k] # None
        PROVE  \E n \in 1..Len(indexed') : EventRow(k, n)'
    <3>0. events[k] # None /\ events'[k] = events[k] /\ Len(events[k]) < last + 1
      BY <2>7, <1>7
    <3>1. PICK n \in 1..Len(indexed) : EventRow(k, n)
      BY <3>0, <2>2 DEF Rows
    <3>2. n \in Nat /\ n >= 1 /\ n <= Len(indexed) /\ Len(indexed) \in Nat
      BY <2>2, <1>2
    <3>3. Len(events[k]) = n
      BY <3>1, <3>2, <2>2, UptoType DEF EventRow
    <3>4. n \in 1..last /\ last >= StartBlock
      <4>1. n >= StartBlock
        BY <3>1 DEF EventRow
      <4> QED BY <3>0, <3>2, <3>3, <4>1, <1>1, <2>5
    <3>5. EventRow(k, n)'
      <4>1. hash[n] = indexed[n] /\ Upto(hash, n) = Upto(indexed, n)
        BY <3>4, <2>4
      <4>2. blockAt'[n] = blockAt[n]
        BY <3>4, <1>5, <1>6
      <4>3. missed' = missed
        BY DEF history
      <4> QED BY <3>0, <3>1, <4>1, <4>2, <4>3, <2>1 DEF EventRow, Missed
    <3> QED BY <3>4, <3>5, <2>1, <1>3
  <2>8. ASSUME NEW k \in TradeKinds PROVE trades'[k] = events'[k]
    <3>1. k \in Kinds
      BY DEF Kinds, TradeKinds
    <3>2. trades[k] = events[k]
      BY <2>2 DEF Rows
    <3> QED BY <1>6, <1>7, <3>1, <3>2 DEF OrphanFrom
  <2>9. ASSUME NEW n \in 1..Len(indexed'), NEW k \in EventsOf(indexed'[n].tx),
               ~Missed(k, Upto(indexed, n))'
        PROVE  events'[k] = Upto(indexed', n)
    <3>1. n \in 1..last /\ n \in DOMAIN hash
      BY <2>1, <1>3
    <3>2. k \in Kinds /\ hash[n].tx \in Txs
      BY <2>9, <2>1, EventKinds
    <3>3. n >= StartBlock /\ last >= StartBlock
      BY <3>1, <3>2, <2>3, <2>5, <1>1 DEF Legal
    <3>4. hash[n] = indexed[n] /\ Upto(hash, n) = Upto(indexed, n)
      BY <3>1, <3>3, <2>4
    <3>5. n \in 1..Len(indexed)
      BY <3>1, <2>2, <1>1, <1>2
    <3>6. events[k] = Upto(indexed, n)
      <4>1. ~Missed(k, Upto(indexed, n))
        BY <2>9, <2>1, <3>4 DEF Missed, history
      <4> QED BY <4>1, <2>1, <2>2, <2>9, <3>4, <3>5 DEF Rows
    <3>7. Upto(indexed, n) \in Chains /\ Len(Upto(indexed, n)) = n
      BY <3>5, <2>2, UptoType, <1>2
    <3>8. events'[k] # None
      <4>1. Upto(indexed, n) # None
        BY <3>7, HashType DEF Chains
      <4>2. events[k] # None /\ Len(events[k]) < last + 1
        BY <4>1, <3>1, <3>6, <3>7, <1>1
      <4> QED BY <4>2, <3>2, <1>7
    <3>9. events'[k] = events[k]
      BY <3>8, <3>2, <1>7
    <3> QED BY <3>4, <3>6, <3>9, <2>1
  <2> QED BY <2>1, <2>3, <2>6, <2>7, <2>8, <2>9 DEF Rows
<1> QED BY <1>8, <1>9, <1>10, <1>11 DEF IndexInv, InFlight

LEMMA RecoverKeeps ==
  ASSUME IndexInv, RecoverRound
  PROVE  IndexInv'
<1>1. pc = "recover" /\ UNCHANGED <<chain, target, batch, history>>
  BY DEF RecoverRound
<1>2. CASE storedHash = Header(last)
  BY <1>1, <1>2, RewindToShared DEF RecoverRound
<1>3. CASE storedHash # Header(last) /\ last = 0
  BY <1>1, <1>3, RewindToNothing DEF RecoverRound
<1>4. CASE storedHash # Header(last) /\ last # 0
  <2>1. last' = last - 1 /\ UNCHANGED <<database, lastHash, pc>>
    BY <1>4 DEF RecoverRound
  <2>2. last \in Nat /\ last' \in Nat /\ last' <= last /\ last <= checkpoint.number
        /\ checkpoint.number \in Nat
    BY <2>1, <1>1, <1>4 DEF IndexInv, Types, Memory
  <2>3. Types'
    BY <1>1, <2>1, <2>2 DEF IndexInv, Types, database, batch, history
  <2>4. Memory'
    BY <1>1, <2>1, <2>2 DEF IndexInv, Memory, CheckpointStored, BatchBounds, InFlight,
                            database, batch
  <2> QED BY <1>1, <2>1, <2>3, <2>4, OutsideBatch DEF InFlight, history
<1> QED BY <1>2, <1>3, <1>4

-----------------------------------------------------------------------------
(* 7. A batch *)

\* The index ends where the process is.
LEMMA IndexedBelow ==
  ASSUME Types, Memory, AtCheckpoint
  PROVE  /\ indexed \in Chains /\ Len(indexed) \in Nat /\ Len(indexed) = checkpoint.number
         /\ Len(indexed) <= last
<1>1. indexed \in Chains /\ Len(indexed) \in Nat /\ Len(indexed) = checkpoint.number
  <2>1. CASE checkpoint.hash = None
    <3>1. indexed = <<>> /\ checkpoint.number = 0
      BY <2>1 DEF indexed, Memory, CheckpointStored
    <3> QED BY <3>1, EmptySeq DEF Chains
  <2>2. CASE checkpoint.hash # None
    <3>1. indexed = checkpoint.hash /\ Len(checkpoint.hash) = checkpoint.number
      BY <2>2 DEF indexed, Memory, CheckpointStored
    <3>2. checkpoint.hash \in Chains
      BY <2>2 DEF Types
    <3> QED BY <3>1, <3>2, LenProperties DEF Chains
  <2> QED BY <2>1, <2>2
<1>2. last \in Nat /\ StartBlock \in Nat
  BY IndexerConstantsType DEF Types
<1> QED BY <1>1, <1>2 DEF AtCheckpoint

\* What the index holds when a batch is read from the fork it was left at: all the
\* chain says below the batch, or nothing that matters.
LEMMA IndexedBase ==
  ASSUME Types, Memory, Rows, AtCheckpoint, last <= Len(chain),
         lastHash # None => lastHash = Upto(chain, last)
  PROVE  /\ indexed \in Chains /\ Len(indexed) \in Nat /\ Len(indexed) <= last
         /\ \A m \in 1..Len(indexed) : m >= StartBlock =>
              Upto(indexed, m) = Upto(chain, m) /\ indexed[m] = chain[m]
         /\ \A m \in 1..last : chain[m].tx \in Txs => m \in 1..Len(indexed) /\ m >= StartBlock
<1>1. /\ chain \in Chains /\ Len(chain) \in Nat /\ DOMAIN chain = 1..Len(chain)
      /\ last \in Nat /\ StartBlock \in Nat /\ Legal(chain)
  BY LenProperties, IndexerConstantsType DEF Types, Chains
<1>2. indexed \in Chains /\ Len(indexed) \in Nat /\ Len(indexed) = checkpoint.number
  BY IndexedBelow
<1>3. \A m \in 1..last : m \in DOMAIN chain /\ m \in Nat /\ (chain[m].tx \in Txs => m >= StartBlock)
  <2>1. \A m \in 1..last : m \in DOMAIN chain /\ m \in Nat
    BY <1>1
  <2> QED BY <2>1, <1>1 DEF Legal
<1>4. CASE lastHash = checkpoint.hash /\ last = checkpoint.number
  <2>1. CASE checkpoint.hash = None
    <3>1. last = 0
      BY <1>4, <2>1 DEF Memory, CheckpointStored
    <3> QED BY <3>1, <1>2, <1>4
  <2>2. CASE checkpoint.hash # None
    <3>1. indexed = Upto(chain, last)
      BY <1>4, <2>2 DEF indexed
    <3>2. \A m \in 1..last : Upto(indexed, m) = Upto(chain, m) /\ indexed[m] = chain[m]
      <4>1. \A m \in 1..last : m \in Nat /\ m <= last
        BY <1>1
      <4> QED BY <3>1, <4>1, <1>1, UptoUpto, UptoType
    <3> QED BY <3>2, <1>2, <1>3, <1>4, <1>1
  <2> QED BY <2>1, <2>2
<1>5. CASE lastHash = None /\ last + 1 = StartBlock /\ checkpoint.number < StartBlock
  <2>1. Len(indexed) <= last
    BY <1>1, <1>2, <1>5
  <2>2. \A m \in 1..Len(indexed) : ~(m >= StartBlock)
    BY <1>1, <1>2, <1>5, <2>1
  <2>3. \A m \in 1..last : ~(m >= StartBlock)
    BY <1>1, <1>5
  <2> QED BY <1>2, <1>3, <2>1, <2>2, <2>3
<1> QED BY <1>4, <1>5 DEF AtCheckpoint

\* A step of a batch that writes no rows.
LEMMA BatchStep ==
  ASSUME IndexInv, UNCHANGED <<chain, database, slipped, missed>>, Types', Memory',
         ~slipped' => (Good \/ Doomed)'
  PROVE  IndexInv'
BY DEF IndexInv, Rows, BlockRows, EventRow, Missed, indexed, database

LEMMA LogsOf ==
  ASSUME Types, NEW from, NEW to, NEW kinds, kinds \subseteq Kinds
  PROVE  \A l \in FilterLogs(from, to, kinds) :
            /\ l \in [kind : Kinds, block : Chains]
            /\ Len(l.block) \in (from..to) \cap DOMAIN chain
            /\ l.block = Upto(chain, Len(l.block))
            /\ l.kind \in kinds \cap EventsOf(chain[Len(l.block)].tx)
<1> SUFFICES ASSUME NEW l \in FilterLogs(from, to, kinds)
             PROVE  /\ l \in [kind : Kinds, block : Chains]
                    /\ Len(l.block) \in (from..to) \cap DOMAIN chain
                    /\ l.block = Upto(chain, Len(l.block))
                    /\ l.kind \in kinds \cap EventsOf(chain[Len(l.block)].tx)
  OBVIOUS
<1>1. PICK n \in (from..to) \cap DOMAIN chain, k \in kinds :
        k \in EventsOf(chain[n].tx) /\ l = Log(chain, n, k)
  BY InLogs
<1>2. n \in Nat /\ n <= Len(chain) /\ chain \in Chains /\ k \in Kinds
  BY LenProperties DEF Types, Chains
<1>3. l \in [kind : Kinds, block : Chains] /\ l.kind = k /\ l.block = Upto(chain, n)
      /\ Len(l.block) = n
  BY <1>1, <1>2, LogType
<1> QED BY <1>1, <1>3

LEMMA ScanKeeps ==
  ASSUME IndexInv, Scan
  PROVE  IndexInv'
<1>1. /\ pc = "scan" /\ pc' = "launches"
      /\ end' = IF last + BatchSize > target THEN target ELSE last + BatchSize
      /\ found' = FilterLogs(last + 1, end', scannedKinds)
      /\ missed' = IF "UniswapV3Swap" \in scannedKinds
                   THEN missed \ SwapsIn(last + 1, end') ELSE missed \cup SwapsIn(last + 1, end')
      /\ UNCHANGED <<chain, database, last, lastHash, target, todo, reorgs, crashes, slipped>>
  BY DEF Scan
<1>2. /\ Types /\ Memory /\ last \in Nat /\ target \in Nat /\ last < target /\ todo = {}
      /\ BatchSize \in Nat /\ BatchSize >= 1 /\ Confirmations \in Nat /\ Len(chain) \in Nat
      /\ DOMAIN chain = 1..Len(chain) /\ chain \in Chains
      /\ target + Confirmations <= Len(chain)
  <2>1. BatchSize \in Nat /\ BatchSize >= 1 /\ Confirmations \in Nat
    BY IndexerConstantsType
  <2>2. Types /\ Memory /\ last \in Nat /\ target \in Nat /\ last < target /\ todo = {}
        /\ (target = 0 \/ target + Confirmations <= Len(chain))
    BY <1>1 DEF IndexInv, Types, Memory
  <2>3. Len(chain) \in Nat /\ DOMAIN chain = 1..Len(chain) /\ chain \in Chains
    BY LenProperties DEF IndexInv, Types, Chains
  <2> QED BY <2>1, <2>2, <2>3
<1>3. /\ end' \in Nat /\ last < end' /\ end' <= target /\ end' <= last + BatchSize
  BY <1>1, <1>2
<1>4. scannedKinds \subseteq Kinds
  BY DEF scannedKinds, Kinds
<1>5. \A l \in found' :
         /\ l \in [kind : Kinds, block : Chains]
         /\ Len(l.block) \in (last + 1)..end'
         /\ l.block = Upto(chain, Len(l.block))
         /\ l.kind \in scannedKinds \cap EventsOf(chain[Len(l.block)].tx)
  BY <1>1, <1>2, <1>4, LogsOf
<1>6. Types'
  BY <1>1, <1>2, <1>3, <1>5 DEF Types, database
<1>7. Memory'
  <2>1. BatchBounds'
    BY <1>1, <1>3, <1>5 DEF BatchBounds, InFlight
  <2>2. AtCheckpoint
    BY <1>1, <1>2 DEF Memory
  <2> QED BY <1>1, <1>2, <2>1, <2>2 DEF Memory, CheckpointStored, AtCheckpoint, database
<1> DEFINE swaps == SwapsIn(last + 1, end')
\* The blocks of the range that hold a swap; none of them is in the index yet.
<1>8. \A n \in (last + 1)..end' : chain[n].tx = "swap" => Upto(chain, n) \in swaps
  BY <1>2, <1>3 DEF SwapsIn, HeightsOf, Header, Upto
<1>9. \A hash \in swaps : Len(hash) > last
  <2>1. ASSUME NEW n \in (last + 1)..end', n \in DOMAIN chain
        PROVE  Len(Upto(chain, n)) > last
    <3>1. n \in Nat /\ n <= Len(chain) /\ n > last
      BY <1>2, <1>3, <2>1
    <3> QED BY <3>1, <1>2, UptoType
  <2> QED BY <2>1 DEF SwapsIn, HeightsOf, Header, Upto
<1>10. \A n \in 1..Len(indexed) : \A k : Missed(k, Upto(indexed, n))' <=> Missed(k, Upto(indexed, n))
  <2>1. indexed \in Chains /\ Len(indexed) \in Nat /\ Len(indexed) <= last
    BY <1>1, <1>2, IndexedBelow DEF Memory
  <2>2. ASSUME NEW n \in 1..Len(indexed) PROVE Upto(indexed, n) \notin swaps
    <3>1. n \in Nat /\ n <= Len(indexed) /\ ~(n > last)
      BY <2>1, <1>2
    <3>2. Len(Upto(indexed, n)) = n
      BY <3>1, <2>1, UptoType
    <3> QED BY <3>1, <3>2, <1>9
  <2>3. indexed' = indexed
    BY <1>1 DEF indexed, database
  <2> HIDE DEF swaps
  <2>4. missed' = missed \ swaps \/ missed' = missed \cup swaps
    BY <1>1 DEF swaps
  <2> QED BY <2>2, <2>3, <2>4 DEF Missed
<1> HIDE DEF swaps
<1>11. ASSUME ~slipped' PROVE Rows'
  <2>1. Rows /\ indexed' = indexed /\ UNCHANGED <<blockAt, events, trades>>
    BY <1>1, <1>11 DEF IndexInv, indexed, database
  <2>2. Legal(indexed') /\ BlockRows'
    BY <2>1 DEF Rows, BlockRows
  <2>3. ASSUME NEW k \in Kinds, events[k] # None
        PROVE  \E n \in 1..Len(indexed) : EventRow(k, n)'
    <3>1. PICK n \in 1..Len(indexed) : EventRow(k, n)
      BY <2>1, <2>3 DEF Rows
    <3>2. events[k] = Upto(indexed, n) /\ ~Missed(k, Upto(indexed, n))
      BY <3>1 DEF EventRow
    <3>3. ~Missed(k, events[k])'
      BY <3>2, <2>1, <1>10 DEF Missed
    <3>4. EventRow(k, n)'
      BY <3>1, <3>3, <2>1 DEF EventRow
    <3> QED BY <3>4
  <2>4. ASSUME NEW n \in 1..Len(indexed), NEW k \in EventsOf(indexed[n].tx),
               ~Missed(k, Upto(indexed, n))'
        PROVE  events[k] = Upto(indexed, n)
    BY <2>4, <2>1, <1>10 DEF Rows
  <2> QED BY <2>1, <2>2, <2>3, <2>4 DEF Rows
<1>12. ASSUME ~slipped' PROVE (Good \/ Doomed)'
  <2>1. CASE lastHash # None /\ lastHash # Upto(chain, last)
    BY <2>1, <1>1, <1>2 DEF Doomed
  <2>2. CASE lastHash # None => lastHash = Upto(chain, last)
    <3>1. LogsOfChain'
      <4>1. \A l \in found' : l.kind = "UniswapV3Swap" => events["TokenLaunchedV3"] # None
        BY <1>5 DEF scannedKinds
      <4>2. ASSUME NEW l \in found', l.kind = "UniswapV3Swap" PROVE l.block \notin missed'
        <5>1. /\ Len(l.block) \in (last + 1)..end' /\ l.block = Upto(chain, Len(l.block))
              /\ "UniswapV3Swap" \in scannedKinds
              /\ "UniswapV3Swap" \in EventsOf(chain[Len(l.block)].tx)
          BY <4>2, <1>5
        <5>2. chain[Len(l.block)].tx = "swap"
          BY <5>1 DEF EventsOf
        <5>3. l.block \in swaps
          BY <5>1, <5>2, <1>8
        <5> QED BY <5>1, <5>3, <1>1 DEF swaps
      <4> QED BY <4>1, <4>2, <1>1, <1>5 DEF LogsOfChain, Missed, database
    <3>2. LogsComplete'
      <4>1. Covered' = scannedKinds \cup {"UniswapV3Swap"}
        BY <1>1 DEF Covered, scannedKinds, database
      <4>2. \A n \in (last + 1)..end' : n \in DOMAIN chain
        BY <1>2, <1>3
      <4>3. \A n \in (last + 1)..end' : \A k \in EventsOf(chain[n].tx) \cap scannedKinds :
               Log(chain, n, k) \in found'
        BY <1>1, <4>2, InLogs
      <4>4. ASSUME NEW n \in (last + 1)..end', "UniswapV3Swap" \in EventsOf(chain[n].tx),
                   "UniswapV3Swap" \notin scannedKinds
            PROVE  Missed("UniswapV3Swap", Upto(chain, n))'
        <5>1. chain[n].tx = "swap"
          BY <4>4 DEF EventsOf
        <5>2. Upto(chain, n) \in missed'
          BY <5>1, <4>4, <1>8, <1>1 DEF swaps
        <5> QED BY <5>2, <1>1 DEF Missed
      <4> QED BY <1>1, <4>1, <4>3, <4>4 DEF LogsComplete, Log
    <3> QED BY <2>2, <3>1, <3>2, <1>1 DEF Good
  <2> QED BY <2>1, <2>2
<1> QED BY <1>1, <1>6, <1>7, <1>11, <1>12 DEF IndexInv

\* A step of a batch that only finds more of its logs.
LEMMA FindingKeeps ==
  ASSUME IndexInv, InFlight, pc # "apply", pc' \in {"settlements", "senders"},
         UNCHANGED <<chain, database, last, lastHash, target, end, todo, history>>,
         \A l \in found' : l \in found
         \/ (l \in [kind : Kinds, block : Chains] /\ Len(l.block) \in (last + 1)..end),
         ~slipped' /\ Good => Good'
  PROVE  IndexInv'
<1>1. Types'
  BY DEF IndexInv, Types, database, history
<1>2. Memory'
  <2>1. BatchBounds'
    BY DEF IndexInv, Memory, BatchBounds, InFlight
  <2>2. AtCheckpoint'
    BY DEF IndexInv, Memory, AtCheckpoint, InFlight, database
  <2> QED BY <2>1, <2>2 DEF IndexInv, Memory, CheckpointStored, database
<1>3. ASSUME ~slipped' PROVE (Good \/ Doomed)'
  <2>1. Good \/ Doomed
    BY <1>3 DEF IndexInv, history
  <2>2. CASE Doomed
    BY <2>2 DEF Doomed
  <2> QED BY <2>1, <2>2, <1>3
<1> QED BY <1>1, <1>2, <1>3, BatchStep DEF history

\* A launch that the index does not know is in the batch, before all events of its
\* curve.
LEMMA LaunchInBatch ==
  ASSUME IndexInv, ~slipped, Good, pc = "launches",
         NEW n \in (last + 1)..end,
         NEW k \in EventsOf(chain[n].tx), k # "GraduatedV3", k \notin Covered
  PROVE  /\ k \in {"TokensBoughtV3", "Graduated"}
         /\ \E m \in (last + 1)..n : Log(chain, m, "TokenLaunchedV3") \in found
<1>1. InFlight /\ Types /\ Memory /\ Rows /\ AtCheckpoint
  BY DEF InFlight, IndexInv, Memory
<1>2. /\ last \in Nat /\ end \in Nat /\ end <= Len(chain) /\ last <= Len(chain)
      /\ Len(chain) \in Nat /\ DOMAIN chain = 1..Len(chain) /\ Legal(chain)
  <2>1. Legal(chain)
    BY <1>1 DEF Types
  <2> QED BY <2>1, <1>1, BatchOnChain
<1>3. n \in DOMAIN chain /\ n \in Nat /\ n > last /\ n <= end
  BY <1>2
<1>4. events["TokenLaunchedV3"] = None
      /\ (\/ k = "TokensBoughtV3" /\ chain[n].tx = "trade"
          \/ k = "Graduated" /\ chain[n].tx = "graduate")
  BY DEF Covered, scannedKinds, EventsOf
<1>5. PICK m \in HeightsOf(chain, "launch") : m < n
  <2>1. \E tx \in {"trade", "graduate"} : n \in HeightsOf(chain, tx) /\ Follows(chain, tx, "launch")
    BY <1>4, <1>2, <1>3 DEF HeightsOf, Legal
  <2> QED BY <2>1 DEF Follows
<1>6. m \in DOMAIN chain /\ m \in Nat /\ m >= 1 /\ chain[m].tx = "launch"
      /\ "TokenLaunchedV3" \in EventsOf(chain[m].tx) /\ "launch" \in Txs
  BY <1>5, <1>2 DEF HeightsOf, EventsOf, Txs
<1>7. m > last
  <2> SUFFICES ASSUME m <= last PROVE FALSE
    BY <1>2, <1>6
  <2>1. m \in 1..last
    BY <1>2, <1>6
  <2>2. /\ indexed \in Chains /\ Len(indexed) \in Nat
        /\ \A i \in 1..Len(indexed) : i >= StartBlock =>
              Upto(indexed, i) = Upto(chain, i) /\ indexed[i] = chain[i]
        /\ \A i \in 1..last : chain[i].tx \in Txs => i \in 1..Len(indexed) /\ i >= StartBlock
    BY <1>1, <1>2, IndexedBase DEF Good
  <2>3. m \in 1..Len(indexed) /\ indexed[m] = chain[m]
    BY <2>1, <2>2, <1>6
  <2>4. events["TokenLaunchedV3"] = Upto(indexed, m)
    BY <2>3, <1>1, <1>6 DEF Rows, Missed
  <2>5. Upto(indexed, m) \in Chains
    BY <2>2, <2>3, <1>6, UptoType
  <2> QED BY <2>4, <2>5, <1>4, HashType DEF Chains
<1>8. m \in (last + 1)..n /\ m \in (last + 1)..end
  BY <1>2, <1>3, <1>5, <1>6, <1>7
<1>9. Log(chain, m, "TokenLaunchedV3") \in found
  <2>1. "TokenLaunchedV3" \in Covered
    BY DEF Covered, scannedKinds
  <2> QED BY <2>1, <1>6, <1>8 DEF Good, LogsComplete, Missed
<1> QED BY <1>4, <1>8, <1>9

LEMMA DiscoverLaunchesKeeps ==
  ASSUME IndexInv, DiscoverLaunchLogs
  PROVE  IndexInv'
<1> DEFINE of(l) == FilterLogs(Len(l.block), end, {"TokensBoughtV3", "Graduated"})
<1>1. /\ pc = "launches" /\ pc' = "settlements" /\ InFlight
      /\ found' = found \cup UNION {of(l) : l \in {l \in found : l.kind = "TokenLaunchedV3"}}
      /\ UNCHANGED <<chain, database, last, lastHash, target, end, todo, history>>
  BY DEF DiscoverLaunchLogs, InFlight
<1>2. /\ last \in Nat /\ end \in Nat /\ end <= Len(chain) /\ last < end
      /\ Len(chain) \in Nat /\ DOMAIN chain = 1..Len(chain)
      /\ Types /\ \A l \in found : Len(l.block) \in (last + 1)..end
  BY <1>1, BatchOnChain DEF IndexInv, Memory, BatchBounds
<1>3. {"TokensBoughtV3", "Graduated"} \subseteq Kinds
  BY DEF Kinds
<1>4. ASSUME NEW l \in found, NEW x \in of(l)
      PROVE  /\ x \in [kind : Kinds, block : Chains]
             /\ Len(x.block) \in (last + 1)..end
             /\ x.block = Upto(chain, Len(x.block))
             /\ x.kind \in {"TokensBoughtV3", "Graduated"} \cap EventsOf(chain[Len(x.block)].tx)
  <2>1. /\ x \in [kind : Kinds, block : Chains]
        /\ Len(x.block) \in (Len(l.block)..end) \cap DOMAIN chain
        /\ x.block = Upto(chain, Len(x.block))
        /\ x.kind \in {"TokensBoughtV3", "Graduated"} \cap EventsOf(chain[Len(x.block)].tx)
    BY <1>2, <1>3, LogsOf
  <2>2. Len(l.block) \in (last + 1)..end
    BY <1>2
  <2> QED BY <2>1, <2>2, <1>2
<1> HIDE DEF of
<1>5. \A x \in found' : x \in found \/ \E l \in found : x \in of(l)
  BY <1>1
<1>6. ASSUME ~slipped', Good PROVE Good'
  <2>1. LogsOfChain'
    <3>1. \A x \in found' :
             /\ x.block = Upto(chain, Len(x.block))
             /\ x.kind \in EventsOf(chain[Len(x.block)].tx)
             /\ (x.kind = "UniswapV3Swap" => events["TokenLaunchedV3"] # None)
             /\ ~Missed(x.kind, x.block)
      BY <1>4, <1>5, <1>6 DEF Good, LogsOfChain, Missed
    <3>2. chain' = chain /\ events' = events /\ missed' = missed
      BY <1>1 DEF database, history
    <3> QED BY <3>1, <3>2 DEF LogsOfChain, Missed
  <2>2. LogsComplete'
    <3>1. Covered' = Kinds \ {"GraduatedV3"}
      BY <1>1 DEF Covered
    <3>2. ASSUME NEW n \in (last + 1)..end, NEW k \in EventsOf(chain[n].tx),
                 k # "GraduatedV3", ~Missed(k, Upto(chain, n))
          PROVE  Log(chain, n, k) \in found'
      <4>1. CASE k \in Covered
        BY <4>1, <3>2, <1>1, <1>6 DEF Good, LogsComplete
      <4>2. CASE k \notin Covered
        <5>1. k \in {"TokensBoughtV3", "Graduated"}
              /\ \E m \in (last + 1)..n : Log(chain, m, "TokenLaunchedV3") \in found
          <6>1. ~slipped
            BY <1>1, <1>6 DEF history
          <6> QED BY <6>1, <4>2, <3>2, <1>1, <1>6, LaunchInBatch
        <5>2. PICK m \in (last + 1)..n : Log(chain, m, "TokenLaunchedV3") \in found
          BY <5>1
        <5> DEFINE l == Log(chain, m, "TokenLaunchedV3")
        <5>3. l.kind = "TokenLaunchedV3" /\ Len(l.block) = m
          <6>1. m \in Nat /\ m <= Len(chain) /\ chain \in Chains /\ "TokenLaunchedV3" \in Kinds
            BY <1>2 DEF Types, Kinds
          <6> QED BY <6>1, LogType
        <5> HIDE DEF l
        <5>4. n \in (m..end) \cap DOMAIN chain
          BY <1>2
        <5>5. Log(chain, n, k) \in of(l)
          BY <5>1, <5>3, <5>4, InLogs DEF of
        <5>6. l \in {x \in found : x.kind = "TokenLaunchedV3"}
          BY <5>2, <5>3 DEF l
        <5> QED BY <5>5, <5>6, <1>1
      <4> QED BY <4>1, <4>2
    <3> QED BY <3>1, <3>2, <1>1 DEF LogsComplete, Missed, Log, history
  <2> QED BY <2>1, <2>2, <1>1, <1>6 DEF Good
<1>7. \A x \in found' : x \in found
         \/ (x \in [kind : Kinds, block : Chains] /\ Len(x.block) \in (last + 1)..end)
  BY <1>4, <1>5
<1> QED BY <1>1, <1>6, <1>7, FindingKeeps

LEMMA DiscoverSettlementsKeeps ==
  ASSUME IndexInv, DiscoverSettlements
  PROVE  IndexInv'
<1> DEFINE of(b) == FilterLogs(Len(b), Len(b), {"GraduatedV3"})
           logs == found \cup UNION {of(b) : b \in BlocksWith(found, "Graduated")}
           ok == BlocksWith(logs, "Graduated") = BlocksWith(logs, "GraduatedV3")
<1>1. CASE ~ok
  <2>1. Stop
    BY <1>1 DEF DiscoverSettlements
  <2> QED BY <2>1, StopKeeps DEF Stop, history
<1>2. CASE ok
  <2>1. /\ pc = "settlements" /\ pc' = "senders" /\ InFlight /\ found' = logs
        /\ UNCHANGED <<chain, database, last, lastHash, target, end, todo, history>>
    BY <1>2 DEF DiscoverSettlements, InFlight
  <2>2. /\ last \in Nat /\ end \in Nat /\ end <= Len(chain) /\ last < end
        /\ Len(chain) \in Nat /\ DOMAIN chain = 1..Len(chain)
        /\ Types /\ \A l \in found : Len(l.block) \in (last + 1)..end
    BY <2>1, BatchOnChain DEF IndexInv, Memory, BatchBounds
  <2>3. ASSUME NEW b \in BlocksWith(found, "Graduated"), NEW x \in of(b)
        PROVE  /\ x \in [kind : Kinds, block : Chains]
               /\ Len(x.block) \in (last + 1)..end
               /\ x.block = Upto(chain, Len(x.block))
               /\ x.kind \in {"GraduatedV3"} \cap EventsOf(chain[Len(x.block)].tx)
    <3>1. {"GraduatedV3"} \subseteq Kinds
      BY DEF Kinds
    <3>2. /\ x \in [kind : Kinds, block : Chains]
          /\ Len(x.block) \in (Len(b)..Len(b)) \cap DOMAIN chain
          /\ x.block = Upto(chain, Len(x.block))
          /\ x.kind \in {"GraduatedV3"} \cap EventsOf(chain[Len(x.block)].tx)
      BY <2>2, <3>1, LogsOf
    <3>3. Len(b) \in (last + 1)..end
      BY <2>2 DEF BlocksWith
    <3>4. Len(x.block) = Len(b)
      BY <3>2, <3>3, <2>2
    <3> QED BY <3>2, <3>3, <3>4
  <2> HIDE DEF of, ok
  <2>4. \A x \in found' : x \in found \/ \E b \in BlocksWith(found, "Graduated") : x \in of(b)
    BY <2>1
  <2>5. ASSUME ~slipped', Good PROVE Good'
    <3>1. LogsOfChain'
      <4>1. \A x \in found' :
               /\ x.block = Upto(chain, Len(x.block))
               /\ x.kind \in EventsOf(chain[Len(x.block)].tx)
               /\ (x.kind = "UniswapV3Swap" => events["TokenLaunchedV3"] # None)
               /\ ~Missed(x.kind, x.block)
        BY <2>3, <2>4, <2>5 DEF Good, LogsOfChain, Missed
      <4>2. chain' = chain /\ events' = events /\ missed' = missed
        BY <2>1 DEF database, history
      <4> QED BY <4>1, <4>2 DEF LogsOfChain, Missed
    <3>2. LogsComplete'
      <4>1. Covered' = Kinds
        BY <2>1 DEF Covered
      <4>2. ASSUME NEW n \in (last + 1)..end, NEW k \in EventsOf(chain[n].tx),
                   ~Missed(k, Upto(chain, n))
            PROVE  Log(chain, n, k) \in found'
        <5>1. Covered = Kinds \ {"GraduatedV3"} /\ k \in Kinds
          BY <2>1, EventKinds DEF Covered
        <5>2. CASE k # "GraduatedV3"
          BY <5>1, <5>2, <4>2, <2>1, <2>5 DEF Good, LogsComplete
        <5>3. CASE k = "GraduatedV3"
          <6>1. "Graduated" \in EventsOf(chain[n].tx) /\ "Graduated" \in Kinds
            BY <5>3, <4>2 DEF EventsOf, Kinds
          <6>2. Log(chain, n, "Graduated") \in found
            BY <6>1, <5>1, <4>2, <2>5 DEF Good, LogsComplete, Missed
          <6>3. n \in Nat /\ n <= Len(chain) /\ chain \in Chains /\ n \in DOMAIN chain
            BY <2>2 DEF Types
          <6>4. Log(chain, n, "Graduated").kind = "Graduated"
                /\ Log(chain, n, "Graduated").block = Upto(chain, n)
                /\ Len(Upto(chain, n)) = n
            BY <6>1, <6>3, LogType
          <6>5. Upto(chain, n) \in BlocksWith(found, "Graduated")
            BY <6>2, <6>4 DEF BlocksWith
          <6>6. n \in (n..n) \cap DOMAIN chain
            BY <6>3
          <6>7. Log(chain, n, k) \in of(Upto(chain, n))
            BY <5>3, <4>2, <6>4, <6>6, InLogs DEF of
          <6> QED BY <6>5, <6>7, <2>1
        <5> QED BY <5>2, <5>3
      <4> QED BY <4>1, <4>2, <2>1 DEF LogsComplete, Missed, Log, history
    <3> QED BY <3>1, <3>2, <2>1, <2>5 DEF Good
  <2>6. \A x \in found' : x \in found
           \/ (x \in [kind : Kinds, block : Chains] /\ Len(x.block) \in (last + 1)..end)
    BY <2>3, <2>4
  <2> QED BY <2>1, <2>5, <2>6, FindingKeeps
<1> QED BY <1>1, <1>2

LEMMA FindSendersKeeps ==
  ASSUME IndexInv, FindSenders
  PROVE  IndexInv'
<1> DEFINE ok == BlocksWith(found, "UniswapV3Swap") # {} => HeightsOf(chain, "swap") # {}
<1>1. CASE ~ok
  <2>1. Stop
    BY <1>1 DEF FindSenders
  <2> QED BY <2>1, StopKeeps DEF Stop, history
<1>2. CASE ok
  <2>1. /\ pc = "senders" /\ pc' = "apply" /\ InFlight
        /\ todo' = {last + 1, end} \cup {Len(l.block) : l \in found}
        /\ UNCHANGED <<chain, database, last, lastHash, target, end, found, history>>
    BY <1>2 DEF FindSenders, InFlight
  <2>2. /\ last \in Nat /\ end \in Nat /\ last < end
        /\ Types /\ Memory /\ \A l \in found : Len(l.block) \in (last + 1)..end
    BY <2>1, BatchOnChain DEF IndexInv, Memory, BatchBounds
  <2>3. todo' \subseteq (last + 1)..end /\ last + 1 \in todo' /\ \A l \in found : Len(l.block) \in todo'
    <3>1. last + 1 \in (last + 1)..end /\ end \in (last + 1)..end
      BY <2>2
    <3> QED BY <2>1, <2>2, <3>1
  <2>4. Types'
    <3>1. \A n \in (last + 1)..end : n \in Nat
      BY <2>2
    <3>2. todo' \subseteq Nat
      BY <2>3, <3>1
    <3> QED BY <2>1, <2>2, <3>2 DEF Types, database, history
  <2>5. Memory'
    <3>1. BatchBounds'
      BY <2>1, <2>2, <2>3 DEF Memory, BatchBounds, InFlight
    <3>2. AtCheckpoint'
      BY <2>1, <2>2 DEF Memory, AtCheckpoint, database
    <3> QED BY <2>1, <2>2, <3>1, <3>2 DEF Memory, CheckpointStored, database
  <2>6. ASSUME ~slipped' PROVE (Good \/ Doomed)'
    <3>1. Good \/ Doomed
      BY <2>1, <2>6 DEF IndexInv, history
    <3>2. CASE Doomed
      BY <3>2, <2>1, <2>3 DEF Doomed
    <3>3. CASE Good
      <4>1. Covered' = Covered
        BY <2>1 DEF Covered
      <4>2. LogsOfChain'
        BY <3>3, <2>1 DEF Good, LogsOfChain, Missed, database, history
      <4>3. LogsComplete'
        BY <3>3, <2>1, <4>1 DEF Good, LogsComplete, Missed, Log, history
      <4> QED BY <3>3, <2>1, <4>2, <4>3 DEF Good
    <3> QED BY <3>1, <3>2, <3>3
  <2> QED BY <2>1, <2>4, <2>5, <2>6, BatchStep DEF history
<1> QED BY <1>1, <1>2

-----------------------------------------------------------------------------
(* 8. The blocks of a batch *)

next == nextBlock(todo)
logsOf(n) == {l \in found : Len(l.block) = n}

\* Where the next block lies, and what its transaction writes.
LEMMA NextBlock ==
  ASSUME IndexInv, pc = "apply"
  PROVE  /\ InFlight /\ Types /\ Memory /\ AtCheckpoint
         /\ last \in Nat /\ end \in Nat /\ last < end /\ end <= target /\ target \in Nat
         /\ next \in todo /\ next \in (last + 1)..end /\ next \in Nat
         /\ \A m \in todo : next <= m
         /\ next <= Len(chain) /\ next \in DOMAIN chain /\ next \in 1..MaxHeight
         /\ next + Confirmations <= Len(chain) /\ Len(chain) \in Nat
         /\ DOMAIN chain = 1..Len(chain) /\ chain \in Chains
         /\ Header(next) = Upto(chain, next)
         /\ Upto(chain, next) \in Chains /\ Len(Upto(chain, next)) = next
<1>1. InFlight /\ Types /\ Memory /\ AtCheckpoint
  BY DEF InFlight, IndexInv, Memory
<1>2. /\ last \in Nat /\ end \in Nat /\ last < end /\ end <= target
      /\ target + Confirmations <= Len(chain) /\ target \in Nat /\ target <= Len(chain)
      /\ Len(chain) \in Nat /\ Len(chain) <= MaxHeight /\ DOMAIN chain = 1..Len(chain)
      /\ MaxHeight \in Nat /\ Confirmations \in Nat
  BY <1>1, BatchOnChain
<1>3. todo # {} /\ todo \subseteq (last + 1)..end /\ todo \in SUBSET Nat
  BY <1>1 DEF Types, Memory, BatchBounds
<1>4. next \in todo /\ \A m \in todo : next <= m
  BY <1>3, MinType DEF next, nextBlock
<1>5. next \in (last + 1)..end /\ next \in Nat
  BY <1>3, <1>4
<1>6. /\ next <= Len(chain) /\ next \in 1..Len(chain) /\ next \in 1..MaxHeight
      /\ next + Confirmations <= Len(chain)
  BY <1>2, <1>5
<1>7. chain \in Chains
  BY <1>1 DEF Types
<1>8. Upto(chain, next) \in Chains /\ Len(Upto(chain, next)) = next
  BY <1>5, <1>6, <1>7, UptoType
<1> QED BY <1>1, <1>2, <1>4, <1>5, <1>6, <1>7, <1>8 DEF Header, Upto

\* The parent check: a doomed batch does not get past it.
LEMMA DoomedStops ==
  ASSUME IndexInv, pc = "apply", Doomed, parentMatches(Header(next))
  PROVE  FALSE
<1>1. last + 1 \in todo
  BY DEF Doomed, IndexInv, Memory, BatchBounds
<1>2. next = last + 1 /\ last \in Nat /\ next \in Nat /\ next <= Len(chain) /\ chain \in Chains
      /\ Header(next) = Upto(chain, next)
      /\ Upto(chain, next) \in Chains /\ Len(Upto(chain, next)) = next
  <2>1. /\ last \in Nat /\ next \in Nat /\ next \in (last + 1)..end /\ next <= last + 1
        /\ next <= Len(chain) /\ chain \in Chains
        /\ Header(next) = Upto(chain, next) /\ end \in Nat
        /\ Upto(chain, next) \in Chains /\ Len(Upto(chain, next)) = next
    BY <1>1, NextBlock
  <2> QED BY <2>1
<1>3. last > 0 /\ lastHash # None
  <2>1. lastHash # None /\ lastHash = checkpoint.hash /\ last = checkpoint.number
    BY NextBlock DEF Doomed, AtCheckpoint
  <2>2. checkpoint.number \in 1..MaxHeight
    BY <2>1 DEF IndexInv, Memory, CheckpointStored
  <2>3. MaxHeight \in Nat
    BY IndexerConstantsType
  <2> QED BY <2>1, <2>2, <2>3
<1>4. ParentOf(Header(next)) = Upto(chain, last)
  <2>1. ParentOf(Header(next)) = Upto(Upto(chain, next), next - 1)
    BY <1>2 DEF ParentOf, Front, Upto
  <2>2. next - 1 = last /\ last <= next
    BY <1>2
  <2> QED BY <2>1, <2>2, <1>2, UptoUpto
<1>5. ParentOf(Header(next)) = lastHash
  BY <1>2, <1>3 DEF parentMatches
<1> QED BY <1>4, <1>5 DEF Doomed

\* The rows after the transaction of the next block.
LEMMA AppliedRows ==
  ASSUME IndexInv, pc = "apply", NEW logs,
         ApplyWithProvenance(Header(next), logs)
  PROVE  LET n     == next
             hash  == Upto(chain, n)
             kinds == {l.kind : l \in logs}
         IN  /\ blockAt' = [blockAt EXCEPT ![n] = hash]
             /\ checkpoint' = [number |-> n, hash |-> hash]
             /\ metrics' = Rebuild(blockAt', events', trades')
             /\ events' \in [Kinds -> {None} \cup Chains]
             /\ trades' \in [TradeKinds -> {None} \cup Chains]
             /\ \A k \in Kinds :
                  /\ k \in kinds => events'[k] = hash
                  /\ k \notin kinds => events'[k] = OrphanReplaced(events, hash)[k]
             /\ \A k \in TradeKinds :
                  LET projected == k \in kinds /\ (k = "UniswapV3Swap"
                                                   => events'["TokenLaunchedV3"] # None)
                  IN  /\ projected => trades'[k] = hash
                      /\ ~projected => trades'[k] = OrphanReplaced(trades, hash)[k]
<1> DEFINE hash == Upto(chain, next)
           kinds == {l.kind : l \in logs}
           evs == [k \in Kinds |-> IF k \in kinds THEN hash ELSE OrphanReplaced(events, hash)[k]]
           projected == {k \in kinds : k = "UniswapV3Swap" => evs["TokenLaunchedV3"] # None}
           trs == [k \in TradeKinds |->
                     IF k \in projected THEN hash ELSE OrphanReplaced(trades, hash)[k]]
<1>1. hash \in Chains /\ Len(hash) = next /\ Header(next) = hash
  BY NextBlock
<1>2. CommitRows([blockAt EXCEPT ![next] = hash], evs, trs, next, hash)
  BY <1>1 DEF ApplyWithProvenance
<1>3. /\ blockAt' = [blockAt EXCEPT ![next] = hash]
      /\ checkpoint' = [number |-> next, hash |-> hash]
      /\ metrics' = Rebuild(blockAt', events', trades')
      /\ events' = evs /\ trades' = trs
  <2> HIDE DEF hash, evs, trs
  <2> QED BY <1>2 DEF CommitRows
<1>4. /\ events \in [Kinds -> {None} \cup Chains] /\ trades \in [TradeKinds -> {None} \cup Chains]
  BY DEF IndexInv, Types
<1> HIDE DEF hash, kinds
<1>5. events' \in [Kinds -> {None} \cup Chains]
  <2>1. \A k \in Kinds : OrphanReplaced(events, hash)[k] \in {None} \cup Chains
    BY <1>4 DEF OrphanReplaced
  <2> QED BY <2>1, <1>1, <1>3
<1>6. trades' \in [TradeKinds -> {None} \cup Chains]
  <2>1. \A k \in TradeKinds : OrphanReplaced(trades, hash)[k] \in {None} \cup Chains
    BY <1>4 DEF OrphanReplaced
  <2> HIDE DEF projected
  <2> QED BY <2>1, <1>1, <1>3
<1>7. \A k \in Kinds : /\ (k \in kinds => events'[k] = hash)
                     /\ (k \notin kinds => events'[k] = OrphanReplaced(events, hash)[k])
  BY <1>3
<1>8. ASSUME NEW k \in TradeKinds
      PROVE  LET proj == k \in kinds /\ (k = "UniswapV3Swap" => events'["TokenLaunchedV3"] # None)
             IN  /\ proj => trades'[k] = hash
                 /\ ~proj => trades'[k] = OrphanReplaced(trades, hash)[k]
  <2>1. k \in projected <=> k \in kinds /\ (k = "UniswapV3Swap" => events'["TokenLaunchedV3"] # None)
    BY <1>3
  <2>2. trades'[k] = IF k \in projected THEN hash ELSE OrphanReplaced(trades, hash)[k]
    BY <1>3
  <2> HIDE DEF projected
  <2> QED BY <2>1, <2>2
<1> QED BY <1>3, <1>5, <1>6, <1>7, <1>8 DEF hash, kinds

\* A block of a good batch is written on top of the fork the rows are of.
LEMMA AppliedOneFork ==
  ASSUME IndexInv, ~slipped, Good, pc = "apply", missed' = missed,
         ApplyWithProvenance(Header(next), logsOf(next))
  PROVE  /\ Rows'
         /\ \A l \in found : l.kind = "UniswapV3Swap" => events'["TokenLaunchedV3"] # None
<1> DEFINE n == next
           hash == Upto(chain, n)
           logs == logsOf(n)
           kinds == {l.kind : l \in logs}
<1>1. /\ InFlight /\ Types /\ Memory /\ AtCheckpoint
      /\ last \in Nat /\ end \in Nat /\ last < end /\ end <= target
      /\ n \in todo /\ n \in (last + 1)..end /\ n \in Nat
      /\ \A m \in todo : n <= m
      /\ n <= Len(chain) /\ n \in DOMAIN chain /\ n \in 1..MaxHeight
      /\ Len(chain) \in Nat
      /\ DOMAIN chain = 1..Len(chain) /\ chain \in Chains /\ Legal(chain)
      /\ hash \in Chains /\ Len(hash) = n /\ hash # None
      /\ MaxHeight \in Nat /\ StartBlock \in Nat
  <2>1. hash \in Chains /\ Len(hash) = n
    BY NextBlock
  <2>2. hash # None
    BY <2>1, HashType DEF Chains
  <2>3. Legal(chain)
    BY DEF IndexInv, Types
  <2>4. MaxHeight \in Nat /\ StartBlock \in Nat
    BY IndexerConstantsType
  <2> QED BY <2>1, <2>2, <2>3, <2>4, NextBlock
<1>2. /\ blockAt' = [blockAt EXCEPT ![n] = hash]
      /\ checkpoint' = [number |-> n, hash |-> hash]
      /\ \A k \in Kinds :
           /\ (k \in kinds => events'[k] = hash)
           /\ (k \notin kinds => events'[k] = OrphanReplaced(events, hash)[k])
      /\ \A k \in TradeKinds :
           LET projected == k \in kinds /\ (k = "UniswapV3Swap"
                                            => events'["TokenLaunchedV3"] # None)
           IN  /\ (projected => trades'[k] = hash)
               /\ (~projected => trades'[k] = OrphanReplaced(trades, hash)[k])
  BY AppliedRows
<1>3. /\ indexed \in Chains /\ Len(indexed) \in Nat /\ Len(indexed) <= last
      /\ \A m \in 1..Len(indexed) : m >= StartBlock =>
           Upto(indexed, m) = Upto(chain, m) /\ indexed[m] = chain[m]
      /\ \A m \in 1..last : chain[m].tx \in Txs => m \in 1..Len(indexed) /\ m >= StartBlock
      /\ Rows
  <2>1. last <= Len(chain) /\ Rows
    BY <1>1 DEF IndexInv
  <2> QED BY <2>1, <1>1, IndexedBase DEF Good
<1>4. /\ \A m \in 1..n : hash[m] = chain[m] /\ Upto(hash, m) = Upto(chain, m)
      /\ indexed' = hash /\ DOMAIN hash = 1..n /\ Upto(hash, n) = hash
  <2>1. \A m \in 1..n : m \in Nat /\ m <= n
    BY <1>1
  <2>2. indexed' = hash
    BY <1>1, <1>2 DEF indexed
  <2> QED BY <2>1, <2>2, <1>1, UptoType, UptoUpto, LenProperties DEF Chains
<1> HIDE DEF hash, n
<1>5. \A k \in kinds : k \in EventsOf(chain[n].tx) /\ k \in Kinds
  <2>1. \A l \in logs : l.kind \in EventsOf(chain[n].tx)
    BY DEF logsOf, Good, LogsOfChain
  <2> QED BY <2>1, EventKinds
<1> HIDE DEF kinds, logs
\* A row of the fork stays as it is.
<1>6. ASSUME NEW k \in Kinds, events[k] # None
      PROVE  \E m \in 1..last :
                /\ m \in 1..Len(indexed) /\ EventRow(k, m) /\ m <= n /\ m # n /\ Len(events[k]) = m
                /\ m \in 1..n
  <2>1. PICK m \in 1..Len(indexed) : EventRow(k, m)
    BY <1>3, <1>6 DEF Rows
  <2>2. m \in Nat /\ m >= 1 /\ m <= last /\ m < n
    BY <2>1, <1>1, <1>3
  <2>3. Len(events[k]) = m
    BY <2>1, <2>2, <1>3, UptoType DEF EventRow
  <2> QED BY <2>1, <2>2, <2>3, <1>1
<1>7. ASSUME NEW k \in Kinds PROVE OrphanReplaced(events, hash)[k] = events[k]
  <2>1. OrphanReplaced(events, hash)[k]
          = IF events[k] # None /\ Len(events[k]) = Len(hash) /\ events[k] # hash
            THEN None ELSE events[k]
    BY <1>1 DEF OrphanReplaced, Types
  <2>2. CASE events[k] = None
    BY <2>1, <2>2
  <2>3. CASE events[k] # None
    <3>1. Len(events[k]) # Len(hash)
      BY <2>3, <1>6, <1>1
    <3> QED BY <2>1, <3>1
  <2> QED BY <2>2, <2>3
<1>8. \A k \in Kinds : events'[k] = IF k \in kinds THEN hash ELSE events[k]
  BY <1>2, <1>7
<1>9. ASSUME NEW l \in found, l.kind = "UniswapV3Swap"
      PROVE  events'["TokenLaunchedV3"] # None
  <2>1. events["TokenLaunchedV3"] # None /\ "TokenLaunchedV3" \in Kinds
    BY <1>9 DEF Good, LogsOfChain, Kinds
  <2> QED BY <2>1, <1>8, <1>1
<1>10. Legal(indexed')
  BY <1>1, <1>4, LegalUpto DEF hash
<1>11. BlockRows'
  <2> SUFFICES ASSUME NEW m \in 1..MaxHeight, m >= StartBlock, blockAt'[m] # None
               PROVE  m <= Len(hash) /\ blockAt'[m] = Upto(hash, m)
    BY <1>4 DEF BlockRows
  <2>1. CASE m = n
    <3>1. blockAt'[n] = hash
      BY <1>1, <1>2 DEF Types
    <3> QED BY <2>1, <3>1, <1>1, <1>4
  <2>2. CASE m # n
    <3>1. blockAt'[m] = blockAt[m]
      BY <2>2, <1>1, <1>2 DEF Types
    <3>2. m <= Len(indexed) /\ blockAt[m] = Upto(indexed, m)
      BY <3>1, <1>3 DEF Rows, BlockRows
    <3>3. m \in 1..Len(indexed) /\ m \in 1..n /\ m <= n
      BY <3>2, <1>1, <1>3
    <3> QED BY <3>1, <3>2, <3>3, <1>1, <1>3, <1>4
  <2> QED BY <2>1, <2>2
<1>12. ASSUME NEW k \in Kinds, events'[k] # None
       PROVE  \E m \in 1..Len(indexed') : EventRow(k, m)'
  <2>1. CASE k \in kinds
    <3>1. k \in EventsOf(chain[n].tx) /\ chain[n].tx \in Txs
      BY <2>1, <1>5, EventKinds
    <3>2. n >= StartBlock
      BY <3>1, <1>1 DEF Legal
    <3>3. blockAt'[n] = hash
      BY <1>1, <1>2 DEF Types
    <3>4. n \in 1..n /\ n \in 1..Len(indexed')
      BY <1>1, <1>4
    <3>5. PICK i : i = n
      OBVIOUS
    <3>6. EventRow(k, i)'
      <4>1. PICK l \in found : l.kind = k /\ Len(l.block) = n
        BY <2>1 DEF kinds, logs, logsOf
      <4>2. l.block = hash /\ ~Missed(k, l.block)
        BY <4>1 DEF Good, LogsOfChain, hash
      <4>3. k # "UniswapV3Swap" \/ hash \notin missed'
        BY <4>2 DEF Missed
      <4>4. events'[k] = hash
        BY <2>1, <1>8
      <4> QED BY <3>1, <3>2, <3>3, <3>4, <3>5, <4>3, <4>4, <1>4 DEF EventRow, Missed
    <3> QED BY <3>4, <3>5, <3>6
  <2>2. CASE k \notin kinds
    <3>1. events'[k] = events[k]
      BY <2>2, <1>8
    <3>2. PICK m \in 1..last : /\ m \in 1..Len(indexed) /\ EventRow(k, m) /\ m <= n /\ m # n
                               /\ m \in 1..n
      BY <3>1, <1>6, <1>12
    <3>3. /\ m >= StartBlock /\ events[k] = Upto(indexed, m) /\ blockAt[m] = events[k]
          /\ k \in EventsOf(indexed[m].tx) /\ ~Missed(k, events[k])
      BY <3>2 DEF EventRow
    <3>4. Upto(indexed, m) = Upto(hash, m) /\ indexed[m] = hash[m]
      BY <3>2, <3>3, <1>3, <1>4
    <3>5. blockAt'[m] = blockAt[m]
      <4>1. m \in 1..MaxHeight
        BY <3>2, <1>1
      <4> QED BY <4>1, <3>2, <1>1, <1>2 DEF Types
    <3>6. EventRow(k, m)'
      BY <3>1, <3>3, <3>4, <3>5, <1>4 DEF EventRow, Missed
    <3>7. m \in 1..Len(indexed')
      BY <3>2, <1>1, <1>4
    <3> QED BY <3>6, <3>7
  <2> QED BY <2>1, <2>2
<1>13. ASSUME NEW k \in TradeKinds PROVE trades'[k] = events'[k]
  <2>1. k \in Kinds /\ trades[k] = events[k]
    BY <1>3 DEF Rows, Kinds, TradeKinds
  <2>2. CASE k \in kinds
    <3>1. k = "UniswapV3Swap" => events'["TokenLaunchedV3"] # None
      <4> SUFFICES ASSUME k = "UniswapV3Swap" PROVE events'["TokenLaunchedV3"] # None
        OBVIOUS
      <4>1. \E l \in found : l.kind = "UniswapV3Swap"
        BY <2>2 DEF kinds, logs, logsOf
      <4> QED BY <4>1, <1>9
    <3> QED BY <3>1, <2>1, <2>2, <1>2, <1>8
  <2>3. CASE k \notin kinds
    <3>1. trades'[k] = OrphanReplaced(trades, hash)[k]
      BY <2>3, <1>2
    <3>2. OrphanReplaced(trades, hash)[k] = OrphanReplaced(events, hash)[k]
      BY <2>1, <1>1 DEF OrphanReplaced, Types
    <3> QED BY <3>1, <3>2, <2>1, <2>3, <1>7, <1>8
  <2> QED BY <2>2, <2>3
<1>14. ASSUME NEW m \in 1..Len(indexed'), NEW k \in EventsOf(indexed'[m].tx),
              ~Missed(k, Upto(indexed, m))'
       PROVE  events'[k] = Upto(indexed', m)
  <2>1. m \in 1..n /\ m \in Nat /\ m <= n /\ hash[m] = chain[m]
    BY <1>1, <1>4
  <2>2. k \in EventsOf(chain[m].tx) /\ k \in Kinds /\ chain[m].tx \in Txs /\ m \in DOMAIN chain
    BY <2>1, <1>1, <1>4, <1>14, EventKinds
  <2>3. CASE m <= last
    <3>1. m \in 1..Len(indexed) /\ m >= StartBlock
      BY <2>1, <2>2, <2>3, <1>1, <1>3
    <3>2. indexed[m] = chain[m] /\ Upto(indexed, m) = Upto(hash, m)
      BY <2>1, <3>1, <1>3, <1>4
    <3>3. events[k] = Upto(indexed, m)
      <4>1. ~Missed(k, Upto(indexed, m))
        BY <3>2, <1>4, <1>14 DEF Missed
      <4> QED BY <4>1, <3>1, <3>2, <2>2, <1>3 DEF Rows
    <3>4. k \notin kinds
      <4> SUFFICES ASSUME k \in kinds PROVE FALSE
        OBVIOUS
      <4>1. chain[n].tx = chain[m].tx
        BY <2>2, <1>5, EventKinds
      <4>2. n = m
        BY <4>1, <2>2, <1>1 DEF Legal
      <4> QED BY <4>2, <2>3, <1>1
    <3> QED BY <3>2, <3>3, <3>4, <2>2, <1>4, <1>8
  <2>4. CASE m > last
    <3>1. m \in (last + 1)..end
      BY <2>1, <2>4, <1>1
    <3>2. Log(chain, m, k) \in found
      <4>1. Covered = Kinds
        BY DEF Covered
      <4>2. ~Missed(k, Upto(chain, m))
        BY <2>1, <1>4, <1>14 DEF Missed
      <4> QED BY <4>1, <4>2, <3>1, <2>2 DEF Good, LogsComplete
    <3>3. Log(chain, m, k).kind = k /\ Len(Log(chain, m, k).block) = m
      BY <2>1, <2>2, <1>1, LogType
    <3>4. m \in todo
      BY <3>2, <3>3, <1>1 DEF Memory, BatchBounds
    <3>5. m = n
      BY <3>4, <2>1, <1>1
    <3>6. k \in kinds
      BY <3>2, <3>3, <3>5 DEF kinds, logs, logsOf
    <3> QED BY <3>5, <3>6, <2>2, <1>4, <1>8
  <2> QED BY <2>1, <2>3, <2>4, <1>1
<1> QED BY <1>9, <1>10, <1>11, <1>12, <1>13, <1>14 DEF Rows

LEMMA ApplyKeeps ==
  ASSUME IndexInv, ApplyBlock
  PROVE  IndexInv'
<1> DEFINE n == next
           hash == Header(n)
           logs == logsOf(n)
           ok == parentMatches(hash) /\ \A l \in logs : l.block = hash
<1>0. pc = "apply"
  BY DEF ApplyBlock
<1>1. CASE ~ok
  <2>1. Stop
    BY <1>1 DEF ApplyBlock, next, logsOf
  <2> QED BY <2>1, StopKeeps DEF Stop, history
<1>2. CASE ok
  <2>1. /\ ApplyWithProvenance(hash, logs)
        /\ last' = n /\ lastHash' = hash
        /\ todo' = todo \ {n}
        /\ found' = found \ logs
        /\ IF todo' = {}
           THEN pc' = batchOrPause(n, target) /\ end' = 0
           ELSE UNCHANGED <<pc, end>>
        /\ UNCHANGED <<chain, target, history>>
    BY <1>2 DEF ApplyBlock, next, logsOf
  <2>2. /\ InFlight /\ Types /\ Memory /\ AtCheckpoint
        /\ last \in Nat /\ end \in Nat /\ last < end /\ end <= target /\ target \in Nat
        /\ n \in todo /\ n \in (last + 1)..end /\ n \in Nat
        /\ \A m \in todo : n <= m
        /\ n \in DOMAIN chain /\ n \in 1..MaxHeight
        /\ n + Confirmations <= Len(chain)
        /\ hash = Upto(chain, n) /\ hash \in Chains /\ Len(hash) = n
        /\ todo \subseteq (last + 1)..end /\ \A l \in found : Len(l.block) \in todo
    BY <1>0, NextBlock DEF Memory, BatchBounds
  <2>3. /\ blockAt' = [blockAt EXCEPT ![n] = hash]
        /\ checkpoint' = [number |-> n, hash |-> hash]
        /\ metrics' = Rebuild(blockAt', events', trades')
        /\ events' \in [Kinds -> {None} \cup Chains]
        /\ trades' \in [TradeKinds -> {None} \cup Chains]
    BY <1>0, <2>1, <2>2, AppliedRows
  <2>4. hash # None
    BY <2>2, HashType DEF Chains
  <2>5. /\ todo' = {} => pc' \in {"scan", "head"} /\ end' = 0
        /\ todo' = {} /\ pc' = "scan" => n < target
        /\ todo' # {} => pc' = "apply" /\ end' = end
    BY <2>1, <1>0 DEF batchOrPause
  <2> HIDE DEF n, hash, ok
  <2>6. Types'
    <3>1. blockAt' \in [1..MaxHeight -> {None} \cup Chains]
      BY <2>2, <2>3 DEF Types
    <3>2. \A m \in 1..MaxHeight : blockAt'[m] # None => Len(blockAt'[m]) = m
      BY <2>2, <2>3 DEF Types
    <3>3. pc' \in {"scan", "head", "apply"} /\ end' \in Nat
      BY <2>2, <2>5
    <3> HIDE DEF logs
    <3> QED BY <2>1, <2>2, <2>3, <3>1, <3>2, <3>3 DEF Types, history
  <2>7. Memory'
    <3>1. CheckpointStored'
      <4>1. blockAt'[n] = hash
        BY <2>2, <2>3 DEF Types
      <4> QED BY <4>1, <2>1, <2>2, <2>3, <2>4 DEF CheckpointStored
    <3>2. AtCheckpoint'
      BY <2>1, <2>3 DEF AtCheckpoint
    <3>3. BatchBounds'
      <4>1. CASE todo' = {}
        BY <4>1, <2>5 DEF BatchBounds, InFlight
      <4>2. CASE todo' # {}
        <5>1. \A m \in todo' : m \in (n + 1)..end
          <6>1. \A m \in todo' : m \in (last + 1)..end /\ n <= m /\ m # n
            BY <2>1, <2>2
          <6> QED BY <6>1, <2>2
        <5>2. \A l \in found' : Len(l.block) \in todo'
          BY <2>1, <2>2 DEF logsOf
        <5>3. n < end
          BY <5>1, <4>2, <2>2
        <5> QED BY <4>2, <5>1, <5>2, <5>3, <2>1, <2>2, <2>5 DEF BatchBounds, InFlight
      <4> QED BY <4>1, <4>2
    <3>4. (target = 0 \/ target + Confirmations <= Len(chain))'
      BY <2>1, <2>2 DEF Memory
    <3>5. /\ pc' \notin {"recover", "check"}
          /\ pc' = "scan" => last' < target'
          /\ pc' # "apply" => todo' = {}
      BY <2>1, <2>5
    <3> QED BY <3>1, <3>2, <3>3, <3>4, <3>5 DEF Memory
  <2>8. ASSUME ~slipped'
        PROVE  Good /\ ~slipped
    <3>1. ~slipped /\ (Good \/ Doomed)
      BY <2>1, <2>2, <2>8 DEF IndexInv, history
    <3>2. ~Doomed
      BY <1>0, <1>2, DoomedStops DEF ok, hash, n
    <3> QED BY <3>1, <3>2
  <2>9. ASSUME ~slipped'
        PROVE  /\ Rows'
               /\ \A l \in found : l.kind = "UniswapV3Swap" => events'["TokenLaunchedV3"] # None
    <3>1. missed' = missed
      BY <2>1 DEF history
    <3> QED BY <3>1, <1>0, <2>1, <2>8, <2>9, AppliedOneFork DEF hash, n
  <2>10. ASSUME ~slipped', InFlight' PROVE Good'
    <3>1. pc' = "apply" /\ end' = end
      BY <2>5, <2>10 DEF InFlight
    <3>2. Good
      BY <2>8, <2>10
    <3>3. LogsOfChain'
      BY <3>2, <2>1, <2>9, <2>10 DEF Good, LogsOfChain, Missed, history
    <3>4. LogsComplete'
      <4>1. Covered = Kinds /\ Covered' = Kinds
        BY <1>0, <3>1 DEF Covered
      <4>2. ASSUME NEW m \in (n + 1)..end, NEW k \in EventsOf(chain[m].tx),
                   ~Missed(k, Upto(chain, m))
            PROVE  Log(chain, m, k) \in found'
        <5>1. m \in (last + 1)..end /\ m # n /\ m \in Nat /\ m <= Len(chain) /\ chain \in Chains
          <6>1. end <= Len(chain) /\ Len(chain) \in Nat /\ chain \in Chains
            BY <1>0, NextBlock, BatchOnChain
          <6> QED BY <6>1, <2>2
        <5>2. k \in Kinds
          BY EventKinds
        <5>3. Log(chain, m, k) \in found
          BY <3>2, <4>1, <4>2, <5>1, <5>2 DEF Good, LogsComplete
        <5>4. Len(Log(chain, m, k).block) = m
          BY <5>1, <5>2, LogType
        <5> QED BY <5>1, <5>3, <5>4, <2>1 DEF logsOf
      <4> QED BY <4>1, <4>2, <2>1, <3>1 DEF LogsComplete, Missed, Log, history
    <3>5. lastHash' = Upto(chain', last')
      BY <2>1, <2>2
    <3> QED BY <3>3, <3>4, <3>5 DEF Good
  <2> QED BY <2>6, <2>7, <2>9, <2>10 DEF IndexInv
<1> QED BY <1>1, <1>2

-----------------------------------------------------------------------------
(* 9. The index *)

LEMMA IndexInit ==
  ASSUME Init
  PROVE  IndexInv
<1>1. /\ chain = <<>> /\ chain \in Chains /\ Len(chain) = 0 /\ DOMAIN chain = {}
      /\ MaxHeight \in Nat
  BY EmptySeq, IndexerConstantsType DEF Init, Chains
<1>2. Legal(chain) /\ Legal(<<>>)
  BY <1>1 DEF Legal, Follows, HeightsOf
<1>3. Types
  <2>1. /\ blockAt \in [1..MaxHeight -> {None} \cup Chains]
        /\ \A n \in 1..MaxHeight : blockAt[n] = None
        /\ events \in [Kinds -> {None} \cup Chains]
        /\ trades \in [TradeKinds -> {None} \cup Chains]
    BY DEF Init
  <2>2. /\ checkpoint \in [number : Nat, hash : {None} \cup Chains]
        /\ metrics = Rebuild(blockAt, events, trades)
        /\ pc = "stopped" /\ last = 0 /\ lastHash = None /\ target = 0
        /\ end = 0 /\ found = {} /\ todo = {} /\ slipped = FALSE
    BY DEF Init
  <2>3. Len(chain) <= MaxHeight
    BY <1>1
  <2> QED BY <1>1, <1>2, <2>1, <2>2, <2>3 DEF Types
<1>4. Memory
  BY DEF Init, Memory, CheckpointStored, BatchBounds, InFlight
<1>5. Rows
  <2>1. indexed = <<>>
    BY DEF Init, indexed
  <2>2. \A k \in TradeKinds : trades[k] = events[k]
    BY DEF Init, Kinds, TradeKinds
  <2> QED BY <1>1, <1>2, <2>1, <2>2 DEF Init, Rows, BlockRows
<1> QED BY <1>3, <1>4, <1>5 DEF IndexInv, Init, InFlight

LEMMA IndexStep ==
  ASSUME IndexInv, [Next]_vars
  PROVE  IndexInv'
<1>1. CASE Mine
  BY <1>1, MineMoves, ChainStepKeeps DEF IndexInv
<1>2. CASE Reorg
  BY <1>2, ReorgMoves, ChainStepKeeps DEF IndexInv
<1>3. CASE Crash
  BY <1>3, StopKeeps DEF Crash
<1>4. CASE Start
  BY <1>4, StartKeeps
<1>5. CASE ReadHead
  BY <1>5, ReadHeadKeeps
<1>6. CASE CheckTip
  BY <1>6, CheckTipKeeps
<1>7. CASE RecoverRound
  BY <1>7, RecoverKeeps
<1>8. CASE Scan
  BY <1>8, ScanKeeps
<1>9. CASE DiscoverLaunchLogs
  BY <1>9, DiscoverLaunchesKeeps
<1>10. CASE DiscoverSettlements
  BY <1>10, DiscoverSettlementsKeeps
<1>11. CASE FindSenders
  BY <1>11, FindSendersKeeps
<1>12. CASE ApplyBlock
  BY <1>12, ApplyKeeps
<1>13. CASE UNCHANGED vars
  <2>1. ChainStep /\ KeepsBatch
    BY <1>13 DEF IndexInv, Types, ChainStep, KeepsBatch, vars, history
  <2> QED BY <2>1, ChainStepKeeps
<1> QED BY <1>1, <1>2, <1>3, <1>4, <1>5, <1>6, <1>7, <1>8, <1>9, <1>10, <1>11, <1>12, <1>13
        DEF Next, Run

\* The invariant of the index: what the process remembers agrees with what it
\* stored, what is stored is of one fork, and a batch is either of that fork too or
\* will fail the parent check at its first block.
THEOREM IndexInvariant == Spec => []IndexInv
<1> QED BY IndexInit, IndexStep, PTL DEF Spec

\* A stored row is the chain up to its block.
LEMMA RowIsPrefix ==
  ASSUME Types, Rows
  PROVE  /\ indexed \in Chains /\ Len(indexed) \in Nat /\ DOMAIN indexed = 1..Len(indexed)
         /\ \A k \in Kinds : events[k] # None => IsPrefix(events[k], indexed)
<1>1. indexed \in Chains
  BY EmptySeq DEF indexed, Types, Chains
<1>2. Len(indexed) \in Nat /\ DOMAIN indexed = 1..Len(indexed)
  BY <1>1, LenProperties DEF Chains
<1>3. ASSUME NEW k \in Kinds, events[k] # None PROVE IsPrefix(events[k], indexed)
  <2>1. PICK n \in 1..Len(indexed) : EventRow(k, n)
    BY <1>3 DEF Rows
  <2>2. n \in Nat /\ n <= Len(indexed) /\ events[k] = Upto(indexed, n)
    BY <2>1, <1>2 DEF EventRow
  <2>3. Upto(indexed, n) \in Chains /\ Len(Upto(indexed, n)) = n
    BY <2>2, <1>1, UptoType
  <2> QED BY <2>2, <2>3, <1>1, PrefixUpto
<1> QED BY <1>1, <1>2, <1>3

\* Whatever reorganisations and crashes there were, the canonical rows are of the
\* checkpoint's block and its ancestors (unless a deep reorganisation slipped in).
THEOREM OnlyOneFork == Spec => []NothingOrphaned
<1>1. IndexInv => NothingOrphaned
  <2> SUFFICES ASSUME IndexInv, ~slipped PROVE NothingOrphaned
    BY DEF NothingOrphaned
  <2>1. Types /\ Rows
    BY DEF IndexInv
  <2>2. ASSUME NEW n \in 1..MaxHeight, blockAt[n] # None, n >= StartBlock
        PROVE  IsPrefix(blockAt[n], indexed)
    <3>1. n <= Len(indexed) /\ blockAt[n] = Upto(indexed, n) /\ Len(blockAt[n]) = n
          /\ blockAt[n] \in Chains
      BY <2>1, <2>2 DEF Rows, BlockRows, Types
    <3> QED BY <3>1, <2>1, RowIsPrefix, PrefixUpto
  <2>3. \A k \in TradeKinds : trades[k] = events[k]
    BY <2>1 DEF Rows
  <2> QED BY <2>1, <2>2, <2>3, RowIsPrefix DEF NothingOrphaned
<1> QED BY <1>1, IndexInvariant, PTL

\* An event of the fork has its row, unless it is a missed swap; then it has none.
LEMMA RowOfEvent ==
  ASSUME Types, Rows, NEW n \in 1..Len(indexed), NEW k \in EventsOf(indexed[n].tx)
  PROVE  events[k] = IF Missed(k, Upto(indexed, n)) THEN None ELSE Upto(indexed, n)
<1>1. /\ indexed \in Chains /\ Len(indexed) \in Nat /\ DOMAIN indexed = 1..Len(indexed)
      /\ k \in Kinds /\ indexed[n].tx \in Txs /\ Legal(indexed)
  BY RowIsPrefix, EventKinds DEF Rows
<1>2. ASSUME Missed(k, Upto(indexed, n)), events[k] # None PROVE FALSE
  <2>1. PICK m \in 1..Len(indexed) : EventRow(k, m)
    BY <1>1, <1>2 DEF Rows
  <2>2. indexed[m].tx = indexed[n].tx
    BY <2>1, EventKinds DEF EventRow
  <2>3. m = n
    BY <2>2, <1>1 DEF Legal
  <2> QED BY <2>1, <2>3, <1>2 DEF EventRow
<1> QED BY <1>2 DEF Rows

\* No event of that fork is missing but the swaps whose scan did not know the pool,
\* and those have no row.
THEOREM NoHoles == Spec => []NothingMissing
<1>1. IndexInv => NothingMissing
  <2> SUFFICES ASSUME IndexInv, ~slipped PROVE NothingMissing
    BY DEF NothingMissing
  <2>1. Types /\ Rows
    BY DEF IndexInv
  <2> QED BY <2>1, RowIsPrefix, RowOfEvent DEF NothingMissing, Missed, Upto
<1> QED BY <1>1, IndexInvariant, PTL

\* The transaction that emits an event is on the fork, and not missed, exactly when
\* the row is there.
LEMMA RowIffEvent ==
  ASSUME IndexInv, ~slipped, NEW tx \in Txs, NEW k \in EventsOf(tx)
  PROVE  events[k] # None <=>
            \E n \in HeightsOf(indexed, tx) : ~Missed(k, Upto(indexed, n))
<1>1. Types /\ Rows /\ k \in Kinds
  BY EventKinds DEF IndexInv
<1>2. indexed \in Chains /\ Len(indexed) \in Nat /\ DOMAIN indexed = 1..Len(indexed)
  BY <1>1, RowIsPrefix
<1>3. ASSUME events[k] # None
      PROVE  \E n \in HeightsOf(indexed, tx) : ~Missed(k, Upto(indexed, n))
  <2>1. PICK n \in 1..Len(indexed) : EventRow(k, n)
    BY <1>1, <1>3 DEF Rows
  <2>2. indexed[n].tx = tx
    BY <2>1, EventKinds DEF EventRow
  <2> QED BY <2>1, <2>2, <1>2 DEF HeightsOf, EventRow
<1>4. ASSUME NEW n \in HeightsOf(indexed, tx), ~Missed(k, Upto(indexed, n))
      PROVE  events[k] # None
  <2>1. n \in 1..Len(indexed) /\ indexed[n].tx = tx /\ n \in Nat /\ n <= Len(indexed)
    BY <1>2 DEF HeightsOf
  <2>2. events[k] = Upto(indexed, n)
    BY <2>1, <1>1, <1>4 DEF Rows
  <2>3. Upto(indexed, n) \in Chains
    BY <2>1, <1>2, UptoType
  <2> QED BY <2>2, <2>3, HashType DEF Chains
<1> QED BY <1>3, <1>4

\* A set of at most two things is counted by which of them it has.
LEMMA PairCount ==
  ASSUME NEW a, NEW b, a # b, NEW S, S \subseteq {a, b},
         NEW c, NEW d, c # d, NEW T, T \subseteq {c, d},
         a \in S <=> c \in T, b \in S <=> d \in T
  PROVE  Cardinality(S) = Cardinality(T)
<1>1. \A x : IsFiniteSet({x}) /\ Cardinality({x}) = 1
  BY FS_Singleton
<1>2. ASSUME NEW x, NEW y, x # y PROVE Cardinality({x} \cup {y}) = 1 + 1
  <2>1. IsFiniteSet({x}) /\ Cardinality({x}) = 1 /\ y \notin {x}
    BY <1>1, <1>2
  <2> QED BY <2>1, FS_AddElement
<1>3. CASE a \in S /\ b \in S
  <2>1. S = {a} \cup {b} /\ T = {c} \cup {d}
    BY <1>3
  <2> QED BY <2>1, <1>2
<1>4. CASE a \in S /\ b \notin S
  <2>1. S = {a} /\ T = {c}
    BY <1>4
  <2> QED BY <2>1, <1>1
<1>5. CASE a \notin S /\ b \in S
  <2>1. S = {b} /\ T = {d}
    BY <1>5
  <2> QED BY <2>1, <1>1
<1>6. CASE a \notin S /\ b \notin S
  <2>1. S = {} /\ T = {}
    BY <1>6
  <2> QED BY <2>1
<1> QED BY <1>3, <1>4, <1>5, <1>6

\* The projections every transaction rebuilds, lifecycle, trade count and buckets, are
\* those of the checkpoint's fork, a missed swap left out.
THEOREM ProjectionsOfOneFork == Spec => []ProjectionsMatchChain
<1>1. IndexInv => ProjectionsMatchChain
  <2> SUFFICES ASSUME IndexInv, ~slipped PROVE ProjectionsMatchChain
    BY DEF ProjectionsMatchChain
  <2> DEFINE has(tx) == HeightsOf(indexed, tx) # {}
             seen == \A n \in HeightsOf(indexed, "swap") : SubSeq(indexed, 1, n) \notin missed
             shown == {tx \in {"trade", "swap"} : has(tx) /\ (tx = "swap" => seen)}
             known == events["TokenLaunchedV3"] # None
             rows == {k \in TradeKinds : known /\ trades[k] # None}
             bucketed == {k \in rows : \E n \in DOMAIN blockAt : blockAt[n] = trades[k]}
             lifecycle == IF ~known THEN "unknown"
                          ELSE IF events["Graduated"] # None THEN "graduated" ELSE "active"
  <2>1. Types /\ Rows
    BY DEF IndexInv
  <2>2. /\ known <=> has("launch")
        /\ events["Graduated"] # None <=> has("graduate")
        /\ events["TokensBoughtV3"] # None <=> has("trade")
        /\ events["UniswapV3Swap"] # None <=> has("swap") /\ seen
    <3>1. /\ "TokenLaunchedV3" \in EventsOf("launch") /\ "Graduated" \in EventsOf("graduate")
          /\ "TokensBoughtV3" \in EventsOf("trade") /\ "UniswapV3Swap" \in EventsOf("swap")
          /\ {"launch", "graduate", "trade", "swap"} \subseteq Txs
      BY DEF EventsOf, Txs
    <3>2. \A i, j \in HeightsOf(indexed, "swap") : i = j
      BY <2>1, <3>1 DEF Rows, Legal, HeightsOf
    <3>3. \A k, hash : k # "UniswapV3Swap" => ~Missed(k, hash)
      BY DEF Missed
    <3>4. events["UniswapV3Swap"] # None <=>
            \E n \in HeightsOf(indexed, "swap") : SubSeq(indexed, 1, n) \notin missed
      BY <3>1, <2>1, RowIffEvent DEF Missed, Upto
    <3>5. /\ known <=> has("launch")
          /\ events["Graduated"] # None <=> has("graduate")
          /\ events["TokensBoughtV3"] # None <=> has("trade")
      BY <3>1, <3>3, <2>1, RowIffEvent
    <3> QED BY <3>2, <3>4, <3>5
  <2>3. (has("trade") => has("launch")) /\ (has("swap") => has("launch"))
    BY <2>1 DEF Rows, Legal, Follows
  <2>4. \A k \in TradeKinds : trades[k] = events[k] /\ k \in Kinds
    BY <2>1 DEF Rows, TradeKinds, Kinds
  <2>5. bucketed = rows
    <3> SUFFICES ASSUME NEW k \in rows PROVE \E n \in DOMAIN blockAt : blockAt[n] = trades[k]
      OBVIOUS
    <3>1. k \in Kinds /\ trades[k] = events[k] /\ events[k] # None
      BY <2>4
    <3>2. PICK n \in 1..Len(indexed) : EventRow(k, n)
      BY <3>1, <2>1 DEF Rows
    <3>3. n \in 1..MaxHeight /\ DOMAIN blockAt = 1..MaxHeight
      <4>1. Len(indexed) \in Nat /\ Len(indexed) <= MaxHeight /\ MaxHeight \in Nat
        <5>1. CASE checkpoint.hash = None
          BY <5>1, IndexerConstantsType, EmptySeq DEF indexed
        <5>2. CASE checkpoint.hash # None
          BY <5>2, IndexerConstantsType DEF indexed, IndexInv, Memory, CheckpointStored
        <5> QED BY <5>1, <5>2
      <4> QED BY <4>1, <2>1 DEF Types
    <3> QED BY <3>1, <3>2, <3>3 DEF EventRow
  <2>6. Cardinality(rows) = Cardinality(shown)
    <3>1. rows \subseteq {"TokensBoughtV3", "UniswapV3Swap"} /\ shown \subseteq {"trade", "swap"}
      BY DEF TradeKinds
    <3>2. ("TokensBoughtV3" \in rows <=> "trade" \in shown)
          /\ ("UniswapV3Swap" \in rows <=> "swap" \in shown)
      <4>1. "TokensBoughtV3" \in TradeKinds /\ "UniswapV3Swap" \in TradeKinds
        BY DEF TradeKinds
      <4> HIDE DEF has, known, seen
      <4> QED BY <4>1, <2>2, <2>3, <2>4
    <3> HIDE DEF rows, shown
    <3>3. \A a, b, c, d : /\ a # b /\ c # d
                         /\ rows \subseteq {a, b} /\ shown \subseteq {c, d}
                         /\ (a \in rows <=> c \in shown) /\ (b \in rows <=> d \in shown)
                         => Cardinality(rows) = Cardinality(shown)
      BY PairCount
    <3> QED BY <3>1, <3>2, <3>3
  <2>7. metrics = [lifecycle |-> lifecycle, trades |-> Cardinality(rows),
                   bucketed |-> Cardinality(bucketed)]
    BY <2>1 DEF Types, Rebuild
  <2>8. lifecycle = IF ~has("launch") THEN "unknown"
                    ELSE IF has("graduate") THEN "graduated" ELSE "active"
    <3> HIDE DEF has, known
    <3> QED BY <2>2
  <2> HIDE DEF rows, bucketed, lifecycle
  <2>9. metrics = [lifecycle |-> IF ~has("launch") THEN "unknown"
                                 ELSE IF has("graduate") THEN "graduated" ELSE "active",
                   trades |-> Cardinality(shown), bucketed |-> Cardinality(shown)]
    BY <2>5, <2>6, <2>7, <2>8
  <2> QED BY <2>9 DEF ProjectionsMatchChain
<1> QED BY <1>1, IndexInvariant, PTL

\* A reorganisation of no more blocks than the confirmations leaves the checkpoint's
\* block on the chain, and no step of the process takes it off.
THEOREM ConfirmationsSuffice == Spec => ConfirmationsProtect
<1> DEFINE Kept == IsPrefix(indexed, chain)
                   /\ IsPrefix(SubSeq(chain, 1, Len(chain) - Confirmations), chain')
                     => IsPrefix(indexed', chain')
<1>1. ASSUME IndexInv, IndexInv', [Next]_vars PROVE [Kept]_vars
  <2> SUFFICES ASSUME IsPrefix(indexed, chain),
                      IsPrefix(SubSeq(chain, 1, Len(chain) - Confirmations), chain')
               PROVE  IsPrefix(indexed', chain')
    OBVIOUS
  <2>1. Types /\ Memory /\ Types' /\ Memory'
    BY <1>1 DEF IndexInv
  <2>2. /\ chain \in Chains /\ chain' \in Chains /\ indexed \in Chains
        /\ Len(chain) \in Nat /\ Confirmations \in Nat /\ last \in Nat
    BY <2>1, EmptySeq, LenProperties, IndexerConstantsType DEF Types, Chains, indexed
  <2>3. \A c \in Chains : IsPrefix(<<>>, c)
    <3> SUFFICES ASSUME NEW c \in Chains PROVE IsPrefix(<<>>, c)
      OBVIOUS
    <3>1. <<>> \in Chains /\ Len(<<>>) = 0 /\ Len(c) \in Nat
      BY EmptySeq, LenProperties DEF Chains
    <3>2. Upto(c, 0) = <<>>
      BY <3>1, SubSeqEmpty DEF Upto, Chains
    <3> QED BY <3>1, <3>2, PrefixUpto
  <2>4. \A c \in Chains : \A n \in Nat : n <= Len(c) => IsPrefix(Upto(c, n), c)
    BY UptoType, PrefixUpto
  <2>5. CASE UNCHANGED checkpoint
    <3>1. indexed' = indexed
      BY <2>5 DEF indexed
    <3>2. CASE checkpoint.hash = None
      BY <3>1, <3>2, <2>2, <2>3 DEF indexed
    <3>3. CASE checkpoint.hash # None
      <4>1. /\ Len(indexed) \in Nat /\ Len(indexed) <= Len(chain) - Confirmations
            /\ Len(chain) - Confirmations \in Nat /\ Len(chain) - Confirmations <= Len(chain)
        <5>1. indexed = checkpoint.hash /\ checkpoint.number \in Nat
              /\ Len(indexed) = checkpoint.number
              /\ checkpoint.number + Confirmations <= Len(chain)
          BY <3>3, <2>1 DEF indexed, Memory, CheckpointStored, Types
        <5> QED BY <5>1, <2>2
      <4> DEFINE safe == Len(chain) - Confirmations
      <4>2. Upto(chain, safe) \in Chains /\ Len(Upto(chain, safe)) = safe
        BY <4>1, <2>2, UptoType
      <4>3. safe <= Len(chain') /\ Upto(chain', safe) = Upto(chain, safe)
        BY <4>2, <2>2, PrefixUpto DEF Upto
      <4>4. indexed = Upto(chain, Len(indexed))
        BY <2>2, PrefixUpto
      <4> HIDE DEF safe
      <4>5. Upto(chain', Len(indexed)) = Upto(chain, Len(indexed)) /\ Len(indexed) <= Len(chain')
        <5>1. safe \in Nat /\ Len(indexed) <= safe /\ safe <= Len(chain) /\ Len(chain') \in Nat
          BY <4>1, <2>2, LenProperties DEF safe, Chains
        <5> QED BY <5>1, <4>1, <4>3, <2>2, UptoShared
      <4> QED BY <4>4, <4>5, <3>1, <2>2, PrefixUpto
    <3> QED BY <3>2, <3>3
  <2>6. CASE ApplyBlock
    <3>1. CASE UNCHANGED checkpoint
      BY <3>1, <2>5
    <3>2. CASE ~UNCHANGED checkpoint
      <4>1. ApplyWithProvenance(Header(next), logsOf(next)) /\ UNCHANGED chain /\ pc = "apply"
        BY <2>6, <3>2 DEF ApplyBlock, Stop, database, next, logsOf
      <4>2. checkpoint' = [number |-> next, hash |-> Upto(chain, next)]
        BY <4>1, <1>1, AppliedRows
      <4>3. Upto(chain, next) # None /\ next \in Nat /\ next <= Len(chain)
        BY <4>1, <1>1, NextBlock, HashType DEF Chains
      <4>4. indexed' = Upto(chain, next)
        BY <4>2, <4>3 DEF indexed
      <4> QED BY <4>1, <4>3, <4>4, <2>2, <2>4
    <3> QED BY <3>1, <3>2
  <2>7. CASE RecoverRound
    <3>1. UNCHANGED chain
      BY <2>7 DEF RecoverRound
    <3>2. CASE checkpoint'.hash = None
      BY <3>2, <2>2, <2>3 DEF indexed
    <3>3. CASE checkpoint'.hash # None
      <4>1. CASE UNCHANGED checkpoint
        BY <4>1, <2>5
      <4>2. CASE ~UNCHANGED checkpoint
        <5>1. \/ storedHash = Header(last) /\ Rewind(last + 1) /\ lastHash' = storedHash
              \/ storedHash # Header(last) /\ Rewind(1)
          BY <4>2, <2>7 DEF RecoverRound, database
        <5>2. ~Rewind(1)
          BY <3>3 DEF Rewind, CommitRows
        <5>3. lastHash' = Upto(chain, last) /\ pc' # "recover" /\ pc' # "stopped"
          BY <5>1, <5>2, <2>7 DEF RecoverRound, batchOrPause, Header, Upto
        <5>4. lastHash' # None /\ last <= Len(chain)
          <6>1. /\ last <= checkpoint.number /\ checkpoint.hash # None
                /\ checkpoint.number + Confirmations <= Len(chain) /\ checkpoint.number \in Nat
            BY <2>1, <2>7 DEF RecoverRound, Memory, CheckpointStored, Types
          <6>2. last <= Len(chain)
            BY <6>1, <2>2
          <6> QED BY <6>2, <5>3, <2>2, UptoType, HashType DEF Chains
        <5>5. lastHash' = checkpoint'.hash
          BY <5>3, <5>4, <2>1 DEF Memory, AtCheckpoint
        <5> QED BY <5>3, <5>4, <5>5, <3>1, <3>3, <2>2, <2>4 DEF indexed
      <4> QED BY <4>1, <4>2
    <3> QED BY <3>2, <3>3
  <2>8. CASE ~ApplyBlock /\ ~RecoverRound
    <3>1. UNCHANGED checkpoint
      BY <1>1, <2>8 DEF Next, Run, Mine, Reorg, Crash, Start, ReadHead, CheckTip, Scan,
                    DiscoverLaunchLogs, DiscoverSettlements, FindSenders, Stop, database, vars
    <3> QED BY <3>1, <2>5
  <2> QED BY <2>6, <2>7, <2>8
<1> QED BY <1>1, IndexInvariant, PTL DEF Spec, ConfirmationsProtect
=============================================================================
