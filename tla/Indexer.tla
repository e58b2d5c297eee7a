------------------------------- MODULE Indexer -------------------------------
(***************************************************************************)
(* The indexer (apps/indexer/indexer.go, store.go): one process that reads *)
(* confirmed logs over RPC in batches of blocks, writes each event-bearing *)
(* block in a database transaction of its own, and rewinds when the block  *)
(* of its checkpoint has left the chain.                                   *)
(*                                                                         *)
(* A block is named by its hash and a hash commits to all ancestors, so    *)
(* the hash of a block is modelled by the chain up to it.  One token is    *)
(* followed; each of its transactions occurs at most once in a chain, but  *)
(* a reorganisation may move it to another block, or drop it.              *)
(*                                                                         *)
(* Every RPC call is a step, for the chain may change between two of them. *)
(* A transaction commits at the step of the last header read before it:    *)
(* nobody else writes these tables.  An error, of the RPC or of a check,   *)
(* stops the process; Compose starts it again (restart: unless-stopped).   *)
(***************************************************************************)
EXTENDS Integers, FiniteSets, SequencesExt

CONSTANTS
    None,           \* the empty hash, a row that is absent or orphaned
    StartBlock,     \* INDEXER_START_BLOCK, the block of the deployment
    Confirmations,  \* INDEXER_CONFIRMATIONS
    BatchSize,      \* INDEXER_BATCH_SIZE
    ReorgDepth,     \* the deepest reorganisation, in blocks
    MaxHeight, MaxReorgs, MaxCrashes   \* bounds of the model

ASSUME IndexerConstantsType ==
    /\ {StartBlock, Confirmations, ReorgDepth} \subseteq Nat
    /\ {MaxHeight, MaxReorgs, MaxCrashes} \subseteq Nat
    /\ BatchSize \in Nat \ {0}

VARIABLES
    \* the chain, seen through the RPC
    chain,
    \* the database: canonical rows only
    blockAt,        \* chain_blocks, by height (the height index is unique)
    events,         \* chain_events: the block of each event, by identity
    trades,         \* trades: likewise
    metrics,        \* curves.lifecycle, token_metrics, token_trade_buckets
    checkpoint,     \* indexer_checkpoints
    \* the memory of the process
    pc, last, lastHash, target,
    end, found, todo,   \* the batch: its last block, its logs, blocks to apply
    \* what happened so far
    reorgs, crashes,
    slipped,        \* a deep reorganisation hit a batch without its noticing
    missed          \* the blocks whose swap the last scan of them did not ask for

database == <<blockAt, events, trades, metrics, checkpoint>>
batch == <<end, found, todo>>
memory == <<pc, last, lastHash, target, end, found, todo>>
history == <<reorgs, crashes, slipped, missed>>
vars == <<chain, database, memory, history>>

-----------------------------------------------------------------------------
(* The chain *)

Txs == {"launch", "trade", "graduate", "swap"}
Blocks == [tx : Txs \cup {"none"}, salt : {0, 1}]

ASSUME HashType == None \notin Seq(Blocks)

Kinds == {"TokenLaunchedV3", "TokensBoughtV3", "Graduated", "GraduatedV3",
          "UniswapV3Swap"}
TradeKinds == {"TokensBoughtV3", "UniswapV3Swap"}

\* The events a transaction emits.
EventsOf(tx) ==
    CASE tx = "launch"   -> {"TokenLaunchedV3"}
      [] tx = "trade"    -> {"TokensBoughtV3"}
      [] tx = "graduate" -> {"Graduated", "GraduatedV3"}
      [] tx = "swap"     -> {"UniswapV3Swap"}
      [] OTHER           -> {}

HeightsOf(c, tx) == {n \in DOMAIN c : c[n].tx = tx}

Follows(c, later, earlier) ==
    \A n \in HeightsOf(c, later) : \E m \in HeightsOf(c, earlier) : m < n

\* What the contracts allow: trades and the graduation are of a launched token,
\* the curve is closed by the graduation, and the pool opens with it.
LegalChain(c) ==
    /\ \A tx \in Txs : Cardinality(HeightsOf(c, tx)) <= 1
    /\ \A n \in 1..(StartBlock - 1) : n \in DOMAIN c => c[n].tx = "none"
    /\ Follows(c, "trade", "launch")
    /\ Follows(c, "graduate", "launch")
    /\ Follows(c, "swap", "graduate")
    /\ \A n \in HeightsOf(c, "trade"), m \in HeightsOf(c, "graduate") : n < m

\* HeaderByNumber(n).Hash(), and the parent hash of block n.
Header(n) == SubSeq(chain, 1, n)
ParentOf(hash) == Front(hash)

\* FilterLogs over a range of blocks, restricted to some events.
FilterLogs(from, to, kinds) ==
    UNION { {[kind |-> k, block |-> Header(n)] : k \in kinds \cap EventsOf(chain[n].tx)} :
              n \in (from..to) \cap DOMAIN chain }

Mine ==
    /\ Len(chain) < MaxHeight
    /\ \E tx \in Txs \cup {"none"} :
         chain' = Append(chain, [tx |-> tx, salt |-> 0])
    /\ LegalChain(chain')
    /\ UNCHANGED <<database, memory, history>>

\* The parent check notices a deep reorganisation between Scan and the first block
\* of the batch that replaces the block of the checkpoint and is not undone by
\* another one.  Any other slips into the batch: the logs it read are of one fork,
\* the headers it reads of the other, and a block without logs is written as such.
InFlight == pc \in {"launches", "settlements", "senders", "apply"}
Noticed(depth) ==
    /\ lastHash # None
    /\ lastHash = Header(last)
    /\ Len(chain) - depth < last
    /\ todo = {} \/ last + 1 \in todo

\* The last blocks of the chain are replaced by as many others.
Reorg ==
    /\ reorgs < MaxReorgs
    /\ \E depth \in 1..ReorgDepth :
         /\ depth <= Len(chain)
         /\ \E txs \in [1..depth -> Txs \cup {"none"}], salt \in {0, 1} :
              LET base == Header(Len(chain) - depth)
                  fork == [n \in 1..depth |-> [tx |-> txs[n], salt |-> salt]]
              IN  /\ fork[1] # chain[Len(base) + 1]
                  /\ LegalChain(base \o fork)
                  /\ chain' = base \o fork
         /\ slipped' = (slipped \/ (depth > Confirmations /\ InFlight /\ ~Noticed(depth)))
    /\ reorgs' = reorgs + 1
    /\ UNCHANGED <<database, memory, crashes, missed>>

-----------------------------------------------------------------------------
(* The database *)

\* rebuildCurveStateTx, rebuildMetricsTx, rebuildAnalyticsTx: the projections
\* that every transaction derives again from the canonical rows.
Rebuild(blocks, evs, trs) ==
    LET known == evs["TokenLaunchedV3"] # None
        rows  == {k \in TradeKinds : known /\ trs[k] # None}
    IN  [ lifecycle |-> IF ~known THEN "unknown"
                        ELSE IF evs["Graduated"] # None THEN "graduated" ELSE "active",
          trades    |-> Cardinality(rows),
          bucketed  |-> Cardinality({k \in rows : \E n \in DOMAIN blocks :
                                                     blocks[n] = trs[k]}) ]

CommitRows(blocks, evs, trs, number, hash) ==
    /\ blockAt' = blocks
    /\ events' = evs
    /\ trades' = trs
    /\ metrics' = Rebuild(blocks, evs, trs)
    /\ checkpoint' = [number |-> number, hash |-> hash]

\* Variant: the rows of block `from' itself stay canonical.
OrphanAbove(rows, from) ==
    [k \in DOMAIN rows |->
       IF rows[k] # None /\ Len(rows[k]) > from THEN None ELSE rows[k]]

\* The canonical rows of a table without those of block `from' and later.
OrphanFrom(rows, from) ==
    [k \in DOMAIN rows |->
       IF rows[k] # None /\ Len(rows[k]) >= from THEN None ELSE rows[k]]

\* orphanCanonicalByBlock: without those of another block at the same height.
OrphanReplaced(rows, hash) ==
    [k \in DOMAIN rows |->
       IF rows[k] # None /\ Len(rows[k]) = Len(hash) /\ rows[k] # hash
       THEN None ELSE rows[k]]

\* Variant: the trades are left to the next block of that height.
RewindKeepsTrades(from) ==
    LET blocks == OrphanFrom(blockAt, from)
    IN  CommitRows(blocks, OrphanFrom(events, from), trades,
                   from - 1, IF from = 1 THEN None ELSE blocks[from - 1])

\* Store.Rewind: orphan everything from block `from' on, rebuild, and move the
\* checkpoint to the block before.
Rewind(from) ==
    LET blocks == OrphanFrom(blockAt, from)
    IN  CommitRows(blocks, OrphanFrom(events, from), OrphanFrom(trades, from),
                   from - 1, IF from = 1 THEN None ELSE blocks[from - 1])

\* Store.ApplyWithProvenance, once its checks have passed: orphan what another
\* block left at this height, write the block and its logs, rebuild, advance the
\* checkpoint.  An event stored before is moved to this block; a swap becomes a
\* trade only if its pool belongs to a known curve.
ApplyWithProvenance(hash, logs) ==
    LET kinds == {l.kind : l \in logs}
        evs == [k \in Kinds |->
                  IF k \in kinds THEN hash ELSE OrphanReplaced(events, hash)[k]]
        projected == {k \in kinds : k = "UniswapV3Swap"
                                      => evs["TokenLaunchedV3"] # None}
        trs == [k \in TradeKinds |->
                  IF k \in projected THEN hash ELSE OrphanReplaced(trades, hash)[k]]
    IN  CommitRows([blockAt EXCEPT ![Len(hash)] = hash], evs, trs, Len(hash), hash)

-----------------------------------------------------------------------------
(* The process *)

Init ==
    /\ chain = <<>>
    /\ blockAt = [n \in 1..MaxHeight |-> None]
    /\ events = [k \in Kinds |-> None]
    /\ trades = [k \in TradeKinds |-> None]
    /\ metrics = Rebuild(blockAt, events, trades)
    /\ checkpoint = [number |-> 0, hash |-> None]
    /\ pc = "stopped" /\ last = 0 /\ lastHash = None /\ target = 0
    /\ end = 0 /\ found = {} /\ todo = {}
    /\ reorgs = 0 /\ crashes = 0 /\ slipped = FALSE /\ missed = {}

\* Run returns an error and main exits: its memory is lost.
Stop ==
    /\ pc' = "stopped" /\ last' = 0 /\ lastHash' = None /\ target' = 0
    /\ end' = 0 /\ found' = {} /\ todo' = {}
    /\ UNCHANGED <<chain, database, history>>

initialCheckpoint ==
    IF StartBlock > 0 /\ checkpoint.number < StartBlock
    THEN [number |-> StartBlock - 1, hash |-> None]
    ELSE checkpoint

Start ==
    /\ pc = "stopped"
    /\ last' = initialCheckpoint.number
    /\ lastHash' = initialCheckpoint.hash
    /\ pc' = "head"
    /\ UNCHANGED <<chain, database, target, batch, history>>

\* Variant: every block of the chain is taken for confirmed.
confirmedHead == Len(chain)

\* Head minus confirmations.
confirmed == IF Len(chain) > Confirmations THEN Len(chain) - Confirmations ELSE 0

\* The loop condition of the batches.
batchOrPause(from, to) == IF from < to THEN "scan" ELSE "head"

\* The header of the tip, once per pass of the outer loop.
ReadHead ==
    /\ pc = "head"
    /\ target' = confirmed
    /\ pc' = IF lastHash # None THEN "check" ELSE batchOrPause(last, target')
    /\ UNCHANGED <<chain, database, last, lastHash, batch, history>>

\* Variant: it is taken to be.
TrustTip ==
    /\ pc = "check"
    /\ pc' = batchOrPause(last, target)
    /\ UNCHANGED <<chain, database, last, lastHash, target, batch, history>>

\* Is the block of the checkpoint still on the chain?
CheckTip ==
    /\ pc = "check"
    /\ pc' = IF Header(last) = lastHash THEN batchOrPause(last, target) ELSE "recover"
    /\ UNCHANGED <<chain, database, last, lastHash, target, batch, history>>

\* CanonicalBlockHash.
storedHash == IF last = 0 THEN None ELSE blockAt[last]

\* One round of recover: step down from the checkpoint to the first height whose
\* stored block is on the chain, and rewind to it.
RecoverRound ==
    /\ pc = "recover"
    /\ IF storedHash = Header(last)
       THEN /\ Rewind(last + 1)
            /\ last' = last /\ lastHash' = storedHash
            /\ pc' = batchOrPause(last, target)
       ELSE IF last = 0
       THEN /\ Rewind(1)
            /\ last' = 0 /\ lastHash' = None
            /\ pc' = batchOrPause(0, target)
       ELSE /\ last' = last - 1
            /\ UNCHANGED <<database, lastHash, pc>>
    /\ UNCHANGED <<chain, target, batch, history>>

\* The events of the addresses ScanContracts returns: the roots, and the token,
\* curve and pool of a launch in the database.
scannedKinds ==
    {"TokenLaunchedV3"} \cup
        (IF events["TokenLaunchedV3"] # None
         THEN {"TokensBoughtV3", "Graduated", "UniswapV3Swap"} ELSE {})

\* The blocks of a range that hold a swap.
SwapsIn(from, to) == {Header(n) : n \in (from..to) \cap HeightsOf(chain, "swap")}

\* The range query of a batch.  Of a token launched in this very batch nothing but
\* the token and its curve is queried later: the swaps of its pool are missed.
Scan ==
    /\ pc = "scan"
    /\ end' = IF last + BatchSize > target THEN target ELSE last + BatchSize
    /\ found' = FilterLogs(last + 1, end', scannedKinds)
    /\ missed' = IF "UniswapV3Swap" \in scannedKinds
                 THEN missed \ SwapsIn(last + 1, end')
                 ELSE missed \cup SwapsIn(last + 1, end')
    /\ pc' = "launches"
    /\ UNCHANGED <<chain, database, last, lastHash, target, todo, reorgs, crashes,
                   slipped>>

\* Variant: only the block of the launch is looked at.
DiscoverLaunchBlockOnly ==
    /\ pc = "launches"
    /\ found' = found \cup
         UNION { FilterLogs(Len(l.block), Len(l.block), {"TokensBoughtV3", "Graduated"}) :
                   l \in {l \in found : l.kind = "TokenLaunchedV3"} }
    /\ pc' = "settlements"
    /\ UNCHANGED <<chain, database, last, lastHash, target, end, todo, history>>

\* discoverLaunchLogs: the events of a curve launched in this batch, from its
\* launch to the end of the batch.
DiscoverLaunchLogs ==
    /\ pc = "launches"
    /\ found' = found \cup
         UNION { FilterLogs(Len(l.block), end, {"TokensBoughtV3", "Graduated"}) :
                   l \in {l \in found : l.kind = "TokenLaunchedV3"} }
    /\ pc' = "settlements"
    /\ UNCHANGED <<chain, database, last, lastHash, target, end, todo, history>>

BlocksWith(logs, kind) == {l.block : l \in {l \in logs : l.kind = kind}}

\* discoverGraduationSettlements, validateGraduationPairs: the manager's event of
\* each graduation, in the same block of the same fork.
DiscoverSettlements ==
    /\ pc = "settlements"
    /\ LET settled == UNION { FilterLogs(Len(b), Len(b), {"GraduatedV3"}) :
                                b \in BlocksWith(found, "Graduated") }
           logs == found \cup settled
       IN  IF BlocksWith(logs, "Graduated") = BlocksWith(logs, "GraduatedV3")
           THEN /\ found' = logs
                /\ pc' = "senders"
                /\ UNCHANGED <<chain, database, last, lastHash, target, end, todo,
                               history>>
           ELSE Stop

\* uniswapSwapSenders: every swap's transaction is still in the chain.  Then the
\* blocks to write are known: the ends of the range and those with events.
FindSenders ==
    /\ pc = "senders"
    /\ IF BlocksWith(found, "UniswapV3Swap") # {} => HeightsOf(chain, "swap") # {}
       THEN /\ todo' = {last + 1, end} \cup {Len(l.block) : l \in found}
            /\ pc' = "apply"
            /\ UNCHANGED <<chain, database, last, lastHash, target, end, found,
                           history>>
       ELSE Stop

\* The parent check: only a block that directly follows the last one has it.
parentMatches(hash) ==
    Len(hash) = last + 1 /\ last > 0 /\ lastHash # None => ParentOf(hash) = lastHash

nextBlock(blocks) == Min(blocks)

\* One round of the loop over the blocks of a batch.
ApplyBlock ==
    /\ pc = "apply"
    /\ LET n    == nextBlock(todo)
           hash == Header(n)
           logs == {l \in found : Len(l.block) = n}
       IN  IF parentMatches(hash) /\ \A l \in logs : l.block = hash
           THEN /\ ApplyWithProvenance(hash, logs)
                /\ last' = n /\ lastHash' = hash
                /\ todo' = todo \ {n}
                /\ found' = found \ logs
                /\ IF todo' = {}
                   THEN pc' = batchOrPause(n, target) /\ end' = 0
                   ELSE UNCHANGED <<pc, end>>
                /\ UNCHANGED <<chain, target, history>>
           ELSE Stop

\* The process dies, or an RPC or database call fails for good.
Crash ==
    /\ pc # "stopped"
    /\ crashes < MaxCrashes
    /\ crashes' = crashes + 1
    /\ pc' = "stopped" /\ last' = 0 /\ lastHash' = None /\ target' = 0
    /\ end' = 0 /\ found' = {} /\ todo' = {}
    /\ UNCHANGED <<chain, database, reorgs, slipped, missed>>

Run ==
    \/ Start \/ ReadHead \/ CheckTip \/ RecoverRound
    \/ Scan \/ DiscoverLaunchLogs \/ DiscoverSettlements \/ FindSenders \/ ApplyBlock

Next == Mine \/ Reorg \/ Crash \/ Run

\* The process is a loop of its own, and Compose restarts it whenever it exits.
Spec == Init /\ [][Next]_vars /\ WF_vars(Run)

-----------------------------------------------------------------------------
(* Properties *)

Hashes == {None} \cup UNION {[1..n -> Blocks] : n \in 0..MaxHeight}

\* Every row and every variable of the process has its type.
TypeOK ==
    /\ LegalChain(chain) /\ chain \in Hashes
    /\ \A n \in 1..MaxHeight :
         blockAt[n] # None => blockAt[n] \in Hashes /\ Len(blockAt[n]) = n
    /\ \A k \in Kinds : events[k] # None => k \in EventsOf(Last(events[k]).tx)
    /\ checkpoint.hash # None => Len(checkpoint.hash) = checkpoint.number
    /\ \A l \in found : l.kind \in Kinds /\ Len(l.block) \in (last + 1)..end
    /\ todo \subseteq (last + 1)..end
    /\ last \in 0..MaxHeight /\ target \in 0..MaxHeight
    /\ reorgs \in 0..MaxReorgs /\ crashes \in 0..MaxCrashes
    /\ slipped => reorgs > 0
    /\ \A hash \in missed : hash \in Hashes \ {None} /\ Last(hash).tx = "swap"

\* The ancestry of the checkpoint's block; empty before the first one.
indexed == IF checkpoint.hash = None THEN <<>> ELSE checkpoint.hash

\* "detects canonical-chain changes" (docs/developers/system-architecture.mdx):
\* every canonical row, of a block, an event or a trade, is of the checkpoint's
\* block or of one of its ancestors; nothing of a replaced fork stays.  (Unless a
\* deep reorganisation slipped into a batch, here and below.)  Below the start block
\* a block row may: a recovery that finds no stored block starts again at block 1,
\* and a restart then resumes at the start block without looking back.
NothingOrphaned ==
    slipped \/
    /\ \A n \in 1..MaxHeight : blockAt[n] # None /\ n >= StartBlock
                                => IsPrefix(blockAt[n], indexed)
    /\ \A k \in Kinds : events[k] # None => IsPrefix(events[k], indexed)
    /\ \A k \in TradeKinds : trades[k] # None => trades[k] = events[k]

\* The batches leave no hole: every event of the checkpoint's fork up to the
\* checkpoint is in the database, whatever crashed or was rewound before, except
\* the swaps of a pool that was not known when the batch was scanned; those are
\* not there.
NothingMissing ==
    slipped \/ \A n \in DOMAIN indexed :
        \A k \in EventsOf(indexed[n].tx) :
            events[k] = IF k = "UniswapV3Swap" /\ SubSeq(indexed, 1, n) \in missed
                        THEN None ELSE SubSeq(indexed, 1, n)

\* What readers see, rebuilt in each transaction: lifecycle and counts are those
\* of the checkpoint's fork, never a mixture of two; only a missed swap is not
\* counted.
ProjectionsMatchChain ==
    LET has(tx) == HeightsOf(indexed, tx) # {}
        seen == \A n \in HeightsOf(indexed, "swap") : SubSeq(indexed, 1, n) \notin missed
        count == Cardinality({tx \in {"trade", "swap"} :
                                has(tx) /\ (tx = "swap" => seen)})
    IN  slipped \/
        metrics = [ lifecycle |-> IF ~has("launch") THEN "unknown"
                                  ELSE IF has("graduate") THEN "graduated" ELSE "active",
                    trades    |-> count,
                    bucketed  |-> count ]

\* What the confirmation depth is for: only a reorganisation that replaces more
\* blocks than the confirmations takes the block of the checkpoint off the chain.
ConfirmationsProtect ==
    [][ IsPrefix(indexed, chain)
          /\ IsPrefix(SubSeq(chain, 1, Len(chain) - Confirmations), chain')
        => IsPrefix(indexed', chain') ]_vars

\* Once the chain, the crashes and the reorganisations are over, the index
\* reaches the confirmed head of the fork that won, and stays there.
CatchesUp ==
    <>[](Len(chain) >= StartBlock + Confirmations
           => indexed = SubSeq(chain, 1, confirmed))
=============================================================================
