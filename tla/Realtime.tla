------------------------------ MODULE Realtime ------------------------------
(***************************************************************************)
(* The realtime service: it subscribes to the logs of the registered       *)
(* markets, replays what a new market or an outage left out, removes       *)
(* duplicates and fans events out to the connected browsers.  One process  *)
(* handles one log at a time; chain, indexer and browsers move between its *)
(* RPC calls.                                                              *)
(*                                                                         *)
(* Definitions marked "Variant" are faulty forms of the one that follows   *)
(* them; no specification uses them.                                       *)
(***************************************************************************)
EXTENDS Integers, FiniteSets, Lists

CONSTANTS
  Tokens,                 \* launched tokens, each a market of its own
  Launch, Graduation,     \* the blocks in which a token launches and graduates
  MaximumBackfillBlocks,  \* maximumBackfillBlocks
  DedupCapacity,          \* dedupCapacity
  SubscriberBuffer,       \* REALTIME_SSE_SUBSCRIBER_BUFFER
  Clients, MaximumSubscribers,  \* browsers, and how many may connect
  MaxBlocks, MaxLogs,   \* bounds of the chain
  MaxForks, MaxOutages, MaxSkips  \* bounds of what goes wrong

ASSUME RealtimeAssumption ==
  /\ Launch \in [Tokens -> Nat \ {0}] /\ Graduation \in [Tokens -> Nat]
  /\ \A t \in Tokens : Launch[t] < Graduation[t]
  /\ {MaximumBackfillBlocks, MaxBlocks, MaxLogs,
      MaxForks, MaxOutages, MaxSkips} \subseteq Nat
  /\ {DedupCapacity, SubscriberBuffer, MaximumSubscribers} \subseteq Nat \ {0}

VARIABLES
  chain, height,    \* the trade logs on the chain, in order, and its last block
  indexed,            \* the block the indexer's tables stand at
  forks, traded,    \* how many reorganisations and trades there were
  remined,          \* trades that a reorganisation put into another block
  (* the service *)
  pc,               \* where runConnection stands
  registry,         \* registry.bySource: the sources of the known markets
  registryLoaded,
  pendingBackfills, \* source |-> the block to replay it from
  reconnectFrom,    \* the last block an event was delivered from
  seen,             \* deduper.order
  subscribed, logs, \* the live subscription and its channel
  head, batch, current,  \* of backfillPending: head, logs of the current source
  outages, skips,
  (* the broadcaster *)
  subscribers, queue,    \* subscribers, and the channel each handler reads
  (* history *)
  published,        \* every event handed to Publish
  next,             \* the position in published of a client's next event
  since,            \* source |-> the first block whose trades are to be published
  skipped,          \* trades whose block header could not be read
  dropped,          \* what was left unread in a channel and no replay comes back to
  unheard           \* orphaned trades whose retraction never reached the service

nodeVars    == <<chain, height, indexed, forks, traded, remined>>
memory      == <<registry, registryLoaded, pendingBackfills>>
connection  == <<subscribed, logs, head, batch, current>>
fanout      == <<subscribers, queue, published, next>>
counts      == <<outages, skips>>
records     == <<since, skipped, dropped, unheard>>
serviceVars == <<nodeVars, pc, memory, reconnectFrom, seen, connection, counts,
          fanout, records>>

-----------------------------------------------------------------------------
(* The chain and the indexer's tables.                                     *)

Sources == Tokens \X {"curve", "uniswap_v3"}

\* SourceStartBlock: launch of a curve, graduation of a pool.
SourceStartBlock(s) == IF s[2] = "curve" THEN Launch[s[1]] ELSE Graduation[s[1]]

\* The blocks in which a source can emit trades.
Alive(s, block) ==
  /\ block >= SourceStartBlock(s)
  /\ s[2] = "curve" => block <= Graduation[s[1]]

Log(id, s, block) == [id |-> id, source |-> s, block |-> block, removed |-> FALSE]

OnChain == Range(chain)
IdsOf(logSet) == {l.id : l \in logSet}

\* Markets(): the sources the tables name when the index stands at block i.
Markets(i) ==
  {s \in Sources : /\ SourceStartBlock(s) <= i
                   /\ s[2] = "curve" => Graduation[s[1]] > i}

\* What a node sends of some logs: those of the subscribed sources.
Feed(list) == Filter(list, {l \in Range(list) : l.source \in subscribed})

\* A new block with up to two trades; the node sends their logs.
NewBlock ==
  /\ height < MaxBlocks
  /\ height' = height + 1
  /\ \E n \in 0..2 : \E sourceOf \in [1..n -> {s \in Sources : Alive(s, height')}] :
       LET block == [i \in 1..n |-> Log(traded + i, sourceOf[i], height')]
       IN  /\ traded + n <= MaxLogs
           /\ traded' = traded + n
           /\ chain' = chain \o block
           /\ logs' = logs \o Feed(block)
  /\ UNCHANGED <<indexed, forks, remined, pc, memory, reconnectFrom, seen, subscribed, head,
                 batch, current, counts, fanout, records>>

\* The last blocks are replaced by as many and one more.  The node retracts the
\* logs of the orphaned blocks and sends those of the new ones.  The orphaned trades
\* are gone, or are in the last of the new blocks.
Fork ==
  /\ forks < MaxForks /\ height < MaxBlocks
  /\ forks' = forks + 1 /\ height' = height + 1
  /\ \E keep \in indexed..(height - 1) :
       LET kept    == Filter(chain, {l \in OnChain : l.block <= keep})
           orphans == Filter(chain, {l \in OnChain : l.block > keep})
           retract == [i \in 1..Len(orphans) |-> [orphans[i] EXCEPT !.removed = TRUE]]
       IN  \E again \in {orphans, <<>>} :
             LET block == [i \in 1..Len(again) |-> [again[i] EXCEPT !.block = height']]
             IN  /\ \A l \in Range(again) : Alive(l.source, height')
                 /\ chain' = kept \o block
                 /\ logs' = logs \o Feed(retract) \o Feed(block)
                 /\ remined' = remined \cup IdsOf(Range(again))
                 /\ unheard' = unheard \cup IdsOf(Range(orphans) \ Range(Feed(orphans)))
  /\ UNCHANGED <<indexed, traded, pc, memory, reconnectFrom, seen, subscribed, head,
                 batch, current, counts, fanout, since, skipped, dropped>>

\* The indexer commits confirmed blocks.
IndexerCommits ==
  /\ indexed' \in (indexed + 1)..height
  /\ UNCHANGED <<chain, height, forks, remined, traded, pc, memory, reconnectFrom, seen, connection,
                 counts, fanout, records>>

-----------------------------------------------------------------------------
(* One log.                                                                *)

\* Variant: a retraction has the identity of what it retracts.
KeyOfTheLogAlone(l) == <<l.id, FALSE>>

\* EventID and the state of its delivery.
Key(l) == <<l.id, l.removed>>

\* Variant: the memory holds one key less than its capacity.
RememberOneLess(key) ==
  Append(IF Len(seen) = DedupCapacity - 1 THEN Tail(seen) ELSE seen, key)

\* Accept(): the oldest key makes room for the new one.
Remember(key) ==
  Append(IF Len(seen) = DedupCapacity THEN Tail(seen) ELSE seen, key)

\* Variant: a slow subscriber keeps its place and misses the event.
PublishToTheFast(event) ==
  /\ queue' = [c \in Clients |-> IF c \in subscribers /\ Len(queue[c]) < SubscriberBuffer
                                 THEN Append(queue[c], event) ELSE queue[c]]
  /\ published' = Append(published, event)
  /\ UNCHANGED <<subscribers, next>>

\* Publish(): a subscriber whose buffer is full is removed, its channel closed.
Publish(event) ==
  /\ subscribers' = {c \in subscribers : Len(queue[c]) < SubscriberBuffer}
  /\ queue' = [c \in Clients |-> IF c \in subscribers' THEN Append(queue[c], event)
                                                       ELSE queue[c]]
  /\ published' = Append(published, event)
  /\ UNCHANGED next

\* Variant: without the check for duplicates.
HandleEveryLog(l) ==
  /\ seen' = Remember(Key(l))
  /\ Publish(l)
  /\ reconnectFrom' = IF ~l.removed /\ l.block > reconnectFrom
                      THEN l.block ELSE reconnectFrom

\* handleLog() of a log that is decoded and whose header is read.
HandleLog(l) ==
  IF Key(l) \in Range(seen)
  THEN UNCHANGED <<seen, fanout, reconnectFrom>>
  ELSE /\ seen' = Remember(Key(l))
       /\ Publish(l)
       /\ reconnectFrom' = IF ~l.removed /\ l.block > reconnectFrom
                           THEN l.block ELSE reconnectFrom

-----------------------------------------------------------------------------
(* runConnection.                                                          *)

\* Variant: a new source starts at the block after its launch.
ReconcileAboveTheStart ==
  LET known == Markets(indexed)
      new   == IF registryLoaded THEN known \ registry ELSE {}
  IN  /\ registry' = known
      /\ registryLoaded' = TRUE
      /\ pendingBackfills' =
           [s \in (DOMAIN pendingBackfills \cap known) \cup new |->
              IF s \in new THEN SourceStartBlock(s) + 1 ELSE pendingBackfills[s]]
      /\ since' = [s \in (DOMAIN since \cap known) \cup new |->
                     IF s \in new THEN SourceStartBlock(s) ELSE since[s]]

\* reconcile(): the first load starts no replay, later ones replay what is new.
Reconcile ==
  LET known == Markets(indexed)
      new   == IF registryLoaded THEN known \ registry ELSE {}
  IN  /\ registry' = known
      /\ registryLoaded' = TRUE
      /\ pendingBackfills' =
           [s \in (DOMAIN pendingBackfills \cap known) \cup new |->
              IF s \in new THEN SourceStartBlock(s) ELSE pendingBackfills[s]]
      /\ since' = [s \in (DOMAIN since \cap known) \cup new |->
                     IF s \in new THEN SourceStartBlock(s) ELSE since[s]]

Connect ==
  /\ pc = "down" /\ pc' = "connected"
  /\ Reconcile
  /\ UNCHANGED <<nodeVars, reconnectFrom, seen, connection, counts, fanout,
                 skipped, dropped, unheard>>

\* replaceSubscription(): what the old channel still holds is never read.
ReplaceSubscription ==
  /\ subscribed' = registry
  /\ logs' = <<>>
  /\ dropped' = dropped \cup {Key(l) : l \in Range(logs)}

\* queueReconnectBackfill(): every source that is not waiting already.
QueueReconnectBackfill ==
  pendingBackfills' =
    [s \in registry |->
       IF s \in DOMAIN pendingBackfills THEN pendingBackfills[s]
       ELSE IF SourceStartBlock(s) < reconnectFrom THEN reconnectFrom
       ELSE SourceStartBlock(s)]

Subscribe ==
  /\ pc = "connected"
  /\ ReplaceSubscription
  /\ IF reconnectFrom > 0
     THEN QueueReconnectBackfill /\ pc' = "catchUp"
     ELSE UNCHANGED pendingBackfills /\ pc' = "readHead"
  /\ UNCHANGED <<nodeVars, registry, registryLoaded, reconnectFrom, seen, head, batch,
                 current, counts, fanout, since, skipped, unheard>>

\* The first connection begins at the head.
ReadHead ==
  /\ pc = "readHead" /\ pc' = "catchUp"
  /\ reconnectFrom' = height
  /\ since' = [s \in registry |-> IF s \in DOMAIN since THEN since[s]
                                  ELSE height + 1]
  /\ UNCHANGED <<nodeVars, memory, seen, connection, counts, fanout, skipped,
                 dropped, unheard>>

\* backfillPending() reads the head once for all pending sources.
CatchUp ==
  /\ pc = "catchUp"
  /\ IF DOMAIN pendingBackfills = {}
     THEN pc' = "live" /\ UNCHANGED head
     ELSE pc' = "backfill" /\ head' = height
  /\ UNCHANGED <<nodeVars, memory, reconnectFrom, seen, subscribed, logs, batch,
                 current, counts, fanout, records>>

InBound(s) ==
  /\ pendingBackfills[s] <= head
  /\ head - pendingBackfills[s] <= MaximumBackfillBlocks

\* FilterLogs() of one source.  The code goes by the order of the addresses,
\* which is any order of the sources.
FilterLogs ==
  /\ pc = "backfill"
  /\ \E s \in DOMAIN pendingBackfills :
       /\ InBound(s)
       /\ current' = {s}
       /\ batch' = Filter(chain, {l \in OnChain :
                     l.source = s /\ l.block \in pendingBackfills[s]..head})
  /\ pc' = "replay"
  /\ UNCHANGED <<nodeVars, memory, reconnectFrom, seen, subscribed, logs, head,
                 counts, fanout, records>>

Replay ==
  /\ pc = "replay" /\ batch # <<>>
  /\ HandleLog(Head(batch))
  /\ batch' = Tail(batch)
  /\ UNCHANGED <<nodeVars, pc, memory, subscribed, logs, head, current, counts, records>>

\* Variant: a replayed source stays pending.
ReplayedForever ==
  /\ pc = "replay" /\ batch = <<>>
  /\ pc' = "backfill" /\ current' = {}
  /\ UNCHANGED <<nodeVars, memory, reconnectFrom, seen, subscribed, logs, head, batch,
                 counts, fanout, records>>

\* The source is caught up: it leaves pendingBackfills.
Replayed ==
  LET left == DOMAIN pendingBackfills \ current
  IN  /\ pc = "replay" /\ batch = <<>>
      /\ pendingBackfills' = [s \in left |-> pendingBackfills[s]]
      /\ IF left = {} THEN pc' = "live" /\ head' = 0
                      ELSE pc' = "backfill" /\ UNCHANGED head
      /\ current' = {}
      /\ UNCHANGED <<nodeVars, registry, registryLoaded, reconnectFrom, seen,
                     subscribed, logs, batch, counts, fanout, records>>

\* A log from the live channel, published or a duplicate.
TakeLog ==
  /\ pc = "live" /\ logs # <<>>
  /\ HandleLog(Head(logs))
  /\ logs' = Tail(logs)
  /\ UNCHANGED <<nodeVars, pc, memory, subscribed, head, batch, current, counts, records>>

\* The header of its block cannot be read: the log is discarded with a warning.
DiscardLog ==
  /\ pc = "live" /\ logs # <<>> /\ ~Head(logs).removed
  /\ skips < MaxSkips
  /\ skips' = skips + 1
  /\ skipped' = skipped \cup {Head(logs).id}
  /\ logs' = Tail(logs)
  /\ UNCHANGED <<nodeVars, pc, memory, reconnectFrom, seen, subscribed, head, batch,
                 current, outages, fanout, since, dropped, unheard>>

\* The ticker; a registry that has not changed changes nothing else.
Tick ==
  /\ pc = "live" /\ Markets(indexed) # registry
  /\ Reconcile
  /\ pc' = "rediscovered"
  /\ UNCHANGED <<nodeVars, reconnectFrom, seen, connection, counts, fanout, skipped,
                 dropped, unheard>>

Resubscribe ==
  /\ pc = "rediscovered" /\ pc' = "catchUp"
  /\ ReplaceSubscription
  /\ UNCHANGED <<nodeVars, memory, reconnectFrom, seen, head, batch, current, counts,
                 fanout, since, skipped, unheard>>

\* The connection ends, and with it the subscription and the channel.
Disconnect ==
  /\ pc' = "down"
  /\ subscribed' = {} /\ logs' = <<>> /\ head' = 0 /\ batch' = <<>> /\ current' = {}
  /\ dropped' = dropped \cup
       {Key(l) : l \in {e \in Range(logs) : ~e.removed /\ e.block < reconnectFrom}}
  /\ unheard' = unheard \cup IdsOf({l \in Range(logs) : l.removed})
  /\ UNCHANGED <<nodeVars, memory, reconnectFrom, seen, skips, fanout, since, skipped>>

\* backfillPending() returns an error: a source beyond the bounds.  It is asked for
\* again by the next connection.
Refused == pc = "backfill" /\ \E s \in DOMAIN pendingBackfills : ~InBound(s)

Refuse ==
  /\ Refused
  /\ Disconnect
  /\ UNCHANGED outages

\* An error of the subscription or of a call.
Outage ==
  /\ pc # "down" /\ outages < MaxOutages
  /\ outages' = outages + 1
  /\ Disconnect

Service == \/ Connect \/ Subscribe \/ ReadHead \/ CatchUp \/ FilterLogs \/ Replay
           \/ Replayed \/ TakeLog \/ Tick \/ Resubscribe \/ Refuse

-----------------------------------------------------------------------------
(* The handlers of /events.                                                *)

\* Subscribe()
Join(c) ==
  /\ next[c] = 0 /\ Cardinality(subscribers) < MaximumSubscribers
  /\ subscribers' = subscribers \cup {c}
  /\ next' = [next EXCEPT ![c] = Len(published) + 1]
  /\ UNCHANGED <<nodeVars, pc, memory, reconnectFrom, seen, connection, counts,
                 queue, published, records>>

\* An event is written to the socket, from a closed channel what is left in it.
Write(c) ==
  /\ queue[c] # <<>>
  /\ queue' = [queue EXCEPT ![c] = Tail(@)]
  /\ next' = [next EXCEPT ![c] = @ + 1]
  /\ UNCHANGED <<nodeVars, pc, memory, reconnectFrom, seen, connection, counts,
                 subscribers, published, records>>

\* The browser leaves, or the closed channel is empty; unsubscribe() is deferred.
Leave(c) ==
  /\ next[c] # 0
  /\ subscribers' = subscribers \ {c}
  /\ queue' = [queue EXCEPT ![c] = <<>>]
  /\ next' = [next EXCEPT ![c] = 0]
  /\ UNCHANGED <<nodeVars, pc, memory, reconnectFrom, seen, connection, counts,
                 published, records>>

-----------------------------------------------------------------------------
(* The first block is there; a process starts with an empty memory.        *)
RealtimeInit ==
  /\ chain = <<>> /\ height = 1 /\ indexed = 1 /\ forks = 0 /\ traded = 0 /\ remined = {}
  /\ pc = "down"
  /\ registry = {} /\ registryLoaded = FALSE /\ pendingBackfills = <<>>
  /\ reconnectFrom = 0 /\ seen = <<>>
  /\ subscribed = {} /\ logs = <<>> /\ head = 0 /\ batch = <<>> /\ current = {}
  /\ outages = 0 /\ skips = 0
  /\ subscribers = {} /\ queue = [c \in Clients |-> <<>>]
  /\ published = <<>> /\ next = [c \in Clients |-> 0]
  /\ since = <<>> /\ skipped = {} /\ dropped = {} /\ unheard = {}

World == NewBlock \/ Fork \/ IndexerCommits \/ DiscardLog \/ Outage
Browsers == \E c \in Clients : Join(c) \/ Write(c) \/ Leave(c)
RealtimeNext == World \/ Service \/ Browsers

RealtimeSpec == RealtimeInit /\ [][RealtimeNext]_serviceVars /\ WF_serviceVars(Service)

-----------------------------------------------------------------------------
(* Properties.                                                             *)

Logs == [id : 1..MaxLogs, source : Sources, block : 1..MaxBlocks, removed : BOOLEAN]

\* Types of the chain, the service, the broadcaster and the history; the set of
\* Deduper and the buffers of the broadcaster keep their capacities.
RealtimeTypeOK ==
  /\ chain \in Seq(Logs) /\ height \in 1..MaxBlocks /\ indexed \in 1..height
  /\ forks \in 0..MaxForks /\ traded \in 0..MaxLogs
  /\ pc \in {"down", "connected", "readHead", "catchUp", "backfill", "replay", "live",
             "rediscovered"}
  /\ registry \subseteq Sources /\ registryLoaded \in BOOLEAN
  /\ DOMAIN pendingBackfills \subseteq registry
  /\ \A s \in DOMAIN pendingBackfills : pendingBackfills[s] \in 1..MaxBlocks
  /\ reconnectFrom \in 0..MaxBlocks /\ head \in 0..MaxBlocks
  /\ Len(seen) <= DedupCapacity /\ seen \in Seq((1..MaxLogs) \X BOOLEAN)
  /\ subscribed \subseteq Sources /\ logs \in Seq(Logs) /\ batch \in Seq(Logs)
  /\ current \subseteq Sources
  /\ outages \in 0..MaxOutages /\ skips \in 0..MaxSkips
  /\ subscribers \subseteq Clients /\ queue \in [Clients -> Seq(Logs)]
  /\ \A c \in Clients : Len(queue[c]) <= SubscriberBuffer
  /\ published \in Seq(Logs) /\ next \in [Clients -> Nat]
  /\ DOMAIN since \subseteq registry
  /\ skipped \cup unheard \cup remined \subseteq 1..MaxLogs
  /\ dropped \subseteq (1..MaxLogs) \X BOOLEAN

PublishedTrades == IdsOf({l \in Range(published) : ~l.removed})

\* The trades the service will still come to.
InReach(l) ==
  \/ \E e \in Range(logs) \cup Range(batch) : e.id = l.id /\ ~e.removed
  \/ /\ l.source \in DOMAIN pendingBackfills
     /\ pendingBackfills[l.source] <= l.block
  \/ /\ pc \in {"down", "connected"}
     /\ 0 < reconnectFrom /\ reconnectFrom <= l.block

\* The trades the service owes its browsers: those of a registered market, from
\* the head at the start or the launch or graduation of the market on.
Owed(l) ==
  /\ l \in OnChain
  /\ l.source \in DOMAIN since /\ since[l.source] <= l.block

\* A header that could not be read, a channel that was not read.
GivenUp(l) == l.id \in skipped \/ Key(l) \in dropped

\* queueReconnectBackfill() and backfillPending() leave no gap: a trade the service
\* owes is published or still ahead of it.
EveryTradeAccounted ==
  \A l \in OnChain :
    Owed(l) => l.id \in PublishedTrades \/ InReach(l) \/ GivenUp(l)

\* Accept(): an event comes a second time only after more events than the deduper
\* remembers, though every reconnection replays the last block, a replay overlaps the
\* live channel and one that was interrupted starts over.
PublishedOnce ==
  \A i, j \in DOMAIN published :
    i < j /\ Key(published[i]) = Key(published[j]) => j - i > DedupCapacity

Settled == pc = "live" /\ logs = <<>>

LastOf(id) ==
  published[CHOOSE i \in DOMAIN published :
              /\ published[i].id = id
              /\ \A j \in DOMAIN published : published[j].id = id => j <= i]

\* A trade that was mined again, and is in another block than the one published or
\* orphaned once more.
MinedAgain(id) ==
  /\ id \in remined
  /\ \A l \in OnChain : l.id = id => l.block # LastOf(id).block

\* Accept() and Publish(): when nothing is under way, the last event of a published
\* trade says whether it is on the chain.  Not so for a trade that was mined again,
\* which is taken for a duplicate, nor if the retraction was never heard.
FeedMatchesChain ==
  Settled => \A id \in PublishedTrades :
               \/ LastOf(id).removed <=> id \notin IdsOf(OnChain)
               \/ MinedAgain(id) \/ id \in unheard \/ <<id, TRUE>> \in dropped

\* Publish(): a connected browser gets every event since it subscribed, in order;
\* one that was too slow gets them up to some point.
SubscribersMissNothing ==
  \A c \in Clients :
    next[c] # 0 =>
      LET due == SubSeq(published, next[c], Len(published))
      IN  /\ IsPrefix(queue[c], due)
          /\ c \in subscribers => queue[c] = due

\* Run() comes back after an outage: a trade the service owes is published in the
\* end, unless its outage was so long that a replay is refused.
EventuallyPublished ==
  \A id \in 1..MaxLogs :
    (\E l \in OnChain : l.id = id /\ Owed(l))
      ~> \/ id \in PublishedTrades \/ Refused
         \/ \A l \in OnChain : l.id = id => GivenUp(l) \/ ~Owed(l)
=============================================================================
