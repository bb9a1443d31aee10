------------------------------ MODULE Indexer ------------------------------
(***************************************************************************)
(* The indexer process (cmd/indexer, internal/indexer/indexer.go): one     *)
(* EventIndexer per configured contract.  Each has three goroutines:       *)
(*   - start        walks the chain block by block from a restart point,   *)
(*                  reading BLOCK#n from the shared storage and, after     *)
(*                  too many misses, fetching the block itself;            *)
(*   - replayBlocks delivers again every block that held something of      *)
(*                  interest in an earlier life of the process;            *)
(*   - Run's loop   receives both on an unbuffered channel and indexes     *)
(*                  one block at a time.                                   *)
(* Every event found is written to storage and announced on the in-process *)
(* NATS subject event:published, whose content does not survive a crash.   *)
(* The synchronizer process is the environment here: it adds blocks to the *)
(* storage in any order (BlockStored).                                     *)
(***************************************************************************)
EXTENDS Integers, Sequences

CONSTANTS
    Contracts,      (* cfg.Contracts: the configured addresses             *)
    StartBlock,     (* cfg.StartBlock                                      *)
    MaxBlock,       (* bound: the last block of the modelled chain         *)
    Items,          (* Items[c][b]: the transactions and events of block b *)
                    (* that belong to contract c, in indexing order        *)
    RetryLimit,     (* the 5 of "retries > 5"                              *)
    MaxCrashes,     (* bound: how often the process dies                   *)
    StorageFaults   (* whether a storage call may fail (it is only logged) *)

Block == StartBlock..MaxBlock

(* Has(IDX#c) is false before the first save: no stored LatestBlock is 0.  *)
ASSUME ChainAssumption ==
    /\ StartBlock \in Nat \ {0}
    /\ MaxBlock \in Nat
    /\ StartBlock <= MaxBlock
ASSUME ItemsAssumption ==
    Items \in [Contracts -> [Block -> Seq({"tx", "event"})]]
ASSUME BoundsAssumption ==
    /\ RetryLimit \in Nat
    /\ MaxCrashes \in Nat
    /\ StorageFaults \in BOOLEAN

VARIABLES
    blockStore,   (* durable: the n for which BLOCK#n is stored            *)
    idx,          (* durable: the ContractIndex stored under IDX#c         *)
    keys,         (* durable: the TX# and EVENT# keys stored               *)
    up,           (* the process runs                                      *)
    cursor,       (* start's block: the next block to fetch, per contract  *)
    retries,      (* start's failed fetches, per contract                  *)
    replay,       (* blocks replayBlocks has yet to deliver, per contract  *)
    job,          (* what Run's loop is doing, per contract                *)
    bus,          (* event:published messages not yet handled              *)
    indexed,      (* history: blocks for which Index has returned          *)
    dispatched,   (* history: events the event:published handler decoded   *)
    crashes       (* history: crashes so far                               *)

durable  == <<blockStore, idx, keys>>
volatile == <<up, cursor, retries, replay, job, bus>>
history  == <<indexed, dispatched, crashes>>
vars     == <<blockStore, idx, keys, up, cursor, retries, replay, job, bus,
              indexed, dispatched, crashes>>

(* An item of a block; EventId is unique per transaction and event.        *)
Id(c, b, i)        == <<c, b, i>>
Key(space, c, b, i) == <<space, c, b, i>>
Spaces             == {"TX", "ADDRESS_EVENT", "EVENT"}
ItemIds == UNION {UNION {{Id(c, b, i) : i \in DOMAIN Items[c][b]}
                            : b \in Block} : c \in Contracts}
EventIds == {e \in ItemIds : Items[e[1]][e[2]][e[3]] = "event"}

(* A storage call returns an error only when StorageFaults allows it.      *)
CallSucceeds == IF StorageFaults THEN BOOLEAN ELSE {TRUE}
Put(k, ok)   == IF ok THEN keys \union {k} ELSE keys

IsMax(m, S) == m \in S /\ \A n \in S : n <= m

(* Definitions named Bad... are never used: each one is a plausible bug in *)
(* the definition after it, and some property of this module rejects it.   *)

---------------------------------------------------------------------------
(* ContractIndex: the blocks to replay and the latest indexed block.       *)
NoIndex == [blocks |-> {}, latest |-> 0]
ContractIndex == [blocks : SUBSET Block, latest : Block] \union {NoIndex}

(* getContractIdx: a fresh index at `block` when IDX#c cannot be read.     *)
GetContractIdx(c, block, readOk) ==
    IF readOk /\ idx[c] # NoIndex THEN idx[c]
                                  ELSE [blocks |-> {}, latest |-> block]

(* Run: where the walk resumes; the latest block itself is indexed again.  *)
BadResumeAt(latest) == IF StartBlock > latest THEN StartBlock ELSE latest + 1
ResumeAt(latest)    == IF StartBlock > latest THEN StartBlock ELSE latest

(* Run: what replayBlocks is given.                                        *)
BadReplayList(index) == {}
ReplayList(index)    == index.blocks

(* saveContractIndexLatestBlock: the block just indexed, or the largest    *)
(* listed block when that is larger.                                       *)
BadIsLatest(m, blocks, b) == m = b
IsLatest(m, blocks, b)    == IsMax(m, blocks \union {b})

(* start: the retry counter after one more failed fetch, and whether this  *)
(* failure goes through syncBlock first.                                   *)
MustSync(c) == retries[c] > RetryLimit
BadNextRetries(c)   == retries[c] + 1
BadForgetRetries(c) == 0
NextRetries(c)      == IF MustSync(c) THEN 1 ELSE retries[c] + 1

(* External: the gateway knows the blocks of the modelled chain.           *)
GatewayServes(n) == n \in Block

Idle == [stage |-> "idle", block |-> 0, item |-> 0]
Stages == {"storeTx", "storeByAddress", "storeById", "publish",
           "saveInteresting", "saveLatest"}

(* The work of Index on item i of block b: transactions, then events, then *)
(* saveContractIndexLatestBlock when no item is left.                      *)
AtItem(c, b, i) ==
    [block |-> b, item |-> i,
     stage |-> IF i \notin DOMAIN Items[c][b] THEN "saveLatest"
               ELSE IF Items[c][b][i] = "tx" THEN "storeTx"
               ELSE "storeByAddress"]

Init ==
    /\ blockStore = {}
    /\ idx = [c \in Contracts |-> NoIndex]
    /\ keys = {}
    /\ up = FALSE
    /\ cursor = [c \in Contracts |-> StartBlock]
    /\ retries = [c \in Contracts |-> 0]
    /\ replay = [c \in Contracts |-> {}]
    /\ job = [c \in Contracts |-> Idle]
    /\ bus = <<>>
    /\ indexed = [c \in Contracts |-> {}]
    /\ dispatched = {}
    /\ crashes = 0

---------------------------------------------------------------------------
(* EventIndexer.Run of every contract: read the index once, hand its       *)
(* blocks to replayBlocks, walk on from the latest block, inclusive.       *)
Boot ==
    /\ ~up
    /\ up' = TRUE
    /\ \E readOk \in [Contracts -> CallSucceeds] :
         LET loaded == [c \in Contracts |->
                          GetContractIdx(c, StartBlock, readOk[c])]
         IN /\ replay' = [c \in Contracts |-> ReplayList(loaded[c])]
            /\ cursor' = [c \in Contracts |-> ResumeAt(loaded[c].latest)]
    /\ UNCHANGED <<durable, retries, job, bus, history>>

(* The process dies (a panic in any goroutine, log.Fatal, a redeploy):     *)
(* goroutines, channels and the in-process NATS server go with it.         *)
Crash ==
    /\ up
    /\ crashes < MaxCrashes
    /\ crashes' = crashes + 1
    /\ up' = FALSE
    /\ cursor' = [c \in Contracts |-> StartBlock]
    /\ retries' = [c \in Contracts |-> 0]
    /\ replay' = [c \in Contracts |-> {}]
    /\ job' = [c \in Contracts |-> Idle]
    /\ bus' = <<>>
    /\ UNCHANGED <<durable, indexed, dispatched>>

(* External: the synchronizer process stores one more block.               *)
BlockStored ==
    /\ \E n \in Block \ blockStore : blockStore' = blockStore \union {n}
    /\ UNCHANGED <<idx, keys, volatile, history>>

(* start: fetchBlock found BLOCK#cursor and Run's loop takes it.           *)
ScanDeliver(c) ==
    /\ up
    /\ job[c] = Idle
    /\ cursor[c] \in blockStore
    /\ job' = [job EXCEPT ![c] = AtItem(c, cursor[c], 1)]
    /\ cursor' = [cursor EXCEPT ![c] = @ + 1]
    /\ UNCHANGED <<durable, up, retries, replay, bus, history>>

(* start: fetchBlock failed.  Past the retry limit syncBlock asks the      *)
(* gateway, which fails while the block is not produced, or for any other  *)
(* reason, and stores what it got.                                         *)
ScanMiss(c, synced) ==
    /\ up
    /\ cursor[c] \notin blockStore \/ StorageFaults
    /\ synced => MustSync(c) /\ GatewayServes(cursor[c])
    /\ blockStore' = IF synced THEN blockStore \union {cursor[c]}
                               ELSE blockStore
    /\ retries' = [retries EXCEPT ![c] = NextRetries(c)]
    /\ UNCHANGED <<idx, keys, up, cursor, replay, job, bus, history>>

(* replayBlocks: one of the remaining blocks goes to Run's loop.  The list *)
(* is replayed in the order of its first indexing; any order is allowed    *)
(* here.                                                                   *)
BadReplayDeliver(c) ==
    /\ up
    /\ job[c] = Idle
    /\ \E b \in replay[c] \intersect blockStore :
         job' = [job EXCEPT ![c] = AtItem(c, b, 1)]
    /\ UNCHANGED <<durable, up, cursor, retries, replay, bus, history>>

ReplayDeliver(c) ==
    /\ up
    /\ job[c] = Idle
    /\ \E b \in replay[c] \intersect blockStore :
         /\ job' = [job EXCEPT ![c] = AtItem(c, b, 1)]
         /\ replay' = [replay EXCEPT ![c] = @ \ {b}]
    /\ UNCHANGED <<durable, up, cursor, retries, bus, history>>

(* replayBlocks: fetchBlock failed, the block is skipped until next boot.  *)
ReplaySkip(c) ==
    /\ up
    /\ \E b \in replay[c] :
         /\ b \notin blockStore \/ StorageFaults
         /\ replay' = [replay EXCEPT ![c] = @ \ {b}]
    /\ UNCHANGED <<durable, up, cursor, retries, job, bus, history>>

---------------------------------------------------------------------------
(* Index, one storage or NATS call per step.                               *)
At(c, stage) == up /\ job[c].stage = stage
Move(c, stage) == job' = [job EXCEPT ![c].stage = stage]

(* indexTransaction: address#TX#hash.                                      *)
StoreTx(c) ==
    /\ At(c, "storeTx")
    /\ \E ok \in CallSucceeds :
         keys' = Put(Key("TX", c, job[c].block, job[c].item), ok)
    /\ Move(c, "saveInteresting")
    /\ UNCHANGED <<blockStore, idx, up, cursor, retries, replay, bus, history>>

(* indexEvent: address#EVENT#id, then EVENT#id, then the NATS message.     *)
StoreEventByAddress(c) ==
    /\ At(c, "storeByAddress")
    /\ \E ok \in CallSucceeds :
         keys' = Put(Key("ADDRESS_EVENT", c, job[c].block, job[c].item), ok)
    /\ Move(c, "storeById")
    /\ UNCHANGED <<blockStore, idx, up, cursor, retries, replay, bus, history>>

StoreEventById(c) ==
    /\ At(c, "storeById")
    /\ \E ok \in CallSucceeds :
         keys' = Put(Key("EVENT", c, job[c].block, job[c].item), ok)
    /\ Move(c, "publish")
    /\ UNCHANGED <<blockStore, idx, up, cursor, retries, replay, bus, history>>

BadPublish(c) ==
    /\ At(c, "publish")
    /\ bus' = Append(bus, Id(c, job[c].block, job[c].item))
    /\ job' = [job EXCEPT ![c] = AtItem(c, @.block, @.item + 1)]
    /\ UNCHANGED <<durable, up, cursor, retries, replay, history>>

Publish(c) ==
    /\ At(c, "publish")
    /\ bus' = Append(bus, Id(c, job[c].block, job[c].item))
    /\ Move(c, "saveInteresting")
    /\ UNCHANGED <<durable, up, cursor, retries, replay, history>>

(* saveContractIndexInteresstingBlock, after each transaction or event.    *)
SaveInteresting(c) ==
    /\ At(c, "saveInteresting")
    /\ \E readOk, writeOk \in CallSucceeds :
         LET b   == job[c].block
             old == GetContractIdx(c, b, readOk)
         IN idx' = IF writeOk
                     THEN [idx EXCEPT ![c] =
                             [old EXCEPT !.blocks = @ \union {b}]]
                     ELSE idx
    /\ job' = [job EXCEPT ![c] = AtItem(c, @.block, @.item + 1)]
    /\ UNCHANGED <<blockStore, keys, up, cursor, retries, replay, bus, history>>

(* saveContractIndexLatestBlock: the block, or the largest block to replay *)
(* when that is larger.  Index returns.                                    *)
SaveLatest(c) ==
    /\ At(c, "saveLatest")
    /\ \E readOk, writeOk \in CallSucceeds :
         LET b   == job[c].block
             old == GetContractIdx(c, b, readOk)
         IN \E m \in Block :
              /\ IsLatest(m, old.blocks, b)
              /\ idx' = IF writeOk
                          THEN [idx EXCEPT ![c] = [old EXCEPT !.latest = m]]
                          ELSE idx
    /\ indexed' = [indexed EXCEPT ![c] = @ \union {job[c].block}]
    /\ job' = [job EXCEPT ![c] = Idle]
    /\ UNCHANGED <<blockStore, keys, up, cursor, retries, replay, bus,
                   dispatched, crashes>>

(* EventPublishedSubscriber on the oldest message: EVENT#id is read back   *)
(* and decoded; a message whose record cannot be read is dropped.          *)
Dispatch ==
    /\ up
    /\ bus # <<>>
    /\ bus' = Tail(bus)
    /\ LET e == Head(bus)
       IN \E readOk \in CallSucceeds :
            dispatched' = IF readOk /\ Key("EVENT", e[1], e[2], e[3]) \in keys
                            THEN dispatched \union {e} ELSE dispatched
    /\ UNCHANGED <<durable, up, cursor, retries, replay, job, indexed, crashes>>

IndexStep(c) ==
    \/ StoreTx(c)
    \/ StoreEventByAddress(c)
    \/ StoreEventById(c)
    \/ Publish(c)
    \/ SaveInteresting(c)
    \/ SaveLatest(c)

ScanStep(c) ==
    \/ ScanDeliver(c)
    \/ \E synced \in BOOLEAN : ScanMiss(c, synced)

ReplayStep(c) ==
    \/ ReplayDeliver(c)
    \/ ReplaySkip(c)

Process == \/ Boot
           \/ Dispatch
           \/ \E c \in Contracts :
                 IndexStep(c) \/ ScanStep(c) \/ ReplayStep(c)

Next == Process \/ Crash \/ BlockStored

Spec == Init /\ [][Next]_vars

(* The host restarts the process, goroutines are scheduled, blocked        *)
(* senders on the channel are served in arrival order, and the gateway     *)
(* does not refuse one block for ever.                                     *)
Fairness ==
    /\ WF_vars(Boot)
    /\ WF_vars(Dispatch)
    /\ \A c \in Contracts :
         /\ WF_vars(IndexStep(c))
         /\ SF_vars(ScanDeliver(c))
         /\ SF_vars(ReplayDeliver(c))
         /\ WF_vars(ScanMiss(c, FALSE))
         /\ SF_vars(ScanMiss(c, TRUE))

FairSpec == Spec /\ Fairness

---------------------------------------------------------------------------
(* Properties.                                                             *)

(* Every variable keeps its shape, and the loop is busy exactly when it    *)
(* works on a block of the chain.                                          *)
AnyId  == Contracts \X Block \X Nat
AnyKey == Spaces \X Contracts \X Block \X Nat
AnyJob == [stage : Stages, block : Block, item : Nat \ {0}]
TypeOK ==
    /\ blockStore \subseteq Block
    /\ idx \in [Contracts -> ContractIndex]
    /\ keys \subseteq AnyKey
    /\ up \in BOOLEAN
    /\ cursor \in [Contracts -> StartBlock..(MaxBlock + 1)]
    /\ retries \in [Contracts -> 0..(RetryLimit + 1)]
    /\ replay \in [Contracts -> SUBSET Block]
    /\ job \in [Contracts -> AnyJob \union {Idle}]
    /\ bus \in Seq(AnyId)
    /\ indexed \in [Contracts -> SUBSET Block]
    /\ dispatched \subseteq AnyId
    /\ crashes \in 0..MaxCrashes

(* Where the next boot would resume the walk.                              *)
RestartBlock(c) == GetContractIdx(c, StartBlock, TRUE).latest

(* No block below the point where a restart would resume was ever skipped: *)
(* Index returned for each one, whatever the interleaving of replay and    *)
(* walk, the crashes, and the storage calls that failed.                   *)
NothingSkipped ==
    \A c \in Contracts : \A b \in StartBlock..(RestartBlock(c) - 1) :
        b \in indexed[c]

(* While storage calls succeed, a block below the restart point that holds *)
(* anything of the contract is on the replay list and all its records are  *)
(* stored: whatever a crash takes from the bus, the next boot brings back. *)
ItemStored(c, b, i) ==
    IF Items[c][b][i] = "tx"
      THEN Key("TX", c, b, i) \in keys
      ELSE {Key("ADDRESS_EVENT", c, b, i), Key("EVENT", c, b, i)} \subseteq keys
ItemRecorded(c, b, i) == b \in idx[c].blocks /\ ItemStored(c, b, i)
BlockRecorded(c, b) == \A i \in DOMAIN Items[c][b] : ItemRecorded(c, b, i)
RestartRecovers ==
    ~StorageFaults =>
        \A c \in Contracts : \A b \in StartBlock..(RestartBlock(c) - 1) :
            BlockRecorded(c, b)

(* While storage calls succeed, a message on the bus names an event that   *)
(* both the dispatcher and the contract page of the API can read.          *)
PublishedIsStored ==
    ~StorageFaults =>
        \A n \in DOMAIN bus : \A space \in {"ADDRESS_EVENT", "EVENT"} :
            Key(space, bus[n][1], bus[n][2], bus[n][3]) \in keys

(* A save may move the restart point back (a replayed block does), but     *)
(* only while an already listed block is indexed again, and never below    *)
(* the newest block on the replay list.                                    *)
RegressionIsBounded ==
    [][~StorageFaults =>
         \A c \in Contracts :
            idx'[c].latest < idx[c].latest =>
              /\ job[c].block \in idx[c].blocks
              /\ IsMax(idx'[c].latest, idx'[c].blocks)]_vars

(* While storage calls succeed, a running process has every event ahead of *)
(* it that it has not handed over yet: on the bus, in the block that is    *)
(* being indexed, on the replay list or before the walk.  Whatever a crash *)
(* took is on one of the last two again after the boot.                    *)
ToPublish(c, b, i) ==
    /\ job[c] # Idle /\ job[c].block = b /\ job[c].item <= i
    /\ ~(job[c].item = i /\ job[c].stage = "saveInteresting")
Underway(c, b, i) ==
    \/ \E n \in DOMAIN bus : bus[n] = Id(c, b, i)
    \/ ToPublish(c, b, i)
    \/ b \in replay[c]
    \/ cursor[c] <= b
NothingForgotten ==
    up /\ ~StorageFaults =>
        \A e \in EventIds : e \in dispatched \/ Underway(e[1], e[2], e[3])

(* What a reader of the indexer sees: indexed blocks, the restart point,   *)
(* and the events that reached a subscriber.                               *)
Log == INSTANCE EventLog WITH First     <- StartBlock,
                              Last      <- MaxBlock,
                              Events    <- EventIds,
                              done      <- indexed,
                              resume    <- [c \in Contracts |->
                                              RestartBlock(c)],
                              delivered <- dispatched

(* The indexer implements the event log: at every save the restart point   *)
(* leaves no unindexed block behind, and an event reaches the dispatcher   *)
(* only when every earlier block of its contract has been indexed.         *)
ImplementsEventLog == Log!Spec

(* Every block of the chain is eventually indexed for every contract, even *)
(* one the synchronizer never stores, and every event is eventually handed *)
(* to the dispatcher, although a crash empties the bus.                    *)
DeliversAll == Log!AtLeastOnce

---------------------------------------------------------------------------
(* The inductive invariants of module IndexerProofs.                       *)

(* Every block of c below b has been indexed.                              *)
Below(c, b) == StartBlock..(b - 1) \subseteq indexed[c]

(* Whatever block is stored in the index, waits to be replayed, is being   *)
(* indexed or is named on the bus, every earlier block has been indexed;   *)
(* the walk has left nothing behind but the block being indexed.           *)
IndexInOrder  == \A c \in Contracts :
                    \A b \in idx[c].blocks \union {idx[c].latest} : Below(c, b)
ReplayInOrder == \A c \in Contracts : \A b \in replay[c] : Below(c, b)
JobInOrder    == \A c \in Contracts : Below(c, job[c].block)
BusInOrder    == \A n \in DOMAIN bus : Below(bus[n][1], bus[n][2])
WalkInOrder   == \A c \in Contracts : \A b \in StartBlock..(cursor[c] - 1) :
                    b \in indexed[c] \/ job[c].block = b

(* The loop works on an item of its block, and of the kind its stage says; *)
(* the bus names events.                                                   *)
EventStages == {"storeByAddress", "storeById", "publish"}
ItemStages  == EventStages \union {"storeTx", "saveInteresting"}
JobOnItem ==
    \A c \in Contracts : LET here == Items[c][job[c].block] IN
        /\ job[c].stage \in ItemStages => job[c].item \in DOMAIN here
        /\ job[c].stage \in EventStages => here[job[c].item] = "event"
        /\ job[c].stage = "storeTx" => here[job[c].item] = "tx"
        /\ job[c].stage = "saveLatest" => job[c].item \notin DOMAIN here
BusOfEvents == \A n \in DOMAIN bus : bus[n] \in EventIds

(* Nothing is ever skipped, and events are handed over in order: what      *)
(* NothingSkipped and ImplementsEventLog need to be inductive.             *)
OrderInv ==
    /\ IndexInOrder /\ ReplayInOrder /\ JobInOrder /\ BusInOrder
    /\ WalkInOrder
    /\ JobOnItem /\ BusOfEvents

(* The records of the item at hand that Index has stored before its stage. *)
StoredSoFar ==
    \A c \in Contracts :
        LET b == job[c].block
            i == job[c].item
        IN /\ job[c].stage \in {"storeById", "publish"} =>
                 Key("ADDRESS_EVENT", c, b, i) \in keys
           /\ job[c].stage = "publish" => Key("EVENT", c, b, i) \in keys
           /\ job[c].stage = "saveInteresting" => ItemStored(c, b, i)

(* Indexed blocks, and the items of the current block already passed, are  *)
(* recorded in full: what RestartRecovers and PublishedIsStored need to be *)
(* inductive.                                                              *)
IndexedRecorded == \A c \in Contracts : \A b \in indexed[c] :
                      BlockRecorded(c, b)
PassedRecorded  == \A c \in Contracts : \A i \in 1..(job[c].item - 1) :
                      ItemRecorded(c, job[c].block, i)
RecordInv ==
    ~StorageFaults =>
        StoredSoFar /\ PublishedIsStored /\ IndexedRecorded /\ PassedRecorded

(* What RegressionIsBounded needs to be inductive.  The restart point is   *)
(* never beyond both what is listed and where the walk is: the block being *)
(* indexed is listed, or it is the walk's and can move the point only on.  *)
Covered(c, b) == \E n \in idx[c].blocks \union {b} : idx[c].latest <= n
WalkLeads ==
    \A c \in Contracts :
        /\ up => Covered(c, cursor[c])
        /\ replay[c] \subseteq idx[c].blocks
        /\ job[c] # Idle =>
              \/ job[c].block \in idx[c].blocks
              \/ job[c].block < cursor[c] /\ Covered(c, job[c].block)
DownIsIdle == ~up => \A c \in Contracts : job[c] = Idle
WalkInv == ~StorageFaults => WalkLeads /\ DownIsIdle

(* What NothingForgotten needs to be inductive.  A block is listed only    *)
(* while it is indexed, and indexed only when it was fetched from storage, *)
(* so that the replay finds every block it is given (ReplaySkip).          *)
ListedStored ==
    ~StorageFaults =>
        \A c \in Contracts :
            /\ idx[c].blocks \union replay[c] \subseteq blockStore
            /\ job[c] # Idle => job[c].block \in blockStore
=============================================================================
