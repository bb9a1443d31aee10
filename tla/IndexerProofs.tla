--------------------------- MODULE IndexerProofs ---------------------------
(***************************************************************************)
(* Proofs about module Indexer, for any set of contracts, any chain and    *)
(* contents, any number of crashes, and storage calls that may fail.       *)
(***************************************************************************)
EXTENDS Indexer, TLAPS

USE ChainAssumption, BoundsAssumption DEF ChainAssumption, BoundsAssumption

---------------------------------------------------------------------------
(* Type correctness.                                                       *)

LEMMA CallSucceedsType == CallSucceeds \subseteq BOOLEAN
  BY DEF CallSucceeds

(* What getContractIdx returns is always a usable index.                   *)
LEMMA LoadedType ==
  ASSUME TypeOK, NEW c \in Contracts, NEW b \in Block, NEW ok \in BOOLEAN
  PROVE  GetContractIdx(c, b, ok) \in [blocks : SUBSET Block, latest : Block]
  BY DEF TypeOK, GetContractIdx, ContractIndex, NoIndex

LEMMA AtItemType ==
  ASSUME NEW c \in Contracts, NEW b \in Block, NEW i \in Nat \ {0}
  PROVE  AtItem(c, b, i) \in AnyJob
  BY DEF AtItem, AnyJob, Stages

(* A loop that is at some stage of Index works on a block of the chain.    *)
LEMMA BusyJob ==
  ASSUME TypeOK, NEW c \in Contracts, job[c].stage \in Stages
  PROVE  job[c] \in AnyJob
  BY DEF TypeOK, Idle, Stages, AnyJob

LEMMA TypeInit == Init => TypeOK
<1> SUFFICES ASSUME Init PROVE TypeOK
  OBVIOUS
<1>1. idx \in [Contracts -> ContractIndex]
  BY DEF Init, ContractIndex
<1>2. bus \in Seq(AnyId)
  BY DEF Init
<1>3. cursor \in [Contracts -> StartBlock..(MaxBlock + 1)]
  BY DEF Init
<1>4. retries \in [Contracts -> 0..(RetryLimit + 1)] /\ crashes \in 0..MaxCrashes
  BY DEF Init
<1> QED
  BY <1>1, <1>2, <1>3, <1>4 DEF Init, TypeOK

LEMMA TypeNext == TypeOK /\ [Next]_vars => TypeOK'
<1> SUFFICES ASSUME TypeOK, [Next]_vars PROVE TypeOK'
  OBVIOUS
<1>1. CASE Boot
  <2>1. PICK readOk \in [Contracts -> CallSucceeds] :
          LET loaded == [c \in Contracts |->
                           GetContractIdx(c, StartBlock, readOk[c])]
          IN /\ replay' = [c \in Contracts |-> ReplayList(loaded[c])]
             /\ cursor' = [c \in Contracts |-> ResumeAt(loaded[c].latest)]
    BY <1>1 DEF Boot
  <2>2. \A c \in Contracts : GetContractIdx(c, StartBlock, readOk[c])
                               \in [blocks : SUBSET Block, latest : Block]
    BY LoadedType, CallSucceedsType DEF Block
  <2>3. replay' \in [Contracts -> SUBSET Block]
    BY <2>1, <2>2 DEF ReplayList
  <2>4. cursor' \in [Contracts -> StartBlock..(MaxBlock + 1)]
    BY <2>1, <2>2 DEF ResumeAt, Block
  <2> QED
    BY <1>1, <2>3, <2>4 DEF Boot, TypeOK, durable, history
<1>2. CASE Dispatch
  <2>1. bus' \in Seq(AnyId)
    BY <1>2 DEF Dispatch, TypeOK
  <2>2. Head(bus) \in AnyId
    BY <1>2 DEF Dispatch, TypeOK
  <2>3. dispatched' \subseteq AnyId
    BY <1>2, <2>2 DEF Dispatch, TypeOK
  <2> QED
    BY <1>2, <2>1, <2>3 DEF Dispatch, TypeOK, durable
<1>3. ASSUME NEW c \in Contracts, IndexStep(c) PROVE TypeOK'
  <2>1. job[c] \in AnyJob
    BY <1>3, BusyJob DEF IndexStep, StoreTx, StoreEventByAddress,
       StoreEventById, Publish, SaveInteresting, SaveLatest, At, Stages
  <2>2. \A space \in Spaces :
          Key(space, c, job[c].block, job[c].item)
            \in AnyKey
    BY <2>1 DEF Key, AnyJob, AnyKey
  <2>3. \A stage \in Stages :
          [job EXCEPT ![c].stage = stage]
            \in [Contracts -> AnyJob \union {Idle}]
    BY <2>1 DEF AnyJob, TypeOK
  <2>4. AtItem(c, job[c].block, job[c].item + 1) \in AnyJob
    <3>1. job[c].block \in Block /\ job[c].item + 1 \in Nat \ {0}
      BY <2>1 DEF AnyJob
    <3> QED
      BY <3>1, AtItemType
  <2>5. CASE StoreTx(c)
    <3>1. keys' \subseteq AnyKey
      BY <2>5, <2>2 DEF StoreTx, TypeOK, Put, Spaces
    <3>2. job' \in [Contracts -> AnyJob \union {Idle}]
      BY <2>5, <2>3 DEF StoreTx, Move, Stages
    <3> QED
      BY <2>5, <3>1, <3>2 DEF StoreTx, TypeOK, history
  <2>6. CASE StoreEventByAddress(c)
    <3>1. keys' \subseteq AnyKey
      BY <2>6, <2>2 DEF StoreEventByAddress, TypeOK, Put, Spaces
    <3>2. job' \in [Contracts -> AnyJob \union {Idle}]
      BY <2>6, <2>3 DEF StoreEventByAddress, Move, Stages
    <3> QED
      BY <2>6, <3>1, <3>2 DEF StoreEventByAddress, TypeOK, history
  <2>7. CASE StoreEventById(c)
    <3>1. keys' \subseteq AnyKey
      BY <2>7, <2>2 DEF StoreEventById, TypeOK, Put, Spaces
    <3>2. job' \in [Contracts -> AnyJob \union {Idle}]
      BY <2>7, <2>3 DEF StoreEventById, Move, Stages
    <3> QED
      BY <2>7, <3>1, <3>2 DEF StoreEventById, TypeOK, history
  <2>8. CASE Publish(c)
    <3>1. Id(c, job[c].block, job[c].item) \in AnyId
      BY <2>1 DEF Id, AnyJob, AnyId
    <3>2. bus' \in Seq(AnyId)
      BY <2>8, <3>1 DEF Publish, TypeOK
    <3> QED
      BY <2>8, <3>2, <2>3 DEF Publish, TypeOK, Move, Stages, durable, history
  <2>9. CASE SaveInteresting(c)
    <3>1. PICK readOk, writeOk \in CallSucceeds :
            idx' = IF writeOk
                     THEN [idx EXCEPT ![c] =
                            [GetContractIdx(c, job[c].block, readOk)
                               EXCEPT !.blocks = @ \union {job[c].block}]]
                     ELSE idx
      BY <2>9 DEF SaveInteresting
    <3>2. GetContractIdx(c, job[c].block, readOk)
            \in [blocks : SUBSET Block, latest : Block]
      BY <2>1, LoadedType, CallSucceedsType DEF AnyJob
    <3>3. idx' \in [Contracts -> ContractIndex]
      BY <3>1, <3>2, <2>1 DEF TypeOK, ContractIndex, AnyJob
    <3> QED
      BY <2>9, <3>3, <2>4 DEF SaveInteresting, TypeOK, AnyJob, history
  <2>10. CASE SaveLatest(c)
    <3>1. PICK readOk, writeOk \in CallSucceeds, m \in Block :
            idx' = IF writeOk
                     THEN [idx EXCEPT ![c] =
                            [GetContractIdx(c, job[c].block, readOk)
                               EXCEPT !.latest = m]]
                     ELSE idx
      BY <2>10 DEF SaveLatest
    <3>2. GetContractIdx(c, job[c].block, readOk)
            \in [blocks : SUBSET Block, latest : Block]
      BY <2>1, LoadedType, CallSucceedsType DEF AnyJob
    <3>3. idx' \in [Contracts -> ContractIndex]
      BY <3>1, <3>2, <2>1 DEF TypeOK, ContractIndex, AnyJob
    <3> QED
      BY <2>10, <3>3, <2>1 DEF SaveLatest, TypeOK, AnyJob
  <2> QED
    BY <1>3, <2>5, <2>6, <2>7, <2>8, <2>9, <2>10 DEF IndexStep
<1>4. ASSUME NEW c \in Contracts, ScanDeliver(c) PROVE TypeOK'
  <2>1. AtItem(c, cursor[c], 1) \in AnyJob /\ cursor[c] \in Block
    BY <1>4, AtItemType DEF ScanDeliver, TypeOK
  <2>2. cursor' \in [Contracts -> StartBlock..(MaxBlock + 1)]
    BY <1>4, <2>1 DEF ScanDeliver, TypeOK, Block
  <2> QED
    BY <1>4, <2>1, <2>2 DEF ScanDeliver, TypeOK, durable, history
<1>5. ASSUME NEW c \in Contracts, NEW synced \in BOOLEAN, ScanMiss(c, synced)
      PROVE  TypeOK'
  <2>1. retries' \in [Contracts -> 0..(RetryLimit + 1)]
    BY <1>5 DEF ScanMiss, TypeOK, NextRetries, MustSync
  <2>2. blockStore' \subseteq Block
    BY <1>5 DEF ScanMiss, TypeOK, GatewayServes
  <2> QED
    BY <1>5, <2>1, <2>2 DEF ScanMiss, TypeOK, history
<1>6. ASSUME NEW c \in Contracts, ReplayDeliver(c) PROVE TypeOK'
  <2>1. PICK b \in replay[c] \intersect blockStore :
          /\ job' = [job EXCEPT ![c] = AtItem(c, b, 1)]
          /\ replay' = [replay EXCEPT ![c] = @ \ {b}]
    BY <1>6 DEF ReplayDeliver
  <2>2. AtItem(c, b, 1) \in AnyJob
    BY AtItemType DEF TypeOK
  <2> QED
    BY <1>6, <2>1, <2>2 DEF ReplayDeliver, TypeOK, durable, history, AnyJob
<1>7. ASSUME NEW c \in Contracts, ReplaySkip(c) PROVE TypeOK'
  BY <1>7 DEF ReplaySkip, TypeOK, durable, history
<1>8. CASE Crash
  <2>1. cursor' \in [Contracts -> StartBlock..(MaxBlock + 1)]
    BY <1>8 DEF Crash
  <2>2. retries' \in [Contracts -> 0..(RetryLimit + 1)]
    BY <1>8 DEF Crash
  <2>3. bus' \in Seq(AnyId)
    BY <1>8 DEF Crash
  <2>4. crashes' \in 0..MaxCrashes
    BY <1>8 DEF Crash, TypeOK
  <2> QED
    BY <1>8, <2>1, <2>2, <2>3, <2>4 DEF Crash, TypeOK, durable
<1>9. CASE BlockStored
  BY <1>9 DEF BlockStored, TypeOK, volatile, history
<1>10. CASE UNCHANGED vars
  BY <1>10 DEF vars, TypeOK
<1> QED
  BY <1>1, <1>2, <1>3, <1>4, <1>5, <1>6, <1>7, <1>8, <1>9, <1>10
     DEF Next, Process, ScanStep, ReplayStep

(* Every variable keeps its shape, whatever crashes and storage calls fail.*)
THEOREM TypeCorrect == Spec => []TypeOK
  BY TypeInit, TypeNext, PTL DEF Spec

---------------------------------------------------------------------------
(* Nothing is skipped, and events are handed over in order.                *)

(* The index an Index call works with lists only blocks all of whose       *)
(* predecessors are indexed, provided the block at hand is such a block.   *)
LEMMA LoadedInOrder ==
  ASSUME TypeOK, IndexInOrder, NEW c \in Contracts, NEW b \in Block,
         NEW ok \in BOOLEAN, Below(c, b)
  PROVE  LET old == GetContractIdx(c, b, ok)
         IN  \A x \in old.blocks \union {old.latest} : Below(c, x)
  BY DEF GetContractIdx, IndexInOrder

(* Nothing is below the first block.                                       *)
LEMMA FirstBelow ==
  ASSUME TypeOK, NEW c \in Contracts
  PROVE  Below(c, StartBlock)
  BY DEF Below

(* When Index starts on a block it is at the first item, if there is one.  *)
LEMMA AtItemOnItem ==
  ASSUME NEW c \in Contracts, NEW b \in Block, NEW i \in Nat \ {0}
  PROVE  LET j == AtItem(c, b, i) IN
           /\ j.block = b /\ j.item = i
           /\ j.stage \in ItemStages => i \in DOMAIN Items[c][b]
           /\ j.stage \in EventStages => Items[c][b][i] = "event"
           /\ j.stage = "storeTx" => Items[c][b][i] = "tx"
           /\ j.stage = "saveLatest" => i \notin DOMAIN Items[c][b]
<1>1. i \in DOMAIN Items[c][b] => Items[c][b][i] \in {"tx", "event"}
  BY ItemsAssumption DEF ItemsAssumption
<1> QED
  BY <1>1 DEF AtItem, ItemStages, EventStages

LEMMA EventIdsMember ==
  ASSUME NEW c \in Contracts, NEW b \in Block, NEW i \in DOMAIN Items[c][b],
         Items[c][b][i] = "event"
  PROVE  Id(c, b, i) \in EventIds
  BY DEF EventIds, ItemIds, Id

LEMMA OrderInit == Init => OrderInv
<1> SUFFICES ASSUME Init PROVE OrderInv
  OBVIOUS
<1>1. IndexInOrder /\ ReplayInOrder /\ JobInOrder
  BY DEF Init, IndexInOrder, ReplayInOrder, JobInOrder, Below, NoIndex, Idle
<1>2. BusInOrder /\ BusOfEvents
  BY DEF Init, BusInOrder, BusOfEvents
<1>3. WalkInOrder
  BY DEF Init, WalkInOrder
<1>4. JobOnItem
  BY DEF Init, JobOnItem, Idle, EventStages, ItemStages
<1> QED
  BY <1>1, <1>2, <1>3, <1>4 DEF OrderInv

(* A step that takes on block b, all of whose predecessors are indexed,    *)
(* for an idle loop keeps the loop in order and on its item.               *)
LEMMA TakeInOrder ==
  ASSUME TypeOK, OrderInv, NEW c \in Contracts, NEW b \in Block, Below(c, b),
         job' = [job EXCEPT ![c] = AtItem(c, b, 1)], UNCHANGED indexed
  PROVE  JobInOrder' /\ JobOnItem'
<1>1. \A d \in Contracts : job'[d] = IF d = c THEN AtItem(c, b, 1) ELSE job[d]
  BY DEF TypeOK
<1>2. JobInOrder'
  BY <1>1, AtItemOnItem DEF JobInOrder, OrderInv, Below
<1>3. JobOnItem'
  BY <1>1, AtItemOnItem DEF JobOnItem, OrderInv
<1> QED
  BY <1>2, <1>3

(* A step of Index that keeps the block at hand, and what is indexed, only *)
(* has to account for the item it moves to.                                *)
LEMMA StepInOrder ==
  ASSUME TypeOK, OrderInv, NEW c \in Contracts, NEW j \in AnyJob,
         j.block = job[c].block,
         job' = [job EXCEPT ![c] = j],
         UNCHANGED <<indexed, cursor, replay>>
  PROVE  JobInOrder' /\ WalkInOrder' /\ ReplayInOrder'
<1>1. \A d \in Contracts : job'[d].block = job[d].block
  BY DEF TypeOK
<1> QED
  BY <1>1 DEF OrderInv, JobInOrder, WalkInOrder, ReplayInOrder, Below

LEMMA OrderNext == TypeOK /\ OrderInv /\ [Next]_vars => OrderInv'
<1> SUFFICES ASSUME TypeOK, OrderInv, [Next]_vars PROVE OrderInv'
  OBVIOUS
<1>1. CASE Boot
  <2>1. PICK readOk \in [Contracts -> CallSucceeds] :
          LET loaded == [c \in Contracts |->
                           GetContractIdx(c, StartBlock, readOk[c])]
          IN /\ replay' = [c \in Contracts |-> ReplayList(loaded[c])]
             /\ cursor' = [c \in Contracts |-> ResumeAt(loaded[c].latest)]
    BY <1>1 DEF Boot
  <2> DEFINE L(c) == GetContractIdx(c, StartBlock, readOk[c])
  <2>2. \A c \in Contracts :
          /\ L(c) \in [blocks : SUBSET Block, latest : Block]
          /\ \A b \in L(c).blocks \union {L(c).latest} : Below(c, b)
    BY LoadedType, LoadedInOrder, FirstBelow, CallSucceedsType
       DEF Block, OrderInv
  <2>3. ReplayInOrder'
    BY <1>1, <2>1, <2>2 DEF Boot, ReplayInOrder, ReplayList, Below, history
  <2>4. WalkInOrder'
    <3> SUFFICES ASSUME NEW c \in Contracts,
                        NEW b \in StartBlock..(cursor'[c] - 1)
                 PROVE  b \in indexed'[c]
      BY DEF WalkInOrder
    <3>1. cursor'[c] = ResumeAt(L(c).latest)
      BY <2>1
    <3>2. b \in StartBlock..(L(c).latest - 1)
      BY <3>1, <2>2 DEF ResumeAt, Block
    <3> QED
      BY <3>2, <2>2, <1>1 DEF Below, Boot, history
  <2> QED
    BY <1>1, <2>3, <2>4 DEF Boot, OrderInv, IndexInOrder, JobInOrder,
       BusInOrder, JobOnItem, BusOfEvents, Below, durable, history
<1>2. CASE Dispatch
  <2>1. \A n \in DOMAIN bus' : n + 1 \in DOMAIN bus /\ bus'[n] = bus[n + 1]
    BY <1>2 DEF Dispatch, TypeOK
  <2>2. BusInOrder' /\ BusOfEvents'
    BY <1>2, <2>1 DEF OrderInv, BusInOrder, BusOfEvents, Below, Dispatch
  <2> QED
    BY <1>2, <2>2 DEF Dispatch, OrderInv, IndexInOrder, ReplayInOrder,
       JobInOrder, WalkInOrder, JobOnItem, Below, durable
<1>3. ASSUME NEW c \in Contracts, IndexStep(c) PROVE OrderInv'
  <2> DEFINE b == job[c].block
             i == job[c].item
             here == Items[c][b]
  <2>1. job[c] \in AnyJob /\ Below(c, b)
    BY <1>3, BusyJob DEF IndexStep, StoreTx, StoreEventByAddress,
       StoreEventById, Publish, SaveInteresting, SaveLatest, At, Stages,
       OrderInv, JobInOrder
  <2>2. CASE StoreTx(c) \/ StoreEventByAddress(c) \/ StoreEventById(c)
    <3>1. PICK stage \in {"saveInteresting", "storeById", "publish"} :
            /\ job' = [job EXCEPT ![c].stage = stage]
            /\ i \in DOMAIN here
            /\ stage \in EventStages => here[i] = "event"
      BY <2>2 DEF StoreTx, StoreEventByAddress, StoreEventById, At, Move,
         OrderInv, JobOnItem, ItemStages, EventStages
    <3>2. UNCHANGED <<idx, cursor, replay, bus, indexed>>
      BY <2>2 DEF StoreTx, StoreEventByAddress, StoreEventById, history
    <3> DEFINE j == [job[c] EXCEPT !.stage = stage]
    <3>3. j \in AnyJob /\ j.block = b /\ job' = [job EXCEPT ![c] = j]
      BY <3>1, <2>1 DEF AnyJob, Stages, TypeOK
    <3>4. JobInOrder' /\ WalkInOrder' /\ ReplayInOrder'
      BY <3>2, <3>3, StepInOrder
    <3>5. JobOnItem'
      BY <3>1, <2>1 DEF OrderInv, JobOnItem, ItemStages, EventStages, TypeOK,
         AnyJob
    <3> QED
      BY <3>2, <3>4, <3>5 DEF OrderInv, IndexInOrder, BusInOrder, BusOfEvents,
         Below
  <2>3. CASE Publish(c)
    <3>1. i \in DOMAIN here /\ here[i] = "event"
      BY <2>3 DEF Publish, At, OrderInv, JobOnItem, ItemStages, EventStages
    <3>2. UNCHANGED <<idx, cursor, replay, indexed>>
      BY <2>3 DEF Publish, durable, history
    <3> DEFINE j == [job[c] EXCEPT !.stage = "saveInteresting"]
    <3>3. j \in AnyJob /\ j.block = b /\ job' = [job EXCEPT ![c] = j]
      BY <2>3, <2>1 DEF Publish, Move, AnyJob, Stages, TypeOK
    <3>4. JobInOrder' /\ WalkInOrder' /\ ReplayInOrder'
      BY <3>2, <3>3, StepInOrder
    <3>5. JobOnItem'
      BY <2>3, <3>1, <2>1 DEF Publish, Move, OrderInv, JobOnItem, ItemStages,
         EventStages, TypeOK, AnyJob
    <3>6. Id(c, b, i) \in EventIds
      BY <3>1, <2>1, EventIdsMember DEF AnyJob
    <3>7. \A n \in DOMAIN bus' : bus'[n] = Id(c, b, i)
                                 \/ (n \in DOMAIN bus /\ bus'[n] = bus[n])
      BY <2>3 DEF Publish, TypeOK
    <3>8. BusOfEvents'
      BY <3>6, <3>7 DEF OrderInv, BusOfEvents
    <3>9. BusInOrder'
      BY <3>2, <3>7, <2>1 DEF OrderInv, BusInOrder, Below, Id
    <3> QED
      BY <3>2, <3>4, <3>5, <3>8, <3>9 DEF OrderInv, IndexInOrder, Below
  <2>4. CASE SaveInteresting(c)
    <3>1. PICK readOk, writeOk \in CallSucceeds :
            idx' = IF writeOk
                     THEN [idx EXCEPT ![c] =
                            [GetContractIdx(c, b, readOk)
                               EXCEPT !.blocks = @ \union {b}]]
                     ELSE idx
      BY <2>4 DEF SaveInteresting
    <3> DEFINE old == GetContractIdx(c, b, readOk)
    <3>2. /\ old \in [blocks : SUBSET Block, latest : Block]
          /\ \A x \in old.blocks \union {old.latest} : Below(c, x)
      BY <2>1, LoadedType, LoadedInOrder, CallSucceedsType
         DEF AnyJob, OrderInv
    <3>3. UNCHANGED <<cursor, replay, bus, indexed>>
      BY <2>4 DEF SaveInteresting, history
    <3>4. IndexInOrder'
      <4>1. \A d \in Contracts : \/ idx'[d] = idx[d]
                                \/ /\ d = c
                                   /\ idx'[d].blocks = old.blocks \union {b}
                                   /\ idx'[d].latest = old.latest
        BY <3>1, <3>2 DEF TypeOK
      <4>2. Below(c, b)
        BY <2>1
      <4> HIDE DEF old
      <4>3. \A d \in Contracts :
               \A x \in idx'[d].blocks \union {idx'[d].latest} : Below(d, x)
        BY <3>2, <4>1, <4>2 DEF OrderInv, IndexInOrder
      <4> QED
        BY <3>3, <4>3 DEF IndexInOrder, Below
    <3>5. /\ job' = [job EXCEPT ![c] = AtItem(c, b, i + 1)]
          /\ i + 1 \in Nat \ {0} /\ b \in Block
      <4>1. job' = [job EXCEPT ![c] = AtItem(c, b, i + 1)]
        BY <2>4 DEF SaveInteresting
      <4>2. i + 1 \in Nat \ {0} /\ b \in Block
        BY <2>1 DEF AnyJob
      <4> QED
        BY <4>1, <4>2
    <3>6. AtItem(c, b, i + 1) \in AnyJob /\ AtItem(c, b, i + 1).block = b
      BY <3>5, AtItemType, AtItemOnItem
    <3>7. JobInOrder' /\ WalkInOrder' /\ ReplayInOrder'
      BY <3>3, <3>5, <3>6, StepInOrder
    <3>8. \A d \in Contracts :
            job'[d] = IF d = c THEN AtItem(c, b, i + 1) ELSE job[d]
      BY <3>5 DEF TypeOK
    <3>9. JobOnItem'
      <4> DEFINE j    == AtItem(c, b, i + 1)
                 next == Items[c][j.block]
      <4>0. j.block = b /\ j.item = i + 1
        BY <3>5, AtItemOnItem
      <4>1. /\ j.stage \in ItemStages => j.item \in DOMAIN next
            /\ j.stage \in EventStages => next[j.item] = "event"
            /\ j.stage = "storeTx" => next[j.item] = "tx"
            /\ j.stage = "saveLatest" => j.item \notin DOMAIN next
        <5>1. /\ j.stage \in ItemStages => (i + 1) \in DOMAIN Items[c][b]
              /\ j.stage \in EventStages => Items[c][b][i + 1] = "event"
              /\ j.stage = "storeTx" => Items[c][b][i + 1] = "tx"
              /\ j.stage = "saveLatest" => (i + 1) \notin DOMAIN Items[c][b]
          BY <3>5, AtItemOnItem
        <5> HIDE DEF j
        <5> QED
          BY <4>0, <5>1
      <4>2. job'[c] = j /\ \A d \in Contracts \ {c} : job'[d] = job[d]
        BY <3>8
      <4> HIDE DEF j
      <4> QED
        BY <4>1, <4>2 DEF OrderInv, JobOnItem
    <3> QED
      BY <3>3, <3>4, <3>7, <3>9 DEF OrderInv, BusInOrder, BusOfEvents, Below
  <2>5. CASE SaveLatest(c)
    <3>1. PICK readOk, writeOk \in CallSucceeds, m \in Block :
            /\ IsLatest(m, GetContractIdx(c, b, readOk).blocks, b)
            /\ idx' = IF writeOk
                        THEN [idx EXCEPT ![c] =
                               [GetContractIdx(c, b, readOk)
                                  EXCEPT !.latest = m]]
                        ELSE idx
      BY <2>5 DEF SaveLatest
    <3> DEFINE old == GetContractIdx(c, b, readOk)
    <3>2. /\ old \in [blocks : SUBSET Block, latest : Block]
          /\ \A x \in old.blocks \union {old.latest} : Below(c, x)
      BY <2>1, LoadedType, LoadedInOrder, CallSucceedsType
         DEF AnyJob, OrderInv
    <3>3. Below(c, m)
      BY <3>1, <3>2, <2>1 DEF IsLatest, IsMax
    <3>4. \A d \in Contracts : indexed[d] \subseteq indexed'[d]
      BY <2>5 DEF SaveLatest, TypeOK
    <3>5. \A d \in Contracts : \A x : Below(d, x) => Below(d, x)'
      BY <3>4 DEF Below
    <3>6. \A d \in Contracts :
            /\ job'[d] = IF d = c THEN Idle ELSE job[d]
            /\ d = c => indexed'[d] = indexed[d] \union {b}
      BY <2>5 DEF SaveLatest, TypeOK
    <3>7. UNCHANGED <<cursor, replay, bus>>
      BY <2>5 DEF SaveLatest
    <3>8. IndexInOrder'
      BY <3>1, <3>2, <3>3, <3>5 DEF OrderInv, IndexInOrder, TypeOK
    <3>9. ReplayInOrder'
      BY <3>5, <3>7 DEF OrderInv, ReplayInOrder
    <3>10. JobInOrder'
      BY <3>5, <3>6 DEF OrderInv, JobInOrder, Idle, Below
    <3>11. BusInOrder' /\ BusOfEvents'
      <4>1. \A n \in DOMAIN bus : bus[n][1] \in Contracts
        BY DEF TypeOK, AnyId
      <4> QED
        BY <4>1, <3>5, <3>7 DEF OrderInv, BusInOrder, BusOfEvents
    <3>12. WalkInOrder'
      BY <3>4, <3>6, <3>7 DEF OrderInv, WalkInOrder
    <3>13. JobOnItem'
      BY <3>6 DEF OrderInv, JobOnItem, Idle, ItemStages, EventStages
    <3> QED
      BY <3>8, <3>9, <3>10, <3>11, <3>12, <3>13 DEF OrderInv
  <2> QED
    BY <1>3, <2>2, <2>3, <2>4, <2>5 DEF IndexStep
<1>4. ASSUME NEW c \in Contracts, ScanDeliver(c) PROVE OrderInv'
  <2>1. /\ job' = [job EXCEPT ![c] = AtItem(c, cursor[c], 1)]
        /\ cursor' = [cursor EXCEPT ![c] = cursor[c] + 1]
        /\ UNCHANGED <<idx, replay, bus, indexed>>
        /\ job[c] = Idle /\ cursor[c] \in Block
    BY <1>4 DEF ScanDeliver, TypeOK, durable, history
  <2>2. Below(c, cursor[c])
    BY <2>1 DEF OrderInv, WalkInOrder, Below, Idle, Block
  <2>3. JobInOrder' /\ JobOnItem'
    BY <2>1, <2>2, TakeInOrder
  <2>4. WalkInOrder'
    <3>1. \A d \in Contracts :
            /\ d = c => job'[d].block = cursor[d]
            /\ d # c => job'[d] = job[d]
            /\ cursor'[d] = IF d = c THEN cursor[d] + 1 ELSE cursor[d]
      BY <2>1, AtItemOnItem DEF TypeOK
    <3> SUFFICES ASSUME NEW d \in Contracts,
                        NEW b \in StartBlock..(cursor'[d] - 1)
                 PROVE  b \in indexed'[d] \/ job'[d].block = b
      BY DEF WalkInOrder
    <3>2. CASE d = c
      <4>1. b \in StartBlock..(cursor[d] - 1) \/ b = cursor[d]
        BY <3>1, <3>2, <2>1 DEF Block
      <4> QED
        BY <4>1, <3>1, <3>2, <2>1, <2>2 DEF Below
    <3>3. CASE d # c
      BY <3>1, <3>3, <2>1 DEF OrderInv, WalkInOrder
    <3> QED
      BY <3>2, <3>3
  <2> QED
    BY <2>1, <2>3, <2>4 DEF OrderInv, IndexInOrder, ReplayInOrder, BusInOrder,
       BusOfEvents, Below
<1>5. ASSUME NEW c \in Contracts, NEW synced \in BOOLEAN, ScanMiss(c, synced)
      PROVE  OrderInv'
  BY <1>5 DEF ScanMiss, OrderInv, IndexInOrder, ReplayInOrder, JobInOrder,
     BusInOrder, WalkInOrder, JobOnItem, BusOfEvents, Below, history
<1>6. ASSUME NEW c \in Contracts, ReplayDeliver(c) PROVE OrderInv'
  <2>1. PICK b \in replay[c] \intersect blockStore :
          /\ job' = [job EXCEPT ![c] = AtItem(c, b, 1)]
          /\ replay' = [replay EXCEPT ![c] = @ \ {b}]
    BY <1>6 DEF ReplayDeliver
  <2>2. job[c] = Idle /\ UNCHANGED <<idx, cursor, bus, indexed>>
    BY <1>6 DEF ReplayDeliver, durable, history
  <2>3. b \in Block /\ Below(c, b)
    BY DEF TypeOK, OrderInv, ReplayInOrder
  <2>4. JobInOrder' /\ JobOnItem'
    BY <2>1, <2>2, <2>3, TakeInOrder
  <2>5. WalkInOrder'
    <3>1. \A d \in Contracts : d # c => job'[d] = job[d]
      BY <2>1 DEF TypeOK
    <3>2. \A x \in StartBlock..(cursor[c] - 1) : x \in indexed[c]
      BY <2>2 DEF OrderInv, WalkInOrder, Idle
    <3> QED
      BY <3>1, <3>2, <2>2 DEF OrderInv, WalkInOrder
  <2>6. ReplayInOrder'
    BY <2>1, <2>2 DEF TypeOK, OrderInv, ReplayInOrder, Below
  <2> QED
    BY <2>2, <2>4, <2>5, <2>6 DEF OrderInv, IndexInOrder, BusInOrder,
       BusOfEvents, Below
<1>7. ASSUME NEW c \in Contracts, ReplaySkip(c) PROVE OrderInv'
  <2>1. PICK b \in replay[c] : replay' = [replay EXCEPT ![c] = @ \ {b}]
    BY <1>7 DEF ReplaySkip
  <2>2. UNCHANGED <<idx, cursor, job, bus, indexed>>
    BY <1>7 DEF ReplaySkip, durable, history
  <2>3. ReplayInOrder'
    BY <2>1, <2>2 DEF TypeOK, OrderInv, ReplayInOrder, Below
  <2> QED
    BY <2>2, <2>3 DEF OrderInv, IndexInOrder, JobInOrder, BusInOrder,
       WalkInOrder, JobOnItem, BusOfEvents, Below
<1>8. CASE Crash
  <2>1. /\ UNCHANGED <<idx, indexed>>
        /\ cursor' = [c \in Contracts |-> StartBlock]
        /\ replay' = [c \in Contracts |-> {}]
        /\ job' = [c \in Contracts |-> Idle]
        /\ bus' = <<>>
    BY <1>8 DEF Crash, durable
  <2>2. JobInOrder' /\ JobOnItem'
    BY <2>1 DEF JobInOrder, JobOnItem, Idle, Below, ItemStages, EventStages
  <2>3. WalkInOrder' /\ ReplayInOrder'
    BY <2>1 DEF WalkInOrder, ReplayInOrder
  <2>4. BusInOrder' /\ BusOfEvents'
    BY <2>1 DEF BusInOrder, BusOfEvents
  <2> QED
    BY <2>1, <2>2, <2>3, <2>4 DEF OrderInv, IndexInOrder, Below
<1>9. CASE BlockStored
  BY <1>9 DEF BlockStored, volatile, history, OrderInv, IndexInOrder,
     ReplayInOrder, JobInOrder, BusInOrder, WalkInOrder, JobOnItem,
     BusOfEvents, Below
<1>10. CASE UNCHANGED vars
  BY <1>10 DEF vars, OrderInv, IndexInOrder, ReplayInOrder, JobInOrder,
     BusInOrder, WalkInOrder, JobOnItem, BusOfEvents, Below
<1> QED
  BY <1>1, <1>2, <1>3, <1>4, <1>5, <1>6, <1>7, <1>8, <1>9, <1>10
     DEF Next, Process, ScanStep, ReplayStep

LEMMA OrderCorrect == Spec => [](TypeOK /\ OrderInv)
  BY TypeInit, TypeNext, OrderInit, OrderNext, PTL DEF Spec

(* No block below the restart point was ever skipped, whatever the         *)
(* interleaving of replay and walk, the crashes and the storage faults.    *)
THEOREM NothingSkippedAlways == Spec => []NothingSkipped
<1>1. TypeOK /\ OrderInv => NothingSkipped
  BY DEF OrderInv, IndexInOrder, NothingSkipped, RestartBlock, GetContractIdx,
     Below
<1> QED
  BY <1>1, OrderCorrect, PTL

---------------------------------------------------------------------------
(* The indexer implements the event log.                                   *)

(* The restart point of every contract is a block with nothing unindexed   *)
(* below it.                                                               *)
RestartIsSafe ==
  \A c \in Contracts : RestartBlock(c) \in Block /\ Below(c, RestartBlock(c))

LEMMA RestartInOrder == TypeOK /\ OrderInv => RestartIsSafe
<1> SUFFICES ASSUME TypeOK, OrderInv, NEW c \in Contracts
             PROVE  RestartBlock(c) \in Block /\ Below(c, RestartBlock(c))
  BY DEF RestartIsSafe
<1>1. CASE idx[c] = NoIndex
  BY <1>1, FirstBelow DEF RestartBlock, GetContractIdx, Block
<1>2. CASE idx[c] # NoIndex
  BY <1>2 DEF RestartBlock, GetContractIdx, OrderInv, IndexInOrder, TypeOK,
     ContractIndex
<1> QED
  BY <1>1, <1>2

LEMMA LogInit == Init => Log!Init
  BY DEF Init, Log!Init, RestartBlock, GetContractIdx

(* A step that leaves the index, the history and the dispatched events     *)
(* alone is not seen in the log.                                           *)
LEMMA LogStutter ==
  ASSUME UNCHANGED <<idx, indexed, dispatched>>
  PROVE  UNCHANGED Log!vars
  BY DEF Log!vars, RestartBlock, GetContractIdx

LEMMA LogNext ==
  ASSUME TypeOK, OrderInv, RestartIsSafe', [Next]_vars
  PROVE  [Log!Next]_(Log!vars)
<1> DEFINE resume == [c \in Contracts |-> RestartBlock(c)]
<1>1. CASE Dispatch
  <2> DEFINE e == Head(bus)
  <2>1. UNCHANGED <<idx, indexed>>
    BY <1>1 DEF Dispatch, durable
  <2>2. dispatched' = dispatched \/ dispatched' = dispatched \union {e}
    BY <1>1 DEF Dispatch
  <2>3. 1 \in DOMAIN bus /\ e = bus[1]
    BY <1>1 DEF Dispatch, TypeOK
  <2>4. e \in EventIds /\ Below(e[1], e[2])
    BY <2>3 DEF OrderInv, BusOfEvents, BusInOrder
  <2>5. CASE dispatched' = dispatched
    BY <2>1, <2>5, LogStutter
  <2>6. CASE dispatched' = dispatched \union {e}
    <3>1. UNCHANGED resume
      BY <2>1 DEF RestartBlock, GetContractIdx
    <3>2. Log!Deliver(e)
      BY <2>1, <2>4, <2>6, <3>1 DEF Log!Deliver, Log!AllBelow, Below
    <3> QED
      BY <2>4, <3>2 DEF Log!Next
  <2> QED
    BY <2>2, <2>5, <2>6
<1>2. ASSUME NEW c \in Contracts, SaveInteresting(c) PROVE Log!Next
  <2>1. \A d \in Contracts \ {c} : idx'[d] = idx[d]
    BY <1>2 DEF SaveInteresting, TypeOK
  <2>2. UNCHANGED <<indexed, dispatched>>
    BY <1>2 DEF SaveInteresting, history
  <2>3. PICK r \in Block : r = RestartBlock(c)' /\ Below(c, r)
    BY <2>2 DEF RestartIsSafe, Below
  <2>4. resume' = [resume EXCEPT ![c] = r]
    BY <2>1, <2>3 DEF RestartBlock, GetContractIdx
  <2>5. Log!Rewind(c)
    BY <2>2, <2>3, <2>4 DEF Log!Rewind, Log!AllBelow, Below, Block
  <2> QED
    BY <2>5 DEF Log!Next
<1>3. ASSUME NEW c \in Contracts, SaveLatest(c) PROVE Log!Next
  <2> DEFINE b == job[c].block
  <2>1. b \in Block /\ Below(c, b)
    BY <1>3, BusyJob DEF SaveLatest, At, Stages, AnyJob, OrderInv, JobInOrder
  <2>2. \A d \in Contracts \ {c} : idx'[d] = idx[d]
    BY <1>3 DEF SaveLatest, TypeOK
  <2>3. /\ UNCHANGED dispatched
        /\ indexed' = [indexed EXCEPT ![c] = @ \union {b}]
    BY <1>3 DEF SaveLatest
  <2>4. PICK r \in Block : /\ r = RestartBlock(c)'
                           /\ StartBlock..(r - 1) \subseteq indexed'[c]
    BY DEF RestartIsSafe, Below
  <2>5. resume' = [resume EXCEPT ![c] = r]
    BY <2>2, <2>4 DEF RestartBlock, GetContractIdx
  <2>6. Log!Finish(c, b)
    BY <2>1, <2>3, <2>4, <2>5 DEF Log!Finish, Log!AllBelow, Below, Block
  <2> QED
    BY <2>1, <2>6 DEF Log!Next, Block
<1>4. ASSUME ~Dispatch,
             \A c \in Contracts : ~SaveInteresting(c) /\ ~SaveLatest(c)
      PROVE  UNCHANGED <<idx, indexed, dispatched>>
  BY <1>4 DEF Next, Process, Boot, Crash, BlockStored, IndexStep, StoreTx,
     StoreEventByAddress, StoreEventById, Publish, ScanStep, ScanDeliver,
     ScanMiss, ReplayStep, ReplayDeliver, ReplaySkip, durable, volatile,
     history, vars
<1> QED
  BY <1>1, <1>2, <1>3, <1>4, LogStutter

(* At every step, faulty storage included, the restart point leaves no     *)
(* unindexed block behind, indexed blocks stay indexed, and an event       *)
(* reaches the dispatcher only after every earlier block was indexed.      *)
THEOREM IndexerImplementsEventLog == Spec => ImplementsEventLog
<1>1. TypeOK /\ OrderInv /\ RestartIsSafe' /\ [Next]_vars
        => [Log!Next]_(Log!vars)
  BY LogNext
<1> QED
  BY <1>1, LogInit, OrderCorrect, RestartInOrder, PTL
     DEF Spec, ImplementsEventLog, Log!Spec

---------------------------------------------------------------------------
(* While storage calls succeed, what is indexed is recorded.               *)

LEMMA NoFaults == ~StorageFaults => \A ok \in CallSucceeds : ok = TRUE
  BY DEF CallSucceeds

(* No step removes a record or takes a block off the list to replay.       *)
RecordsGrow == /\ keys \subseteq keys'
               /\ \A c \in Contracts : idx[c].blocks \subseteq idx'[c].blocks

LEMMA LoadedBlocks ==
  ASSUME NEW c \in Contracts, NEW b \in Block
  PROVE  GetContractIdx(c, b, TRUE).blocks = idx[c].blocks
  BY DEF GetContractIdx, NoIndex

LEMMA RecordsNeverShrink ==
  ASSUME ~StorageFaults, TypeOK, [Next]_vars
  PROVE  RecordsGrow
<1>1. ASSUME NEW c \in Contracts,
             StoreTx(c) \/ StoreEventByAddress(c) \/ StoreEventById(c)
      PROVE  RecordsGrow
  BY <1>1 DEF StoreTx, StoreEventByAddress, StoreEventById, Put, RecordsGrow
<1>2. ASSUME NEW c \in Contracts, SaveInteresting(c) PROVE RecordsGrow
  <2>1. job[c] \in AnyJob
    BY <1>2, BusyJob DEF SaveInteresting, At, Stages
  <2> DEFINE b == job[c].block
  <2>2. idx' = [idx EXCEPT ![c] = [GetContractIdx(c, b, TRUE)
                                     EXCEPT !.blocks = @ \union {b}]]
    <3>1. PICK readOk, writeOk \in CallSucceeds :
            idx' = IF writeOk
                     THEN [idx EXCEPT ![c] = [GetContractIdx(c, b, readOk)
                                               EXCEPT !.blocks = @ \union {b}]]
                     ELSE idx
      BY <1>2 DEF SaveInteresting
    <3>2. readOk = TRUE /\ writeOk = TRUE
      BY NoFaults
    <3> QED
      BY <3>1, <3>2
  <2>3. GetContractIdx(c, b, TRUE) \in [blocks : SUBSET Block, latest : Block]
    BY <2>1, LoadedType DEF AnyJob
  <2>4. idx'[c].blocks = idx[c].blocks \union {b}
    BY <2>1, <2>2, <2>3, LoadedBlocks DEF AnyJob, TypeOK
  <2>5. \A d \in Contracts : d # c => idx'[d] = idx[d]
    BY <2>2 DEF TypeOK
  <2> QED
    BY <1>2, <2>4, <2>5 DEF SaveInteresting, RecordsGrow
<1>3. ASSUME NEW c \in Contracts, SaveLatest(c) PROVE RecordsGrow
  <2>1. job[c] \in AnyJob
    BY <1>3, BusyJob DEF SaveLatest, At, Stages
  <2> DEFINE b == job[c].block
  <2>2. PICK m \in Block :
          idx' = [idx EXCEPT ![c] = [GetContractIdx(c, b, TRUE)
                                       EXCEPT !.latest = m]]
    <3>1. PICK readOk, writeOk \in CallSucceeds, m \in Block :
            idx' = IF writeOk
                     THEN [idx EXCEPT ![c] = [GetContractIdx(c, b, readOk)
                                               EXCEPT !.latest = m]]
                     ELSE idx
      BY <1>3 DEF SaveLatest
    <3>2. readOk = TRUE /\ writeOk = TRUE
      BY NoFaults
    <3> QED
      BY <3>1, <3>2
  <2>3. GetContractIdx(c, b, TRUE) \in [blocks : SUBSET Block, latest : Block]
    BY <2>1, LoadedType DEF AnyJob
  <2>4. idx'[c].blocks = idx[c].blocks
    BY <2>1, <2>2, <2>3, LoadedBlocks DEF AnyJob, TypeOK
  <2>5. \A d \in Contracts : d # c => idx'[d] = idx[d]
    BY <2>2 DEF TypeOK
  <2> QED
    BY <1>3, <2>4, <2>5 DEF SaveLatest, RecordsGrow
<1>4. ASSUME \A c \in Contracts :
               /\ ~StoreTx(c) /\ ~StoreEventByAddress(c) /\ ~StoreEventById(c)
               /\ ~SaveInteresting(c) /\ ~SaveLatest(c)
      PROVE  UNCHANGED <<keys, idx>>
  BY <1>4 DEF Next, Process, Boot, Dispatch, Crash, BlockStored, IndexStep,
     Publish, ScanStep, ScanDeliver, ScanMiss, ReplayStep, ReplayDeliver,
     ReplaySkip, durable, volatile, vars
<1> QED
  BY <1>1, <1>2, <1>3, <1>4 DEF RecordsGrow

LEMMA RecordedStays ==
  ASSUME RecordsGrow, NEW c \in Contracts, NEW b, NEW i
  PROVE  /\ ItemStored(c, b, i) => ItemStored(c, b, i)'
         /\ ItemRecorded(c, b, i) => ItemRecorded(c, b, i)'
  BY DEF RecordsGrow, ItemStored, ItemRecorded

LEMMA RecordInit == Init => RecordInv
<1> SUFFICES ASSUME Init PROVE RecordInv
  OBVIOUS
<1>1. StoredSoFar /\ PassedRecorded
  BY DEF Init, StoredSoFar, PassedRecorded, Idle
<1>2. PublishedIsStored /\ IndexedRecorded
  BY DEF Init, PublishedIsStored, IndexedRecorded
<1> QED
  BY <1>1, <1>2 DEF RecordInv

(* A loop that is idle, or has just turned to an item, has no record of    *)
(* that item to account for.                                               *)
LEMMA FreshJob ==
  ASSUME TypeOK, StoredSoFar, RecordsGrow, NEW c \in Contracts, NEW j,
         j = Idle \/ \E b \in Block, i \in Nat \ {0} : j = AtItem(c, b, i),
         job' = [job EXCEPT ![c] = j]
  PROVE  StoredSoFar'
<1>1. j.stage \notin {"storeById", "publish", "saveInteresting"}
  BY DEF Idle, AtItem
<1>2. \A d \in Contracts : job'[d] = IF d = c THEN j ELSE job[d]
  BY DEF TypeOK
<1> QED
  BY <1>1, <1>2, RecordedStays DEF StoredSoFar, RecordsGrow

LEMMA StoreOk ==
  ASSUME ~StorageFaults, NEW k, \E ok \in CallSucceeds : keys' = Put(k, ok)
  PROVE  keys' = keys \union {k}
<1>1. PICK ok \in CallSucceeds : keys' = Put(k, ok)
  OBVIOUS
<1>2. ok = TRUE
  BY NoFaults
<1> QED
  BY <1>1, <1>2 DEF Put

(* Storing the records of the item at hand, one key at a time.             *)
LEMMA StoreRecords ==
  ASSUME ~StorageFaults, TypeOK, OrderInv, StoredSoFar, RecordsGrow,
         NEW c \in Contracts,
         \/ StoreTx(c) \/ StoreEventByAddress(c) \/ StoreEventById(c)
         \/ Publish(c)
  PROVE  StoredSoFar' /\ \A d \in Contracts : /\ job'[d].block = job[d].block
                                             /\ job'[d].item = job[d].item
<1> DEFINE b == job[c].block
           i == job[c].item
<1>1. job[c] \in AnyJob
  BY BusyJob DEF StoreTx, StoreEventByAddress, StoreEventById, Publish, At,
     Stages
<1>2. PICK stage \in {"saveInteresting", "storeById", "publish"} :
        job' = [job EXCEPT ![c].stage = stage]
  BY DEF StoreTx, StoreEventByAddress, StoreEventById, Publish, Move
<1>3. \A d \in Contracts :
        /\ d # c => job'[d] = job[d]
        /\ job'[d].block = job[d].block /\ job'[d].item = job[d].item
  BY <1>1, <1>2 DEF TypeOK, AnyJob
<1>4. /\ job'[c].stage \in {"storeById", "publish"} =>
           Key("ADDRESS_EVENT", c, b, i) \in keys'
      /\ job'[c].stage = "publish" => Key("EVENT", c, b, i) \in keys'
      /\ job'[c].stage = "saveInteresting" => ItemStored(c, b, i)'
  <2>1. CASE StoreTx(c)
    <3>1. keys' = keys \union {Key("TX", c, b, i)}
      BY <2>1, StoreOk DEF StoreTx
    <3>2. job'[c].stage = "saveInteresting" /\ Items[c][b][i] = "tx"
      BY <2>1, <1>1 DEF StoreTx, Move, TypeOK, AnyJob, At, OrderInv, JobOnItem
    <3> QED
      BY <1>3, <3>1, <3>2 DEF ItemStored
  <2>2. CASE StoreEventByAddress(c)
    <3>1. keys' = keys \union {Key("ADDRESS_EVENT", c, b, i)}
      BY <2>2, StoreOk DEF StoreEventByAddress
    <3>2. job'[c].stage = "storeById"
      BY <2>2, <1>1 DEF StoreEventByAddress, Move, TypeOK, AnyJob
    <3> QED
      BY <3>1, <3>2
  <2>3. CASE StoreEventById(c)
    <3>1. /\ keys' = keys \union {Key("EVENT", c, b, i)}
          /\ Key("ADDRESS_EVENT", c, b, i) \in keys
      BY <2>3, StoreOk DEF StoreEventById, At, StoredSoFar
    <3>2. job'[c].stage = "publish"
      BY <2>3, <1>1 DEF StoreEventById, Move, TypeOK, AnyJob
    <3> QED
      BY <3>1, <3>2
  <2>4. CASE Publish(c)
    <3>1. /\ Items[c][b][i] = "event"
          /\ Key("ADDRESS_EVENT", c, b, i) \in keys
          /\ Key("EVENT", c, b, i) \in keys
          /\ keys' = keys
      BY <2>4 DEF Publish, At, OrderInv, JobOnItem, EventStages, StoredSoFar,
         durable
    <3>2. job'[c].stage = "saveInteresting"
      BY <2>4, <1>1 DEF Publish, Move, TypeOK, AnyJob
    <3> QED
      BY <1>3, <3>1, <3>2 DEF ItemStored
  <2> QED
    BY <2>1, <2>2, <2>3, <2>4
<1>5. StoredSoFar'
  BY <1>3, <1>4, RecordedStays DEF StoredSoFar, RecordsGrow
<1> QED
  BY <1>3, <1>5

(* A step after which every loop is where it was, is idle, or has turned   *)
(* to the first item of a block, and no block is newly indexed.            *)
LEMMA TurnRecorded ==
  ASSUME TypeOK, RecordsGrow, UNCHANGED indexed,
         StoredSoFar, IndexedRecorded, PassedRecorded,
         NEW c \in Contracts, NEW b \in Block,
         job' = [job EXCEPT ![c] = AtItem(c, b, 1)]
  PROVE  StoredSoFar' /\ IndexedRecorded' /\ PassedRecorded'
<1>1. StoredSoFar'
  <2>1. \E x \in Block, i \in Nat \ {0} : AtItem(c, b, 1) = AtItem(c, x, i)
    OBVIOUS
  <2> QED
    BY <2>1, FreshJob
<1>2. IndexedRecorded'
  BY RecordedStays DEF IndexedRecorded, BlockRecorded
<1>3. \A d \in Contracts :
        /\ d # c => job'[d] = job[d]
        /\ d = c => job'[d].item = 1
  BY DEF TypeOK, AtItem
<1>4. PassedRecorded'
  <2> SUFFICES ASSUME NEW d \in Contracts, NEW i \in 1..(job'[d].item - 1)
               PROVE  ItemRecorded(d, job[d].block, i)' /\ job'[d] = job[d]
    BY DEF PassedRecorded
  <2>1. d # c /\ job'[d] = job[d]
    BY <1>3
  <2>2. ItemRecorded(d, job[d].block, i)
    BY <2>1 DEF PassedRecorded
  <2> QED
    BY <2>1, <2>2, RecordedStays DEF ItemRecorded, ItemStored, RecordsGrow
<1> QED
  BY <1>1, <1>2, <1>4

LEMMA RecordNext == TypeOK /\ OrderInv /\ RecordInv /\ [Next]_vars => RecordInv'
<1> SUFFICES ASSUME TypeOK, OrderInv, RecordInv, [Next]_vars, ~StorageFaults
             PROVE  /\ StoredSoFar' /\ PublishedIsStored'
                    /\ IndexedRecorded' /\ PassedRecorded'
  BY DEF RecordInv
<1>0. StoredSoFar /\ PublishedIsStored /\ IndexedRecorded /\ PassedRecorded
  BY DEF RecordInv
<1>1. RecordsGrow
  BY RecordsNeverShrink
<1>2. \A d \in Contracts, b \in Block, i \in Nat :
        ItemRecorded(d, b, i) => ItemRecorded(d, b, i)'
  BY <1>1, RecordedStays
<1>3. ASSUME UNCHANGED indexed PROVE IndexedRecorded'
  BY <1>0, <1>1, <1>3, RecordedStays DEF IndexedRecorded, BlockRecorded
<1>4. ASSUME \A n \in DOMAIN bus' : \E m \in DOMAIN bus : bus'[n] = bus[m]
      PROVE  PublishedIsStored'
  BY <1>0, <1>1, <1>4 DEF PublishedIsStored, RecordsGrow
<1>5. ASSUME UNCHANGED <<job, indexed>>
      PROVE  StoredSoFar' /\ IndexedRecorded' /\ PassedRecorded'
  <2>1. StoredSoFar'
    BY <1>0, <1>1, <1>5, RecordedStays DEF StoredSoFar, RecordsGrow
  <2>2. PassedRecorded'
    BY <1>0, <1>1, <1>5, RecordedStays DEF PassedRecorded
  <2> QED
    BY <2>1, <2>2, <1>3, <1>5
<1>6. CASE Dispatch
  <2>1. \A n \in DOMAIN bus' : n + 1 \in DOMAIN bus /\ bus'[n] = bus[n + 1]
    BY <1>6 DEF Dispatch, TypeOK
  <2> QED
    BY <2>1, <1>4, <1>5, <1>6 DEF Dispatch
<1>7. CASE Crash
  <2>1. /\ job' = [c \in Contracts |-> Idle]
        /\ bus' = <<>> /\ UNCHANGED indexed
    BY <1>7 DEF Crash
  <2>2. StoredSoFar' /\ PassedRecorded' /\ PublishedIsStored'
    BY <2>1 DEF StoredSoFar, PassedRecorded, PublishedIsStored, Idle
  <2> QED
    BY <2>1, <2>2, <1>3
<1>8. ASSUME NEW c \in Contracts, ScanDeliver(c) \/ ReplayDeliver(c)
      PROVE  /\ StoredSoFar' /\ PublishedIsStored'
             /\ IndexedRecorded' /\ PassedRecorded'
  <2>1. UNCHANGED <<indexed, bus>>
    BY <1>8 DEF ScanDeliver, ReplayDeliver, history
  <2>2. PICK b \in Block : job' = [job EXCEPT ![c] = AtItem(c, b, 1)]
    BY <1>8 DEF ScanDeliver, ReplayDeliver, TypeOK
  <2> QED
    BY <2>1, <2>2, <1>0, <1>1, <1>4, TurnRecorded
<1>9. ASSUME NEW c \in Contracts,
             \/ StoreTx(c) \/ StoreEventByAddress(c) \/ StoreEventById(c)
             \/ Publish(c)
      PROVE  /\ StoredSoFar' /\ PublishedIsStored'
             /\ IndexedRecorded' /\ PassedRecorded'
  <2>1. UNCHANGED indexed
    BY <1>9 DEF StoreTx, StoreEventByAddress, StoreEventById, Publish, history
  <2>2. /\ StoredSoFar'
        /\ \A d \in Contracts : /\ job'[d].block = job[d].block
                                /\ job'[d].item = job[d].item
    BY <1>0, <1>1, <1>9, StoreRecords
  <2>3. PassedRecorded'
    BY <2>2, <1>0, <1>1, RecordedStays DEF PassedRecorded
  <2>4. PublishedIsStored'
    <3>1. CASE Publish(c)
      <4> DEFINE e == Id(c, job[c].block, job[c].item)
      <4>1. \A n \in DOMAIN bus' : bus'[n] = e
                                   \/ (n \in DOMAIN bus /\ bus'[n] = bus[n])
        BY <3>1 DEF Publish, TypeOK
      <4>2. \A space \in {"ADDRESS_EVENT", "EVENT"} :
              Key(space, e[1], e[2], e[3]) \in keys'
        BY <3>1, <1>0 DEF Publish, At, StoredSoFar, durable, Id
      <4> QED
        BY <4>1, <4>2, <1>0, <1>1 DEF PublishedIsStored, RecordsGrow
    <3>2. CASE ~Publish(c)
      BY <3>2, <1>9, <1>4 DEF StoreTx, StoreEventByAddress, StoreEventById
    <3> QED
      BY <3>1, <3>2
  <2> QED
    BY <2>1, <2>2, <2>3, <2>4, <1>3
<1>10. ASSUME NEW c \in Contracts, SaveInteresting(c)
       PROVE  /\ StoredSoFar' /\ PublishedIsStored'
              /\ IndexedRecorded' /\ PassedRecorded'
  <2> DEFINE b == job[c].block
             i == job[c].item
  <2>1. job[c] \in AnyJob
    BY <1>10, BusyJob DEF SaveInteresting, At, Stages
  <2>2. /\ job' = [job EXCEPT ![c] = AtItem(c, b, i + 1)]
        /\ UNCHANGED <<indexed, bus>>
    BY <1>10 DEF SaveInteresting, history, TypeOK
  <2>3. b \in Block /\ i \in Nat \ {0} /\ i + 1 \in Nat \ {0}
    BY <2>1 DEF AnyJob
  <2>4. StoredSoFar'
    BY <1>0, <1>1, <2>2, <2>3, FreshJob
  <2>5. b \in idx'[c].blocks
    <3>1. PICK readOk, writeOk \in CallSucceeds :
            idx' = IF writeOk
                     THEN [idx EXCEPT ![c] = [GetContractIdx(c, b, readOk)
                                               EXCEPT !.blocks = @ \union {b}]]
                     ELSE idx
      BY <1>10 DEF SaveInteresting
    <3>2. writeOk = TRUE /\ readOk \in BOOLEAN
      BY NoFaults, CallSucceedsType
    <3>3. GetContractIdx(c, b, readOk) \in [blocks : SUBSET Block, latest : Block]
      BY <2>3, <3>2, LoadedType
    <3> QED
      BY <3>1, <3>2, <3>3 DEF TypeOK
  <2>6. ItemStored(c, b, i)
    BY <1>10, <1>0 DEF SaveInteresting, At, StoredSoFar
  <2>7. \A d \in Contracts :
          job'[d] = IF d = c THEN AtItem(c, b, i + 1) ELSE job[d]
    BY <2>2 DEF TypeOK
  <2>8. PassedRecorded'
    <3> SUFFICES ASSUME NEW d \in Contracts, NEW k \in 1..(job'[d].item - 1)
                 PROVE  ItemRecorded(d, job[d].block, k)'
      BY DEF PassedRecorded
    <3>1. job'[d].block = job[d].block
      BY <2>7, <2>3, AtItemOnItem
    <3>2. CASE d = c /\ k = i
      BY <3>1, <3>2, <2>5, <2>6, <1>1 DEF ItemRecorded, ItemStored, RecordsGrow
    <3>3. CASE ~(d = c /\ k = i)
      <4>1. k \in 1..(job[d].item - 1)
        BY <2>7, <2>3, <3>3, AtItemOnItem
      <4>2. ItemRecorded(d, job[d].block, k)
        BY <4>1, <1>0 DEF PassedRecorded
      <4> QED
        BY <4>2, <3>1, <1>1 DEF ItemRecorded, ItemStored, RecordsGrow
    <3> QED
      BY <3>2, <3>3
  <2> QED
    BY <2>2, <2>4, <2>8, <1>3, <1>4
<1>11. ASSUME NEW c \in Contracts, SaveLatest(c)
       PROVE  /\ StoredSoFar' /\ PublishedIsStored'
              /\ IndexedRecorded' /\ PassedRecorded'
  <2> DEFINE b == job[c].block
  <2>1. job[c] \in AnyJob
    BY <1>11, BusyJob DEF SaveLatest, At, Stages
  <2>2. /\ job' = [job EXCEPT ![c] = Idle]
        /\ indexed' = [indexed EXCEPT ![c] = @ \union {b}]
        /\ UNCHANGED bus
    BY <1>11 DEF SaveLatest
  <2>3. StoredSoFar'
    BY <1>0, <1>1, <2>2, FreshJob
  <2>4. BlockRecorded(c, b)
    <3>1. job[c].item \notin DOMAIN Items[c][b]
      BY <1>11 DEF SaveLatest, At, OrderInv, JobOnItem
    <3>2. Items[c][b] \in Seq({"tx", "event"})
      BY <2>1, ItemsAssumption DEF ItemsAssumption, AnyJob
    <3>3. DOMAIN Items[c][b] \subseteq 1..(job[c].item - 1)
      BY <3>1, <3>2, <2>1 DEF AnyJob
    <3> QED
      BY <3>3, <1>0 DEF PassedRecorded, BlockRecorded
  <2>5. \A d \in Contracts : \A x \in indexed'[d] :
          x \in indexed[d] \/ (d = c /\ x = b)
    BY <2>2 DEF TypeOK
  <2>6. IndexedRecorded'
    <3> SUFFICES ASSUME NEW d \in Contracts, NEW x \in indexed'[d],
                        NEW k \in DOMAIN Items[d][x]
                 PROVE  ItemRecorded(d, x, k)'
      BY DEF IndexedRecorded, BlockRecorded
    <3>1. ItemRecorded(d, x, k)
      BY <2>4, <2>5, <1>0 DEF IndexedRecorded, BlockRecorded
    <3> QED
      BY <3>1, <1>1, RecordedStays
  <2>7. PassedRecorded'
    <3> SUFFICES ASSUME NEW d \in Contracts, NEW k \in 1..(job'[d].item - 1)
                 PROVE  ItemRecorded(d, job[d].block, k)'
      BY DEF PassedRecorded
    <3>1. job'[d] = job[d]
      BY <2>2 DEF TypeOK, Idle
    <3>2. ItemRecorded(d, job[d].block, k)
      BY <3>1, <1>0 DEF PassedRecorded
    <3> QED
      BY <3>1, <3>2, <1>1 DEF ItemRecorded, ItemStored, RecordsGrow
  <2> QED
    BY <2>2, <2>3, <2>6, <2>7, <1>4
<1>12. ASSUME UNCHANGED <<job, indexed, bus>>
       PROVE  /\ StoredSoFar' /\ PublishedIsStored'
              /\ IndexedRecorded' /\ PassedRecorded'
  BY <1>12, <1>4, <1>5
<1>13. Boot \/ BlockStored \/ UNCHANGED vars
         \/ (\E c \in Contracts : \/ ReplaySkip(c)
                                  \/ \E synced \in BOOLEAN : ScanMiss(c, synced))
       => UNCHANGED <<job, indexed, bus>>
  BY DEF Boot, BlockStored, ReplaySkip, ScanMiss, vars, volatile, history
<1> QED
  BY <1>6, <1>7, <1>8, <1>9, <1>10, <1>11, <1>12, <1>13
     DEF Next, Process, IndexStep, ScanStep, ReplayStep

LEMMA RecordCorrect == Spec => [](TypeOK /\ OrderInv /\ RecordInv)
  BY OrderCorrect, RecordInit, RecordNext, PTL DEF Spec

(* While storage calls succeed, whatever a crash takes from the bus is on  *)
(* the replay list, and its records are stored.                            *)
THEOREM RestartAlwaysRecovers == Spec => []RestartRecovers
<1>1. TypeOK /\ OrderInv /\ RecordInv => RestartRecovers
  <2> SUFFICES ASSUME TypeOK, OrderInv, RecordInv, ~StorageFaults,
                      NEW c \in Contracts,
                      NEW b \in StartBlock..(RestartBlock(c) - 1)
               PROVE  BlockRecorded(c, b)
    BY DEF RestartRecovers
  <2>1. b \in indexed[c]
    BY RestartInOrder DEF RestartIsSafe, Below
  <2> QED
    BY <2>1 DEF RecordInv, IndexedRecorded
<1> QED
  BY <1>1, RecordCorrect, PTL

(* While storage calls succeed, every message on the bus can be read by    *)
(* the dispatcher and by the contract page of the API.                     *)
THEOREM PublishedIsAlwaysStored == Spec => []PublishedIsStored
<1>1. RecordInv => PublishedIsStored
  BY DEF RecordInv, PublishedIsStored
<1> QED
  BY <1>1, RecordCorrect, PTL
---------------------------------------------------------------------------
(* The restart point moves back only for a listed block.                   *)

(* What the two saves write, while storage calls succeed.                  *)
LEMMA InterestingSaved ==
  ASSUME ~StorageFaults, TypeOK, NEW c \in Contracts, SaveInteresting(c)
  PROVE  /\ job[c].block \in Block
         /\ idx'[c].blocks = idx[c].blocks \union {job[c].block}
         /\ idx'[c].latest = GetContractIdx(c, job[c].block, TRUE).latest
         /\ \A d \in Contracts \ {c} : idx'[d] = idx[d]
<1> DEFINE b == job[c].block
           old == GetContractIdx(c, b, TRUE)
<1>1. b \in Block
  BY BusyJob DEF SaveInteresting, At, Stages, AnyJob
<1>2. PICK readOk, writeOk \in CallSucceeds :
        idx' = IF writeOk
                 THEN [idx EXCEPT ![c] = [GetContractIdx(c, b, readOk)
                                           EXCEPT !.blocks = @ \union {b}]]
                 ELSE idx
  BY DEF SaveInteresting
<1>3. idx' = [idx EXCEPT ![c] = [old EXCEPT !.blocks = @ \union {b}]]
  BY <1>2, NoFaults
<1>4. old \in [blocks : SUBSET Block, latest : Block]
      /\ old.blocks = idx[c].blocks
  BY <1>1, LoadedType, LoadedBlocks
<1> HIDE DEF old
<1>5. idx'[c] = [old EXCEPT !.blocks = @ \union {b}]
      /\ \A d \in Contracts \ {c} : idx'[d] = idx[d]
  BY <1>3 DEF TypeOK
<1> QED
  BY <1>1, <1>4, <1>5 DEF old

LEMMA LatestSaved ==
  ASSUME ~StorageFaults, TypeOK, NEW c \in Contracts, SaveLatest(c)
  PROVE  /\ job[c].block \in Block
         /\ idx'[c].blocks = idx[c].blocks
         /\ IsMax(idx'[c].latest, idx[c].blocks \union {job[c].block})
         /\ \A d \in Contracts \ {c} : idx'[d] = idx[d]
<1> DEFINE b == job[c].block
           old == GetContractIdx(c, b, TRUE)
<1>1. b \in Block
  BY BusyJob DEF SaveLatest, At, Stages, AnyJob
<1>2. PICK readOk, writeOk \in CallSucceeds, m \in Block :
        /\ IsLatest(m, GetContractIdx(c, b, readOk).blocks, b)
        /\ idx' = IF writeOk
                    THEN [idx EXCEPT ![c] = [GetContractIdx(c, b, readOk)
                                              EXCEPT !.latest = m]]
                    ELSE idx
  BY DEF SaveLatest
<1>3. /\ IsLatest(m, old.blocks, b)
      /\ idx' = [idx EXCEPT ![c] = [old EXCEPT !.latest = m]]
  BY <1>2, NoFaults
<1>4. old \in [blocks : SUBSET Block, latest : Block]
      /\ old.blocks = idx[c].blocks
  BY <1>1, LoadedType, LoadedBlocks
<1> HIDE DEF old
<1>5. idx'[c] = [old EXCEPT !.latest = m]
      /\ \A d \in Contracts \ {c} : idx'[d] = idx[d]
  BY <1>3 DEF TypeOK
<1> QED
  BY <1>1, <1>3, <1>4, <1>5 DEF IsLatest

(* Of the other steps none writes an index.                                *)
LEMMA OnlySavesWrite ==
  ASSUME [Next]_vars
  PROVE  \/ UNCHANGED idx
         \/ \E c \in Contracts : SaveInteresting(c) \/ SaveLatest(c)
BY DEF Next, Process, Boot, Dispatch, Crash, BlockStored, IndexStep,
   StoreTx, StoreEventByAddress, StoreEventById, Publish, ScanStep,
   ScanDeliver, ScanMiss, ReplayStep, ReplayDeliver, ReplaySkip, durable, vars

LEMMA BlocksAreNumbers ==
  ASSUME TypeOK, NEW c \in Contracts
  PROVE  /\ idx[c].blocks \subseteq Nat /\ idx[c].latest \in Nat
         /\ cursor[c] \in Nat
         /\ job[c] # Idle => job[c].block \in Nat
<1>1. idx[c] \in ContractIndex /\ job[c] \in AnyJob \union {Idle}
      /\ cursor[c] \in StartBlock..(MaxBlock + 1)
  BY DEF TypeOK
<1> QED
  BY <1>1 DEF ContractIndex, NoIndex, AnyJob, Block

LEMMA WalkInit == Init => WalkInv
<1> SUFFICES ASSUME Init PROVE WalkLeads /\ DownIsIdle
  BY DEF WalkInv
<1>1. ~up /\ \A c \in Contracts : job[c] = Idle /\ replay[c] = {}
  BY DEF Init
<1> QED
  BY <1>1 DEF WalkLeads, DownIsIdle

(* A save keeps what the walk leads: the index of its contract alone       *)
(* changes, in one of the two ways.                                        *)
LEMMA SaveKeepsWalk ==
  ASSUME ~StorageFaults, TypeOK, WalkLeads, NEW c \in Contracts, up,
         UNCHANGED <<up, cursor, replay>>,
         \A d \in Contracts \ {c} : job'[d] = job[d] /\ idx'[d] = idx[d],
         \/ SaveInteresting(c) /\ job'[c].block = job[c].block
         \/ SaveLatest(c) /\ job'[c] = Idle
  PROVE  WalkLeads'
<1> DEFINE b == job[c].block
<1>1. ASSUME NEW d \in Contracts \ {c}
      PROVE  /\ up' => Covered(d, cursor[d])'
             /\ replay'[d] \subseteq idx'[d].blocks
             /\ job'[d] # Idle =>
                   \/ job'[d].block \in idx'[d].blocks
                   \/ job'[d].block < cursor'[d] /\ Covered(d, job[d].block)'
  BY DEF WalkLeads, Covered
<1>2. /\ idx[c].blocks \subseteq Nat /\ idx[c].latest \in Nat
      /\ cursor[c] \in Nat
  BY BlocksAreNumbers
<1>3. job[c] # Idle
  BY BusyJob DEF SaveInteresting, SaveLatest, At, Stages, Idle
<1>4. CASE SaveInteresting(c) /\ job'[c].block = b
  <2>1. /\ b \in Block
        /\ idx'[c].blocks = idx[c].blocks \union {b}
        /\ idx'[c].latest = GetContractIdx(c, b, TRUE).latest
    BY <1>4, InterestingSaved
  <2>2. idx'[c].latest = idx[c].latest \/ idx'[c].latest = b
    BY <2>1 DEF GetContractIdx
  <2>3. Covered(c, cursor[c])'
    <3>1. CASE idx'[c].latest = idx[c].latest
      BY <2>1, <3>1 DEF WalkLeads, Covered
    <3>2. CASE idx'[c].latest = b
      <4>1. b \in idx'[c].blocks /\ b \in Nat
        BY <2>1 DEF Block
      <4>2. \A n \in Nat : n <= n
        OBVIOUS
      <4>3. idx'[c].latest <= b
        BY <3>2, <4>1, <4>2, Zenon
      <4> QED
        BY <4>1, <4>3 DEF Covered
    <3> QED
      BY <2>2, <3>1, <3>2
  <2> QED
    BY <1>1, <1>4, <2>1, <2>3 DEF WalkLeads
<1>5. CASE SaveLatest(c) /\ job'[c] = Idle
  <2>1. /\ b \in Block
        /\ idx'[c].blocks = idx[c].blocks
        /\ IsMax(idx'[c].latest, idx[c].blocks \union {b})
    BY <1>5, LatestSaved
  <2>2. Covered(c, cursor[c])'
    <3>1. CASE b \in idx[c].blocks
      BY <1>2, <2>1, <3>1 DEF Covered, IsMax
    <3>2. CASE b \notin idx[c].blocks
      <4>1. b < cursor[c] /\ cursor[c] \in Nat
        BY <1>2, <1>3, <3>2 DEF WalkLeads
      <4> QED
        BY <1>2, <2>1, <4>1 DEF Covered, IsMax, Block
    <3> QED
      BY <3>1, <3>2
  <2> QED
    BY <1>1, <1>5, <2>1, <2>2 DEF WalkLeads
<1> QED
  BY <1>4, <1>5

LEMMA WalkNext == TypeOK /\ WalkInv /\ [Next]_vars => WalkInv'
<1> SUFFICES ASSUME TypeOK, WalkInv, [Next]_vars, ~StorageFaults
             PROVE  WalkLeads' /\ DownIsIdle'
  BY DEF WalkInv
<1>0. WalkLeads /\ DownIsIdle
  BY DEF WalkInv
<1>1. CASE Boot
  <2>1. PICK readOk \in [Contracts -> CallSucceeds] :
          LET loaded == [c \in Contracts |->
                           GetContractIdx(c, StartBlock, readOk[c])]
          IN /\ replay' = [c \in Contracts |-> ReplayList(loaded[c])]
             /\ cursor' = [c \in Contracts |-> ResumeAt(loaded[c].latest)]
    BY <1>1 DEF Boot
  <2>2. \A c \in Contracts :
          /\ replay'[c] = idx[c].blocks
          /\ cursor'[c] = ResumeAt(GetContractIdx(c, StartBlock, TRUE).latest)
    <3> SUFFICES ASSUME NEW c \in Contracts
                 PROVE  /\ replay'[c] = idx[c].blocks
                        /\ cursor'[c] = ResumeAt(
                               GetContractIdx(c, StartBlock, TRUE).latest)
      OBVIOUS
    <3>1. readOk[c] = TRUE
      BY <2>1, NoFaults
    <3>2. GetContractIdx(c, StartBlock, TRUE).blocks = idx[c].blocks
      <4>1. StartBlock \in Block
        BY DEF Block
      <4> QED
        BY <4>1, LoadedBlocks
    <3> QED
      BY <2>1, <3>1, <3>2 DEF ReplayList
  <2>3. \A c \in Contracts : idx[c].latest <= cursor'[c] /\ cursor'[c] \in Nat
    <3> SUFFICES ASSUME NEW c \in Contracts
                 PROVE  idx[c].latest <= cursor'[c] /\ cursor'[c] \in Nat
      OBVIOUS
    <3>1. GetContractIdx(c, StartBlock, TRUE).latest
            \in {idx[c].latest, StartBlock}
          /\ (idx[c] = NoIndex \/
                 GetContractIdx(c, StartBlock, TRUE).latest = idx[c].latest)
      BY DEF GetContractIdx
    <3>0. idx[c].latest \in Nat
      BY BlocksAreNumbers
    <3> DEFINE l == GetContractIdx(c, StartBlock, TRUE).latest
    <3>3. cursor'[c] = IF StartBlock > l THEN StartBlock ELSE l
      BY <2>2 DEF ResumeAt
    <3> HIDE DEF l
    <3>4. l \in Nat
      BY <3>0, <3>1 DEF l
    <3>5. idx[c].latest = 0 \/ idx[c].latest = l
      <4>1. CASE idx[c] = NoIndex
        BY <4>1 DEF NoIndex
      <4>2. CASE idx[c] # NoIndex
        BY <3>1, <4>2 DEF l
      <4> QED
        BY <4>1, <4>2
    <3> QED
      BY <3>0, <3>3, <3>4, <3>5
  <2>4. /\ UNCHANGED <<idx, job>> /\ \A c \in Contracts : job[c] = Idle
        /\ up'
    BY <1>0, <1>1 DEF Boot, durable, DownIsIdle
  <2> QED
    BY <2>2, <2>3, <2>4 DEF WalkLeads, DownIsIdle, Covered
<1>2. CASE Crash
  <2>1. /\ \A c \in Contracts : job'[c] = Idle /\ replay'[c] = {}
        /\ ~up'
    BY <1>2 DEF Crash
  <2> QED
    BY <2>1 DEF WalkLeads, DownIsIdle
<1>3. ASSUME NEW c \in Contracts, ScanDeliver(c)
      PROVE  WalkLeads' /\ DownIsIdle'
  <2>1. /\ \A d \in Contracts \ {c} : job'[d] = job[d] /\ cursor'[d] = cursor[d]
        /\ job'[c] = AtItem(c, cursor[c], 1) /\ cursor'[c] = cursor[c] + 1
        /\ UNCHANGED <<idx, up, replay>> /\ up
    BY <1>3 DEF ScanDeliver, durable, TypeOK
  <2>2. /\ idx[c].blocks \subseteq Nat /\ idx[c].latest \in Nat
        /\ cursor[c] \in Nat
    BY BlocksAreNumbers
  <2>3. /\ job'[c].block = cursor[c] /\ cursor[c] < cursor'[c]
        /\ Covered(c, cursor[c])
    BY <1>0, <2>1, <2>2 DEF WalkLeads, AtItem
  <2>4. Covered(c, cursor[c] + 1)
    <3>1. PICK n \in idx[c].blocks \union {cursor[c]} : idx[c].latest <= n
      BY <2>3 DEF Covered
    <3>2. CASE n \in idx[c].blocks
      BY <3>1, <3>2 DEF Covered
    <3>3. CASE n = cursor[c]
      <4>1. idx[c].latest <= cursor[c] + 1
        BY <2>2, <3>1, <3>3
      <4> QED
        BY <4>1 DEF Covered
    <3> QED
      BY <3>2, <3>3
  <2>5. ASSUME NEW d \in Contracts
        PROVE  /\ up' => Covered(d, cursor[d])'
               /\ replay'[d] \subseteq idx'[d].blocks
               /\ job'[d] # Idle =>
                     \/ job'[d].block \in idx'[d].blocks
                     \/ job'[d].block < cursor'[d] /\ Covered(d, job[d].block)'
    BY <1>0, <2>1, <2>3, <2>4 DEF WalkLeads, Covered
  <2> QED
    BY <2>1, <2>5 DEF WalkLeads, DownIsIdle
<1>4. ASSUME NEW c \in Contracts, ReplayDeliver(c) \/ ReplaySkip(c)
      PROVE  WalkLeads' /\ DownIsIdle'
  <2>1. PICK b \in replay[c] :
          /\ replay' = [replay EXCEPT ![c] = @ \ {b}]
          /\ \/ job' = [job EXCEPT ![c] = AtItem(c, b, 1)]
             \/ job' = job
    BY <1>4 DEF ReplayDeliver, ReplaySkip
  <2>2. UNCHANGED <<idx, up, cursor>> /\ up
    BY <1>4 DEF ReplayDeliver, ReplaySkip, durable
  <2>3. \A d \in Contracts :
          /\ replay'[d] \subseteq replay[d]
          /\ job'[d] = job[d] \/ (d = c /\ job'[d].block = b)
    BY <2>1 DEF TypeOK, AtItem
  <2>4. b \in idx[c].blocks
    BY <1>0 DEF WalkLeads
  <2> QED
    BY <1>0, <2>2, <2>3, <2>4 DEF WalkLeads, DownIsIdle, Covered
<1>5. ASSUME NEW c \in Contracts, SaveInteresting(c) \/ SaveLatest(c)
      PROVE  WalkLeads' /\ DownIsIdle'
  <2>1. up /\ UNCHANGED <<up, cursor, replay>>
    BY <1>5 DEF SaveInteresting, SaveLatest, At
  <2>2. \A d \in Contracts \ {c} : job'[d] = job[d] /\ idx'[d] = idx[d]
    BY <1>5, InterestingSaved, LatestSaved DEF SaveInteresting, SaveLatest, TypeOK
  <2>3. \/ SaveInteresting(c) /\ job'[c].block = job[c].block
        \/ SaveLatest(c) /\ job'[c] = Idle
    <3>1. ASSUME SaveInteresting(c) PROVE job'[c].block = job[c].block
      <4>1. job'[c] = AtItem(c, job[c].block, job[c].item + 1)
        BY <3>1 DEF SaveInteresting, TypeOK
      <4> QED
        BY <4>1 DEF AtItem
    <3>2. ASSUME SaveLatest(c) PROVE job'[c] = Idle
      BY <3>2 DEF SaveLatest, TypeOK
    <3> QED
      BY <1>5, <3>1, <3>2
  <2>4. WalkLeads'
    BY <1>0, <2>1, <2>2, <2>3, SaveKeepsWalk
  <2> QED
    BY <2>1, <2>4 DEF DownIsIdle
<1>6. ASSUME NEW c \in Contracts,
             \/ StoreTx(c) \/ StoreEventByAddress(c) \/ StoreEventById(c)
             \/ Publish(c)
      PROVE  WalkLeads' /\ DownIsIdle'
  <2>1. PICK stage \in Stages : job' = [job EXCEPT ![c].stage = stage]
    BY <1>6 DEF StoreTx, StoreEventByAddress, StoreEventById, Publish, Move,
       Stages
  <2>2. up /\ UNCHANGED <<idx, up, cursor, replay>> /\ job[c] # Idle
    BY <1>6, BusyJob DEF StoreTx, StoreEventByAddress, StoreEventById, Publish,
       At, Stages, Idle, durable
  <2>3. \A d \in Contracts :
          job'[d] = job[d] \/ (d = c /\ job'[d].block = job[d].block)
    BY <2>1 DEF TypeOK, AnyJob, Idle
  <2> QED
    BY <1>0, <2>2, <2>3 DEF WalkLeads, DownIsIdle, Covered
<1>7. CASE UNCHANGED <<idx, up, cursor, replay, job>>
  BY <1>0, <1>7 DEF WalkLeads, DownIsIdle, Covered
<1>8. BlockStored \/ Dispatch \/ UNCHANGED vars
        \/ (\E c \in Contracts, synced \in BOOLEAN : ScanMiss(c, synced))
      => UNCHANGED <<idx, up, cursor, replay, job>>
  BY DEF BlockStored, Dispatch, ScanMiss, vars, volatile, durable
<1> QED
  BY <1>1, <1>2, <1>3, <1>4, <1>5, <1>6, <1>7, <1>8
     DEF Next, Process, IndexStep, ScanStep, ReplayStep

(* A save that moves the restart point back is of a listed block, and the  *)
(* point stays at the newest listed block: saveContractIndexLatestBlock    *)
(* under any interleaving of walk and replay and any crashes.              *)
THEOREM RegressionStaysBounded == Spec => RegressionIsBounded
<1>1. ASSUME TypeOK, WalkInv, [Next]_vars, ~StorageFaults,
             NEW c \in Contracts, idx'[c].latest < idx[c].latest
      PROVE  /\ job[c].block \in idx[c].blocks
             /\ IsMax(idx'[c].latest, idx'[c].blocks)
  <2>0. /\ idx[c].blocks \subseteq Nat /\ idx[c].latest \in Nat
    BY <1>1, BlocksAreNumbers
  <2>1. PICK d \in Contracts : SaveInteresting(d) \/ SaveLatest(d)
    BY <1>1, <2>0, OnlySavesWrite
  <2>2. d = c
    <3>1. \A e \in Contracts \ {d} : idx'[e] = idx[e]
      BY <1>1, <2>1, InterestingSaved, LatestSaved
    <3>2. idx'[c] # idx[c]
      BY <1>1, <2>0
    <3> QED
      BY <3>1, <3>2
  <2>3. SaveLatest(c)
    <3> SUFFICES ASSUME SaveInteresting(c) PROVE FALSE
      BY <2>1, <2>2
    <3>1. /\ job[c].block \in Block
          /\ idx'[c].latest = GetContractIdx(c, job[c].block, TRUE).latest
      BY <1>1, InterestingSaved
    <3>2. idx[c] = NoIndex \/ idx'[c].latest = idx[c].latest
      BY <3>1 DEF GetContractIdx
    <3> QED
      BY <1>1, <2>0, <3>1, <3>2 DEF GetContractIdx, NoIndex, Block
  <2>4. /\ job[c].block \in Block
        /\ idx'[c].blocks = idx[c].blocks
        /\ IsMax(idx'[c].latest, idx[c].blocks \union {job[c].block})
    BY <1>1, <2>3, LatestSaved
  <2>5. job[c].block \in idx[c].blocks
    <3> SUFFICES ASSUME job[c].block \notin idx[c].blocks PROVE FALSE
      OBVIOUS
    <3>1. job[c] # Idle
      BY <1>1, <2>3, BusyJob DEF SaveLatest, At, Stages, Idle
    <3>2. Covered(c, job[c].block)
      BY <1>1, <3>1 DEF WalkInv, WalkLeads
    <3>3. PICK n \in idx[c].blocks \union {job[c].block} :
            idx[c].latest <= n
      BY <3>2 DEF Covered
    <3>4. n <= idx'[c].latest /\ n \in Nat /\ idx'[c].latest \in Nat
      BY <2>0, <2>4 DEF IsMax, Block
    <3> QED
      BY <1>1, <2>0, <3>3, <3>4
  <2> QED
    BY <2>4, <2>5 DEF IsMax
<1>2. TypeOK /\ WalkInv /\ [Next]_vars =>
        [~StorageFaults =>
           \A c \in Contracts :
              idx'[c].latest < idx[c].latest =>
                /\ job[c].block \in idx[c].blocks
                /\ IsMax(idx'[c].latest, idx'[c].blocks)]_vars
  BY <1>1
<1> QED
  BY TypeInit, TypeNext, WalkInit, WalkNext, <1>2, PTL
  DEF Spec, RegressionIsBounded

---------------------------------------------------------------------------
(* While storage calls succeed, no event is forgotten.                     *)

LEMMA ListedInit == Init => ListedStored
<1> SUFFICES ASSUME Init PROVE ListedStored
  OBVIOUS
<1>1. \A c \in Contracts :
         idx[c].blocks = {} /\ replay[c] = {} /\ job[c] = Idle
  BY DEF Init, NoIndex
<1> QED
  BY <1>1 DEF ListedStored

(* A step that lists or indexes nothing but what is stored keeps it so.    *)
LEMMA StaysStored ==
  ASSUME ListedStored, ~StorageFaults, blockStore \subseteq blockStore',
         \A c \in Contracts :
            /\ idx'[c].blocks \subseteq blockStore
            /\ replay'[c] \subseteq blockStore
            /\ \/ job'[c] = Idle
               \/ job'[c].block \in blockStore
  PROVE  ListedStored'
BY DEF ListedStored

LEMMA StoredListed ==
  ASSUME ListedStored, ~StorageFaults, NEW c \in Contracts
  PROVE  /\ idx[c].blocks \subseteq blockStore
         /\ replay[c] \subseteq blockStore
         /\ job[c] = Idle \/ job[c].block \in blockStore
BY DEF ListedStored

(* What the boot loads, while storage calls succeed.                       *)
LEMMA BootLoads ==
  ASSUME ~StorageFaults, TypeOK, OrderInv, Boot, NEW c \in Contracts
  PROVE  /\ replay'[c] = idx[c].blocks
         /\ cursor'[c] = RestartBlock(c)
<1>1. PICK readOk \in [Contracts -> CallSucceeds] :
        LET loaded == [d \in Contracts |->
                         GetContractIdx(d, StartBlock, readOk[d])]
        IN /\ replay' = [d \in Contracts |-> ReplayList(loaded[d])]
           /\ cursor' = [d \in Contracts |-> ResumeAt(loaded[d].latest)]
  BY DEF Boot
<1>2. readOk[c] = TRUE
  BY <1>1, NoFaults
<1>3. /\ replay'[c] = GetContractIdx(c, StartBlock, TRUE).blocks
      /\ cursor'[c] = ResumeAt(RestartBlock(c))
  BY <1>1, <1>2 DEF ReplayList, RestartBlock
<1>4. StartBlock \in Block
  BY DEF Block
<1>5. GetContractIdx(c, StartBlock, TRUE).blocks = idx[c].blocks
  BY <1>4, LoadedBlocks
<1>6. RestartBlock(c) \in Block
  BY RestartInOrder DEF RestartIsSafe
<1>7. ResumeAt(RestartBlock(c)) = RestartBlock(c)
  BY <1>6 DEF ResumeAt, Block
<1> QED
  BY <1>3, <1>5, <1>7

LEMMA ListedNext ==
  TypeOK /\ OrderInv /\ ListedStored /\ [Next]_vars => ListedStored'
<1> SUFFICES ASSUME TypeOK, OrderInv, ListedStored, [Next]_vars, ~StorageFaults
             PROVE  ListedStored'
  BY DEF ListedStored
<1>1. CASE Boot
  <2>1. UNCHANGED <<blockStore, idx, job>>
    BY <1>1 DEF Boot, durable
  <2>2. \A c \in Contracts : replay'[c] = idx[c].blocks
    BY <1>1, BootLoads
  <2> QED
    BY <2>1, <2>2, StoredListed, StaysStored
<1>2. CASE Crash
  <2>1. /\ UNCHANGED <<blockStore, idx>>
        /\ \A c \in Contracts : job'[c] = Idle /\ replay'[c] = {}
    BY <1>2 DEF Crash, durable
  <2> QED
    BY <2>1, StoredListed, StaysStored
<1>3. ASSUME NEW c \in Contracts, ScanDeliver(c) PROVE ListedStored'
  <2>1. UNCHANGED <<blockStore, idx, replay>> /\ cursor[c] \in blockStore
    BY <1>3 DEF ScanDeliver, durable
  <2>2. \A d \in Contracts :
          job'[d] = job[d] \/ job'[d].block = cursor[c]
    BY <1>3 DEF ScanDeliver, TypeOK, AtItem
  <2> QED
    BY <2>1, <2>2, StoredListed, StaysStored
<1>4. ASSUME NEW c \in Contracts, ReplayDeliver(c) \/ ReplaySkip(c)
      PROVE  ListedStored'
  <2>1. PICK b \in replay[c] :
          /\ replay' = [replay EXCEPT ![c] = @ \ {b}]
          /\ \/ job' = [job EXCEPT ![c] = AtItem(c, b, 1)]
             \/ job' = job
    BY <1>4 DEF ReplayDeliver, ReplaySkip
  <2>2. UNCHANGED <<blockStore, idx>>
    BY <1>4 DEF ReplayDeliver, ReplaySkip, durable
  <2>3. b \in blockStore
    BY <2>1, StoredListed
  <2>4. \A d \in Contracts :
          /\ replay'[d] \subseteq replay[d]
          /\ job'[d] = job[d] \/ job'[d].block = b
    BY <2>1 DEF TypeOK, AtItem
  <2> QED
    BY <2>2, <2>3, <2>4, StoredListed, StaysStored
<1>5. ASSUME NEW c \in Contracts, SaveInteresting(c) PROVE ListedStored'
  <2>1. /\ idx'[c].blocks = idx[c].blocks \union {job[c].block}
        /\ \A d \in Contracts \ {c} : idx'[d] = idx[d]
    BY <1>5, InterestingSaved
  <2>2. job[c] # Idle
    BY <1>5, BusyJob DEF SaveInteresting, At, Stages, Idle
  <2>3. UNCHANGED <<blockStore, replay>>
    BY <1>5 DEF SaveInteresting
  <2>4. \A d \in Contracts : job'[d] = job[d]
                             \/ (d = c /\ job'[d].block = job[c].block)
    BY <1>5 DEF SaveInteresting, TypeOK, AtItem
  <2>5. job[c].block \in blockStore
    BY <2>2, StoredListed
  <2>6. \A d \in Contracts : idx'[d].blocks \subseteq blockStore
    BY <2>1, <2>5, StoredListed
  <2> QED
    BY <2>3, <2>4, <2>5, <2>6, StoredListed, StaysStored
<1>6. ASSUME NEW c \in Contracts, SaveLatest(c) PROVE ListedStored'
  <2>1. \A d \in Contracts : idx'[d].blocks = idx[d].blocks
    BY <1>6, LatestSaved
  <2>2. UNCHANGED <<blockStore, replay>>
    BY <1>6 DEF SaveLatest
  <2>3. \A d \in Contracts : job'[d] = job[d] \/ job'[d] = Idle
    BY <1>6 DEF SaveLatest, TypeOK
  <2> QED
    BY <2>1, <2>2, <2>3, StoredListed, StaysStored
<1>7. ASSUME NEW c \in Contracts,
             \/ StoreTx(c) \/ StoreEventByAddress(c) \/ StoreEventById(c)
             \/ Publish(c)
      PROVE  ListedStored'
  <2>1. PICK stage \in Stages : job' = [job EXCEPT ![c].stage = stage]
    BY <1>7 DEF StoreTx, StoreEventByAddress, StoreEventById, Publish, Move,
       Stages
  <2>2. UNCHANGED <<blockStore, idx, replay>> /\ job[c] # Idle
    BY <1>7, BusyJob DEF StoreTx, StoreEventByAddress, StoreEventById, Publish,
       At, Stages, Idle, durable
  <2>3. \A d \in Contracts :
          job'[d] = job[d] \/ (d = c /\ job'[d].block = job[d].block)
    BY <2>1 DEF TypeOK, AnyJob, Idle
  <2> QED
    BY <2>2, <2>3, StoredListed, StaysStored
<1>8. CASE UNCHANGED <<idx, replay, job>> /\ blockStore \subseteq blockStore'
  BY <1>8, StoredListed, StaysStored
<1>9. BlockStored \/ Dispatch \/ UNCHANGED vars
        \/ (\E c \in Contracts, synced \in BOOLEAN : ScanMiss(c, synced))
      => UNCHANGED <<idx, replay, job>> /\ blockStore \subseteq blockStore'
  BY DEF BlockStored, Dispatch, ScanMiss, vars, volatile, durable
<1> QED
  BY <1>1, <1>2, <1>3, <1>4, <1>5, <1>6, <1>7, <1>8, <1>9
     DEF Next, Process, IndexStep, ScanStep, ReplayStep

LEMMA EventIdsAre ==
  ASSUME NEW e \in EventIds
  PROVE  /\ e[1] \in Contracts /\ e[2] \in Block
         /\ e[3] \in DOMAIN Items[e[1]][e[2]]
         /\ Items[e[1]][e[2]][e[3]] = "event"
         /\ e = Id(e[1], e[2], e[3])
<1>0. PICK c \in Contracts, b \in Block :
        \E i \in DOMAIN Items[c][b] : e = Id(c, b, i)
  BY DEF EventIds, ItemIds
<1>1. PICK i \in DOMAIN Items[c][b] : e = Id(c, b, i)
  BY <1>0
<1>2. e[1] = c /\ e[2] = b /\ e[3] = i
  BY <1>1 DEF Id
<1> QED
  BY <1>0, <1>1, <1>2 DEF EventIds

LEMMA EventNumber ==
  ASSUME NEW c \in Contracts, NEW b \in Block, NEW i \in DOMAIN Items[c][b]
  PROVE  i \in Nat \ {0}
<1>1. Items[c][b] \in Seq({"tx", "event"})
  BY ItemsAssumption DEF ItemsAssumption
<1> QED
  BY <1>1

(* A loop that starts on a block has all of it to do.                      *)
LEMMA FreshToPublish ==
  ASSUME NEW c \in Contracts, NEW b \in Block, NEW i \in DOMAIN Items[c][b],
         job'[c] = AtItem(c, b, 1)
  PROVE  ToPublish(c, b, i)'
<1>1. i \in Nat \ {0} /\ b \in Nat \ {0}
  BY EventNumber DEF Block
<1>2. /\ job'[c].block = b /\ job'[c].item = 1
      /\ job'[c].stage # "saveInteresting"
  BY DEF AtItem
<1>3. job'[c] # Idle
  BY <1>1, <1>2 DEF Idle
<1> QED
  BY <1>1, <1>2, <1>3 DEF ToPublish

(* A step that takes nothing of c from the bus, the replay list or the     *)
(* walk, and leaves its loop the items it has to publish, forgets none.    *)
LEMMA StaysUnderway ==
  ASSUME NEW c \in Contracts, NEW b \in Block,
         NEW i \in DOMAIN Items[c][b], Underway(c, b, i),
         UNCHANGED bus,
         replay'[c] = replay[c], cursor'[c] = cursor[c],
         ToPublish(c, b, i) => ToPublish(c, b, i)'
  PROVE  Underway(c, b, i)'
BY DEF Underway

(* So does a step of the loop that stays on its item, unless the item was  *)
(* to be published and is now behind.                                      *)
LEMMA StageToPublish ==
  ASSUME TypeOK, NEW c \in Contracts, NEW b \in Block, NEW i,
         NEW d \in Contracts, NEW stage,
         job' = [job EXCEPT ![d].stage = stage],
         ToPublish(c, b, i),
         d = c /\ stage = "saveInteresting" => job[c].item # i
  PROVE  ToPublish(c, b, i)'
<1>1. /\ job'[c].block = job[c].block /\ job'[c].item = job[c].item
      /\ job'[c].stage = job[c].stage \/ (d = c /\ job'[c].stage = stage)
  BY DEF TypeOK, AnyJob, Idle
<1>2. job'[c] # Idle
  BY <1>1 DEF ToPublish, Idle, Block
<1> QED
  BY <1>1, <1>2 DEF ToPublish

(* The step from one item to the next leaves what comes after it.          *)
LEMMA TurnToPublish ==
  ASSUME TypeOK, NEW c \in Contracts, NEW b \in Block, NEW i \in Nat,
         job[c] \in AnyJob, job[c].stage = "saveInteresting",
         job'[c] = AtItem(c, job[c].block, job[c].item + 1),
         ToPublish(c, b, i)
  PROVE  ToPublish(c, b, i)'
<1>1. /\ job'[c].block = job[c].block /\ job'[c].item = job[c].item + 1
      /\ job'[c].stage # "saveInteresting"
  BY DEF AtItem
<1>2. job[c].block = b /\ job[c].item <= i /\ job[c].item # i
  BY DEF ToPublish
<1>3. job[c].item + 1 <= i
  BY <1>2 DEF AnyJob
<1>4. job'[c] # Idle
  BY <1>1, <1>2 DEF Idle, Block
<1> QED
  BY <1>1, <1>2, <1>3, <1>4 DEF ToPublish

(* The walk and the replay hand a block to the loop and lose nothing of    *)
(* it; the replay finds every block of its list.                           *)
LEMMA DeliverKeeps ==
  ASSUME ~StorageFaults, TypeOK, ListedStored, NEW c \in Contracts,
         NEW b \in Block, NEW i \in DOMAIN Items[c][b], Underway(c, b, i),
         NEW d \in Contracts,
         ScanDeliver(d) \/ ReplayDeliver(d) \/ ReplaySkip(d)
  PROVE  Underway(c, b, i)'
<1>1. UNCHANGED bus
  BY DEF ScanDeliver, ReplayDeliver, ReplaySkip
<1>2. CASE d # c
  <2>1. /\ job'[c] = job[c] /\ replay'[c] = replay[c]
        /\ cursor'[c] = cursor[c]
    BY <1>2 DEF ScanDeliver, ReplayDeliver, ReplaySkip, TypeOK
  <2>2. ToPublish(c, b, i) => ToPublish(c, b, i)'
    BY <2>1 DEF ToPublish
  <2> QED
    BY <1>1, <2>1, <2>2, StaysUnderway
<1>3. CASE ScanDeliver(c)
  <2>1. /\ job[c] = Idle /\ replay'[c] = replay[c]
        /\ job'[c] = AtItem(c, cursor[c], 1) /\ cursor'[c] = cursor[c] + 1
    BY <1>3 DEF ScanDeliver, TypeOK
  <2>2. ~ToPublish(c, b, i)
    BY <2>1 DEF ToPublish
  <2>3. CASE cursor[c] = b
    <3>1. ToPublish(c, b, i)'
      BY <2>1, <2>3, FreshToPublish
    <3> QED
      BY <3>1 DEF Underway
  <2>4. CASE cursor[c] # b
    <3>1. cursor[c] \in Nat /\ b \in Nat
      BY DEF TypeOK, Block
    <3>2. cursor[c] <= b => cursor'[c] <= b
      BY <2>1, <2>4, <3>1
    <3> QED
      BY <1>1, <2>1, <2>2, <3>2 DEF Underway
  <2> QED
    BY <2>3, <2>4
<1>4. CASE ReplayDeliver(c)
  <2>1. PICK n \in replay[c] :
          /\ job' = [job EXCEPT ![c] = AtItem(c, n, 1)]
          /\ replay' = [replay EXCEPT ![c] = @ \ {n}]
    BY <1>4 DEF ReplayDeliver
  <2>2. job[c] = Idle /\ UNCHANGED cursor
    BY <1>4 DEF ReplayDeliver
  <2>3. job'[c] = AtItem(c, n, 1) /\ replay'[c] = replay[c] \ {n}
    BY <2>1 DEF TypeOK
  <2>4. ~ToPublish(c, b, i)
    BY <2>2 DEF ToPublish
  <2>5. CASE n = b
    <3>1. ToPublish(c, b, i)'
      BY <2>3, <2>5, FreshToPublish
    <3> QED
      BY <3>1 DEF Underway
  <2>6. CASE n # b
    BY <1>1, <2>2, <2>3, <2>4, <2>6 DEF Underway
  <2> QED
    BY <2>5, <2>6
<1>5. ~ReplaySkip(c)
  <2>1. replay[c] \subseteq blockStore
    BY StoredListed
  <2> QED
    BY <2>1 DEF ReplaySkip
<1> QED
  BY <1>2, <1>3, <1>4, <1>5

(* A step of Index forgets nothing: what it passes is on the bus, and a    *)
(* transaction is no event.                                                *)
LEMMA IndexKeeps ==
  ASSUME TypeOK, OrderInv, NEW c \in Contracts,
         NEW b \in Block, NEW i \in DOMAIN Items[c][b],
         Items[c][b][i] = "event", Underway(c, b, i),
         NEW d \in Contracts, IndexStep(d)
  PROVE  Underway(c, b, i)'
<1>1. UNCHANGED <<cursor, replay>>
  BY DEF IndexStep, StoreTx, StoreEventByAddress, StoreEventById, Publish,
     SaveInteresting, SaveLatest
<1>2. job[d] \in AnyJob
  BY BusyJob DEF IndexStep, StoreTx, StoreEventByAddress, StoreEventById,
     Publish, SaveInteresting, SaveLatest, At, Stages
<1>3. ASSUME StoreTx(d) PROVE Underway(c, b, i)'
  <2>1. /\ UNCHANGED bus
        /\ job' = [job EXCEPT ![d].stage = "saveInteresting"]
    BY <1>3 DEF StoreTx, Move
  <2>2. ToPublish(c, b, i) /\ d = c => job[c].item # i
    BY <1>3 DEF StoreTx, At, ToPublish, OrderInv, JobOnItem
  <2>3. ToPublish(c, b, i) => ToPublish(c, b, i)'
    BY <2>1, <2>2, StageToPublish
  <2> QED
    BY <1>1, <2>1, <2>3, StaysUnderway
<1>4. ASSUME StoreEventByAddress(d) \/ StoreEventById(d) PROVE Underway(c, b, i)'
  <2>1. PICK stage \in {"storeById", "publish"} :
          job' = [job EXCEPT ![d].stage = stage]
    BY <1>4 DEF StoreEventByAddress, StoreEventById, Move
  <2>2. UNCHANGED bus
    BY <1>4 DEF StoreEventByAddress, StoreEventById
  <2>3. ToPublish(c, b, i) => ToPublish(c, b, i)'
    BY <2>1, StageToPublish
  <2> QED
    BY <1>1, <2>2, <2>3, StaysUnderway
<1>5. ASSUME Publish(d) PROVE Underway(c, b, i)'
  <2> DEFINE e == Id(d, job[d].block, job[d].item)
  <2>1. /\ bus' = Append(bus, e)
        /\ job' = [job EXCEPT ![d].stage = "saveInteresting"]
    BY <1>5 DEF Publish, Move
  <2>2. e \in AnyId /\ bus \in Seq(AnyId)
    BY <1>2 DEF TypeOK, AnyId, AnyJob, Id
  <2> HIDE DEF e
  <2>3. /\ \A n \in DOMAIN bus : n \in DOMAIN bus' /\ bus'[n] = bus[n]
        /\ Len(bus) + 1 \in DOMAIN bus' /\ bus'[Len(bus) + 1] = e
    BY <2>1, <2>2
  <2>4. CASE d = c /\ job[c].block = b /\ job[c].item = i
    <3>1. e = Id(c, b, i)
      BY <2>4 DEF e
    <3> QED
      BY <2>3, <3>1 DEF Underway
  <2>5. CASE ~(d = c /\ job[c].block = b /\ job[c].item = i)
    <3>1. ToPublish(c, b, i) => ToPublish(c, b, i)'
      <4>1. ToPublish(c, b, i) /\ d = c => job[c].item # i
        BY <2>5 DEF ToPublish
      <4> QED
        BY <2>1, <4>1, StageToPublish
    <3> QED
      BY <1>1, <2>3, <3>1 DEF Underway
  <2> QED
    BY <2>4, <2>5
<1>6. ASSUME SaveInteresting(d) PROVE Underway(c, b, i)'
  <2>1. /\ UNCHANGED bus
        /\ \A x \in Contracts : job'[x] =
              IF x = d THEN AtItem(d, job[d].block, job[d].item + 1)
                       ELSE job[x]
    BY <1>6 DEF SaveInteresting, TypeOK
  <2>2. CASE d # c
    <3>1. job'[c] = job[c]
      BY <2>1, <2>2
    <3>2. ToPublish(c, b, i) => ToPublish(c, b, i)'
      BY <3>1 DEF ToPublish
    <3> QED
      BY <1>1, <2>1, <3>2, StaysUnderway
  <2>3. CASE d = c
    <3>1. job[c].stage = "saveInteresting" /\ i \in Nat
      BY <1>6, <2>3, EventNumber DEF SaveInteresting, At
    <3>2. job'[c] = AtItem(c, job[c].block, job[c].item + 1)
      BY <2>1, <2>3
    <3>3. ToPublish(c, b, i) => ToPublish(c, b, i)'
      BY <1>2, <2>3, <3>1, <3>2, TurnToPublish
    <3> QED
      BY <1>1, <2>1, <3>3, StaysUnderway
  <2> QED
    BY <2>2, <2>3
<1>7. ASSUME SaveLatest(d) PROVE Underway(c, b, i)'
  <2>1. UNCHANGED bus /\ \A x \in Contracts \ {d} : job'[x] = job[x]
    BY <1>7 DEF SaveLatest, TypeOK
  <2>2. CASE d # c
    <3>1. job'[c] = job[c]
      BY <2>1, <2>2
    <3>2. ToPublish(c, b, i) => ToPublish(c, b, i)'
      BY <3>1 DEF ToPublish
    <3> QED
      BY <1>1, <2>1, <3>2, StaysUnderway
  <2>3. CASE d = c
    <3>1. job[c].item \notin DOMAIN Items[c][job[c].block]
      BY <1>7, <2>3 DEF SaveLatest, At, OrderInv, JobOnItem
    <3>2. ~ToPublish(c, b, i)
      <4> SUFFICES ASSUME ToPublish(c, b, i) PROVE FALSE
        OBVIOUS
      <4>1. job[c].block = b /\ job[c].item <= i
        BY DEF ToPublish
      <4>2. Items[c][b] \in Seq({"tx", "event"})
        BY ItemsAssumption DEF ItemsAssumption
      <4>3. job[c].item \in Nat \ {0}
        BY <1>2, <2>3 DEF AnyJob
      <4> QED
        BY <3>1, <4>1, <4>2, <4>3
    <3> QED
      BY <1>1, <2>1, <3>2, StaysUnderway
  <2> QED
    BY <2>2, <2>3
<1> QED
  BY <1>3, <1>4, <1>5, <1>6, <1>7 DEF IndexStep

(* What the dispatcher takes from the bus it finds on record.              *)
LEMMA DispatchKeeps ==
  ASSUME ~StorageFaults, TypeOK, PublishedIsStored, Dispatch,
         NEW c \in Contracts, NEW b \in Block,
         NEW i \in DOMAIN Items[c][b], Underway(c, b, i)
  PROVE  \/ Underway(c, b, i)'
         \/ Head(bus) = Id(c, b, i) /\ Id(c, b, i) \in dispatched'
<1> DEFINE e == Head(bus)
<1>1. bus \in Seq(AnyId) /\ bus # <<>> /\ bus' = Tail(bus)
      /\ UNCHANGED <<job, replay, cursor>>
  BY DEF Dispatch, TypeOK
<1>2. /\ 1 \in DOMAIN bus /\ e = bus[1]
      /\ \A n \in DOMAIN bus :
            n = 1 \/ (n - 1 \in DOMAIN bus' /\ bus'[n - 1] = bus[n])
  BY <1>1
<1>3. Key("EVENT", e[1], e[2], e[3]) \in keys
  BY <1>2 DEF PublishedIsStored
<1>4. e \in dispatched'
  <2>1. PICK readOk \in CallSucceeds :
          dispatched' = IF readOk /\ Key("EVENT", e[1], e[2], e[3]) \in keys
                          THEN dispatched \union {e} ELSE dispatched
    BY DEF Dispatch
  <2>2. readOk = TRUE
    BY <2>1, NoFaults
  <2> QED
    BY <1>3, <2>1, <2>2
<1>5. ASSUME NEW n \in DOMAIN bus, bus[n] = Id(c, b, i), e # Id(c, b, i)
      PROVE  Underway(c, b, i)'
  <2>1. n - 1 \in DOMAIN bus' /\ bus'[n - 1] = Id(c, b, i)
    BY <1>2, <1>5
  <2> QED
    BY <2>1 DEF Underway
<1> HIDE DEF e
<1>6. ToPublish(c, b, i) => ToPublish(c, b, i)'
  BY <1>1 DEF ToPublish
<1>7. CASE \E n \in DOMAIN bus : bus[n] = Id(c, b, i)
  BY <1>4, <1>5, <1>7 DEF e
<1>8. CASE ~\E n \in DOMAIN bus : bus[n] = Id(c, b, i)
  BY <1>1, <1>6, <1>8 DEF Underway
<1> QED
  BY <1>7, <1>8

(* The boot has every block below the restart point that holds an event on *)
(* the replay list, and walks the others.                                  *)
LEMMA BootKeeps ==
  ASSUME ~StorageFaults, TypeOK, OrderInv, RecordInv, Boot,
         NEW c \in Contracts, NEW b \in Block, NEW i \in DOMAIN Items[c][b]
  PROVE  Underway(c, b, i)'
<1>1. replay'[c] = idx[c].blocks /\ cursor'[c] = RestartBlock(c)
  BY BootLoads
<1>2. RestartBlock(c) \in Block /\ Below(c, RestartBlock(c))
  BY RestartInOrder DEF RestartIsSafe
<1>3. CASE RestartBlock(c) <= b
  BY <1>1, <1>3 DEF Underway
<1>4. CASE ~(RestartBlock(c) <= b)
  <2>1. b \in StartBlock..(RestartBlock(c) - 1)
    BY <1>2, <1>4 DEF Block
  <2>2. b \in indexed[c]
    BY <1>2, <2>1 DEF Below
  <2>3. b \in idx[c].blocks
    BY <2>2 DEF RecordInv, IndexedRecorded, BlockRecorded, ItemRecorded
  <2> QED
    BY <1>1, <2>3 DEF Underway
<1> QED
  BY <1>3, <1>4

LEMMA ForgottenInit == Init => NothingForgotten
  BY DEF Init, NothingForgotten

(* What a step does with an event that is underway: the dispatcher may     *)
(* have taken it, nobody else does.                                        *)
LEMMA UnderwayNext ==
  ASSUME TypeOK, OrderInv, RecordInv, ListedStored, ~StorageFaults,
         [Next]_vars, up', NEW e \in EventIds,
         ~up \/ Underway(e[1], e[2], e[3])
  PROVE  \/ Underway(e[1], e[2], e[3])'
         \/ Dispatch /\ Head(bus) = e /\ e \in dispatched'
<1> SUFFICES ASSUME NEW c \in Contracts, NEW b \in Block,
                    NEW i \in DOMAIN Items[c][b],
                    Items[c][b][i] = "event", e = Id(c, b, i),
                    ~up \/ Underway(c, b, i)
             PROVE  \/ Underway(c, b, i)'
                    \/ Dispatch /\ Head(bus) = e /\ e \in dispatched'
  BY EventIdsAre
<1>3. CASE Boot
  BY <1>3, BootKeeps
<1>4. ~Crash
  BY DEF Crash
<1>5. ASSUME NEW d \in Contracts, IndexStep(d) PROVE Underway(c, b, i)'
  <2>1. up
    BY <1>5 DEF IndexStep, StoreTx, StoreEventByAddress, StoreEventById,
       Publish, SaveInteresting, SaveLatest, At
  <2> QED
    BY <1>5, <2>1, IndexKeeps
<1>6. ASSUME NEW d \in Contracts,
             ScanDeliver(d) \/ ReplayDeliver(d) \/ ReplaySkip(d)
      PROVE  Underway(c, b, i)'
  <2>1. up
    BY <1>6 DEF ScanDeliver, ReplayDeliver, ReplaySkip
  <2> QED
    BY <1>6, <2>1, DeliverKeeps
<1>7. CASE Dispatch
  <2>1. up /\ PublishedIsStored
    BY <1>7 DEF Dispatch, RecordInv
  <2> QED
    BY <1>7, <2>1, DispatchKeeps
<1>8. CASE UNCHANGED <<up, cursor, replay, job, bus>>
  <2>1. Underway(c, b, i)
    BY <1>8
  <2>2. ToPublish(c, b, i) => ToPublish(c, b, i)'
    BY <1>8 DEF ToPublish
  <2> QED
    BY <1>8, <2>1, <2>2, StaysUnderway
<1>9. BlockStored \/ UNCHANGED vars
        \/ (\E d \in Contracts, synced \in BOOLEAN : ScanMiss(d, synced))
      => UNCHANGED <<up, cursor, replay, job, bus>>
  BY DEF BlockStored, ScanMiss, vars, volatile, history
<1> QED
  BY <1>3, <1>4, <1>5, <1>6, <1>7, <1>8, <1>9
     DEF Next, Process, ScanStep, ReplayStep

(* What was handed over stays handed over.                                 *)
LEMMA DispatchedGrows == [Next]_vars => dispatched \subseteq dispatched'
  BY DEF Next, Process, IndexStep, ScanStep, ReplayStep, Boot, Crash, BlockStored,
     StoreTx, StoreEventByAddress, StoreEventById, Publish, SaveInteresting,
     SaveLatest, ScanDeliver, ScanMiss, ReplayDeliver, ReplaySkip, Dispatch,
     vars, history

LEMMA ForgottenNext ==
  /\ TypeOK /\ OrderInv /\ RecordInv /\ ListedStored
  /\ NothingForgotten /\ [Next]_vars
  => NothingForgotten'
<1> SUFFICES ASSUME TypeOK, OrderInv, RecordInv, ListedStored,
                    NothingForgotten, [Next]_vars, ~StorageFaults, up',
                    NEW e \in EventIds
             PROVE  e \in dispatched' \/ Underway(e[1], e[2], e[3])'
  BY DEF NothingForgotten
<1>1. CASE e \in dispatched
  BY <1>1, DispatchedGrows
<1>2. CASE e \notin dispatched
  BY <1>2, UnderwayNext DEF NothingForgotten
<1> QED
  BY <1>1, <1>2

LEMMA ListedCorrect == Spec => []ListedStored
  BY TypeInit, TypeNext, OrderInit, OrderNext, ListedInit, ListedNext, PTL
  DEF Spec

(* While storage calls succeed, a running indexer has every event of the   *)
(* chain that it has not handed over on the bus, in the block at hand, on  *)
(* the replay list or before the walk, whatever the interleaving of the    *)
(* goroutines (Run, start, replayBlocks, Index) and the crashes.           *)
THEOREM NothingEverForgotten == Spec => []NothingForgotten
  BY RecordCorrect, ListedCorrect, ForgottenInit, ForgottenNext, PTL DEF Spec
=============================================================================
