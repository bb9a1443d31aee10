--------------------------- MODULE PipelineProofs ---------------------------
(***************************************************************************)
(* Proofs about module Synchronizer, for any chain, any number of crashes, *)
(* and storage calls that may fail; and about the composition, which       *)
(* implements each of its processes: what is proved of Indexer and of      *)
(* Synchronizer against an environment holds when they run against each    *)
(* other.                                                                  *)
(***************************************************************************)
EXTENDS Pipeline, TLAPS

USE ChainAssumption, BoundsAssumption DEF ChainAssumption, BoundsAssumption

LEMMA LatestSeenType ==
  ASSUME TypeOK, NEW ok \in CallSucceeds
  PROVE  /\ LatestSeen(ok) \in {0, latestBlock}
         /\ ResumeAt(LatestSeen(ok)) \in Block
  BY DEF TypeOK, CallSucceeds, LatestSeen, ResumeAt, Block

LEMMA TypeInit == Init => TypeOK
<1>1. Init => nextBlock \in StartBlock..(MaxBlock + 1)
  BY DEF Init
<1>2. Init => syncCrashes \in 0..MaxCrashes
  BY DEF Init
<1> QED
  BY <1>1, <1>2 DEF Init, TypeOK

LEMMA TypeNext == TypeOK /\ [Next]_vars => TypeOK'
<1> SUFFICES ASSUME TypeOK, [Next]_vars PROVE TypeOK'
  OBVIOUS
<1>1. CASE Boot
  <2>1. nextBlock' \in StartBlock..(MaxBlock + 1)
    BY <1>1, LatestSeenType DEF Boot, Block
  <2> QED
    BY <1>1, <2>1 DEF Boot, TypeOK
<1>2. CASE SyncBlock
  BY <1>2 DEF SyncBlock, TypeOK, Block
<1>3. ASSUME NEW n \in Block, StoreBlock(n) PROVE TypeOK'
  BY <1>3 DEF StoreBlock, TypeOK
<1>4. ASSUME NEW n \in Block, CheckLatest(n) PROVE TypeOK'
  BY <1>4 DEF CheckLatest, TypeOK
<1>5. ASSUME NEW n \in Block, AdvanceLatest(n) PROVE TypeOK'
  <2>1. latestBlock' \in {latestBlock, n}
    BY <1>5 DEF AdvanceLatest
  <2> QED
    BY <1>5, <2>1 DEF AdvanceLatest, TypeOK
<1>6. CASE Crash
  <2>1. syncCrashes' \in 0..MaxCrashes /\ nextBlock' \in StartBlock..(MaxBlock + 1)
    BY <1>6 DEF Crash, TypeOK
  <2> QED
    BY <1>6, <2>1 DEF Crash, TypeOK
<1>7. CASE BlockFilled
  BY <1>7 DEF BlockFilled, TypeOK
<1>8. CASE FetchFails \/ UNCHANGED vars
  BY <1>8 DEF FetchFails, vars, TypeOK
<1> QED
  BY <1>1, <1>2, <1>3, <1>4, <1>5, <1>6, <1>7, <1>8
     DEF Next, Process, StoreLatestBlock

(* Every variable keeps its shape, and a stopped process has no goroutine. *)
THEOREM TypeCorrect == Spec => []TypeOK
  BY TypeInit, TypeNext, PTL DEF Spec

---------------------------------------------------------------------------
LEMMA HolesInit == Init => HolesInv
  BY DEF Init, HolesInv, HolesWereOvertaken, WritersBehind

LEMMA HolesNext == TypeOK /\ HolesInv /\ [Next]_vars => HolesInv'
<1> SUFFICES ASSUME TypeOK, HolesInv, [Next]_vars PROVE HolesInv'
  OBVIOUS
<1> USE DEF HolesInv, HolesWereOvertaken, WritersBehind, Accounted
(* The walk resumes at LATEST_BLOCK or at the first block.                 *)
<1>1. CASE Boot
  <2>1. PICK readOk \in CallSucceeds : nextBlock' = ResumeAt(LatestSeen(readOk))
    BY <1>1 DEF Boot
  <2>2. StartBlock..(nextBlock' - 1) \subseteq Accounted
    BY <2>1, LatestSeenType DEF ResumeAt, TypeOK, Block
  <2> QED
    BY <1>1, <2>2 DEF Boot, TypeOK
(* The block passed is in the hands of its storeBlock.                     *)
<1>2. CASE SyncBlock
  BY <1>2 DEF SyncBlock, TypeOK, Block
<1>3. ASSUME NEW n \in Block, StoreBlock(n) PROVE HolesInv'
  BY <1>3 DEF StoreBlock, TypeOK
<1>4. ASSUME NEW n \in Block, CheckLatest(n) PROVE HolesInv'
  BY <1>4 DEF CheckLatest, TypeOK
(* LATEST_BLOCK only ever names a block behind the walk.                   *)
<1>5. ASSUME NEW n \in Block, AdvanceLatest(n) PROVE HolesInv'
  <2>1. StartBlock..(n - 1) \subseteq Accounted /\ n < nextBlock
    BY <1>5 DEF AdvanceLatest, TypeOK, Block
  <2>2. latestBlock' \in {latestBlock, n}
    BY <1>5 DEF AdvanceLatest
  <2> QED
    BY <1>5, <2>1, <2>2 DEF AdvanceLatest, TypeOK
(* What a crash drops from below LATEST_BLOCK becomes a hole.              *)
<1>6. CASE Crash
  <2>1. StartBlock..(latestBlock' - 1) \subseteq Accounted'
    BY <1>6 DEF Crash, TypeOK, Block
  <2> QED
    BY <1>6, <2>1 DEF Crash
<1>7. CASE BlockFilled
  BY <1>7 DEF BlockFilled, TypeOK
<1>8. CASE FetchFails \/ UNCHANGED vars
  BY <1>8 DEF FetchFails, vars
<1> QED
  BY <1>1, <1>2, <1>3, <1>4, <1>5, <1>6, <1>7, <1>8
     DEF Next, Process, StoreLatestBlock

(* However the goroutines interleave and whenever the process crashes, the *)
(* only blocks it leaves behind unstored are those overtaken at a crash    *)
(* and those whose Set failed.                                             *)
THEOREM OnlyOvertakenHoles == Spec => []HolesWereOvertaken
<1>1. Spec => [](TypeOK /\ HolesInv)
  BY TypeInit, TypeNext, HolesInit, HolesNext, PTL DEF Spec
<1>2. HolesInv => HolesWereOvertaken
  BY DEF HolesInv
<1> QED
  BY <1>1, <1>2, PTL

---------------------------------------------------------------------------
(* The synchronizer disturbs the shared blocks no more than the indexer's  *)
(* environment may: it adds at most one block.                             *)
LEMMA SynchronizerAddsBlocks ==
  ASSUME SynchronizerStep
  PROVE  Indexer!BlockStored \/ UNCHANGED Indexer!vars
<1> USE DEF SynchronizerStep, indexerVars
<1>1. ASSUME NEW n \in Block, StoreBlock(n)
      PROVE  Indexer!BlockStored \/ UNCHANGED Indexer!vars
  <2>1. blockStore' = blockStore \/ blockStore' = blockStore \union {n}
    BY <1>1 DEF StoreBlock
  <2>2. CASE blockStore' = blockStore
    BY <2>2 DEF Indexer!vars
  <2>3. CASE n \notin blockStore /\ blockStore' = blockStore \union {n}
    BY <2>3 DEF Indexer!BlockStored, Indexer!volatile, Indexer!history,
       Indexer!Block, Block
  <2> QED
    BY <2>1, <2>2, <2>3
<1>2. ASSUME \A n \in Block : ~StoreBlock(n)
      PROVE  UNCHANGED blockStore
  BY <1>2 DEF Process, Boot, SyncBlock,
     FetchFails, StoreLatestBlock, vars,
     CheckLatest, AdvanceLatest, Crash
<1> QED
  BY <1>1, <1>2 DEF Indexer!vars

(* The indexer disturbs the shared blocks no more than the synchronizer's  *)
(* environment may.                                                        *)
LEMMA IndexerAddsBlocks ==
  ASSUME IndexerStep
  PROVE  BlockFilled \/ UNCHANGED vars
<1> USE DEF IndexerStep, synchronizerVars
<1>1. ASSUME NEW c \in Contracts, NEW synced \in BOOLEAN,
             Indexer!ScanMiss(c, synced)
      PROVE  BlockFilled \/ UNCHANGED vars
  <2>1. blockStore' = blockStore
          \/ (cursor[c] \in Indexer!Block
              /\ blockStore' = blockStore \union {cursor[c]})
    BY <1>1 DEF Indexer!ScanMiss, Indexer!GatewayServes
  <2>2. CASE blockStore' = blockStore
    BY <2>2 DEF vars
  <2>3. CASE /\ cursor[c] \in Indexer!Block \ blockStore
             /\ blockStore' = blockStore \union {cursor[c]}
    BY <2>3 DEF BlockFilled, Indexer!Block, Block
  <2> QED
    BY <2>1, <2>2, <2>3
<1>2. ASSUME \A c \in Contracts, synced \in BOOLEAN :
               ~Indexer!ScanMiss(c, synced)
      PROVE  UNCHANGED blockStore
  BY <1>2 DEF Indexer!Process, Indexer!Boot, Indexer!Dispatch, Indexer!Crash,
     Indexer!IndexStep, Indexer!StoreTx, Indexer!StoreEventByAddress,
     Indexer!StoreEventById, Indexer!Publish, Indexer!SaveInteresting,
     Indexer!SaveLatest, Indexer!ScanStep, Indexer!ScanDeliver,
     Indexer!ReplayStep, Indexer!ReplayDeliver, Indexer!ReplaySkip,
     Indexer!durable
<1> QED
  BY <1>1, <1>2 DEF vars

(* Next to the real synchronizer, the indexer process (indexer.go) does    *)
(* what module Indexer says it does next to its environment.               *)
THEOREM PipelineImplementsIndexer == PipelineSpec => ImplementsIndexer
<1>1. PipelineInit => Indexer!Init
  BY DEF PipelineInit
<1>2. [PipelineNext]_pipelineVars => [Indexer!Next]_(Indexer!vars)
  <2>1. ASSUME IndexerStep PROVE Indexer!Next
    BY <2>1 DEF IndexerStep, Indexer!Next
  <2>2. ASSUME SynchronizerStep PROVE [Indexer!Next]_(Indexer!vars)
    BY <2>2, SynchronizerAddsBlocks DEF Indexer!Next
  <2>3. ASSUME UNCHANGED pipelineVars PROVE UNCHANGED Indexer!vars
    BY <2>3 DEF pipelineVars, indexerVars, Indexer!vars
  <2> QED
    BY <2>1, <2>2, <2>3 DEF PipelineNext
<1> QED
  BY <1>1, <1>2, PTL DEF PipelineSpec, ImplementsIndexer, Indexer!Spec

(* Next to the real indexer, the synchronizer process (synchronizer.go)    *)
(* does what module Synchronizer says.                                     *)
THEOREM PipelineImplementsSynchronizer == PipelineSpec => ImplementsSynchronizer
<1>1. PipelineInit => Init
  BY DEF PipelineInit
<1>2. [PipelineNext]_pipelineVars => [Next]_(vars)
  <2>1. ASSUME SynchronizerStep PROVE Next
    BY <2>1 DEF SynchronizerStep, Next
  <2>2. ASSUME IndexerStep PROVE [Next]_(vars)
    BY <2>2, IndexerAddsBlocks DEF Next
  <2>3. ASSUME UNCHANGED pipelineVars PROVE UNCHANGED vars
    BY <2>3 DEF pipelineVars, synchronizerVars, vars
  <2> QED
    BY <2>1, <2>2, <2>3 DEF PipelineNext
<1> QED
  BY <1>1, <1>2, PTL DEF PipelineSpec, ImplementsSynchronizer, Spec

(* So in the deployment too, with the indexer filling in blocks, the       *)
(* synchronizer leaves only the holes that its own crashes and failed      *)
(* writes account for.                                                     *)
THEOREM PipelineHoles == PipelineSpec => [](TypeOK /\ HolesWereOvertaken)
<1>1. Spec => [](TypeOK /\ HolesWereOvertaken)
  BY TypeCorrect, OnlyOvertakenHoles, PTL
<1> QED
  BY <1>1, PipelineImplementsSynchronizer, PTL DEF ImplementsSynchronizer
=============================================================================
