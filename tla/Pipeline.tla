------------------------------ MODULE Pipeline ------------------------------
(***************************************************************************)
(* The two ingestion processes of the deployment (etc/fly: synchronizer,   *)
(* indexer) on their one shared store of blocks.  Each is restarted on its *)
(* own; they never talk except through BLOCK#n records.  The synchronizer  *)
(* takes the place of the indexer's BlockStored environment, and the       *)
(* indexer's syncBlock that of the synchronizer's BlockFilled.  The        *)
(* constants of Synchronizer are the synchronizer's; each process has a    *)
(* connection of its own to the storage, and its own faults.               *)
(***************************************************************************)
EXTENDS Synchronizer, Sequences

CONSTANTS Contracts, Items, RetryLimit,
          IndexerFaults,        (* whether the indexer's storage calls fail*)
          MaxIndexerCrashes     (* bound: crashes of the indexer process   *)

VARIABLES idx, keys, up, cursor, retries, replay, job, bus,
          indexed, dispatched, crashes

Indexer == INSTANCE Indexer WITH MaxCrashes    <- MaxIndexerCrashes,
                                 StorageFaults <- IndexerFaults

indexerVars == <<idx, keys, up, cursor, retries, replay, job, bus,
                 indexed, dispatched, crashes>>
synchronizerVars == <<latestBlock, syncUp, nextBlock, storing, checking,
                      advancing, lost, syncCrashes>>
pipelineVars == <<blockStore, indexerVars, synchronizerVars>>

PipelineInit == Indexer!Init /\ Init

IndexerStep == /\ Indexer!Process \/ Indexer!Crash
               /\ UNCHANGED synchronizerVars

SynchronizerStep == /\ Process \/ Crash
                    /\ UNCHANGED indexerVars

PipelineNext == IndexerStep \/ SynchronizerStep

PipelineSpec == PipelineInit /\ [][PipelineNext]_pipelineVars

FairPipelineSpec == PipelineSpec /\ Indexer!Fairness /\ Fairness

---------------------------------------------------------------------------
(* A hole the synchronizer left behind (a block its crash caught between   *)
(* the two goroutines of SyncBlock, or whose Set failed) is found and      *)
(* filled by an indexer's walk, although the synchronizer will not come    *)
(* back to it.                                                             *)
HolesAreFilled == \A n \in Block : (n \in lost) ~> (n \in blockStore)

(* With the real synchronizer in place of an environment that may store    *)
(* any block, every block is still indexed and every event dispatched.     *)
DeliversAll == Indexer!DeliversAll

(* Each process, seen alone, behaves as its own module says: the other one *)
(* does no more to the shared blocks than its environment action allows.   *)
ImplementsIndexer == Indexer!Spec
ImplementsSynchronizer == Spec
=============================================================================
