---------------------------- MODULE Synchronizer ----------------------------
(***************************************************************************)
(* The synchronizer process (cmd/synchronizer, internal/synchronizer):     *)
(* `start` walks the chain from the stored LATEST_BLOCK on and hands every *)
(* block to Start's loop.  SyncBlock leaves the rest to two goroutines per *)
(* block that nothing waits for: storeBlock saves BLOCK#n, and             *)
(* storeLatestBlock reads LATEST_BLOCK and overwrites it if it is smaller. *)
(* Goroutines of different blocks interleave freely, and a crash drops     *)
(* them.  The indexer process, which shares the storage and sometimes adds *)
(* a block, is the environment here (BlockFilled).                         *)
(***************************************************************************)
EXTENDS Integers

CONSTANTS
    StartBlock,     (* configuration.StartBlock                            *)
    MaxBlock,       (* bound: the last block of the modelled chain         *)
    MaxCrashes,     (* bound: how often the process dies                   *)
    StorageFaults   (* whether a storage call may fail (it is only logged) *)

Block == StartBlock..MaxBlock

ASSUME ChainAssumption ==
    /\ StartBlock \in Nat \ {0}
    /\ MaxBlock \in Nat
    /\ StartBlock <= MaxBlock
ASSUME BoundsAssumption ==
    /\ MaxCrashes \in Nat
    /\ StorageFaults \in BOOLEAN

VARIABLES
    blockStore,   (* durable: the n for which BLOCK#n is stored            *)
    latestBlock,  (* durable: LATEST_BLOCK; 0 while there is none          *)
    syncUp,       (* the process runs                                      *)
    nextBlock,    (* start's block                                         *)
    storing,      (* blocks whose storeBlock has not called Set yet        *)
    checking,     (* blocks whose storeLatestBlock has not read yet        *)
    advancing,    (* blocks whose storeLatestBlock is about to write       *)
    lost,         (* history: blocks not stored and below the point where  *)
                  (* the process resumed, or whose Set failed              *)
    syncCrashes   (* history: crashes so far                               *)

vars == <<blockStore, latestBlock, syncUp, nextBlock, storing, checking,
          advancing, lost, syncCrashes>>

(* A storage call returns an error only when StorageFaults allows it.      *)
CallSucceeds == IF StorageFaults THEN BOOLEAN ELSE {TRUE}

(* Definitions named Bad... are never used: each one is a plausible bug in *)
(* the definition after it, and some property of this module rejects it.   *)

(* getLatestBlock: 0 when LATEST_BLOCK is absent or cannot be read.        *)
LatestSeen(readOk) == IF readOk THEN latestBlock ELSE 0

(* start: the block it resumes from is LATEST_BLOCK itself.                *)
BadUnclamped(latest) == latest
BadResumeAt(latest) == IF latest > StartBlock THEN latest + 1 ELSE StartBlock
ResumeAt(latest)    == IF latest > StartBlock THEN latest ELSE StartBlock

Init ==
    /\ blockStore = {}
    /\ latestBlock = 0
    /\ syncUp = FALSE
    /\ nextBlock = StartBlock
    /\ storing = {}
    /\ checking = {}
    /\ advancing = {}
    /\ lost = {}
    /\ syncCrashes = 0

---------------------------------------------------------------------------
(* start, before its loop.                                                 *)
Boot ==
    /\ ~syncUp
    /\ syncUp' = TRUE
    /\ \E readOk \in CallSucceeds : nextBlock' = ResumeAt(LatestSeen(readOk))
    /\ UNCHANGED <<blockStore, latestBlock, storing, checking, advancing,
                   lost, syncCrashes>>

(* FetchBlock finds the block in storage or gets it from the gateway, and  *)
(* SyncBlock starts its two goroutines.                                    *)
SyncBlock ==
    /\ syncUp
    /\ nextBlock \in Block
    /\ nextBlock' = nextBlock + 1
    /\ storing' = storing \union {nextBlock}
    /\ checking' = checking \union {nextBlock}
    /\ UNCHANGED <<blockStore, latestBlock, syncUp, advancing, lost,
                   syncCrashes>>

(* FetchBlock fails: block not produced yet, or a gateway or decoding      *)
(* error.  start sleeps and tries the same block again.                    *)
FetchFails ==
    /\ syncUp
    /\ UNCHANGED vars

(* storeBlock's Set.                                                       *)
StoreBlock(n) ==
    /\ syncUp
    /\ n \in storing
    /\ storing' = storing \ {n}
    /\ \E ok \in CallSucceeds :
         /\ blockStore' = IF ok THEN blockStore \union {n} ELSE blockStore
         /\ lost' = IF ok THEN lost ELSE lost \union {n}
    /\ UNCHANGED <<latestBlock, syncUp, nextBlock, checking, advancing,
                   syncCrashes>>

(* storeLatestBlock reads LATEST_BLOCK and returns unless n is larger ...  *)
CheckLatest(n) ==
    /\ syncUp
    /\ n \in checking
    /\ checking' = checking \ {n}
    /\ \E readOk \in CallSucceeds :
         advancing' = IF LatestSeen(readOk) >= n THEN advancing
                                                 ELSE advancing \union {n}
    /\ UNCHANGED <<blockStore, latestBlock, syncUp, nextBlock, storing, lost,
                   syncCrashes>>

(* ... and writes n, whatever LATEST_BLOCK has become since.               *)
AdvanceLatest(n) ==
    /\ syncUp
    /\ n \in advancing
    /\ advancing' = advancing \ {n}
    /\ \E ok \in CallSucceeds :
         latestBlock' = IF ok THEN n ELSE latestBlock
    /\ UNCHANGED <<blockStore, syncUp, nextBlock, storing, checking, lost,
                   syncCrashes>>

(* The process dies (log.Fatal, a panic, a redeploy) with its goroutines.  *)
(* Of the blocks not stored yet, those below LATEST_BLOCK are not fetched  *)
(* again by this process.                                                  *)
Crash ==
    /\ syncUp
    /\ syncCrashes < MaxCrashes
    /\ syncCrashes' = syncCrashes + 1
    /\ syncUp' = FALSE
    /\ lost' = lost \union {n \in storing : n < latestBlock}
    /\ nextBlock' = StartBlock
    /\ storing' = {}
    /\ checking' = {}
    /\ advancing' = {}
    /\ UNCHANGED <<blockStore, latestBlock>>

(* External: the indexer process fetched and stored a block by itself.     *)
BlockFilled ==
    /\ \E n \in Block \ blockStore : blockStore' = blockStore \union {n}
    /\ UNCHANGED <<latestBlock, syncUp, nextBlock, storing, checking,
                   advancing, lost, syncCrashes>>

StoreLatestBlock(n) == CheckLatest(n) \/ AdvanceLatest(n)

Process ==
    \/ Boot
    \/ SyncBlock
    \/ FetchFails
    \/ \E n \in Block : StoreBlock(n) \/ StoreLatestBlock(n)

Next == Process \/ Crash \/ BlockFilled

Spec == Init /\ [][Next]_vars

(* The host restarts the process, every goroutine is scheduled, and the    *)
(* gateway does not refuse one block for ever.                             *)
Fairness ==
    /\ WF_vars(Boot)
    /\ WF_vars(SyncBlock)
    /\ \A n \in Block : WF_vars(StoreBlock(n)) /\ WF_vars(StoreLatestBlock(n))

---------------------------------------------------------------------------
(* Properties.                                                             *)

(* Every variable keeps its shape, and a stopped process has no goroutine. *)
TypeOK ==
    /\ blockStore \subseteq Block
    /\ latestBlock \in Block \union {0}
    /\ syncUp \in BOOLEAN
    /\ nextBlock \in StartBlock..(MaxBlock + 1)
    /\ storing \subseteq Block
    /\ checking \subseteq Block
    /\ advancing \subseteq Block
    /\ lost \subseteq Block
    /\ syncCrashes \in 0..MaxCrashes
    /\ ~syncUp => storing \union checking \union advancing = {}

(* The only blocks left behind without being stored, by the walk or by the *)
(* point where a restart would resume it, are those a crash caught in      *)
(* storeBlock after LATEST_BLOCK had passed them, and those whose Set      *)
(* failed.  In particular the block LATEST_BLOCK names is never lost in a  *)
(* crash, however the goroutines of different blocks interleave: the       *)
(* process resumes at it, not after it.                                    *)
Accounted == blockStore \union storing \union lost
HolesWereOvertaken ==
    /\ StartBlock..(latestBlock - 1) \subseteq Accounted
    /\ syncUp => StartBlock..(nextBlock - 1) \subseteq Accounted

---------------------------------------------------------------------------
(* The inductive invariant of module PipelineProofs: beside the above,     *)
(* whatever a goroutine may still write to LATEST_BLOCK is behind the walk.*)
WritersBehind == checking \union advancing \subseteq StartBlock..(nextBlock - 1)
HolesInv == HolesWereOvertaken /\ WritersBehind
=============================================================================
