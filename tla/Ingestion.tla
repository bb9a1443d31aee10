----------------------------- MODULE Ingestion -----------------------------
(***************************************************************************)
(* The whole indexer process (cmd/indexer): the EventIndexers of module    *)
(* Indexer and the handlers of module Subscribers, which share one life.   *)
(* RegisterSubscribers runs before indexer.Run, the event:published        *)
(* handler announces an event only when it could read it back, and a crash *)
(* takes goroutines, channels and messages of both.  The migration may     *)
(* reset a minter value meanwhile.                                         *)
(***************************************************************************)
EXTENDS Indexer

CONSTANTS SubjectOf, ProjectOf, Moves, SlotOf, TokenOf, Copies, MaxValue, MaxResets,
          RpcFaults, FaultySubjects   (* constants of Subscribers          *)

VARIABLES records, minterRows, sent, queue, work, moves, resets

Handlers == INSTANCE Subscribers WITH Events <- EventIds

ASSUME HandlersAssumption ==
    /\ SubjectOf \in [EventIds -> Handlers!Subjects]
    /\ Moves \in Nat
    /\ \A e \in EventIds, n \in 0..Moves : SlotOf[e][n] \in Nat \ {0}
    /\ Copies \in Nat \ {0} /\ MaxValue \in Nat \ {0} /\ MaxResets \in Nat
    /\ RpcFaults \in BOOLEAN /\ FaultySubjects \subseteq Handlers!Subjects

handlerVars   == <<records, minterRows, sent, queue, work, moves, resets>>
ingestionVars == <<vars, handlerVars>>

IngestionInit == Init /\ Handlers!Init

BootBoth  == Boot /\ Handlers!Boot
CrashBoth == Crash /\ Handlers!Crash

(* The event was read back, and goes to the queue of its subject, or was   *)
(* not.  From 2 on, Copies bounds nothing here (NoThirdCopy).              *)
ReadBack(e, ok) == IF ok THEN e \in dispatched'
                         ELSE StorageFaults \/ e \notin dispatched'

BadDispatchBoth ==
    /\ Dispatch
    /\ LET e == Head(bus)
       IN \E ok \in BOOLEAN :
            /\ ReadBack(e, ok)
            /\ IF ok /\ e \notin dispatched THEN Handlers!Publish(e)
                                            ELSE UNCHANGED handlerVars

DispatchBoth ==
    /\ Dispatch
    /\ LET e == Head(bus)
       IN \E ok \in BOOLEAN :
            /\ ReadBack(e, ok)
            /\ IF ok THEN Handlers!Publish(e) ELSE UNCHANGED handlerVars

IndexerAlone ==
    /\ \/ BlockStored
       \/ \E c \in Contracts : IndexStep(c) \/ ScanStep(c) \/ ReplayStep(c)
    /\ UNCHANGED handlerVars
HandlersAlone ==
    /\ \/ \E s \in Handlers!Subjects : Handlers!Handle(s)
       \/ Handlers!ClearMinterBuyValue
       \/ Handlers!ChangeSlot
    /\ UNCHANGED vars

IngestionNext == \/ BootBoth \/ CrashBoth \/ DispatchBoth
                 \/ IndexerAlone \/ HandlersAlone
IngestionSpec == IngestionInit /\ [][IngestionNext]_ingestionVars

(* As in the two modules; that events are announced is no assumption here. *)
FairIngestionSpec ==
    /\ IngestionSpec /\ Fairness
    /\ \A e \in EventIds : WF_handlerVars(Handlers!Handle(SubjectOf[e]))

---------------------------------------------------------------------------
(* What Subscribers assumes of the indexer in front of it is what Indexer  *)
(* does: together they behave as Subscribers alone, and in every life that *)
(* lasts every event of the chain is announced.                            *)
ImplementsHandlers == Handlers!FairSpec

(* While storage calls succeed, a running process holds every event of the *)
(* chain, wherever the last crash struck: it has still to announce it, or  *)
(* it has announced it in this life, and then the event is on record, or   *)
(* its message waits, or its handler is at work on it, unless the database *)
(* fails that handler.                                                     *)
NothingLost ==
    up /\ ~StorageFaults =>
        \A e \in EventIds :
            \/ Underway(e[1], e[2], e[3])
            \/ /\ sent[e] > 0
               /\ \/ SubjectOf[e] \in FaultySubjects
                  \/ Handlers!Recorded(e)
                  \/ Handlers!Queued(e)
                  \/ /\ Handlers!WorkedOn(e)
                     /\ work[SubjectOf[e]].stage \in {"wait", "create"}

(* The first life announces an event of the chain once at most, and a life *)
(* after a crash twice, when the replay and the walk both come upon it:    *)
(* whatever fails, no goroutine hands a block over again.                  *)
NoThirdCopy ==
    \A e \in EventIds : sent[e] <= (IF crashes = 0 THEN 1 ELSE 2)
=============================================================================
