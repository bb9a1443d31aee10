-------------------------- MODULE IngestionProofs --------------------------
(***************************************************************************)
(* The whole indexer process implements both of the modules it is composed *)
(* of: what is proved of Indexer holds with the handlers beside it, and    *)
(* what is proved of Subscribers, against any announcements, holds behind  *)
(* the real indexer.  Together they lose no event between the chain and    *)
(* the records, and announce none a third time.  (Fairness is left to TLC.)*)
(***************************************************************************)
EXTENDS Ingestion, IndexerProofs, FiniteSetTheorems

(* Seen from the indexer, the handlers change nothing.                     *)
LEMMA IngestionStepsIndexer == [IngestionNext]_ingestionVars => [Next]_vars
<1> SUFFICES ASSUME [IngestionNext]_ingestionVars PROVE Next \/ UNCHANGED vars
  OBVIOUS
<1>1. CASE BootBoth \/ CrashBoth \/ DispatchBoth
  BY <1>1 DEF BootBoth, CrashBoth, DispatchBoth, Next, Process
<1>2. CASE IndexerAlone
  BY <1>2 DEF IndexerAlone, Next, Process
<1>3. CASE HandlersAlone
  BY <1>3 DEF HandlersAlone
<1>4. CASE UNCHANGED ingestionVars
  BY <1>4 DEF ingestionVars
<1> QED
  BY <1>1, <1>2, <1>3, <1>4 DEF IngestionNext

(* The process is, for the indexer's part (indexer.go), what module        *)
(* Indexer says: the handlers only read what it has announced.             *)
THEOREM IngestionImplementsIndexer == IngestionSpec => Spec
<1>1. IngestionInit => Init
  BY DEF IngestionInit
<1> QED
  BY <1>1, IngestionStepsIndexer, PTL DEF IngestionSpec, Spec

(* The walk, the replay and the loop leave the handlers, the life of the   *)
(* process and the count of its crashes alone.                             *)
LEMMA IndexerLeavesHandlers ==
  ASSUME IndexerAlone
  PROVE  UNCHANGED Handlers!vars
<1> USE DEF IndexerAlone, handlerVars, Handlers!vars, durable, volatile, history
<1>1. CASE BlockStored
  BY <1>1 DEF BlockStored
<1>2. ASSUME NEW c \in Contracts, IndexStep(c) PROVE UNCHANGED <<up, crashes>>
  BY <1>2 DEF IndexStep, StoreTx, StoreEventByAddress, StoreEventById, Publish,
     SaveInteresting, SaveLatest
<1>3. ASSUME NEW c \in Contracts, ScanStep(c) PROVE UNCHANGED <<up, crashes>>
  BY <1>3 DEF ScanStep, ScanDeliver, ScanMiss
<1>4. ASSUME NEW c \in Contracts, ReplayStep(c) PROVE UNCHANGED <<up, crashes>>
  BY <1>4 DEF ReplayStep, ReplayDeliver, ReplaySkip
<1> QED
  BY <1>1, <1>2, <1>3, <1>4

(* What the dispatcher hands over is an event of the chain, which only the *)
(* order in which the indexer works guarantees.                            *)
LEMMA IngestionStepsHandlers ==
  ASSUME TypeOK, BusOfEvents, [IngestionNext]_ingestionVars
  PROVE  [Handlers!Next]_Handlers!vars
<1>1. CASE BootBoth
  BY <1>1 DEF BootBoth, Handlers!Next
<1>2. CASE CrashBoth
  BY <1>2 DEF CrashBoth, Handlers!Next
<1>3. CASE DispatchBoth
  <2>1. bus # <<>> /\ UNCHANGED <<up, crashes>>
    BY <1>3 DEF DispatchBoth, Dispatch
  <2>2. Head(bus) \in EventIds
    BY <2>1 DEF BusOfEvents, TypeOK
  <2>3. CASE Handlers!Publish(Head(bus))
    BY <2>2, <2>3 DEF Handlers!Next
  <2>4. CASE UNCHANGED handlerVars
    BY <2>1, <2>4 DEF handlerVars, Handlers!vars
  <2> QED
    BY <1>3, <2>3, <2>4 DEF DispatchBoth
<1>4. CASE IndexerAlone
  BY <1>4, IndexerLeavesHandlers
<1>5. CASE HandlersAlone
  BY <1>5 DEF HandlersAlone, Handlers!Next
<1>6. CASE UNCHANGED ingestionVars
  BY <1>6 DEF ingestionVars, vars, handlerVars, Handlers!vars, durable,
     volatile, history
<1> QED
  BY <1>1, <1>2, <1>3, <1>4, <1>5, <1>6 DEF IngestionNext

(* The process is, for the handlers (internal/subscriber), what module     *)
(* Subscribers says: whatever crashes and storage faults do to the indexer *)
(* in front, it announces only events of the chain, and only in a life of  *)
(* the process.                                                            *)
THEOREM IngestionImplementsHandlers == IngestionSpec => Handlers!Spec
<1>1. IngestionInit => Handlers!Init
  BY DEF IngestionInit
<1>2. IngestionSpec => [](TypeOK /\ OrderInv)
  BY IngestionImplementsIndexer, OrderCorrect, PTL
<1>3. TypeOK /\ OrderInv /\ [IngestionNext]_ingestionVars
        => [Handlers!Next]_Handlers!vars
  BY IngestionStepsHandlers DEF OrderInv
<1> QED
  BY <1>1, <1>2, <1>3, PTL DEF IngestionSpec, Handlers!Spec

(* What the process keeps across crashes (internal/indexer/indexer.go):    *)
(* everything below the restart point is stored and will be replayed, an   *)
(* event is announced after it can be read, a running process has every    *)
(* event it has not handed over still ahead of it, and the restart point   *)
(* falls only while a listed block is indexed again, never below the       *)
(* newest one listed.  Handlers and their crashes beside the indexer       *)
(* disturb none of them, nor the order in which events are handed over.    *)
THEOREM IngestionKeepsEvents ==
  IngestionSpec => /\ [](RestartRecovers /\ PublishedIsStored
                           /\ NothingForgotten)
                   /\ RegressionIsBounded
                   /\ ImplementsEventLog
<1>1. IngestionSpec => []RestartRecovers
  BY IngestionImplementsIndexer, RestartAlwaysRecovers, PTL
<1>2. IngestionSpec => []PublishedIsStored
  BY IngestionImplementsIndexer, PublishedIsAlwaysStored, PTL
<1>3. IngestionSpec => []NothingForgotten
  BY IngestionImplementsIndexer, NothingEverForgotten, PTL
<1>4. IngestionSpec => RegressionIsBounded
  BY IngestionImplementsIndexer, RegressionStaysBounded, PTL
<1>5. IngestionSpec => ImplementsEventLog
  BY IngestionImplementsIndexer, IndexerImplementsEventLog, PTL
<1> QED
  BY <1>1, <1>2, <1>3, <1>4, <1>5, PTL

---------------------------------------------------------------------------
(* The theorems of SubscribersProofs, about the events of this chain.  For *)
(* the prover the instance below and the one in Ingestion are two modules, *)
(* which the lemmas up to SameSpec show to say the same.                   *)
Proved == INSTANCE SubscribersProofs WITH Events <- EventIds

LEMMA SameSubjects == Handlers!Subjects = Proved!Subjects
  BY DEF Handlers!Subjects, Proved!Subjects,
     Handlers!ProjectSubjects, Proved!ProjectSubjects,
     Handlers!MinterSubjects, Proved!MinterSubjects,
     Handlers!MigratorSubjects, Proved!MigratorSubjects,
     Handlers!OffseterSubjects, Proved!OffseterSubjects,
     Handlers!YielderSubjects, Proved!YielderSubjects

(* What its theorems assume is what Ingestion assumes.                     *)
LEMMA SameAssumptions ==
  /\ Proved!EventsAssumption /\ Proved!SlotsAssumption
  /\ Proved!BoundsAssumption
<1>1. Proved!EventsAssumption
  BY HandlersAssumption, SameSubjects DEF Proved!EventsAssumption
<1>2. Proved!BoundsAssumption
  BY HandlersAssumption, BoundsAssumption, SameSubjects
     DEF Proved!BoundsAssumption, BoundsAssumption
<1>3. Proved!SlotsAssumption
  BY HandlersAssumption DEF Proved!SlotsAssumption
<1> QED
  BY <1>1, <1>2, <1>3

LEMMA SameRows == /\ Handlers!Metadatas = Proved!Metadatas
                  /\ Handlers!Idle = Proved!Idle
                  /\ Handlers!NoMetadata = Proved!NoMetadata
  BY DEF Handlers!Metadatas, Proved!Metadatas,
     Handlers!Metadata, Proved!Metadata,
     Handlers!MetadataAt, Proved!MetadataAt,
     Handlers!MetadataZero, Proved!MetadataZero,
     Handlers!NoMetadata, Proved!NoMetadata, Handlers!Idle, Proved!Idle

LEMMA SameCount ==
  ASSUME NEW S PROVE Handlers!Cardinality(S) = Proved!Cardinality(S)
  BY Zenon DEF Handlers!Cardinality, Proved!Cardinality

LEMMA SameNewRecord ==
  ASSUME NEW s PROVE Handlers!NewRecord(s) = Proved!NewRecord(s)
<1> DEFINE Row(id) == [event |-> work[s].event, wallet |-> work[s].wallet,
                       metadata |-> work[s].metadata, id |-> id]
           ofSubject == {r \in records : SubjectOf[r.event] = s}
<1>1. Handlers!NewRecord(s) = Row(Handlers!Cardinality(ofSubject))
  BY Zenon DEF Handlers!NewRecord
<1>2. Proved!NewRecord(s) = Row(Proved!Cardinality(ofSubject))
  BY Zenon DEF Proved!NewRecord
<1> QED
  BY <1>1, <1>2, SameCount

LEMMA SameCalls ==
  ASSUME NEW s
  PROVE  /\ Handlers!AfterCreate(s) = Proved!AfterCreate(s)
         /\ Handlers!CallSucceeds(s) = Proved!CallSucceeds(s)
         /\ \A e : Handlers!Recorded(e) <=> Proved!Recorded(e)
<1>1. Handlers!AfterCreate(s) = Proved!AfterCreate(s)
  BY SameRows DEF Handlers!AfterCreate, Proved!AfterCreate,
     Handlers!PurchaseSubjects, Proved!PurchaseSubjects,
     Handlers!MinterSubjects, Proved!MinterSubjects,
     Handlers!MigratorSubjects, Proved!MigratorSubjects
<1>2. Handlers!CallSucceeds(s) = Proved!CallSucceeds(s)
  BY DEF Handlers!CallSucceeds, Proved!CallSucceeds
<1>3. \A e : Handlers!Recorded(e) <=> Proved!Recorded(e)
  BY DEF Handlers!Recorded, Proved!Recorded
<1> QED
  BY <1>1, <1>2, <1>3

LEMMA SameInit == Handlers!Init => Proved!Init
  BY SameSubjects, SameRows DEF Handlers!Init, Proved!Init

LEMMA SameBoot == Handlers!Boot => Proved!Boot
  BY DEF Handlers!Boot, Proved!Boot, Handlers!durable, Proved!durable

LEMMA SameCrash == Handlers!Crash => Proved!Crash
  BY SameSubjects, SameRows
     DEF Handlers!Crash, Proved!Crash, Handlers!durable, Proved!durable

LEMMA SameClear == Handlers!ClearMinterBuyValue => Proved!ClearMinterBuyValue
  BY SameRows DEF Handlers!ClearMinterBuyValue, Proved!ClearMinterBuyValue,
     Handlers!volatile, Proved!volatile

LEMMA SameChange == Handlers!ChangeSlot => Proved!ChangeSlot
  BY DEF Handlers!ChangeSlot, Proved!ChangeSlot, Handlers!durable,
     Proved!durable, Handlers!volatile, Proved!volatile

LEMMA SamePublish ==
  ASSUME NEW e, Handlers!Publish(e) PROVE Proved!Publish(e)
  BY DEF Handlers!Publish, Proved!Publish, Handlers!durable, Proved!durable

LEMMA SameReceive ==
  ASSUME NEW s, NEW first, Handlers!Receive(s, first)
  PROVE  Proved!Receive(s, first)
  BY SameRows DEF Handlers!Receive, Proved!Receive,
     Handlers!durable, Proved!durable,
     Handlers!MetadataSeen, Proved!MetadataSeen,
     Handlers!Metadata, Proved!Metadata,
     Handlers!MetadataAt, Proved!MetadataAt,
     Handlers!MetadataZero, Proved!MetadataZero,
     Handlers!ProjectSubjects, Proved!ProjectSubjects

LEMMA SameDrop == ASSUME NEW s, Handlers!Drop(s) PROVE Proved!Drop(s)
  BY SameRows DEF Handlers!Drop, Proved!Drop, Handlers!durable, Proved!durable

LEMMA SameFind ==
  ASSUME NEW s, Handlers!FindTransfer(s) PROVE Proved!FindTransfer(s)
  BY SameRows DEF Handlers!FindTransfer, Proved!FindTransfer,
     Handlers!First, Proved!First, Handlers!OwnerRecords, Proved!OwnerRecords,
     Handlers!durable, Proved!durable

LEMMA SameCreate == ASSUME NEW s, Handlers!Create(s) PROVE Proved!Create(s)
<1>1. /\ up /\ work[s] # Proved!Idle /\ work[s].stage = "create"
      /\ UNCHANGED <<minterRows, up, sent, queue, moves, crashes, resets>>
  BY SameRows DEF Handlers!Create
<1>2. work' = [work EXCEPT ![s] = Proved!AfterCreate(s)]
  BY SameCalls DEF Handlers!Create
<1>3. \E ok \in Proved!CallSucceeds(s) :
         records' = IF ok /\ ~Proved!Recorded(work[s].event)
                      THEN records \union {Proved!NewRecord(s)} ELSE records
  <2>1. PICK ok \in Handlers!CallSucceeds(s) :
          records' = IF ok /\ ~Handlers!Recorded(work[s].event)
                       THEN records \union {Handlers!NewRecord(s)} ELSE records
    BY DEF Handlers!Create
  <2> QED
    BY <2>1, SameCalls, SameNewRecord
<1> QED
  BY <1>1, <1>2, <1>3 DEF Proved!Create

LEMMA SameRead == ASSUME NEW s, Handlers!ReadValue(s) PROVE Proved!ReadValue(s)
  BY SameRows DEF Handlers!ReadValue, Proved!ReadValue,
     Handlers!durable, Proved!durable

LEMMA SameSave ==
  ASSUME NEW s, NEW p, NEW rows, Handlers!SaveRows(s, p, rows)
  PROVE  Proved!SaveRows(s, p, rows)
  BY SameRows, SameCalls DEF Handlers!SaveRows, Proved!SaveRows

LEMMA SameWrites ==
  ASSUME NEW s
  PROVE  /\ Handlers!CreateRow(s) => Proved!CreateRow(s)
         /\ Handlers!UpdateRow(s) => Proved!UpdateRow(s)
         /\ Handlers!UpdateUnnamed(s) => Proved!UpdateUnnamed(s)
<1>1. Handlers!CreateRow(s) => Proved!CreateRow(s)
  BY SameRows, SameSave DEF Handlers!CreateRow, Proved!CreateRow
<1>2. Handlers!UpdateRow(s) => Proved!UpdateRow(s)
  BY SameRows, SameSave DEF Handlers!UpdateRow, Proved!UpdateRow,
     Handlers!Increased, Proved!Increased
<1>3. Handlers!UpdateUnnamed(s) => Proved!UpdateUnnamed(s)
  BY SameRows, SameSave DEF Handlers!UpdateUnnamed, Proved!UpdateUnnamed
<1> QED
  BY <1>1, <1>2, <1>3

LEMMA SameHandle == ASSUME NEW s, Handlers!Handle(s) PROVE Proved!Handle(s)
<1>1. Handlers!ValueSubjects = Proved!ValueSubjects
  BY DEF Handlers!ValueSubjects, Proved!ValueSubjects
<1>2. Handlers!StartWaiting(s) => Proved!StartWaiting(s)
  BY <1>1, SameReceive DEF Handlers!StartWaiting, Proved!StartWaiting
<1>3. Handlers!StartRecord(s) => Proved!StartRecord(s)
  BY <1>1, SameReceive DEF Handlers!StartRecord, Proved!StartRecord
<1> QED
  BY <1>2, <1>3, SameDrop, SameFind, SameCreate, SameRead, SameWrites
     DEF Handlers!Handle, Proved!Handle

LEMMA SameNext == [Handlers!Next]_Handlers!vars => [Proved!Next]_Proved!vars
<1>1. Handlers!Next => Proved!Next
  BY SameBoot, SameCrash, SameClear, SameChange, SamePublish, SameHandle, SameSubjects
     DEF Handlers!Next, Proved!Next
<1>2. UNCHANGED Handlers!vars => UNCHANGED Proved!vars
  BY DEF Handlers!vars, Proved!vars
<1> QED
  BY <1>1, <1>2

LEMMA SameSpec == IngestionSpec => Proved!Spec
<1>1. Handlers!Spec => Proved!Spec
  BY SameInit, SameNext, PTL DEF Handlers!Spec, Proved!Spec
<1> QED
  BY <1>1, IngestionImplementsHandlers, PTL

(* What the handlers (internal/subscriber) promise holds in the process    *)
(* behind the real indexer, for any chain: a domain event never changes    *)
(* and its wallet is that of a transfer on record, what is announced is on *)
(* record, queued or at work, and a minter value is never behind.          *)
THEOREM HandlersKeepPromises ==
  IngestionSpec => /\ Proved!RecordsAreFinal
                   /\ [](Proved!AnnouncedIsKept /\ Proved!MinterKeepsUp)
<1>1. Proved!Spec => Proved!RecordsAreFinal
  BY Proved!FinalRecords, SameAssumptions
<1>2. Proved!Spec => []Proved!AnnouncedIsKept
  BY Proved!AnnouncedIsAlwaysKept, SameAssumptions
<1>3. Proved!Spec => []Proved!MinterKeepsUp
  BY Proved!MinterAlwaysKeepsUp, SameAssumptions
<1> QED
  BY <1>1, <1>2, <1>3, SameSpec, PTL

---------------------------------------------------------------------------
(* Nothing is lost between the chain and the handlers.                     *)

(* Inductive for NothingLost: what a life has not announced, it still has  *)
(* ahead of it.                                                            *)
AheadOrSent ==
    up /\ ~StorageFaults =>
        \A e \in EventIds : Underway(e[1], e[2], e[3]) \/ sent[e] > 0

LEMMA AheadInit == IngestionInit => AheadOrSent
  BY DEF IngestionInit, Init, AheadOrSent

(* Only the dispatcher shortens the bus.                                   *)
LEMMA BusShrinks == ASSUME TypeOK, Dispatch PROVE Len(bus') < Len(bus)
  BY DEF TypeOK, Dispatch

LEMMA BusGrows ==
  ASSUME TypeOK, IndexerAlone \/ HandlersAlone \/ UNCHANGED ingestionVars
  PROVE  ~Dispatch
<1>1. bus' = bus \/ \E id : bus' = Append(bus, id)
  BY DEF IndexerAlone, HandlersAlone, BlockStored, IndexStep, ScanStep,
     ReplayStep, StoreTx, StoreEventByAddress, StoreEventById, Publish,
     SaveInteresting, SaveLatest, ScanDeliver, ScanMiss, ReplayDeliver,
     ReplaySkip, ingestionVars, vars, volatile
<1>2. bus \in Seq(AnyId)
  BY DEF TypeOK
<1>3. Len(bus') >= Len(bus)
  BY <1>1, <1>2
<1> QED
  BY <1>2, <1>3, BusShrinks

(* Nobody else announces.                                                  *)
LEMMA OthersSendNothing ==
  ASSUME IndexerAlone \/ HandlersAlone \/ UNCHANGED ingestionVars
  PROVE  UNCHANGED <<sent, up, crashes>>
<1>1. CASE IndexerAlone
  BY <1>1, IndexerLeavesHandlers DEF Handlers!vars
<1>2. CASE HandlersAlone
  <2>1. ASSUME NEW s, Handlers!Handle(s) PROVE sent' = sent
    BY <2>1 DEF Handlers!Handle, Handlers!StartWaiting, Handlers!StartRecord,
       Handlers!Receive, Handlers!Drop, Handlers!FindTransfer, Handlers!Create,
       Handlers!ReadValue, Handlers!CreateRow, Handlers!UpdateRow,
       Handlers!UpdateUnnamed, Handlers!SaveRows
  <2>2. Handlers!ClearMinterBuyValue \/ Handlers!ChangeSlot => sent' = sent
    BY DEF Handlers!ClearMinterBuyValue, Handlers!ChangeSlot, Handlers!volatile
  <2>3. UNCHANGED <<up, crashes>>
    BY <1>2 DEF HandlersAlone, vars, volatile, history
  <2> QED
    BY <1>2, <2>1, <2>2, <2>3 DEF HandlersAlone
<1>3. CASE UNCHANGED ingestionVars
  BY <1>3 DEF ingestionVars, handlerVars, vars, volatile, history
<1> QED
  BY <1>1, <1>2, <1>3

(* An event that was announced in a life stays so as long as it lasts.     *)
LEMMA SentStays ==
  ASSUME NEW e \in EventIds, sent \in [EventIds -> Nat], sent[e] > 0,
         up, up', [IngestionNext]_ingestionVars
  PROVE  sent'[e] > 0
<1>1. ~BootBoth /\ ~CrashBoth
  BY DEF BootBoth, CrashBoth, Boot, Crash
<1>2. ASSUME NEW d, Handlers!Publish(d) PROVE sent'[e] > 0
  BY <1>2 DEF Handlers!Publish
<1>3. CASE DispatchBoth
  BY <1>2, <1>3 DEF DispatchBoth, handlerVars
<1> QED
  BY <1>1, <1>3, OthersSendNothing DEF IngestionNext

(* What the dispatcher takes from the bus it announces.                    *)
LEMMA TakenIsSent ==
  ASSUME TypeOK, ~StorageFaults, [IngestionNext]_ingestionVars, Dispatch,
         NEW e \in EventIds, Head(bus) = e, e \in dispatched',
         sent \in [EventIds -> Nat]
  PROVE  sent'[e] > 0
<1>1. DispatchBoth
  <2>1. ~BootBoth /\ ~CrashBoth
    BY DEF BootBoth, CrashBoth, Boot, Crash, Dispatch
  <2> QED
    BY <2>1, BusGrows DEF IngestionNext
<1>2. PICK ok \in BOOLEAN :
        /\ ReadBack(e, ok)
        /\ IF ok THEN Handlers!Publish(e) ELSE UNCHANGED handlerVars
  BY <1>1 DEF DispatchBoth
<1>3. Handlers!Publish(e)
  BY <1>2 DEF ReadBack
<1> QED
  BY <1>3 DEF Handlers!Publish

LEMMA AheadNext ==
  /\ TypeOK /\ OrderInv /\ RecordInv /\ ListedStored
  /\ sent \in [EventIds -> Nat]
  /\ AheadOrSent /\ [IngestionNext]_ingestionVars
  => AheadOrSent'
<1> SUFFICES ASSUME TypeOK, OrderInv, RecordInv, ListedStored,
                    sent \in [EventIds -> Nat], AheadOrSent,
                    [IngestionNext]_ingestionVars, ~StorageFaults, up',
                    NEW e \in EventIds
             PROVE  Underway(e[1], e[2], e[3])' \/ sent'[e] > 0
  BY DEF AheadOrSent
<1>1. CASE up /\ sent[e] > 0
  BY <1>1, SentStays
<1>2. CASE ~(up /\ sent[e] > 0)
  <2>1. ~up \/ Underway(e[1], e[2], e[3])
    BY <1>2 DEF AheadOrSent
  <2>2. \/ Underway(e[1], e[2], e[3])'
        \/ Dispatch /\ Head(bus) = e /\ e \in dispatched'
    BY <2>1, UnderwayNext, IngestionStepsIndexer
  <2> QED
    BY <2>2, TakenIsSent
<1> QED
  BY <1>1, <1>2

LEMMA SentCounts == IngestionSpec => [](sent \in [EventIds -> Nat])
<1>1. Proved!Spec => []Proved!TypeOK
  BY Proved!TypeCorrect, SameAssumptions
<1>2. Proved!TypeOK => sent \in [EventIds -> Nat]
  BY HandlersAssumption DEF Proved!TypeOK
<1> QED
  BY <1>1, <1>2, SameSpec, PTL

(* While storage calls succeed, a running process (indexer.go and          *)
(* internal/subscriber) holds every event of the chain: it has still to    *)
(* announce it, or has announced it in this life and recorded it or is     *)
(* about to, wherever crashes struck before.                               *)
THEOREM NothingIsLost == IngestionSpec => []NothingLost
<1>1. IngestionSpec => [](TypeOK /\ OrderInv /\ RecordInv /\ ListedStored)
  BY IngestionImplementsIndexer, TypeCorrect, OrderCorrect, RecordCorrect,
     ListedCorrect, PTL
<1>2. IngestionSpec => []AheadOrSent
  BY <1>1, SentCounts, AheadInit, AheadNext, PTL DEF IngestionSpec
<1>3. AheadOrSent /\ Proved!AnnouncedIsKept => NothingLost
  BY SameRows, SameCalls
     DEF AheadOrSent, NothingLost, Proved!AnnouncedIsKept, Proved!Queued,
     Proved!WorkedOn, Handlers!Queued, Handlers!WorkedOn
<1>4. IngestionSpec => []Proved!AnnouncedIsKept
  BY HandlersKeepPromises, PTL
<1> QED
  BY <1>2, <1>3, <1>4, PTL

---------------------------------------------------------------------------
(* How often an event can still be announced in this life.                 *)

OneIf(holds)   == IF holds THEN 1 ELSE 0
Places(q, e)   == {n \in DOMAIN q : q[n] = e}
Count(q, e)    == Cardinality(Places(q, e))
Ahead(c, b, i) == Count(bus, Id(c, b, i)) + OneIf(ToPublish(c, b, i))
                    + OneIf(b \in replay[c]) + OneIf(cursor[c] <= b)

(* Inductive for NoThirdCopy: a life that begins has an event ahead of it  *)
(* in the walk and, after a crash, on the replay list.                     *)
CopiesInv ==
    IF up
      THEN \A e \in EventIds : sent[e] + Ahead(e[1], e[2], e[3])
                                 <= (IF crashes = 0 THEN 1 ELSE 2)
      ELSE /\ bus = <<>>
           /\ \A c \in Contracts : job[c] = Idle
           /\ \A c \in Contracts : crashes = 0 => idx[c].blocks = {}
           /\ \A e \in EventIds : sent[e] = 0

LEMMA CountFinite ==
  ASSUME NEW S, NEW q \in Seq(S), NEW e
  PROVE  IsFiniteSet(Places(q, e)) /\ Count(q, e) \in Nat
<1>1. DOMAIN q = 1..Len(q) /\ Len(q) \in Nat
  OBVIOUS
<1>2. IsFiniteSet(1..Len(q))
  BY <1>1, FS_Interval
<1>3. Places(q, e) \subseteq 1..Len(q)
  BY <1>1 DEF Places
<1>4. IsFiniteSet(Places(q, e))
  BY <1>2, <1>3, FS_Subset
<1> QED
  BY <1>4, FS_CardinalityType DEF Count

LEMMA CountEmpty == ASSUME NEW e PROVE Count(<<>>, e) = 0
<1>1. Places(<<>>, e) = {}
  BY DEF Places
<1> QED
  BY <1>1, FS_EmptySet DEF Count

LEMMA CountAppend ==
  ASSUME NEW S, NEW q \in Seq(S), NEW x \in S, NEW e
  PROVE  Count(Append(q, x), e) = Count(q, e) + OneIf(x = e)
<1> DEFINE n == Len(q) + 1
           r == Append(q, x)
<1>1. /\ DOMAIN r = DOMAIN q \union {n} /\ n \notin DOMAIN q
      /\ r[n] = x /\ \A k \in DOMAIN q : r[k] = q[k]
  OBVIOUS
<1>2. IsFiniteSet(Places(q, e)) /\ Count(q, e) \in Nat
  BY CountFinite
<1> HIDE DEF n, r
<1>3. n \notin Places(q, e)
  BY <1>1 DEF Places
<1>4. CASE x = e
  <2>1. Places(r, e) = Places(q, e) \union {n}
    BY <1>1, <1>4 DEF Places
  <2>2. Cardinality(Places(q, e) \union {n}) = Cardinality(Places(q, e)) + 1
    BY <1>2, <1>3, FS_AddElement
  <2> QED
    BY <1>4, <2>1, <2>2 DEF Count, OneIf, r
<1>5. CASE x # e
  <2>1. Places(r, e) = Places(q, e)
    BY <1>1, <1>5 DEF Places
  <2> QED
    BY <1>2, <1>5, <2>1 DEF Count, OneIf, r
<1> QED
  BY <1>4, <1>5

LEMMA CountTail ==
  ASSUME NEW S, NEW q \in Seq(S), q # <<>>, NEW e
  PROVE  Count(Tail(q), e) + OneIf(Head(q) = e) <= Count(q, e)
<1> DEFINE r == Tail(q)
           f == [n \in Places(r, e) |-> n + 1]
<1>1. /\ \A n \in DOMAIN r : n \in Nat \ {0} /\ n + 1 \in DOMAIN q /\ r[n] = q[n + 1]
      /\ 1 \in DOMAIN q /\ Head(q) = q[1] /\ r \in Seq(S)
  OBVIOUS
<1> HIDE DEF r
<1>2. IsFiniteSet(Places(q, e)) /\ Count(q, e) \in Nat /\ Count(r, e) \in Nat
  BY <1>1, CountFinite
<1>3. /\ IsFiniteSet(Places(q, e) \ {1})
      /\ Cardinality(Places(q, e) \ {1}) =
            IF 1 \in Places(q, e) THEN Count(q, e) - 1 ELSE Count(q, e)
  BY <1>2, FS_RemoveElement DEF Count
<1>4. 1 \in Places(q, e) <=> Head(q) = e
  BY <1>1 DEF Places
<1>5. f \in Injection(Places(r, e), Places(q, e) \ {1})
  <2>1. \A n \in Places(r, e) : n \in Nat \ {0} /\ n + 1 \in Places(q, e)
    BY <1>1 DEF Places
  <2>2. \A n \in Places(r, e) : n + 1 \in Places(q, e) \ {1}
    BY <2>1
  <2>3. \A a, b \in Places(r, e) : f[a] = f[b] => a = b
    BY <2>1
  <2>4. f \in [Places(r, e) -> Places(q, e) \ {1}]
    BY <2>2
  <2> HIDE DEF f
  <2> QED
    BY <2>3, <2>4 DEF Injection, IsInjective
<1>6. Count(r, e) <= Cardinality(Places(q, e) \ {1})
  BY <1>3, <1>5, FS_Injection DEF Count
<1> QED
  BY <1>2, <1>3, <1>4, <1>6 DEF OneIf, r

LEMMA AheadType ==
  ASSUME bus \in Seq(AnyId), NEW c, NEW b, NEW i
  PROVE  /\ Ahead(c, b, i) \in Nat
         /\ Count(bus, Id(c, b, i)) \in Nat
  BY CountFinite DEF Ahead, OneIf

(* A step of a loop that keeps its item makes none of it due again.        *)
LEMMA NoMoreToPublish ==
  ASSUME TypeOK, NEW c \in Contracts, NEW b, NEW i,
         NEW d \in Contracts, NEW stage,
         job' = [job EXCEPT ![d].stage = stage],
         job[d] \in AnyJob, job[d].stage # "saveInteresting",
         ToPublish(c, b, i)'
  PROVE  ToPublish(c, b, i)
<1>1. CASE d # c
  <2>1. job'[c] = job[c]
    BY <1>1 DEF TypeOK
  <2> QED
    BY <2>1 DEF ToPublish
<1>2. CASE d = c
  <2>1. job'[c].block = job[c].block /\ job'[c].item = job[c].item
    BY <1>2 DEF TypeOK, AnyJob
  <2>2. job[c] # Idle
    BY <1>2 DEF AnyJob, Idle
  <2> QED
    BY <1>2, <2>1, <2>2 DEF ToPublish
<1> QED
  BY <1>1, <1>2

(* Index: what is published was still due, and nothing becomes due again.  *)
LEMMA IndexAhead ==
  ASSUME TypeOK, NEW c \in Contracts, NEW b \in Block, NEW i \in Nat,
         NEW d \in Contracts, IndexStep(d)
  PROVE  Ahead(c, b, i)' <= Ahead(c, b, i)
<1> DEFINE id == Id(c, b, i)
<1>1. UNCHANGED <<cursor, replay>> /\ bus \in Seq(AnyId)
  BY DEF TypeOK, IndexStep, StoreTx, StoreEventByAddress, StoreEventById,
     Publish, SaveInteresting, SaveLatest
<1>2. job[d] \in AnyJob
  BY BusyJob DEF IndexStep, StoreTx, StoreEventByAddress, StoreEventById,
     Publish, SaveInteresting, SaveLatest, At, Stages
<1>3. Count(bus, id) \in Nat
  BY <1>1, AheadType
<1>4. SUFFICES Count(bus', id) + OneIf(ToPublish(c, b, i)')
                 <= Count(bus, id) + OneIf(ToPublish(c, b, i))
  <2>1. CASE bus' = bus
    BY <1>1, <1>3, <1>4, <2>1 DEF Ahead, OneIf
  <2>2. CASE bus' # bus
    <3>1. Publish(d)
      BY <2>2 DEF IndexStep, StoreTx, StoreEventByAddress, StoreEventById,
         SaveInteresting, SaveLatest
    <3>2. Id(d, job[d].block, job[d].item) \in AnyId
      BY <1>2 DEF AnyId, AnyJob, Id
    <3>3. bus' \in Seq(AnyId)
      BY <1>1, <3>1, <3>2 DEF Publish
    <3>4. Count(bus', id) \in Nat
      BY <3>3, CountFinite
    <3> QED
      BY <1>1, <1>3, <1>4, <3>4 DEF Ahead, OneIf
  <2> QED
    BY <2>1, <2>2
<1> HIDE DEF id
<1>5. CASE StoreTx(d) \/ StoreEventByAddress(d) \/ StoreEventById(d)
  <2>1. PICK stage : job' = [job EXCEPT ![d].stage = stage]
    BY <1>5 DEF StoreTx, StoreEventByAddress, StoreEventById, Move
  <2>2. bus' = bus /\ job[d].stage # "saveInteresting"
    BY <1>5 DEF StoreTx, StoreEventByAddress, StoreEventById, At
  <2>3. ToPublish(c, b, i)' => ToPublish(c, b, i)
    BY <1>2, <2>1, <2>2, NoMoreToPublish
  <2> QED
    BY <1>3, <2>2, <2>3 DEF OneIf
<1>6. CASE Publish(d)
  <2> DEFINE x == Id(d, job[d].block, job[d].item)
  <2>1. /\ bus' = Append(bus, x)
        /\ job' = [job EXCEPT ![d].stage = "saveInteresting"]
        /\ job[d].stage = "publish"
    BY <1>6 DEF Publish, Move, At
  <2>2. x \in AnyId
    BY <1>2 DEF AnyId, AnyJob, Id
  <2>3. ToPublish(c, b, i)' => ToPublish(c, b, i)
    BY <1>2, <2>1, NoMoreToPublish
  <2>4. ASSUME x = id PROVE ToPublish(c, b, i) /\ ~ToPublish(c, b, i)'
    <3>1. d = c /\ job[c].block = b /\ job[c].item = i
      BY <2>4 DEF Id, id
    <3>2. job'[c].item = i /\ job'[c].stage = "saveInteresting"
      BY <1>2, <2>1, <3>1 DEF TypeOK, AnyJob
    <3>3. job[c] # Idle
      BY <1>2, <3>1 DEF AnyJob, Idle
    <3> QED
      BY <2>1, <3>1, <3>2, <3>3 DEF ToPublish
  <2> HIDE DEF x
  <2>5. Count(bus', id) = Count(bus, id) + OneIf(x = id)
    BY <1>1, <2>1, <2>2, CountAppend
  <2> QED
    BY <1>3, <2>3, <2>4, <2>5 DEF OneIf
<1>7. CASE SaveInteresting(d)
  <2>1. bus' = bus /\ job[d].stage = "saveInteresting"
    BY <1>7 DEF SaveInteresting, At
  <2>2. job'[c] = IF d = c THEN AtItem(c, job[c].block, job[c].item + 1)
                           ELSE job[c]
    BY <1>7 DEF SaveInteresting, TypeOK
  <2>3. ASSUME ToPublish(c, b, i)' PROVE ToPublish(c, b, i)
    <3>1. CASE d # c
      BY <2>2, <2>3, <3>1 DEF ToPublish
    <3>2. CASE d = c
      <4>1. job[c].block = b /\ job[c].item + 1 <= i
        BY <2>2, <2>3, <3>2 DEF ToPublish, AtItem
      <4>2. job[c].item \in Nat /\ job[c] # Idle
        BY <1>2, <3>2 DEF AnyJob, Idle
      <4> QED
        BY <4>1, <4>2 DEF ToPublish
    <3> QED
      BY <3>1, <3>2
  <2> QED
    BY <1>3, <2>1, <2>3 DEF OneIf
<1>8. CASE SaveLatest(d)
  <2>1. bus' = bus /\ job'[c] = IF d = c THEN Idle ELSE job[c]
    BY <1>8 DEF SaveLatest, TypeOK
  <2>2. ToPublish(c, b, i)' => ToPublish(c, b, i)
    BY <2>1 DEF ToPublish
  <2> QED
    BY <1>3, <2>1, <2>2 DEF OneIf
<1> QED
  BY <1>5, <1>6, <1>7, <1>8 DEF IndexStep

(* A block the walk or the replay hands over leaves the walk or the list.  *)
LEMMA DeliverAhead ==
  ASSUME TypeOK, NEW c \in Contracts, NEW b \in Block, NEW i \in Nat,
         NEW d \in Contracts,
         ScanDeliver(d) \/ ReplayDeliver(d) \/ ReplaySkip(d)
  PROVE  Ahead(c, b, i)' <= Ahead(c, b, i)
<1>1. bus' = bus /\ Count(bus, Id(c, b, i)) \in Nat
  BY AheadType DEF ScanDeliver, ReplayDeliver, ReplaySkip, TypeOK
<1>2. SUFFICES OneIf(ToPublish(c, b, i)') + OneIf(b \in replay'[c])
                   + OneIf(cursor'[c] <= b)
                 <= OneIf(ToPublish(c, b, i)) + OneIf(b \in replay[c])
                   + OneIf(cursor[c] <= b)
  BY <1>1, <1>2 DEF Ahead, OneIf
<1>3. CASE d # c
  <2>1. job'[c] = job[c] /\ replay'[c] = replay[c] /\ cursor'[c] = cursor[c]
    BY <1>3 DEF ScanDeliver, ReplayDeliver, ReplaySkip, TypeOK
  <2>2. ToPublish(c, b, i)' => ToPublish(c, b, i)
    BY <2>1 DEF ToPublish
  <2> QED
    BY <2>1, <2>2 DEF OneIf
<1>4. CASE ScanDeliver(c)
  <2>1. /\ replay'[c] = replay[c] /\ cursor'[c] = cursor[c] + 1
        /\ job'[c] = AtItem(c, cursor[c], 1)
        /\ cursor[c] \in Int /\ b \in Int
    BY <1>4 DEF ScanDeliver, TypeOK, Block
  <2>2. ToPublish(c, b, i)' => b = cursor[c]
    BY <2>1 DEF ToPublish, AtItem
  <2> QED
    BY <2>1, <2>2 DEF OneIf
<1>5. CASE ReplayDeliver(c)
  <2>1. PICK n \in replay[c] : /\ job' = [job EXCEPT ![c] = AtItem(c, n, 1)]
                               /\ replay' = [replay EXCEPT ![c] = @ \ {n}]
    BY <1>5 DEF ReplayDeliver
  <2>2. /\ replay'[c] = replay[c] \ {n} /\ job'[c] = AtItem(c, n, 1)
        /\ cursor' = cursor
    BY <1>5, <2>1 DEF ReplayDeliver, TypeOK
  <2>3. ToPublish(c, b, i)' => b = n
    BY <2>2 DEF ToPublish, AtItem
  <2> QED
    BY <2>1, <2>2, <2>3 DEF OneIf
<1>6. CASE ReplaySkip(c)
  <2>1. replay'[c] \subseteq replay[c] /\ UNCHANGED <<cursor, job>>
    BY <1>6 DEF ReplaySkip, TypeOK
  <2>2. ToPublish(c, b, i)' => ToPublish(c, b, i)
    BY <2>1 DEF ToPublish
  <2> QED
    BY <2>1, <2>2 DEF OneIf
<1> QED
  BY <1>3, <1>4, <1>5, <1>6

LEMMA DispatchAhead ==
  ASSUME TypeOK, Dispatch, NEW c, NEW b, NEW i
  PROVE  Ahead(c, b, i)' + OneIf(Head(bus) = Id(c, b, i)) <= Ahead(c, b, i)
<1> DEFINE id == Id(c, b, i)
<1>1. /\ bus \in Seq(AnyId) /\ bus # <<>> /\ bus' = Tail(bus)
      /\ bus' \in Seq(AnyId) /\ UNCHANGED <<job, replay, cursor>>
  BY DEF TypeOK, Dispatch
<1>2. Count(bus, id) \in Nat /\ Count(bus', id) \in Nat
  BY <1>1, CountFinite
<1>3. Count(bus', id) + OneIf(Head(bus) = id) <= Count(bus, id)
  BY <1>1, CountTail
<1>4. ToPublish(c, b, i)' <=> ToPublish(c, b, i)
  BY <1>1 DEF ToPublish
<1> HIDE DEF id
<1>5. Ahead(c, b, i)' = Count(bus', id) + OneIf(ToPublish(c, b, i))
                          + OneIf(b \in replay[c]) + OneIf(cursor[c] <= b)
  BY <1>1, <1>4 DEF Ahead, OneIf, id
<1> QED
  BY <1>2, <1>3, <1>5 DEF Ahead, OneIf, id

(* In a life, nothing but the dispatcher's step counts, and that one down. *)
LEMMA NextAhead ==
  ASSUME TypeOK, up, up', [Next]_vars, NEW e \in EventIds
  PROVE  Ahead(e[1], e[2], e[3])' <= Ahead(e[1], e[2], e[3])
<1> SUFFICES ASSUME NEW c \in Contracts, NEW b \in Block, NEW i \in Nat
             PROVE  Ahead(c, b, i)' <= Ahead(c, b, i)
  BY EventIdsAre, EventNumber
<1>0. Ahead(c, b, i) \in Nat
  BY AheadType DEF TypeOK
<1>1. ~Boot /\ ~Crash
  BY DEF Boot, Crash
<1>2. ASSUME NEW d \in Contracts, IndexStep(d)
      PROVE  Ahead(c, b, i)' <= Ahead(c, b, i)
  BY <1>2, IndexAhead
<1>3. ASSUME NEW d \in Contracts,
             ScanDeliver(d) \/ ReplayDeliver(d) \/ ReplaySkip(d)
      PROVE  Ahead(c, b, i)' <= Ahead(c, b, i)
  BY <1>3, DeliverAhead
<1>4. CASE Dispatch
  <2>1. bus \in Seq(AnyId) /\ bus' \in Seq(AnyId)
    BY <1>4 DEF TypeOK, Dispatch
  <2>2. Ahead(c, b, i)' \in Nat
    BY <2>1, CountFinite DEF Ahead, OneIf
  <2> QED
    BY <1>0, <1>4, <2>2, DispatchAhead DEF OneIf
<1>5. CASE UNCHANGED <<cursor, replay, job, bus>>
  <2>1. ToPublish(c, b, i)' <=> ToPublish(c, b, i)
    BY <1>5 DEF ToPublish
  <2>2. Ahead(c, b, i)' = Ahead(c, b, i)
    BY <1>5, <2>1 DEF Ahead, OneIf
  <2> QED
    BY <1>0, <2>2
<1>6. BlockStored \/ UNCHANGED vars
        \/ (\E d \in Contracts, synced \in BOOLEAN : ScanMiss(d, synced))
      => UNCHANGED <<cursor, replay, job, bus>>
  BY DEF BlockStored, ScanMiss, vars, volatile
<1> QED
  BY <1>1, <1>2, <1>3, <1>4, <1>5, <1>6
     DEF Next, Process, ScanStep, ReplayStep

LEMMA CopiesInit == IngestionInit => CopiesInv
<1> SUFFICES ASSUME IngestionInit PROVE CopiesInv
  OBVIOUS
<1>1. /\ ~up /\ bus = <<>>
      /\ \A c \in Contracts : job[c] = Idle /\ idx[c].blocks = {}
  BY DEF IngestionInit, Init, NoIndex
<1>2. \A e \in EventIds : sent[e] = 0
  BY DEF IngestionInit, Handlers!Init
<1> QED
  BY <1>1, <1>2 DEF CopiesInv

(* What the boot leaves ahead of an event.                                 *)
LEMMA BootAhead ==
  ASSUME TypeOK, OrderInv, CopiesInv, Boot, NEW e \in EventIds
  PROVE  Ahead(e[1], e[2], e[3])' <= (IF crashes = 0 THEN 1 ELSE 2)
<1> SUFFICES ASSUME NEW c \in Contracts, NEW b, NEW i
             PROVE  Ahead(c, b, i)' <= (IF crashes = 0 THEN 1 ELSE 2)
  BY EventIdsAre
<1>1. /\ bus' = <<>> /\ job'[c] = Idle
      /\ crashes = 0 => idx[c].blocks = {}
  BY DEF Boot, CopiesInv
<1>2. Count(bus', Id(c, b, i)) = 0
  BY <1>1, CountEmpty
<1>3. ~ToPublish(c, b, i)'
  BY <1>1 DEF ToPublish
<1>4. crashes = 0 => b \notin replay'[c]
  <2>1. PICK readOk \in [Contracts -> CallSucceeds] :
          replay' = [d \in Contracts |->
                       ReplayList(GetContractIdx(d, StartBlock, readOk[d]))]
    BY DEF Boot
  <2>2. GetContractIdx(c, StartBlock, readOk[c]).blocks
          \subseteq idx[c].blocks
    BY DEF GetContractIdx
  <2>3. replay'[c] = GetContractIdx(c, StartBlock, readOk[c]).blocks
    BY <2>1 DEF ReplayList
  <2> QED
    BY <1>1, <2>2, <2>3
<1> QED
  BY <1>2, <1>3, <1>4 DEF Ahead, OneIf

LEMMA CopiesNext ==
  /\ TypeOK /\ OrderInv /\ sent \in [EventIds -> Nat]
  /\ CopiesInv /\ [IngestionNext]_ingestionVars
  => CopiesInv'
<1> SUFFICES ASSUME TypeOK, OrderInv, sent \in [EventIds -> Nat], CopiesInv,
                    [IngestionNext]_ingestionVars
             PROVE  CopiesInv'
  OBVIOUS
<1>0. [Next]_vars
  BY IngestionStepsIndexer
<1>1. CASE BootBoth
  <2>1. Boot /\ Handlers!Boot /\ ~up /\ up' /\ crashes' = crashes
    BY <1>1 DEF BootBoth, Boot, history
  <2>2. \A e \in EventIds : sent'[e] = 0
    BY <2>1 DEF Handlers!Boot
  <2>3. ASSUME NEW e \in EventIds
        PROVE  sent'[e] + Ahead(e[1], e[2], e[3])'
                 <= (IF crashes' = 0 THEN 1 ELSE 2)
    <3>1. Ahead(e[1], e[2], e[3])' <= (IF crashes = 0 THEN 1 ELSE 2)
      BY <2>1, BootAhead
    <3>2. Ahead(e[1], e[2], e[3])' \in Nat
      <4>1. bus' \in Seq(AnyId)
        BY <2>1 DEF Boot, TypeOK
      <4> QED
        BY <4>1, CountFinite DEF Ahead, OneIf
    <3> QED
      BY <2>1, <2>2, <3>1, <3>2
  <2> QED
    BY <2>1, <2>3 DEF CopiesInv
<1>2. CASE CrashBoth
  <2>1. /\ ~up' /\ crashes' = crashes + 1 /\ bus' = <<>>
        /\ job' = [c \in Contracts |-> Idle]
    BY <1>2 DEF CrashBoth, Crash
  <2>2. sent' = [e \in EventIds |-> 0]
    BY <1>2 DEF CrashBoth, Handlers!Crash
  <2>3. crashes \in Nat
    BY DEF TypeOK
  <2> QED
    BY <2>1, <2>2, <2>3 DEF CopiesInv
<1>3. CASE DispatchBoth
  <2> DEFINE e == Head(bus)
  <2>1. Dispatch /\ up /\ up' /\ crashes' = crashes
    BY <1>3 DEF DispatchBoth, Dispatch
  <2>2. Handlers!Publish(e) \/ UNCHANGED handlerVars
    BY <1>3 DEF DispatchBoth
  <2> HIDE DEF e
  <2>3. ASSUME NEW x \in EventIds
        PROVE  sent'[x] \in Nat /\ sent'[x] <= sent[x] + OneIf(e = x)
    BY <2>2 DEF Handlers!Publish, handlerVars, OneIf
  <2>4. ASSUME NEW x \in EventIds
        PROVE  sent'[x] + Ahead(x[1], x[2], x[3])'
                 <= (IF crashes' = 0 THEN 1 ELSE 2)
    <3>1. Ahead(x[1], x[2], x[3])' + OneIf(e = x) <= Ahead(x[1], x[2], x[3])
      BY <2>1, EventIdsAre, DispatchAhead DEF e
    <3>2. bus \in Seq(AnyId) /\ bus' \in Seq(AnyId)
      BY <2>1 DEF TypeOK, Dispatch
    <3>3. /\ Ahead(x[1], x[2], x[3]) \in Nat
          /\ Ahead(x[1], x[2], x[3])' \in Nat
      BY <3>2, CountFinite DEF Ahead, OneIf
    <3>4. sent[x] + Ahead(x[1], x[2], x[3]) <= (IF crashes = 0 THEN 1 ELSE 2)
      BY <2>1 DEF CopiesInv
    <3> QED
      BY <2>1, <2>3, <3>1, <3>3, <3>4 DEF OneIf
  <2> QED
    BY <2>1, <2>4 DEF CopiesInv
<1>4. CASE IndexerAlone \/ HandlersAlone \/ UNCHANGED ingestionVars
  <2>1. UNCHANGED <<sent, up, crashes>>
    BY <1>4, OthersSendNothing
  <2>2. CASE up
    <3>1. ASSUME NEW x \in EventIds
          PROVE  sent'[x] + Ahead(x[1], x[2], x[3])'
                   <= (IF crashes' = 0 THEN 1 ELSE 2)
      <4>1. Ahead(x[1], x[2], x[3])' <= Ahead(x[1], x[2], x[3])
        BY <1>0, <2>1, <2>2, NextAhead
      <4>2. bus \in Seq(AnyId) /\ bus' \in Seq(AnyId)
        BY <1>0, TypeNext DEF TypeOK
      <4>3. /\ Ahead(x[1], x[2], x[3]) \in Nat
            /\ Ahead(x[1], x[2], x[3])' \in Nat
        BY <4>2, CountFinite DEF Ahead, OneIf
      <4>4. sent[x] + Ahead(x[1], x[2], x[3])
              <= (IF crashes = 0 THEN 1 ELSE 2)
        BY <2>2 DEF CopiesInv
      <4> QED
        BY <2>1, <4>1, <4>3, <4>4
    <3> QED
      BY <2>1, <2>2, <3>1 DEF CopiesInv
  <2>3. CASE ~up
    <3>1. UNCHANGED <<bus, job, idx>>
      BY <1>4, <2>3 DEF IndexerAlone, HandlersAlone, BlockStored, IndexStep,
         ScanStep, ReplayStep, StoreTx, StoreEventByAddress, StoreEventById,
         Publish, SaveInteresting, SaveLatest, At, ScanDeliver, ScanMiss,
         ReplayDeliver, ReplaySkip, ingestionVars, vars, volatile, durable
    <3> QED
      BY <2>1, <2>3, <3>1 DEF CopiesInv
  <2> QED
    BY <2>2, <2>3 DEF TypeOK
<1> QED
  BY <1>1, <1>2, <1>3, <1>4 DEF IngestionNext

(* An event of the chain is announced once at most in the first life of    *)
(* the process and twice at most in a later one: a block is handed to      *)
(* Index by the walk (start) and by the replay (replayBlocks), by each     *)
(* once, and the replay of the first life is empty.                        *)
THEOREM NeverAThirdCopy == IngestionSpec => []NoThirdCopy
<1>1. IngestionSpec => [](TypeOK /\ OrderInv)
  BY IngestionImplementsIndexer, OrderCorrect, PTL
<1>2. IngestionSpec => []CopiesInv
  BY <1>1, SentCounts, CopiesInit, CopiesNext, PTL DEF IngestionSpec
<1>3. TypeOK /\ sent \in [EventIds -> Nat] /\ CopiesInv => NoThirdCopy
  <2> SUFFICES ASSUME TypeOK, sent \in [EventIds -> Nat], CopiesInv,
                      NEW e \in EventIds
               PROVE  sent[e] <= (IF crashes = 0 THEN 1 ELSE 2)
    BY DEF NoThirdCopy
  <2>1. Ahead(e[1], e[2], e[3]) \in Nat
    BY AheadType DEF TypeOK
  <2> QED
    BY <2>1 DEF CopiesInv
<1> QED
  BY <1>1, <1>2, <1>3, SentCounts, PTL
=============================================================================
