------------------------- MODULE SubscribersProofs -------------------------
(***************************************************************************)
(* Proofs about module Subscribers, for any events, any configuration of   *)
(* their subjects, and any calls that fail.                                *)
(***************************************************************************)
EXTENDS Subscribers, FiniteSetTheorems, TLAPS

USE EventsAssumption, BoundsAssumption DEF EventsAssumption, BoundsAssumption

LEMMA SubjectsDisjoint ==
  /\ ValueSubjects \subseteq Subjects /\ PurchaseSubjects \subseteq Subjects
  /\ ValueSubjects \intersect PurchaseSubjects = {}
  /\ ProjectSubjects \intersect PurchaseSubjects = {}
  BY DEF Subjects, ProjectSubjects, MinterSubjects, MigratorSubjects,
         ValueSubjects, PurchaseSubjects

LEMMA MetadataType ==
  /\ NoMetadata \in Metadatas
  /\ \A s \in Subjects, e \in Events :
       moves \in 0..Moves => MetadataSeen(s, e) \subseteq Metadatas
<1>1. NoMetadata \in Metadatas
  BY DEF Metadatas
<1>2. ASSUME NEW e \in Events
      PROVE  /\ \A n \in 0..Moves : MetadataAt(e, n) \in Metadatas
             /\ Metadata(e) \in Metadatas /\ MetadataZero(e) \in Metadatas
  BY <1>2, SlotsAssumption DEF SlotsAssumption, Metadatas, Metadata
<1> QED
  BY <1>1, <1>2 DEF MetadataSeen

(* A busy handler's work is a job, and a job is not Idle.                  *)
LEMMA BusyIsJob ==
  ASSUME NEW w \in Job \union {Idle}, w # Idle
  PROVE  w \in Job
  OBVIOUS

LEMMA JobIsBusy == ASSUME NEW w \in Job PROVE w # Idle
  BY DEF Job, Idle

(* Writing one place of a sequence.                                        *)
LEMMA ExceptSeq ==
  ASSUME NEW S, NEW q \in Seq(S), NEW n, NEW v \in S
  PROVE  [q EXCEPT ![n] = v] \in Seq(S)
<1>1. PICK k \in Nat : q \in [1..k -> S]
  OBVIOUS
<1>2. [q EXCEPT ![n] = v] \in [1..k -> S]
  BY <1>1
<1> QED
  BY <1>2

LEMMA TypeInit == Init => TypeOK
<1> SUFFICES ASSUME Init PROVE TypeOK
  OBVIOUS
<1>1. \A s \in Subjects : queue[s] \in Seq(OfSubject(s)) /\ work[s] = Idle
  BY DEF Init
<1>2. /\ minterRows \in [Metadatas -> Seq(0..MaxValue)]
      /\ queue \in [Subjects -> Seq(Events)]
      /\ work \in [Subjects -> Job \union {Idle}]
  BY DEF Init
<1>3. sent \in [Events -> 0..Copies] /\ crashes \in 0..MaxCrashes
        /\ moves \in 0..Moves /\ resets \in 0..MaxResets
  BY SlotsAssumption, BoundsAssumption DEF Init, SlotsAssumption, BoundsAssumption
<1>4. /\ records \subseteq Record /\ IsFiniteSet(records)
      /\ \A r, t \in records : r.event = t.event => r = t
  BY FS_EmptySet DEF Init
<1>5. up \in BOOLEAN /\ ( ~up => /\ queue = [s \in Subjects |-> <<>>]
                              /\ work = [s \in Subjects |-> Idle])
  BY DEF Init
<1> QED
  BY <1>1, <1>2, <1>3, <1>4, <1>5 DEF TypeOK

(* What every action that only gives handler s new work has to show.       *)
LEMMA TypeWork ==
  ASSUME TypeOK, NEW s \in Subjects, NEW w \in Job \union {Idle},
         w # Idle => SubjectOf[w.event] = s, up,
         work' = [work EXCEPT ![s] = w],
         UNCHANGED <<records, up, sent, queue, moves, crashes, resets>>,
         minterRows' \in [Metadatas -> Seq(0..MaxValue)]
  PROVE  TypeOK'
<1>1. work' \in [Subjects -> Job \union {Idle}]
  BY DEF TypeOK
<1>2. \A q \in Subjects : work'[q] # Idle => SubjectOf[work'[q].event] = q
  BY DEF TypeOK
<1> QED
  BY <1>1, <1>2 DEF TypeOK, OfSubject

LEMMA TypeReceive ==
  ASSUME TypeOK, NEW s \in Subjects, NEW first \in {"wait", "create"},
         Receive(s, first)
  PROVE  TypeOK'
<1> DEFINE e == Head(queue[s])
<1>1. e \in Events /\ SubjectOf[e] = s /\ Tail(queue[s]) \in Seq(OfSubject(s))
  <2>1. queue[s] \in Seq(OfSubject(s)) /\ queue[s] # <<>>
    BY DEF TypeOK, Receive
  <2>2. Head(queue[s]) \in OfSubject(s) /\ Tail(queue[s]) \in Seq(OfSubject(s))
    BY <2>1
  <2> QED
    BY <2>2 DEF OfSubject
<1>2. PICK metadata \in MetadataSeen(s, e) :
        work' = [work EXCEPT ![s] =
                   [stage |-> first, event |-> e, wallet |-> e,
                    metadata |-> metadata, row |-> 0, seen |-> 0]]
  BY DEF Receive
<1> DEFINE w == [stage |-> first, event |-> e, wallet |-> e,
                 metadata |-> metadata, row |-> 0, seen |-> 0]
<1>3. w \in Job
  <2>1. moves \in 0..Moves
    BY DEF TypeOK
  <2> QED
    BY <1>1, <1>2, <2>1, MetadataType DEF Job
<1>4. /\ work' \in [Subjects -> Job \union {Idle}]
      /\ \A q \in Subjects : work'[q] # Idle => SubjectOf[work'[q].event] = q
  <2> HIDE DEF e
  <2>1. work' = [work EXCEPT ![s] = w] /\ w.event = e
    BY <1>2
  <2>2. SubjectOf[w.event] = s
    BY <2>1, <1>1
  <2> HIDE DEF w
  <2> QED
    BY <2>1, <2>2, <1>3 DEF TypeOK
<1>5. /\ queue' \in [Subjects -> Seq(Events)]
      /\ \A q \in Subjects : queue'[q] \in Seq(OfSubject(q))
  <2>1. Tail(queue[s]) \in Seq(Events)
    BY DEF TypeOK, Receive
  <2>2. queue' = [queue EXCEPT ![s] = Tail(queue[s])]
    BY DEF Receive
  <2> HIDE DEF e
  <2> QED
    BY <1>1, <2>1, <2>2 DEF TypeOK
<1> QED
  BY <1>4, <1>5 DEF Receive, TypeOK, durable

LEMMA TypeDrop ==
  ASSUME TypeOK, NEW s \in Subjects, Drop(s)
  PROVE  TypeOK'
<1>1. Tail(queue[s]) \in Seq(OfSubject(s)) /\ Tail(queue[s]) \in Seq(Events)
  BY DEF TypeOK, Drop
<1>2. queue' = [queue EXCEPT ![s] = Tail(queue[s])]
  BY DEF Drop
<1>3. /\ queue' \in [Subjects -> Seq(Events)]
      /\ \A q \in Subjects : queue'[q] \in Seq(OfSubject(q))
  BY <1>1, <1>2 DEF TypeOK
<1> QED
  BY <1>3 DEF Drop, TypeOK, durable

LEMMA TypePublish ==
  ASSUME TypeOK, NEW e \in Events, Publish(e)
  PROVE  TypeOK'
<1>1. SubjectOf[e] \in Subjects /\ e \in OfSubject(SubjectOf[e])
  BY DEF OfSubject
<1>2. /\ queue' \in [Subjects -> Seq(Events)]
      /\ \A q \in Subjects : queue'[q] \in Seq(OfSubject(q))
  BY <1>1 DEF Publish, TypeOK
<1>3. sent' \in [Events -> 0..Copies]
  BY DEF Publish, TypeOK
<1> QED
  BY <1>2, <1>3 DEF Publish, TypeOK, durable

(* Create adds one record of the right shape, or nothing.                  *)
LEMMA Created ==
  ASSUME TypeOK, NEW s \in Subjects, Create(s)
  PROVE  /\ NewRecord(s) \in Record /\ work[s] \in Job
         /\ \/ records' = records
            \/ ~Recorded(work[s].event)
               /\ records' = records \union {NewRecord(s)}
<1>1. work[s] \in Job
  BY BusyIsJob DEF Create, TypeOK
<1>2. Cardinality({r \in records : SubjectOf[r.event] = s}) \in Nat
  BY FS_Subset, FS_CardinalityType DEF TypeOK
<1>3. NewRecord(s) \in Record
  BY <1>1, <1>2 DEF NewRecord, Record, Job
<1> QED
  BY <1>1, <1>3 DEF Create

LEMMA TypeCreate ==
  ASSUME TypeOK, NEW s \in Subjects, Create(s)
  PROVE  TypeOK'
<1>1. AfterCreate(s) \in Job \union {Idle}
  BY Created DEF AfterCreate, Job
<1>2. AfterCreate(s) # Idle => SubjectOf[AfterCreate(s).event] = s
  BY Created DEF AfterCreate, Create, TypeOK, Job
<1>3. /\ work' \in [Subjects -> Job \union {Idle}]
      /\ \A q \in Subjects : work'[q] # Idle => SubjectOf[work'[q].event] = q
  <2>1. work' = [work EXCEPT ![s] = AfterCreate(s)]
    BY DEF Create
  <2> QED
    BY <1>1, <1>2, <2>1 DEF TypeOK
<1>4. /\ records' \subseteq Record /\ IsFiniteSet(records')
      /\ \A r, t \in records' : r.event = t.event => r = t
  <2>1. CASE records' = records
    BY <2>1 DEF TypeOK
  <2>2. CASE /\ ~Recorded(work[s].event)
             /\ records' = records \union {NewRecord(s)}
    <3>1. NewRecord(s).event = work[s].event
      BY DEF NewRecord
    <3>2. \A r \in records : r.event # NewRecord(s).event
      BY <2>2, <3>1 DEF Recorded
    <3>3. records' \subseteq Record /\ IsFiniteSet(records')
      <4>1. NewRecord(s) \in Record
        BY Created
      <4>2. records \subseteq Record /\ IsFiniteSet(records)
        BY DEF TypeOK
      <4> HIDE DEF NewRecord
      <4> QED
        BY <2>2, <4>1, <4>2, FS_AddElement
    <3>4. \A r, t \in records : r.event = t.event => r = t
      BY DEF TypeOK
    <3> HIDE DEF NewRecord
    <3>5. \A r, t \in records' : r.event = t.event => r = t
      BY <2>2, <3>1, <3>2, <3>4
    <3> QED
      BY <3>3, <3>5
  <2> QED
    BY <2>1, <2>2, Created
<1> QED
  BY <1>3, <1>4 DEF Create, TypeOK

(* A member of a sequence is of its type, and its position a number.       *)
LEMMA SeqElement == ASSUME NEW S, NEW q \in Seq(S), NEW n \in DOMAIN q
                    PROVE  q[n] \in S /\ n \in Nat
OBVIOUS

(* ReadValue leaves the handler with the same event and project, and a     *)
(* next stage that fits the rows it read.                                  *)
FitsRead(s, w) ==
  LET rows == minterRows[work[s].metadata]
  IN /\ w.event = work[s].event /\ w.metadata = work[s].metadata
     /\ w.stage \in {"updateRow", "createRow", "updateUnnamed"}
     /\ w.stage = "updateRow" => w.row \in DOMAIN rows /\ w.seen = rows[w.row]
     /\ w.stage = "createRow" => rows = <<>>
     /\ w.stage = "updateUnnamed" => s \in FaultySubjects

LEMMA ReadJob ==
  ASSUME TypeOK, NEW s \in Subjects, ReadValue(s)
  PROVE  \E w \in Job : work' = [work EXCEPT ![s] = w] /\ FitsRead(s, w)
<1> DEFINE rows == minterRows[work[s].metadata]
<1>0. work[s] \in Job /\ work[s].metadata \in Metadatas
  BY BusyIsJob DEF ReadValue, TypeOK, Job
<1>1. rows \in Seq(0..MaxValue)
  BY <1>0 DEF TypeOK
<1>2. ASSUME NEW n \in DOMAIN rows,
             work' = [work EXCEPT ![s].stage = "updateRow",
                                  ![s].row = n, ![s].seen = rows[n]]
      PROVE  \E w \in Job : work' = [work EXCEPT ![s] = w] /\ FitsRead(s, w)
  <2> DEFINE v == rows[n]
             w == [work[s] EXCEPT !.stage = "updateRow", !.row = n,
                                  !.seen = v]
  <2>0. v = rows[n]
    OBVIOUS
  <2> HIDE DEF rows, v
  <2>1. v \in 0..MaxValue /\ n \in Nat
    BY <1>1, <1>2, <2>0, SeqElement
  <2>2. /\ w \in Job /\ w.event = work[s].event
        /\ w.metadata = work[s].metadata /\ w.stage = "updateRow"
        /\ w.row = n /\ w.seen = v
    BY <1>0, <2>1 DEF Job
  <2>3. work' = [work EXCEPT ![s] = w]
    BY <1>2, <2>0 DEF TypeOK
  <2> HIDE DEF w
  <2>4. FitsRead(s, w)
    BY <2>0, <2>2 DEF FitsRead, rows
  <2> QED
    BY <2>2, <2>3, <2>4
<1>3. ASSUME NEW st \in {"createRow", "updateUnnamed"},
             work' = [work EXCEPT ![s].stage = st],
             st = "createRow" => rows = <<>>,
             st = "updateUnnamed" => s \in FaultySubjects
      PROVE  \E w \in Job : work' = [work EXCEPT ![s] = w] /\ FitsRead(s, w)
  <2> DEFINE w == [work[s] EXCEPT !.stage = st]
  <2>1. /\ w \in Job /\ w.event = work[s].event
        /\ w.metadata = work[s].metadata /\ w.stage = st
    BY <1>0 DEF Job
  <2>2. work' = [work EXCEPT ![s] = w]
    BY <1>3 DEF TypeOK
  <2> HIDE DEF w
  <2>3. FitsRead(s, w)
    BY <1>3, <2>1 DEF FitsRead
  <2> QED
    BY <2>1, <2>2, <2>3
<1> QED
  BY <1>2, <1>3 DEF ReadValue

LEMMA TypeValue ==
  ASSUME TypeOK, NEW s \in Subjects,
         ReadValue(s) \/ CreateRow(s) \/ UpdateRow(s) \/ UpdateUnnamed(s)
  PROVE  TypeOK'
<1>0. work[s] \in Job /\ work[s].metadata \in Metadatas /\ SubjectOf[work[s].event] = s
  BY BusyIsJob DEF ReadValue, CreateRow, UpdateRow, UpdateUnnamed, TypeOK, Job
<1>1. CASE ReadValue(s)
  <2>1. PICK w \in Job : work' = [work EXCEPT ![s] = w] /\ w.event = work[s].event
    BY <1>1, ReadJob DEF FitsRead
  <2> QED
    BY <1>0, <1>1, <2>1, TypeWork DEF ReadValue, durable, TypeOK
<1>2. ASSUME NEW p \in Metadatas, NEW rows \in Seq(0..MaxValue),
             SaveRows(s, p, rows), up
      PROVE  TypeOK'
  <2>1. minterRows' \in [Metadatas -> Seq(0..MaxValue)]
    BY <1>2 DEF SaveRows, TypeOK
  <2> QED
    BY <1>2, <2>1, TypeWork DEF SaveRows
<1>3. CASE CreateRow(s)
  <2>1. Append(minterRows[work[s].metadata], 1) \in Seq(0..MaxValue)
    BY <1>0 DEF TypeOK
  <2> QED
    BY <1>0, <1>2, <1>3, <2>1 DEF CreateRow
<1>4. CASE UpdateRow(s)
  <2>1. Increased(work[s].seen) \in 0..MaxValue
    BY <1>0 DEF Increased, Job
  <2>2. [minterRows[work[s].metadata] EXCEPT ![work[s].row] =
           Increased(work[s].seen)] \in Seq(0..MaxValue)
    <3>1. minterRows[work[s].metadata] \in Seq(0..MaxValue)
      BY <1>0 DEF TypeOK
    <3> QED
      BY <2>1, <3>1, ExceptSeq
  <2> QED
    BY <1>0, <1>2, <1>4, <2>2 DEF UpdateRow
<1>5. CASE UpdateUnnamed(s)
  <2>1. minterRows[NoMetadata] \in Seq(0..MaxValue)
    BY MetadataType DEF TypeOK
  <2>2. [n \in DOMAIN minterRows[NoMetadata] |-> 1] \in Seq(0..MaxValue)
    BY <2>1
  <2> QED
    BY <1>2, <1>5, <2>2, MetadataType DEF UpdateUnnamed
<1> QED
  BY <1>1, <1>3, <1>4, <1>5

LEMMA TypeNext == TypeOK /\ [Next]_vars => TypeOK'
<1> SUFFICES ASSUME TypeOK, [Next]_vars PROVE TypeOK'
  OBVIOUS
<1>1. CASE Boot
  BY <1>1 DEF Boot, TypeOK, durable, OfSubject
<1>2. CASE Crash
  <2>1. \A s \in Subjects : queue'[s] = <<>> /\ work'[s] = Idle
    BY <1>2 DEF Crash
  <2>2. \A s \in Subjects : queue'[s] \in Seq(OfSubject(s))
    <3>1. ASSUME NEW S PROVE <<>> \in Seq(S)
      OBVIOUS
    <3> QED
      BY <2>1, <3>1
  <2>3. /\ queue' \in [Subjects -> Seq(Events)]
        /\ work' \in [Subjects -> Job \union {Idle}]
        /\ sent' \in [Events -> 0..Copies]
        /\ crashes' \in 0..MaxCrashes
    BY <1>2 DEF Crash, TypeOK
  <2>4. UNCHANGED <<records, minterRows, moves, resets>> /\ up' = FALSE
        /\ queue' = [s \in Subjects |-> <<>>] /\ work' = [s \in Subjects |-> Idle]
    BY <1>2 DEF Crash, durable
  <2> QED
    BY <2>1, <2>2, <2>3, <2>4 DEF TypeOK, OfSubject
<1>3. CASE ClearMinterBuyValue
  <2>1. PICK p \in Metadatas : \E n \in DOMAIN minterRows[p] :
          minterRows' = [minterRows EXCEPT ![p][n] = 0]
    BY <1>3 DEF ClearMinterBuyValue
  <2>2. minterRows' \in [Metadatas -> Seq(0..MaxValue)]
    <3>1. PICK n \in DOMAIN minterRows[p] :
            minterRows' = [minterRows EXCEPT ![p] = [@ EXCEPT ![n] = 0]]
      BY <2>1
    <3>2. [minterRows[p] EXCEPT ![n] = 0] \in Seq(0..MaxValue)
      BY DEF TypeOK
    <3> QED
      BY <3>1, <3>2 DEF TypeOK
  <2>3. /\ UNCHANGED <<records, up, sent, queue, work, moves, crashes>>
        /\ resets' = resets + 1 /\ resets < MaxResets
    BY <1>3 DEF ClearMinterBuyValue, volatile
  <2>4. resets' \in 0..MaxResets
    BY <2>3 DEF TypeOK
  <2> QED
    BY <2>2, <2>3, <2>4 DEF TypeOK
<1>4. ASSUME NEW e \in Events, Publish(e) PROVE TypeOK'
  BY <1>4, TypePublish
<1>5. ASSUME NEW s \in Subjects, Handle(s) PROVE TypeOK'
  <2>1. CASE StartWaiting(s) \/ StartRecord(s)
    BY <2>1, TypeReceive DEF StartWaiting, StartRecord
  <2>2. CASE Drop(s)
    BY <2>2, TypeDrop
  <2>3. CASE FindTransfer(s)
    <3>1. work[s] \in Job /\ SubjectOf[work[s].event] = s
      BY <2>3, BusyIsJob DEF FindTransfer, TypeOK
    <3>2. PICK r \in records : work' = [work EXCEPT ![s].stage = "create",
                                                    ![s].wallet = r.wallet]
      BY <2>3 DEF FindTransfer, OwnerRecords, First
    <3> DEFINE w == [work[s] EXCEPT !.stage = "create", !.wallet = r.wallet]
    <3>3. w \in Job /\ w.event = work[s].event
      BY <3>1 DEF Job, TypeOK, Record
    <3>4. work' = [work EXCEPT ![s] = w]
      BY <3>2 DEF TypeOK
    <3> HIDE DEF w
    <3> QED
      BY <2>3, <3>1, <3>3, <3>4, TypeWork DEF FindTransfer, durable, TypeOK
  <2>4. CASE Create(s)
    BY <2>4, TypeCreate
  <2>5. CASE ReadValue(s) \/ CreateRow(s) \/ UpdateRow(s) \/ UpdateUnnamed(s)
    BY <2>5, TypeValue
  <2> QED
    BY <1>5, <2>1, <2>2, <2>3, <2>4, <2>5 DEF Handle
<1>6. CASE UNCHANGED vars
  BY <1>6 DEF vars, TypeOK, OfSubject
<1>7. CASE ChangeSlot
  <2>1. moves' \in 0..Moves
    BY <1>7, SlotsAssumption DEF SlotsAssumption, ChangeSlot, TypeOK
  <2>2. UNCHANGED <<records, minterRows, up, sent, queue, work, crashes, resets>>
    BY <1>7 DEF ChangeSlot, durable, volatile
  <2> QED
    BY <2>1, <2>2 DEF TypeOK, OfSubject
<1> QED
  BY <1>1, <1>2, <1>3, <1>4, <1>5, <1>6, <1>7 DEF Next

(* Type correctness, whatever is announced and whatever calls fail.        *)
THEOREM TypeCorrect == Spec => []TypeOK
  BY TypeInit, TypeNext, PTL DEF Spec

---------------------------------------------------------------------------
(* FoundOwner survives every step: records are only ever added, and the    *)
(* only way to the stage "create" of such a handler is FindTransfer.       *)
LEMMA FoundKept ==
  ASSUME FoundOwner, records \subseteq records', NEW s \in Subjects,
         \A q \in Subjects \ {s} : work'[q] = work[q],
         s \in ValueSubjects /\ work'[s] # Idle /\ work'[s].stage = "create" =>
           \E t \in OwnerRecords(work'[s].event, work'[s].metadata) :
             t.wallet = work'[s].wallet
  PROVE  FoundOwner'
<1> SUFFICES ASSUME NEW q \in ValueSubjects,
                    work'[q] # Idle, work'[q].stage = "create"
             PROVE  \E t \in OwnerRecords(work[q].event, work[q].metadata)' :
                      t.wallet = work'[q].wallet
  BY DEF FoundOwner, Idle
<1>1. \E t \in OwnerRecords(work'[q].event, work'[q].metadata) :
        t.wallet = work'[q].wallet
  BY SubjectsDisjoint DEF FoundOwner
<1> QED
  BY <1>1 DEF OwnerRecords

LEMMA OwnerInit == Init => FoundOwner
<1> SUFFICES ASSUME Init PROVE \A s \in ValueSubjects : work[s] = Idle
  BY DEF FoundOwner
<1> QED
  BY SubjectsDisjoint DEF Init

LEMMA OwnerNext == TypeOK /\ FoundOwner /\ [Next]_vars => FoundOwner'
<1> SUFFICES ASSUME TypeOK, FoundOwner, [Next]_vars PROVE FoundOwner'
  OBVIOUS
<1>1. CASE \/ Boot \/ ClearMinterBuyValue \/ ChangeSlot \/ UNCHANGED vars
           \/ \E e \in Events : Publish(e)
  <2>1. UNCHANGED <<records, work>>
    BY <1>1 DEF Boot, ClearMinterBuyValue, ChangeSlot, Publish, vars, durable,
                volatile
  <2> QED
    BY <2>1 DEF FoundOwner, OwnerRecords
<1>2. CASE Crash
  <2>1. \A s \in ValueSubjects : work'[s] = Idle
    BY <1>2, SubjectsDisjoint DEF Crash
  <2> QED
    BY <2>1 DEF FoundOwner
<1>3. ASSUME NEW s \in Subjects, Handle(s) PROVE FoundOwner'
  <2>1. CASE StartWaiting(s)
    <3>1. UNCHANGED records /\ \A q \in Subjects \ {s} : work'[q] = work[q]
      BY <2>1 DEF StartWaiting, Receive, durable, TypeOK
    <3>2. work'[s].stage = "wait"
      BY <2>1 DEF StartWaiting, Receive, TypeOK
    <3> QED
      BY <3>1, <3>2, FoundKept
  <2>2. CASE StartRecord(s)
    <3>1. UNCHANGED records /\ \A q \in Subjects \ {s} : work'[q] = work[q]
      BY <2>2 DEF StartRecord, Receive, durable, TypeOK
    <3> QED
      BY <2>2, <3>1, FoundKept DEF StartRecord
  <2>3. CASE Drop(s)
    BY <2>3 DEF Drop, durable, FoundOwner, OwnerRecords
  <2>4. CASE FindTransfer(s)
    <3>1. PICK r \in OwnerRecords(work[s].event, work[s].metadata) :
            work' = [work EXCEPT ![s].stage = "create", ![s].wallet = r.wallet]
      BY <2>4 DEF FindTransfer, First
    <3>2. work[s] \in Job
      BY <2>4, BusyIsJob DEF FindTransfer, TypeOK
    <3>3. /\ work'[s].event = work[s].event /\ work'[s].metadata = work[s].metadata
          /\ work'[s].wallet = r.wallet
      BY <3>1, <3>2 DEF TypeOK, Job
    <3>4. UNCHANGED records /\ \A q \in Subjects \ {s} : work'[q] = work[q]
      BY <2>4, <3>1 DEF FindTransfer, durable, TypeOK
    <3> QED
      BY <3>1, <3>3, <3>4, FoundKept
  <2>5. CASE Create(s)
    <3>1. records \subseteq records' /\ \A q \in Subjects \ {s} : work'[q] = work[q]
      BY <2>5, Created DEF Create, TypeOK
    <3>2. work'[s] = AfterCreate(s) /\ work[s] \in Job
      BY <2>5, Created DEF Create, TypeOK
    <3>3. work'[s] # Idle => s \in PurchaseSubjects
      BY <3>2 DEF AfterCreate
    <3> QED
      BY <3>1, <3>3, SubjectsDisjoint, FoundKept
  <2>6. CASE ReadValue(s)
    <3>1. UNCHANGED records /\ \A q \in Subjects \ {s} : work'[q] = work[q]
      BY <2>6 DEF ReadValue, durable, TypeOK
    <3>2. PICK w \in Job : /\ work' = [work EXCEPT ![s] = w]
                           /\ w.stage \in {"updateRow", "createRow", "updateUnnamed"}
      BY <2>6, ReadJob DEF FitsRead
    <3>3. work'[s].stage # "create"
      BY <3>2 DEF TypeOK
    <3> QED
      BY <3>1, <3>3, FoundKept
  <2>7. CASE CreateRow(s) \/ UpdateRow(s) \/ UpdateUnnamed(s)
    <3>1. UNCHANGED records /\ work' = [work EXCEPT ![s] = Idle]
      BY <2>7 DEF CreateRow, UpdateRow, UpdateUnnamed, SaveRows
    <3>2. work'[s] = Idle /\ \A q \in Subjects \ {s} : work'[q] = work[q]
      BY <3>1 DEF TypeOK
    <3> QED
      BY <3>1, <3>2, FoundKept
  <2> QED
    BY <1>3, <2>1, <2>2, <2>3, <2>4, <2>5, <2>6, <2>7 DEF Handle
<1> QED
  BY <1>1, <1>2, <1>3 DEF Next

(* Only Create touches the table of records, and it adds the record of an  *)
(* event that had none; a handler that needs an owner is in FoundOwner.    *)
LEMMA StepFinal ==
  ASSUME TypeOK, FoundOwner, [Next]_vars
  PROVE  /\ records \subseteq records'
         /\ \A r \in records' \ records : ~Recorded(r.event) /\ Justified(r)
<1>1. CASE UNCHANGED records
  BY <1>1
<1>2. ASSUME NEW s \in Subjects, Create(s), ~Recorded(work[s].event),
             records' = records \union {NewRecord(s)}
      PROVE  ~Recorded(NewRecord(s).event) /\ Justified(NewRecord(s))
  <2>1. /\ NewRecord(s).event = work[s].event
        /\ NewRecord(s).wallet = work[s].wallet
        /\ NewRecord(s).metadata = work[s].metadata
    BY DEF NewRecord
  <2>2. work[s] # Idle /\ work[s].stage = "create" /\ SubjectOf[work[s].event] = s
    BY <1>2 DEF Create, TypeOK
  <2>3. SubjectOf[work[s].event] \in ValueSubjects =>
          \E t \in OwnerRecords(work[s].event, work[s].metadata) :
            t.wallet = work[s].wallet
    BY <2>2 DEF FoundOwner
  <2> QED
    BY <1>2, <2>1, <2>3 DEF Justified
<1>3. ASSUME NEW s \in Subjects, Create(s)
      PROVE  /\ records \subseteq records'
             /\ \A r \in records' \ records : ~Recorded(r.event) /\ Justified(r)
  BY <1>1, <1>2, <1>3, Created
<1>4. CASE Next
  <2>1. \/ UNCHANGED records
        \/ \E s \in Subjects : Create(s)
    BY <1>4 DEF Next, Handle, Boot, Crash, ClearMinterBuyValue, ChangeSlot, Publish,
                StartWaiting, StartRecord, Receive, Drop, FindTransfer,
                ReadValue, CreateRow, UpdateRow, UpdateUnnamed, SaveRows,
                durable, volatile
  <2> QED
    BY <1>1, <1>3, <2>1
<1> QED
  BY <1>1, <1>4 DEF vars

(* The record of an event is final, and one that names an owner took it    *)
(* from a transfer on record, whatever order the subscribers ran in.       *)
THEOREM FinalRecords == Spec => RecordsAreFinal
<1>1. Init => TypeOK /\ FoundOwner
  BY TypeInit, OwnerInit
<1>2. TypeOK /\ FoundOwner /\ [Next]_vars => TypeOK' /\ FoundOwner'
  BY TypeNext, OwnerNext
<1>3. TypeOK /\ FoundOwner /\ [Next]_vars =>
        [/\ records \subseteq records'
         /\ \A r \in records' \ records : ~Recorded(r.event) /\ Justified(r)
        ]_vars
  BY StepFinal
<1> QED
  BY <1>1, <1>2, <1>3, PTL DEF Spec, RecordsAreFinal

---------------------------------------------------------------------------
(* A running process forgets no event it has announced.                    *)

(* What a step of a handler does to its queue and its work; the others     *)
(* keep theirs.                                                            *)
Takes(s) == /\ work[s] = Idle /\ queue[s] # <<>>
            /\ queue'[s] = Tail(queue[s])
            /\ work'[s] \in Job /\ work'[s].event = Head(queue[s])
            /\ work'[s].stage \in {"wait", "create"}
            /\ work'[s].metadata \in MetadataSeen(s, Head(queue[s]))
Drops(s) == s \in FaultySubjects /\ work'[s] = work[s]
Works(s) == /\ work[s] \in Job /\ queue'[s] = queue[s]
            /\ \/ work'[s] = Idle
               \/ /\ work'[s] \in Job /\ work'[s].event = work[s].event
                  /\ work'[s].metadata = work[s].metadata

LEMMA ReceiveTakes ==
  ASSUME TypeOK, NEW s \in Subjects, NEW first \in {"wait", "create"},
         Receive(s, first)
  PROVE  /\ Takes(s)
         /\ \A q \in Subjects \ {s} : queue'[q] = queue[q] /\ work'[q] = work[q]
<1> DEFINE e == Head(queue[s])
<1>1. e \in Events /\ queue[s] # <<>> /\ work[s] = Idle
  <2>1. queue[s] \in Seq(Events) /\ queue[s] # <<>>
    BY DEF TypeOK, Receive
  <2> QED
    BY <2>1 DEF Receive
<1> HIDE DEF e
<1>2. PICK metadata \in MetadataSeen(s, e) :
        work' = [work EXCEPT ![s] =
                   [stage |-> first, event |-> e, wallet |-> e,
                    metadata |-> metadata, row |-> 0, seen |-> 0]]
  BY DEF Receive, e
<1> DEFINE w == [stage |-> first, event |-> e, wallet |-> e,
                 metadata |-> metadata, row |-> 0, seen |-> 0]
<1>3. /\ w \in Job /\ w.event = e /\ w.stage = first
      /\ w.metadata \in MetadataSeen(s, e)
  <2>1. moves \in 0..Moves
    BY DEF TypeOK
  <2> QED
    BY <1>1, <1>2, <2>1, MetadataType DEF Job
<1> HIDE DEF w
<1>4. work'[s] = w /\ \A q \in Subjects \ {s} : work'[q] = work[q]
  BY <1>2 DEF TypeOK, w
<1>5. /\ queue'[s] = Tail(queue[s])
      /\ \A q \in Subjects \ {s} : queue'[q] = queue[q]
  BY DEF Receive, TypeOK
<1> QED
  BY <1>1, <1>3, <1>4, <1>5 DEF Takes, e

LEMMA WorkerSteps ==
  ASSUME TypeOK, NEW s \in Subjects,
         \/ FindTransfer(s) \/ Create(s) \/ ReadValue(s)
         \/ CreateRow(s) \/ UpdateRow(s) \/ UpdateUnnamed(s)
  PROVE  /\ Works(s)
         /\ UNCHANGED queue
         /\ \A q \in Subjects \ {s} : work'[q] = work[q]
<1>0. work[s] \in Job /\ UNCHANGED queue
  BY BusyIsJob DEF FindTransfer, Create, ReadValue, CreateRow, UpdateRow,
     UpdateUnnamed, SaveRows, TypeOK
<1>1. CASE FindTransfer(s)
  <2>1. PICK r \in records :
          work' = [work EXCEPT ![s].stage = "create", ![s].wallet = r.wallet]
    BY <1>1 DEF FindTransfer, First, OwnerRecords
  <2>2. r.wallet \in Events
    BY <2>1 DEF TypeOK, Record
  <2>3. /\ work'[s] = [work[s] EXCEPT !.stage = "create", !.wallet = r.wallet]
        /\ \A q \in Subjects \ {s} : work'[q] = work[q]
    BY <2>1 DEF TypeOK
  <2>4. /\ work'[s] \in Job /\ work'[s].event = work[s].event
        /\ work'[s].metadata = work[s].metadata
    BY <1>0, <2>2, <2>3 DEF Job
  <2> QED
    BY <1>0, <2>3, <2>4 DEF Works
<1>2. CASE Create(s)
  <2>1. /\ work'[s] = AfterCreate(s)
        /\ \A q \in Subjects \ {s} : work'[q] = work[q]
    BY <1>2 DEF Create, TypeOK
  <2>2. \/ AfterCreate(s) = Idle
        \/ /\ AfterCreate(s) \in Job /\ AfterCreate(s).event = work[s].event
           /\ AfterCreate(s).metadata = work[s].metadata
    BY <1>0 DEF AfterCreate, Job
  <2> QED
    BY <1>0, <2>1, <2>2 DEF Works
<1>3. CASE ReadValue(s)
  <2>1. PICK w \in Job : /\ work' = [work EXCEPT ![s] = w]
                         /\ w.event = work[s].event
                         /\ w.metadata = work[s].metadata
    BY <1>3, ReadJob DEF FitsRead
  <2>2. work'[s] = w /\ \A q \in Subjects \ {s} : work'[q] = work[q]
    BY <2>1 DEF TypeOK
  <2> QED
    BY <1>0, <2>1, <2>2 DEF Works
<1>4. CASE CreateRow(s) \/ UpdateRow(s) \/ UpdateUnnamed(s)
  <2>1. work' = [work EXCEPT ![s] = Idle]
    BY <1>4 DEF CreateRow, UpdateRow, UpdateUnnamed, SaveRows
  <2>2. work'[s] = Idle /\ \A q \in Subjects \ {s} : work'[q] = work[q]
    BY <2>1 DEF TypeOK
  <2> QED
    BY <1>0, <2>2 DEF Works
<1> QED
  BY <1>1, <1>2, <1>3, <1>4

LEMMA HandlerSteps ==
  ASSUME TypeOK, NEW s \in Subjects, Handle(s)
  PROVE  /\ up /\ UNCHANGED <<up, sent, crashes, resets>>
         /\ Takes(s) \/ Drops(s) \/ Works(s)
         /\ \A q \in Subjects \ {s} : queue'[q] = queue[q] /\ work'[q] = work[q]
<1>1. up /\ UNCHANGED <<up, sent, crashes, resets>>
  BY DEF Handle, StartWaiting, StartRecord, Receive, Drop, FindTransfer,
     Create, ReadValue, CreateRow, UpdateRow, UpdateUnnamed, SaveRows
<1>2. CASE StartWaiting(s) \/ StartRecord(s)
  BY <1>1, <1>2, ReceiveTakes DEF StartWaiting, StartRecord
<1>3. CASE Drop(s)
  <2>1. /\ Drops(s) /\ UNCHANGED work
        /\ \A q \in Subjects \ {s} : queue'[q] = queue[q]
    BY <1>3 DEF Drop, Drops, TypeOK
  <2> QED
    BY <1>1, <2>1
<1>4. CASE \/ FindTransfer(s) \/ Create(s) \/ ReadValue(s)
           \/ CreateRow(s) \/ UpdateRow(s) \/ UpdateUnnamed(s)
  BY <1>1, <1>4, WorkerSteps
<1> QED
  BY <1>2, <1>3, <1>4 DEF Handle

(* The other messages of a queue stay in it when the first is taken.       *)
LEMMA TailKeeps ==
  ASSUME NEW S, NEW q \in Seq(S), q # <<>>, NEW e \in S
  PROVE  /\ (\E n \in DOMAIN q : q[n] = e) =>
               e = Head(q) \/ \E n \in DOMAIN Tail(q) : Tail(q)[n] = e
         /\ (\E n \in DOMAIN Tail(q) : Tail(q)[n] = e) =>
               \E n \in DOMAIN q : q[n] = e
<1>1. ASSUME NEW n \in DOMAIN q, q[n] = e
      PROVE  e = Head(q) \/ \E m \in DOMAIN Tail(q) : Tail(q)[m] = e
  <2>1. CASE n = 1
    BY <1>1, <2>1
  <2>2. CASE n # 1
    <3>1. n - 1 \in DOMAIN Tail(q) /\ Tail(q)[n - 1] = e
      BY <1>1, <2>2
    <3> QED
      BY <3>1
  <2> QED
    BY <2>1, <2>2
<1>2. ASSUME NEW n \in DOMAIN Tail(q), Tail(q)[n] = e
      PROVE  \E m \in DOMAIN q : q[m] = e
  <2>1. n + 1 \in DOMAIN q /\ q[n + 1] = e
    BY <1>2
  <2> QED
    BY <2>1
<1> QED
  BY <1>1, <1>2

LEMMA RecordsStay ==
  ASSUME TypeOK, FoundOwner, [Next]_vars, NEW e
  PROVE  Recorded(e) => Recorded(e)'
<1>1. records \subseteq records'
  BY StepFinal
<1> QED
  BY <1>1 DEF Recorded

(* Where an announced event is until it is on record.                      *)
Pending(e) == \/ Queued(e)
              \/ WorkedOn(e) /\ work[SubjectOf[e]].stage \in {"wait", "create"}

LEMMA PendingByOthers ==
  ASSUME NEW e \in Events, NEW s, s = SubjectOf[e],
         queue'[s] = queue[s], work'[s] = work[s]
  PROVE  Pending(e) => Pending(e)'
BY DEF Pending, Queued, WorkedOn

(* A message in the queue of a handler that takes one is taken or stays.   *)
LEMMA QueuedMoves ==
  ASSUME TypeOK, NEW e \in Events, NEW s \in Subjects, s = SubjectOf[e],
         Takes(s) \/ Works(s), Queued(e)
  PROVE  Pending(e)'
<1>1. queue[s] \in Seq(Events)
  BY DEF TypeOK
<1>2. CASE Works(s)
  BY <1>2 DEF Works, Pending, Queued
<1>3. CASE Takes(s)
  <2>1. e = Head(queue[s])
          \/ \E n \in DOMAIN Tail(queue[s]) : Tail(queue[s])[n] = e
    <3> DEFINE q == queue[s]
    <3>1. q \in Seq(Events) /\ q # <<>> /\ \E n \in DOMAIN q : q[n] = e
      BY <1>1, <1>3 DEF Takes, Queued
    <3> HIDE DEF q
    <3>2. e = Head(q) \/ \E n \in DOMAIN Tail(q) : Tail(q)[n] = e
      BY <3>1, TailKeeps
    <3> QED
      BY <3>2 DEF q
  <2>2. CASE e = Head(queue[s])
    <3>1. /\ work'[s] \in Job /\ work'[s].event = e
          /\ work'[s].stage \in {"wait", "create"}
      BY <1>3, <2>2 DEF Takes
    <3>2. work'[s] # Idle
      BY <3>1, JobIsBusy
    <3> QED
      BY <3>1, <3>2 DEF Pending, WorkedOn
  <2>3. CASE \E n \in DOMAIN Tail(queue[s]) : Tail(queue[s])[n] = e
    BY <1>3, <2>3 DEF Takes, Pending, Queued
  <2> QED
    BY <2>1, <2>2, <2>3
<1> QED
  BY <1>2, <1>3

(* The handler at work on it goes on, or has put it on record.             *)
LEMMA WorkMoves ==
  ASSUME TypeOK, NEW e \in Events, NEW s \in Subjects, s = SubjectOf[e],
         s \notin FaultySubjects, Handle(s),
         WorkedOn(e), work[s].stage \in {"wait", "create"}
  PROVE  Pending(e)' \/ Recorded(e)'
<1>1. work[s] # Idle /\ work[s].event = e
  BY DEF WorkedOn
<1>2. FindTransfer(s) \/ Create(s)
  BY <1>1 DEF Handle, StartWaiting, StartRecord, Receive, Drop, ReadValue,
     CreateRow, UpdateRow, UpdateUnnamed
<1>3. CASE FindTransfer(s)
  <2>1. PICK r \in records :
          work' = [work EXCEPT ![s].stage = "create", ![s].wallet = r.wallet]
    BY <1>3 DEF FindTransfer, First, OwnerRecords
  <2>2. work[s] \in Job
    BY <1>1, BusyIsJob DEF TypeOK
  <2>3. work'[s].stage = "create" /\ work'[s].event = e
    BY <1>1, <2>1, <2>2 DEF TypeOK, Job
  <2>4. work'[s] # Idle
    BY <1>3, <2>2, JobIsBusy, WorkerSteps, <2>3 DEF Works, Idle
  <2> QED
    BY <2>3, <2>4 DEF Pending, WorkedOn
<1>4. CASE Create(s)
  <2>1. records' = IF ~Recorded(e) THEN records \union {NewRecord(s)}
                                   ELSE records
    BY <1>1, <1>4 DEF Create, CallSucceeds
  <2>2. NewRecord(s).event = e
    BY <1>1 DEF NewRecord
  <2> HIDE DEF NewRecord
  <2>3. Recorded(e)'
    BY <2>1, <2>2 DEF Recorded
  <2> QED
    BY <2>3
<1> QED
  BY <1>2, <1>3, <1>4

LEMMA KeptInit == Init => AnnouncedIsKept
  BY DEF Init, AnnouncedIsKept

LEMMA KeptNext ==
  TypeOK /\ FoundOwner /\ AnnouncedIsKept /\ [Next]_vars => AnnouncedIsKept'
<1> SUFFICES ASSUME TypeOK, FoundOwner, AnnouncedIsKept, [Next]_vars,
                    NEW e \in Events, sent'[e] > 0,
                    SubjectOf[e] \notin FaultySubjects
             PROVE  Recorded(e)' \/ Pending(e)'
  BY DEF AnnouncedIsKept, Pending
<1> DEFINE s == SubjectOf[e]
<1>0. s \in Subjects
  OBVIOUS
<1>1. sent[e] > 0 => Recorded(e) \/ Pending(e)
  BY DEF AnnouncedIsKept, Pending
<1>2. ~Boot /\ ~Crash
  BY DEF Boot, Crash
<1>3. ASSUME NEW f \in Events, Publish(f) PROVE Recorded(e)' \/ Pending(e)'
  <2>1. /\ queue' = [queue EXCEPT ![SubjectOf[f]] = Append(@, f)]
        /\ UNCHANGED <<work, records>>
    BY <1>3 DEF Publish, durable
  <2>2. queue[s] \in Seq(Events)
    BY <1>0 DEF TypeOK
  <2>3. CASE f = e
    <3>1. queue'[s] = Append(queue[s], e)
      BY <1>0, <2>1, <2>3 DEF TypeOK
    <3>2. Len(queue[s]) + 1 \in DOMAIN queue'[s]
          /\ queue'[s][Len(queue[s]) + 1] = e
      BY <2>2, <3>1
    <3> QED
      BY <3>2 DEF Pending, Queued
  <2>4. CASE f # e
    <3>1. sent[e] > 0
      BY <1>3, <2>4 DEF Publish, TypeOK
    <3>2. queue'[s] = queue[s] \/ queue'[s] = Append(queue[s], f)
      BY <1>0, <2>1 DEF TypeOK
    <3>3. \A n \in DOMAIN queue[s] : n \in DOMAIN queue'[s]
                                     /\ queue'[s][n] = queue[s][n]
      <4>1. CASE queue'[s] = queue[s]
        BY <4>1
      <4>2. CASE queue'[s] = Append(queue[s], f)
        <5>1. DOMAIN queue[s] = 1..Len(queue[s])
              /\ DOMAIN queue'[s] = 1..(Len(queue[s]) + 1)
          BY <2>2, <4>2
        <5>2. \A n \in 1..Len(queue[s]) : queue'[s][n] = queue[s][n]
          BY <2>2, <4>2
        <5>3. Len(queue[s]) \in Nat
          BY <2>2
        <5> QED
          BY <5>1, <5>2, <5>3
      <4> QED
        BY <3>2, <4>1, <4>2
    <3>4. Queued(e) => Queued(e)'
      BY <3>3 DEF Queued
    <3> QED
      BY <1>1, <2>1, <3>1, <3>4 DEF Pending, WorkedOn, Recorded
  <2> QED
    BY <2>3, <2>4
<1>4. ASSUME NEW q \in Subjects, Handle(q) PROVE Recorded(e)' \/ Pending(e)'
  <2>1. sent[e] > 0
    BY <1>4, HandlerSteps
  <2>2. Recorded(e) => Recorded(e)'
    BY RecordsStay
  <2>3. ASSUME Pending(e) PROVE Recorded(e)' \/ Pending(e)'
    <3>1. CASE q # s
      <4>1. queue'[s] = queue[s] /\ work'[s] = work[s]
        BY <1>0, <1>4, <3>1, HandlerSteps
      <4> QED
        BY <2>3, <4>1, PendingByOthers
    <3>2. CASE q = s /\ Queued(e)
      <4>1. Takes(s) \/ Works(s)
        BY <1>4, <3>2, HandlerSteps DEF Drops
      <4> QED
        BY <1>0, <3>2, <4>1, QueuedMoves
    <3>3. CASE q = s /\ ~Queued(e)
      <4>1. WorkedOn(e) /\ work[s].stage \in {"wait", "create"}
        BY <2>3, <3>3 DEF Pending
      <4> QED
        BY <1>0, <1>4, <3>3, <4>1, WorkMoves
    <3> QED
      BY <3>1, <3>2, <3>3
  <2> QED
    BY <1>1, <2>1, <2>2, <2>3
<1>5. CASE ClearMinterBuyValue \/ ChangeSlot \/ UNCHANGED vars
  <2>1. UNCHANGED <<records, sent, queue, work>>
    BY <1>5 DEF ClearMinterBuyValue, ChangeSlot, vars, volatile, durable
  <2> QED
    BY <1>1, <2>1, PendingByOthers DEF Recorded
<1> QED
  BY <1>2, <1>3, <1>4, <1>5 DEF Next

(* Whatever the order of announcements, crashes and failing calls of other *)
(* handlers, an announced event is on record, in its queue or in the hands *)
(* of its handler (subscriber.go and the handlers' db.Create).             *)
THEOREM AnnouncedIsAlwaysKept == Spec => []AnnouncedIsKept
  BY TypeInit, TypeNext, OwnerInit, OwnerNext, KeptInit, KeptNext, PTL
  DEF Spec

---------------------------------------------------------------------------
(* The minter value of a project is never behind.                          *)

(* Fewer purchases are covered by the same rows, and one more is covered   *)
(* by a value one higher.                                                  *)
LEMMA CoversFewer ==
  ASSUME NEW rows \in Seq(0..MaxValue), NEW H, IsFiniteSet(H),
         NEW G \in SUBSET H, Covers(rows, H)
  PROVE  IsFiniteSet(G) /\ Covers(rows, G)
<1>1. IsFiniteSet(G) /\ Cardinality(G) <= Cardinality(H)
  BY FS_Subset
<1>2. Cardinality(G) \in Nat /\ Cardinality(H) \in Nat
  BY <1>1, FS_CardinalityType
<1>3. CASE H = {}
  <2>1. G = {}
    BY <1>3
  <2> QED
    BY <1>1, <2>1 DEF Covers
<1>4. CASE H # {}
  <2>1. PICK n \in DOMAIN rows : rows[n] >= Cardinality(H) \/ rows[n] = MaxValue
    BY <1>4 DEF Covers
  <2>2. rows[n] \in 0..MaxValue
    BY <2>1, SeqElement
  <2>3. rows[n] >= Cardinality(G) \/ rows[n] = MaxValue
    BY <1>1, <1>2, <2>1, <2>2
  <2> QED
    BY <1>1, <2>1, <2>3 DEF Covers
<1> QED
  BY <1>3, <1>4

LEMMA OneMoreHandled ==
  ASSUME NEW H, IsFiniteSet(H), NEW e, NEW G \in SUBSET (H \union {e})
  PROVE  /\ IsFiniteSet(G) /\ Cardinality(G) \in Nat /\ Cardinality(H) \in Nat
         /\ Cardinality(G) <= Cardinality(H) + 1
         /\ H = {} => Cardinality(G) <= 1
<1>1. /\ IsFiniteSet(H \union {e})
      /\ Cardinality(H \union {e}) <= Cardinality(H) + 1
  <2>1. Cardinality(H) \in Nat
    BY FS_CardinalityType
  <2>2. /\ IsFiniteSet(H \union {e})
        /\ Cardinality(H \union {e}) =
              IF e \in H THEN Cardinality(H) ELSE Cardinality(H) + 1
    BY FS_AddElement
  <2> QED
    BY <2>1, <2>2
<1>2. IsFiniteSet(G) /\ Cardinality(G) <= Cardinality(H \union {e})
  BY <1>1, FS_Subset
<1>3. /\ Cardinality(G) \in Nat /\ Cardinality(H) \in Nat
      /\ Cardinality(H \union {e}) \in Nat
  BY <1>1, <1>2, FS_CardinalityType
<1>4. H = {} => Cardinality(H) = 0
  BY FS_EmptySet
<1> QED
  BY <1>1, <1>2, <1>3, <1>4

LEMMA CoversOneMore ==
  ASSUME NEW rows \in Seq(0..MaxValue), 1 \in DOMAIN rows,
         DOMAIN rows \subseteq {1},
         NEW new \in Seq(0..MaxValue), 1 \in DOMAIN new,
         new[1] = Increased(rows[1]),
         NEW H, IsFiniteSet(H), Covers(rows, H),
         NEW e, NEW G \in SUBSET (H \union {e})
  PROVE  IsFiniteSet(G) /\ Covers(new, G)
<1>1. /\ IsFiniteSet(G) /\ Cardinality(G) \in Nat /\ Cardinality(H) \in Nat
      /\ Cardinality(G) <= Cardinality(H) + 1
      /\ H = {} => Cardinality(G) <= 1
  BY OneMoreHandled
<1>2. rows[1] \in 0..MaxValue
  BY SeqElement
<1>3. H = {} \/ rows[1] >= Cardinality(H) \/ rows[1] = MaxValue
  BY DEF Covers
<1>4. new[1] = IF rows[1] < MaxValue THEN rows[1] + 1 ELSE rows[1]
  BY DEF Increased
<1>5. new[1] >= Cardinality(G) \/ new[1] = MaxValue
  <2>1. CASE rows[1] < MaxValue
    <3>1. new[1] = rows[1] + 1
      BY <1>4, <2>1
    <3>2. rows[1] \in Nat /\ Cardinality(G) \in Nat /\ Cardinality(H) \in Nat
      BY <1>1, <1>2
    <3>3. CASE H = {}
      BY <1>1, <3>1, <3>2, <3>3
    <3>4. CASE H # {}
      <4>1. rows[1] >= Cardinality(H)
        BY <1>3, <2>1, <3>2, <3>4
      <4> QED
        BY <1>1, <3>1, <3>2, <4>1
    <3> QED
      BY <3>3, <3>4
  <2>2. CASE ~(rows[1] < MaxValue)
    BY <1>2, <1>4, <2>2
  <2> QED
    BY <2>1, <2>2
<1> QED
  BY <1>1, <1>5 DEF Covers

LEMMA CoversFirst ==
  ASSUME NEW e, NEW G \in SUBSET {e}
  PROVE  IsFiniteSet(G) /\ Covers(<<1>>, G)
<1>1. IsFiniteSet({}) /\ G \in SUBSET ({} \union {e})
  BY FS_EmptySet
<1>2. IsFiniteSet(G) /\ Cardinality(G) \in Nat /\ Cardinality(G) <= 1
  BY <1>1, OneMoreHandled
<1>3. 1 \in DOMAIN <<1>> /\ <<1>>[1] = 1
  OBVIOUS
<1>4. <<1>>[1] >= Cardinality(G)
  BY <1>2, <1>3
<1> QED
  BY <1>2, <1>3, <1>4 DEF Covers

(* A handler knows the project of its event, and only purchases get to the *)
(* minter values.                                                          *)
LEMMA KnowsNext == TypeOK /\ KnowsProject /\ [Next]_vars => KnowsProject'
<1> SUFFICES ASSUME TypeOK, KnowsProject, [Next]_vars, ~RpcFaults,
                    NEW s \in Subjects \ ProjectSubjects, work'[s] # Idle
             PROVE  work'[s].metadata = Metadata(work'[s].event)
  BY DEF KnowsProject, Metadata, MetadataAt
<1>1. work[s] # Idle => work[s].metadata = Metadata(work[s].event)
  BY DEF KnowsProject
<1>2. ASSUME NEW q \in Subjects, Handle(q)
      PROVE  work'[s].metadata = Metadata(work'[s].event)
  <2>1. CASE q # s
    <3>1. work'[s] = work[s]
      BY <1>2, <2>1, HandlerSteps
    <3> QED
      BY <1>1, <3>1
  <2>2. CASE q = s
    <3>1. Takes(s) \/ Drops(s) \/ Works(s)
      BY <1>2, <2>2, HandlerSteps
    <3>2. CASE Takes(s)
      <4>1. /\ work'[s].event = Head(queue[s])
            /\ work'[s].metadata \in MetadataSeen(s, Head(queue[s]))
        BY <3>2 DEF Takes
      <4> QED
        BY <4>1 DEF MetadataSeen
    <3>3. CASE Drops(s)
      BY <1>1, <3>3 DEF Drops
    <3>4. CASE Works(s)
      <4>1. work[s] # Idle
        BY <3>4, JobIsBusy DEF Works
      <4>2. /\ work'[s].event = work[s].event
            /\ work'[s].metadata = work[s].metadata
        BY <3>4 DEF Works
      <4> QED
        BY <1>1, <4>1, <4>2
    <3> QED
      BY <3>1, <3>2, <3>3, <3>4
  <2> QED
    BY <2>1, <2>2
<1>3. CASE Crash
  BY <1>3 DEF Crash
<1>4. CASE \/ Boot \/ ClearMinterBuyValue \/ ChangeSlot \/ UNCHANGED vars
           \/ \E e \in Events : Publish(e)
  <2>1. UNCHANGED work
    BY <1>4 DEF Boot, ClearMinterBuyValue, ChangeSlot, Publish, vars, volatile
  <2> QED
    BY <1>1, <2>1
<1> QED
  BY <1>2, <1>3, <1>4 DEF Next

LEMMA OnlyPurchasesNext ==
  TypeOK /\ OnlyPurchases /\ [Next]_vars => OnlyPurchases'
<1> SUFFICES ASSUME TypeOK, OnlyPurchases, [Next]_vars,
                    NEW s \in Subjects, work'[s] # Idle,
                    work'[s].stage \in ValueStages
             PROVE  /\ s \in PurchaseSubjects
                    /\ work'[s].stage = "updateUnnamed" => s \in FaultySubjects
  BY DEF OnlyPurchases
<1> DEFINE Goal == /\ s \in PurchaseSubjects
                   /\ work'[s].stage = "updateUnnamed" => s \in FaultySubjects
<1>1. CASE work'[s] = work[s]
  BY <1>1 DEF OnlyPurchases
<1>2. ASSUME NEW q \in Subjects, Handle(q) PROVE Goal
  <2>1. CASE q # s
    <3>1. work'[s] = work[s]
      BY <1>2, <2>1, HandlerSteps
    <3> QED
      BY <1>1, <3>1
  <2>2. CASE Takes(s) \/ Drops(s)
    BY <1>1, <2>2 DEF Takes, Drops, ValueStages
  <2>3. CASE FindTransfer(s)
    <3>1. PICK r \in records :
            work' = [work EXCEPT ![s].stage = "create", ![s].wallet = r.wallet]
      BY <2>3 DEF FindTransfer, First, OwnerRecords
    <3>2. work[s] \in Job
      BY <2>3, BusyIsJob DEF FindTransfer, TypeOK
    <3>3. work'[s].stage = "create"
      BY <3>1, <3>2 DEF TypeOK, Job
    <3> QED
      BY <3>3 DEF ValueStages
  <2>4. CASE Create(s)
    <3>1. work'[s] = AfterCreate(s) /\ work[s] \in Job
      BY <2>4, Created DEF Create, TypeOK
    <3>2. s \in PurchaseSubjects /\ work'[s].stage = "readValue"
      BY <3>1 DEF AfterCreate, Job
    <3> QED
      BY <3>2
  <2>5. CASE ReadValue(s)
    <3>1. PICK w \in Job : work' = [work EXCEPT ![s] = w] /\ FitsRead(s, w)
      BY <2>5, ReadJob
    <3>2. work'[s] = w
      BY <3>1 DEF TypeOK
    <3>3. s \in PurchaseSubjects
      BY <2>5 DEF ReadValue, OnlyPurchases, ValueStages
    <3> QED
      BY <3>1, <3>2, <3>3 DEF FitsRead
  <2>6. CASE CreateRow(s) \/ UpdateRow(s) \/ UpdateUnnamed(s)
    <3>1. work'[s] = Idle
      BY <2>6 DEF CreateRow, UpdateRow, UpdateUnnamed, SaveRows, TypeOK
    <3> QED
      BY <3>1
  <2>7. StartWaiting(s) \/ StartRecord(s) => Takes(s)
    BY ReceiveTakes DEF StartWaiting, StartRecord
  <2>8. Drop(s) => Drops(s)
    BY DEF Drop, Drops
  <2> QED
    BY <1>2, <2>1, <2>2, <2>3, <2>4, <2>5, <2>6, <2>7, <2>8 DEF Handle
<1>3. CASE Crash
  BY <1>3 DEF Crash
<1>4. CASE \/ Boot \/ ClearMinterBuyValue \/ ChangeSlot \/ UNCHANGED vars
           \/ \E e \in Events : Publish(e)
  BY <1>1, <1>4 DEF Boot, ClearMinterBuyValue, ChangeSlot, Publish, vars, volatile
<1> QED
  BY <1>2, <1>3, <1>4 DEF Next

(* A handler's step adds at most the purchase it finishes to the handled   *)
(* ones, and none to those of a project that another handler brings.       *)
LEMMA HandledStays ==
  ASSUME TypeOK, NEW p \in Metadatas, NEW s \in PurchaseSubjects,
         FromOneSubject(p, s), NEW q \in Subjects, Handle(q),
         NEW e, e \in Handled(p)'
  PROVE  \/ e \in Handled(p)
         \/ /\ q = s /\ work[s] # Idle /\ work'[s] = Idle
            /\ e = work[s].event
<1>1. /\ e \in Purchases(p) /\ e \in Events /\ SubjectOf[e] = s
      /\ s \notin FaultySubjects
  BY DEF Handled, Purchases, FromOneSubject
<1>2. s \in Subjects
  BY SubjectsDisjoint
<1>3. sent[e] > 0
  BY HandlerSteps DEF Handled
<1>4. ~Queued(e)' /\ ~WorkedOn(e)'
  BY DEF Handled
<1>5. CASE q # s
  <2>1. queue'[s] = queue[s] /\ work'[s] = work[s]
    BY <1>2, <1>5, HandlerSteps
  <2>2. ~Queued(e) /\ ~WorkedOn(e)
    BY <1>1, <1>4, <2>1 DEF Queued, WorkedOn
  <2> QED
    BY <1>1, <1>3, <2>2 DEF Handled
<1>6. CASE q = s
  <2>1. Takes(s) \/ Works(s)
    BY <1>1, <1>6, HandlerSteps DEF Drops
  <2>2. ~Queued(e)
    <3>1. Queued(e) => Pending(e)'
      BY <1>1, <1>2, <2>1, QueuedMoves
    <3>2. Pending(e)' => Queued(e)' \/ WorkedOn(e)'
      BY DEF Pending
    <3> QED
      BY <1>4, <3>1, <3>2
  <2>3. CASE ~WorkedOn(e)
    BY <1>1, <1>3, <2>2, <2>3 DEF Handled
  <2>4. CASE WorkedOn(e)
    <3>1. work[s] # Idle /\ work[s].event = e
      BY <1>1, <2>4 DEF WorkedOn
    <3>2. Works(s)
      BY <2>1, <3>1 DEF Takes
    <3>3. work'[s] = Idle \/ (work'[s] \in Job /\ work'[s].event = e)
      BY <3>1, <3>2 DEF Works
    <3>4. work'[s] = Idle
      BY <1>1, <1>4, <3>3, JobIsBusy DEF WorkedOn
    <3> QED
      BY <1>6, <3>1, <3>4
  <2> QED
    BY <2>3, <2>4
<1> QED
  BY <1>5, <1>6

(* The rows of a project are written by the handler of its purchases only. *)
LEMMA OwnRows ==
  ASSUME TypeOK, KnowsProject, OnlyPurchases, ~RpcFaults,
         NEW p \in Metadatas, NEW s \in PurchaseSubjects,
         FromOneSubject(p, s), NEW q \in Subjects \ {s}, Handle(q)
  PROVE  minterRows'[p] = minterRows[p]
<1>1. p # NoMetadata
  <2>1. PICK e \in Events : p = Metadata(e)
    BY DEF FromOneSubject, Purchases
  <2>2. SlotOf[e][0] # 0
    BY <2>1, SlotsAssumption DEF SlotsAssumption, FromOneSubject, Purchases
  <2> QED
    BY <2>1, <2>2 DEF Metadata, MetadataAt, NoMetadata
<1>2. ASSUME CreateRow(q) \/ UpdateRow(q) PROVE work[q].metadata # p
  <2>1. work[q] # Idle /\ work[q].stage \in ValueStages
    BY <1>2 DEF CreateRow, UpdateRow, ValueStages
  <2>2. work[q] \in Job /\ SubjectOf[work[q].event] = q
    BY <2>1, BusyIsJob DEF TypeOK
  <2>3. q \in PurchaseSubjects
    BY <2>1 DEF OnlyPurchases
  <2>4. work[q].event \in Events /\ work[q].metadata = Metadata(work[q].event)
    BY <2>1, <2>2, <2>3, SubjectsDisjoint DEF KnowsProject, Job
  <2>5. work[q].event \notin Purchases(p)
    BY <2>2 DEF FromOneSubject
  <2> QED
    BY <2>2, <2>3, <2>4, <2>5 DEF Purchases
<1>3. ASSUME NEW m, NEW rows, SaveRows(q, m, rows), m # p
      PROVE  minterRows'[p] = minterRows[p]
  BY <1>3 DEF SaveRows, TypeOK
<1>4. CASE CreateRow(q) \/ UpdateRow(q)
  BY <1>2, <1>3, <1>4 DEF CreateRow, UpdateRow
<1>5. CASE UpdateUnnamed(q)
  BY <1>1, <1>3, <1>5 DEF UpdateUnnamed
<1>6. CASE \/ StartWaiting(q) \/ StartRecord(q) \/ Drop(q) \/ FindTransfer(q)
           \/ Create(q) \/ ReadValue(q)
  BY <1>6 DEF StartWaiting, StartRecord, Receive, Drop, FindTransfer, Create,
     ReadValue, durable
<1> QED
  BY <1>4, <1>5, <1>6 DEF Handle

(* What ValueInv says of one project and the handler of its purchases.     *)
ValueOk(p, s) == /\ RowAtHand(p, s)
                 /\ IsFiniteSet(Handled(p))
                 /\ Covers(minterRows[p], Handled(p))

LEMMA ValueStays ==
  ASSUME TypeOK, NEW p \in Metadatas, NEW s \in PurchaseSubjects,
         ValueOk(p, s), RowAtHand(p, s)', minterRows'[p] = minterRows[p],
         \A e : e \in Handled(p)' => e \in Handled(p)
  PROVE  ValueOk(p, s)'
<1> DEFINE H == Handled(p)
           G == Handled(p)'
<1>1. /\ minterRows[p] \in Seq(0..MaxValue) /\ IsFiniteSet(H)
      /\ Covers(minterRows[p], H) /\ G \in SUBSET H
  BY DEF ValueOk, TypeOK
<1>2. IsFiniteSet(G) /\ Covers(minterRows[p], G)
  <2> HIDE DEF H, G
  <2> QED
    BY <1>1, CoversFewer
<1>3. Covers(minterRows'[p], G)
  BY <1>2
<1> QED
  BY <1>2, <1>3 DEF ValueOk, Covers

(* The handler of the project's purchases, before it writes a row.         *)
LEMMA ValueBefore ==
  ASSUME TypeOK, NEW p \in Metadatas, NEW s \in PurchaseSubjects,
         FromOneSubject(p, s), ValueOk(p, s), Handle(s),
         ~CreateRow(s), ~UpdateRow(s), ~UpdateUnnamed(s)
  PROVE  ValueOk(p, s)'
<1>0. s \in Subjects /\ s \notin FaultySubjects
  BY SubjectsDisjoint DEF FromOneSubject
<1>1. minterRows'[p] = minterRows[p]
  BY DEF Handle, StartWaiting, StartRecord, Receive, Drop, FindTransfer,
     Create, ReadValue, durable
<1>2. /\ work'[s] # Idle
      /\ \/ work'[s].stage \in {"wait", "create", "readValue"}
         \/ ReadValue(s)
  <2>1. CASE StartWaiting(s) \/ StartRecord(s)
    <3>1. Takes(s)
      BY <1>0, <2>1, ReceiveTakes DEF StartWaiting, StartRecord
    <3> QED
      BY <3>1, JobIsBusy DEF Takes
  <2>2. CASE FindTransfer(s)
    <3>1. PICK r \in records :
            work' = [work EXCEPT ![s].stage = "create", ![s].wallet = r.wallet]
      BY <2>2 DEF FindTransfer, First, OwnerRecords
    <3>2. work[s] \in Job
      BY <1>0, <2>2, BusyIsJob DEF FindTransfer, TypeOK
    <3>3. work'[s].stage = "create" /\ work'[s].event = work[s].event
      BY <1>0, <3>1, <3>2 DEF TypeOK, Job
    <3>4. work'[s] # Idle
      BY <1>0, <2>2, <3>1, <3>2, <3>3 DEF TypeOK, Idle, Job
    <3> QED
      BY <3>3, <3>4
  <2>3. CASE Create(s)
    <3>1. work'[s] = AfterCreate(s) /\ work[s] \in Job
      BY <1>0, <2>3, Created DEF Create, TypeOK
    <3>2. work'[s] \in Job /\ work'[s].stage = "readValue"
      BY <3>1 DEF AfterCreate, Job
    <3> QED
      BY <3>2, JobIsBusy
  <2>4. CASE ReadValue(s)
    <3>1. PICK w \in Job : work' = [work EXCEPT ![s] = w]
      BY <1>0, <2>4, ReadJob
    <3>2. work'[s] \in Job
      BY <1>0, <3>1 DEF TypeOK
    <3> QED
      BY <2>4, <3>2, JobIsBusy
  <2> QED
    BY <1>0, <2>1, <2>2, <2>3, <2>4 DEF Handle, Drop
<1>3. RowAtHand(p, s)'
  <2>0. DOMAIN minterRows'[p] \subseteq {1}
    BY <1>1 DEF ValueOk, RowAtHand
  <2>1. CASE work'[s].stage \in {"wait", "create", "readValue"}
    BY <2>0, <2>1 DEF RowAtHand
  <2>2. CASE ReadValue(s)
    <3>1. PICK w \in Job : work' = [work EXCEPT ![s] = w] /\ FitsRead(s, w)
      BY <1>0, <2>2, ReadJob
    <3>2. work'[s] = w
      BY <1>0, <3>1 DEF TypeOK
    <3>3. /\ w.stage = "createRow" /\ w.metadata = p => minterRows[p] = <<>>
          /\ w.stage = "updateRow" /\ w.metadata = p
               => w.row \in DOMAIN minterRows[p]
                  /\ w.seen = minterRows[p][w.row]
      BY <3>1 DEF FitsRead
    <3>4. w.row \in DOMAIN minterRows[p] => w.row = 1
      BY <1>1, <2>0
    <3> QED
      BY <1>1, <2>0, <3>2, <3>3, <3>4 DEF RowAtHand
  <2> QED
    BY <1>2, <2>1, <2>2
<1>4. \A e : e \in Handled(p)' => e \in Handled(p)
  BY <1>0, <1>2, HandledStays
<1> QED
  BY <1>1, <1>3, <1>4, ValueStays

(* The handler of the project's purchases, when it writes a row: that of   *)
(* another project, the first of this one, or the one it has read.         *)
LEMMA ValueWritten ==
  ASSUME TypeOK, KnowsProject, OnlyPurchases, ~RpcFaults,
         NEW p \in Metadatas, NEW s \in PurchaseSubjects,
         FromOneSubject(p, s), ValueOk(p, s), Handle(s),
         CreateRow(s) \/ UpdateRow(s) \/ UpdateUnnamed(s)
  PROVE  ValueOk(p, s)'
<1> DEFINE m    == work[s].metadata
           e    == work[s].event
           rows == minterRows[p]
           H    == Handled(p)
           G    == Handled(p)'
<1>0. s \in Subjects /\ s \notin FaultySubjects
  BY SubjectsDisjoint DEF FromOneSubject
<1>1. /\ work[s] # Idle /\ work[s] \in Job /\ m = Metadata(e)
      /\ work'[s] = Idle /\ ~UpdateUnnamed(s)
  <2>1. work[s] # Idle
    BY DEF CreateRow, UpdateRow, UpdateUnnamed
  <2>2. work[s] \in Job /\ m = Metadata(e)
    BY <1>0, <2>1, BusyIsJob, SubjectsDisjoint DEF TypeOK, KnowsProject
  <2>3. work'[s] = Idle
    BY <1>0 DEF CreateRow, UpdateRow, UpdateUnnamed, SaveRows, TypeOK
  <2>4. ~UpdateUnnamed(s)
    BY <1>0 DEF UpdateUnnamed, OnlyPurchases, ValueStages
  <2> QED
    BY <2>1, <2>2, <2>3, <2>4
<1>2. \A x : x \in Handled(p)' => x \in Handled(p) \/ x = e
  BY <1>0, HandledStays
<1>3. /\ rows \in Seq(0..MaxValue) /\ DOMAIN rows \subseteq {1}
      /\ IsFiniteSet(H) /\ Covers(rows, H) /\ G \in SUBSET (H \union {e})
  BY <1>2 DEF ValueOk, TypeOK, RowAtHand
<1>4. ASSUME NEW new \in Seq(0..MaxValue), SaveRows(s, p, new)
      PROVE  minterRows'[p] = new
  BY <1>0, <1>4 DEF SaveRows, CallSucceeds, TypeOK
<1>5. ASSUME NEW new \in Seq(0..MaxValue), minterRows'[p] = new,
             DOMAIN new \subseteq {1}, IsFiniteSet(G), Covers(new, G)
      PROVE  ValueOk(p, s)'
  <2>1. RowAtHand(p, s)'
    BY <1>1, <1>5 DEF RowAtHand
  <2>2. Covers(minterRows'[p], G)
    BY <1>5
  <2> QED
    BY <1>5, <2>1, <2>2 DEF ValueOk, Covers
<1>6. CASE m # p
  <2>1. minterRows'[p] = rows
    BY <1>1, <1>6 DEF CreateRow, UpdateRow, SaveRows, TypeOK
  <2>2. e \notin Purchases(p)
    BY <1>1, <1>6 DEF Purchases
  <2>3. \A x : x \in Handled(p)' => x \in Handled(p)
    BY <1>2, <2>2 DEF Handled
  <2>4. RowAtHand(p, s)'
    BY <1>1, <1>3, <2>1 DEF RowAtHand
  <2> QED
    BY <2>1, <2>3, <2>4, ValueStays
<1>7. CASE m = p /\ CreateRow(s)
  <2>1. rows = <<>>
    BY <1>1, <1>7 DEF CreateRow, ValueOk, RowAtHand
  <2>2. H = {}
    BY <1>3, <2>1 DEF Covers
  <2>3. minterRows'[p] = <<1>>
    <3>1. SaveRows(s, p, Append(rows, 1))
      BY <1>7 DEF CreateRow
    <3>2. Append(rows, 1) = <<1>> /\ <<1>> \in Seq(0..MaxValue)
      BY <2>1
    <3> QED
      BY <1>4, <3>1, <3>2
  <2>4. IsFiniteSet(G) /\ Covers(<<1>>, G)
    <3>1. G \in SUBSET {e}
      BY <1>3, <2>2
    <3> HIDE DEF G, e
    <3> QED
      BY <3>1, CoversFirst
  <2>5. <<1>> \in Seq(0..MaxValue) /\ DOMAIN <<1>> \subseteq {1}
    OBVIOUS
  <2> QED
    BY <1>5, <2>3, <2>4, <2>5
<1>8. CASE m = p /\ UpdateRow(s)
  <2> DEFINE new == [rows EXCEPT ![1] = Increased(rows[1])]
  <2>1. 1 \in DOMAIN rows /\ work[s].row = 1 /\ rows[1] = work[s].seen
    BY <1>1, <1>8 DEF UpdateRow, ValueOk, RowAtHand
  <2>2. Increased(rows[1]) \in 0..MaxValue
    BY <1>1, <2>1 DEF Increased, Job
  <2>3. /\ new \in Seq(0..MaxValue) /\ DOMAIN new = DOMAIN rows
        /\ new[1] = Increased(rows[1])
    <3>1. new \in Seq(0..MaxValue)
      BY <1>3, <2>2, ExceptSeq
    <3> QED
      BY <2>1, <3>1
  <2>4. minterRows'[p] = new
    <3>1. SaveRows(s, p, new)
      BY <1>8, <2>1 DEF UpdateRow
    <3> QED
      BY <1>4, <2>3, <3>1
  <2> HIDE DEF new
  <2>5. IsFiniteSet(G) /\ Covers(new, G)
    <3> HIDE DEF rows, H, G, e
    <3> QED
      BY <1>3, <2>1, <2>3, CoversOneMore
  <2> QED
    BY <1>3, <1>5, <2>3, <2>4, <2>5
<1> QED
  BY <1>1, <1>6, <1>7, <1>8

LEMMA ValueInit == Init => MinterInv
<1> SUFFICES ASSUME Init PROVE MinterInv
  OBVIOUS
<1>1. /\ \A s \in Subjects : work[s] = Idle
      /\ \A p \in Metadatas : minterRows[p] = <<>>
      /\ \A e \in Events : sent[e] = 0
  BY DEF Init
<1>2. KnowsProject /\ OnlyPurchases
  BY <1>1 DEF KnowsProject, OnlyPurchases
<1>3. \A p \in Metadatas : Handled(p) = {}
  BY <1>1 DEF Handled, Purchases
<1>4. \A p \in Metadatas, s \in PurchaseSubjects : RowAtHand(p, s)
  BY <1>1, SubjectsDisjoint DEF RowAtHand
<1> QED
  BY <1>2, <1>3, <1>4, FS_EmptySet DEF MinterInv, ValueInv, Covers

LEMMA ValueNext == TypeOK /\ MinterInv /\ [Next]_vars => ValueInv'
<1> SUFFICES ASSUME TypeOK, MinterInv, [Next]_vars,
                    NEW p \in Metadatas, NEW s \in PurchaseSubjects,
                    FromOneSubject(p, s), ~RpcFaults, resets' = 0
             PROVE  ValueOk(p, s)'
  BY DEF ValueInv, ValueOk, FromOneSubject, Purchases, Metadata
<1>0. KnowsProject /\ OnlyPurchases /\ s \in Subjects
  BY SubjectsDisjoint DEF MinterInv
<1>1. ~ClearMinterBuyValue /\ resets = 0
  <2>1. ~ClearMinterBuyValue
    <3>1. resets \in Nat
      BY DEF TypeOK
    <3> QED
      BY <3>1 DEF ClearMinterBuyValue
  <2>2. ASSUME NEW q \in Subjects, Handle(q) PROVE UNCHANGED resets
    BY <2>2, HandlerSteps
  <2>3. CASE \/ Boot \/ Crash \/ ChangeSlot \/ UNCHANGED vars
             \/ \E e \in Events : Publish(e)
    <3>1. UNCHANGED resets
      BY <2>3 DEF Boot, Crash, ChangeSlot, Publish, vars
    <3> QED
      BY <2>1, <3>1
  <2> QED
    BY <2>1, <2>2, <2>3 DEF Next
<1>2. ValueOk(p, s)
  BY <1>1 DEF MinterInv, ValueInv, ValueOk
<1>3. ASSUME NEW q \in Subjects, Handle(q) PROVE ValueOk(p, s)'
  <2>1. CASE q = s
    BY <1>0, <1>2, <1>3, <2>1, ValueBefore, ValueWritten
  <2>2. CASE q # s
    <3>1. minterRows'[p] = minterRows[p]
      BY <1>0, <1>3, <2>2, OwnRows
    <3>2. work'[s] = work[s]
      BY <1>0, <1>3, <2>2, HandlerSteps
    <3>3. RowAtHand(p, s)'
      BY <1>2, <3>1, <3>2 DEF ValueOk, RowAtHand
    <3>4. \A e : e \in Handled(p)' => e \in Handled(p)
      BY <1>3, <2>2, HandledStays
    <3> QED
      BY <1>2, <3>1, <3>3, <3>4, ValueStays
  <2> QED
    BY <2>1, <2>2
<1>4. CASE Boot \/ Crash
  <2>1. /\ UNCHANGED minterRows /\ \A e \in Events : sent'[e] = 0
        /\ work'[s] = work[s] \/ work'[s] = Idle
    BY <1>0, <1>4 DEF Boot, Crash, durable
  <2>2. \A e : e \in Handled(p)' => e \in Handled(p)
    BY <2>1 DEF Handled, Purchases
  <2>3. RowAtHand(p, s)'
    BY <1>2, <2>1 DEF ValueOk, RowAtHand
  <2> QED
    BY <1>2, <2>1, <2>2, <2>3, ValueStays
<1>5. ASSUME NEW f \in Events, Publish(f) PROVE ValueOk(p, s)'
  <2>1. UNCHANGED <<minterRows, work>>
    BY <1>5 DEF Publish, durable
  <2>2. RowAtHand(p, s)'
    BY <1>2, <2>1 DEF ValueOk, RowAtHand
  <2>3. ASSUME NEW e, e \in Handled(p)' PROVE e \in Handled(p)
    <3>1. e \in Events /\ e \in Purchases(p) /\ SubjectOf[e] \in Subjects
      BY <2>3 DEF Handled, Purchases
    <3>2. ~Queued(e)' /\ ~WorkedOn(e)' /\ sent'[e] > 0
      BY <2>3 DEF Handled
    <3>3. queue[SubjectOf[e]] \in Seq(Events)
      BY <3>1 DEF TypeOK
    <3>4. \/ queue'[SubjectOf[e]] = queue[SubjectOf[e]] /\ f # e
          \/ queue'[SubjectOf[e]] = Append(queue[SubjectOf[e]], f)
      BY <1>5, <3>1 DEF Publish, TypeOK
    <3>5. ~Queued(e) /\ f # e
      <4>1. CASE queue'[SubjectOf[e]] = queue[SubjectOf[e]] /\ f # e
        BY <3>2, <4>1 DEF Queued
      <4>2. CASE queue'[SubjectOf[e]] = Append(queue[SubjectOf[e]], f)
        <5> DEFINE q == queue[SubjectOf[e]]
                   r == queue'[SubjectOf[e]]
        <5>1. /\ \A n \in DOMAIN q : n \in DOMAIN r /\ r[n] = q[n]
              /\ Len(q) + 1 \in DOMAIN r /\ r[Len(q) + 1] = f
          BY <3>3, <4>2
        <5>2. \A n \in DOMAIN r : r[n] # e
          BY <3>2 DEF Queued
        <5> HIDE DEF q, r
        <5>3. f # e /\ \A n \in DOMAIN q : q[n] # e
          BY <5>1, <5>2
        <5> QED
          BY <5>3 DEF q, Queued
      <4> QED
        BY <3>4, <4>1, <4>2
    <3>6. sent[e] > 0 /\ ~WorkedOn(e)
      BY <1>5, <2>1, <3>1, <3>2, <3>5 DEF Publish, TypeOK, WorkedOn
    <3> QED
      BY <3>1, <3>5, <3>6 DEF Handled
  <2> QED
    BY <1>2, <2>1, <2>2, <2>3, ValueStays
<1>6. CASE ChangeSlot \/ UNCHANGED vars
  <2>1. UNCHANGED <<minterRows, work, sent, queue>>
    BY <1>6 DEF ChangeSlot, vars, durable, volatile
  <2>2. RowAtHand(p, s)'
    BY <1>2, <2>1 DEF ValueOk, RowAtHand
  <2>3. \A e : e \in Handled(p)' => e \in Handled(p)
    BY <2>1 DEF Handled, Queued, WorkedOn
  <2> QED
    BY <1>2, <2>1, <2>2, <2>3, ValueStays
<1> QED
  BY <1>1, <1>3, <1>4, <1>5, <1>6 DEF Next

(* The minter value of a project is never behind the purchases handled in  *)
(* this life of the process (minter.go: the record first, the value then,  *)
(* read and written back without a transaction), crashes between the two   *)
(* and replays included.                                                   *)
THEOREM MinterAlwaysKeepsUp == Spec => []MinterKeepsUp
<1>1. MinterInv => MinterKeepsUp
  BY DEF MinterInv, ValueInv, MinterKeepsUp
<1>2. TypeOK /\ MinterInv /\ [Next]_vars => MinterInv'
  BY KnowsNext, OnlyPurchasesNext, ValueNext DEF MinterInv
<1> QED
  BY TypeInit, TypeNext, ValueInit, <1>1, <1>2, PTL DEF Spec
=============================================================================
