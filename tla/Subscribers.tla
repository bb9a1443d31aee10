---------------------------- MODULE Subscribers ----------------------------
(***************************************************************************)
(* The subscribers of the indexer process (internal/subscriber): one NATS  *)
(* subscription per domain event name, each with a queue and a goroutine   *)
(* that handles one message at a time.  A handler reads the event back,    *)
(* asks the chain for its project, and creates a domain event, whose       *)
(* EventId is unique.  Two kinds do more: a transfer of value waits for    *)
(* the transfer that gave its token an owner, handled by another           *)
(* goroutine, and a purchase adds to the minter value of its project.      *)
(* The walk, the replay and the dispatcher in front (module Indexer) are   *)
(* the environment here: in every life of the process they announce the    *)
(* events again, in any order, maybe more than once (Publish).             *)
(***************************************************************************)
EXTENDS Integers, Sequences, FiniteSets

CONSTANTS
    Events,         (* the events of the followed contracts                *)
    SubjectOf,      (* the subject the configuration gives each event      *)
    ProjectOf,      (* the project contract it is about, as its name       *)
    Moves,          (* how often tokens change their slot on the chain     *)
    SlotOf,         (* the slot there of its token after each number of    *)
                    (* moves, or of its minter                             *)
    TokenOf,        (* the token id in it, if it is an event of a token    *)
    Copies,         (* bound: announcements of an event in one life        *)
    MaxValue,       (* bound: minter values above it count as this         *)
    MaxCrashes,     (* bound: how often the process dies                   *)
    MaxResets,      (* bound: how often the migration clears a value       *)
    RpcFaults,      (* whether a call of a contract may fail               *)
    FaultySubjects  (* those whose handlers' database calls may fail       *)

ProjectSubjects  == {"project:transfer", "project:transfer-value",
                     "project:slot-changed"}
MinterSubjects   == {"minter:buy", "minter:airdrop"}
MigratorSubjects == {"migrator:migration"}
OffseterSubjects == {"offseter:withdraw", "offseter:deposit", "offseter:claim"}
YielderSubjects  == {"yielder:withdraw", "yielder:deposit", "yielder:claim"}
Subjects == ProjectSubjects \union MinterSubjects \union MigratorSubjects
              \union OffseterSubjects \union YielderSubjects

(* Handlers that look for an owner, and handlers that update a value.      *)
ValueSubjects    == {"project:transfer-value", "project:slot-changed"}
PurchaseSubjects == MinterSubjects \union MigratorSubjects

ASSUME EventsAssumption == SubjectOf \in [Events -> Subjects]
ASSUME SlotsAssumption ==
    /\ Moves \in Nat
    /\ \A e \in Events, n \in 0..Moves : SlotOf[e][n] \in Nat \ {0}
ASSUME BoundsAssumption ==
    /\ Copies \in Nat \ {0} /\ MaxValue \in Nat \ {0}
    /\ MaxCrashes \in Nat /\ MaxResets \in Nat
    /\ RpcFaults \in BOOLEAN /\ FaultySubjects \subseteq Subjects

VARIABLES
    records,       (* domain_events: its rows                              *)
    minterRows,    (* minter_buy_values: per project and slot, its rows    *)
    up,            (* the process runs                                     *)
    sent,          (* announcements of each event in this life             *)
    queue,         (* per subject, the messages not yet handled            *)
    work,          (* per subject, what its handler is doing               *)
    moves,         (* moves that the contracts show                        *)
    crashes,       (* history: crashes so far                              *)
    resets         (* history: resets so far                               *)

durable  == <<records, minterRows>>
volatile == <<up, sent, queue, work>>
vars     == <<records, minterRows, up, sent, queue, work, moves, crashes,
              resets>>

(* The metadata of a record: the name of the project and the slot, which a *)
(* token may change and a minter keeps.  When a contract does not answer,  *)
(* a project handler goes on with slot 0, and any other handler with no    *)
(* metadata at all.                                                        *)
MetadataAt(e, n) == <<ProjectOf[e], SlotOf[e][n]>>
Metadata(e)      == MetadataAt(e, 0)
MetadataZero(e)  == <<ProjectOf[e], 0>>
NoMetadata       == <<"none", 0>>
Metadatas == {MetadataAt(e, n) : e \in Events, n \in 0..Moves}
               \union {MetadataZero(e) : e \in Events} \union {NoMetadata}

(* A row of domain_events; its wallet is named by the event it comes from. *)
(* ID grows with time: here, in the order of one handler's records.        *)
Record == [event : Events, wallet : Events, metadata : Metadatas, id : Nat]
Recorded(e) == \E r \in records : r.event = e

Idle == [stage |-> "idle"]
Job  == [stage : {"wait", "create", "readValue", "createRow", "updateRow",
                  "updateUnnamed"},
         event : Events, wallet : Events, metadata : Metadatas,
         row : Nat, seen : 0..MaxValue]

CallSucceeds(s) == IF s \in FaultySubjects THEN BOOLEAN ELSE {TRUE}

(* Definitions named Bad... are never used: each one is a plausible bug in *)
(* the definition after it, and some property of this module rejects it.   *)

Init ==
    /\ records = {}
    /\ minterRows = [p \in Metadatas |-> <<>>]
    /\ up = FALSE
    /\ sent = [e \in Events |-> 0]
    /\ queue = [s \in Subjects |-> <<>>]
    /\ work = [s \in Subjects |-> Idle]
    /\ moves = 0
    /\ crashes = 0
    /\ resets = 0

---------------------------------------------------------------------------
(* RegisterSubscribers, before the indexer starts: it will announce every  *)
(* event anew.                                                             *)
Boot ==
    /\ ~up
    /\ up' = TRUE
    /\ sent' = [e \in Events |-> 0]
    /\ UNCHANGED <<durable, queue, work, moves, crashes, resets>>

(* EventPublishedSubscriber: the name of the event's first key, among the  *)
(* names its contract is configured with, gives the subject.               *)
BadPublish(e) ==
    /\ up
    /\ sent[e] < Copies
    /\ sent' = [sent EXCEPT ![e] = @ + 1]
    /\ queue' = [s \in Subjects |-> Append(queue[s], e)]
    /\ UNCHANGED <<durable, up, work, moves, crashes, resets>>

Publish(e) ==
    /\ up
    /\ sent[e] < Copies
    /\ sent' = [sent EXCEPT ![e] = @ + 1]
    /\ queue' = [queue EXCEPT ![SubjectOf[e]] = Append(@, e)]
    /\ UNCHANGED <<durable, up, work, moves, crashes, resets>>

(* A handler takes its next message and asks the chain for the project: a  *)
(* token's slot as it is now, long after the event maybe, or a minter's or *)
(* migrator's project.                                                     *)
MetadataSeen(s, e) ==
    LET answered   == IF s \in ProjectSubjects THEN MetadataAt(e, moves)
                                               ELSE Metadata(e)
        unanswered == IF s \in ProjectSubjects THEN MetadataZero(e)
                                               ELSE NoMetadata
    IN {answered} \union (IF RpcFaults THEN {unanswered} ELSE {})

Receive(s, first) ==
    /\ up
    /\ work[s] = Idle
    /\ queue[s] # <<>>
    /\ queue' = [queue EXCEPT ![s] = Tail(@)]
    /\ LET e == Head(queue[s])
       IN \E metadata \in MetadataSeen(s, e) :
            work' = [work EXCEPT ![s] =
                       [stage |-> first, event |-> e, wallet |-> e,
                        metadata |-> metadata, row |-> 0, seen |-> 0]]
    /\ UNCHANGED <<durable, up, sent, moves, crashes, resets>>

(* Only the two kinds that need an owner wait; every other handler has all *)
(* it needs and creates its record.                                        *)
StartWaiting(s) == s \in ValueSubjects /\ Receive(s, "wait")
StartRecord(s)  == s \notin ValueSubjects /\ Receive(s, "create")

(* decodeEvent fails: the event could not be read back, the message is     *)
(* dropped.                                                                *)
Drop(s) ==
    /\ up /\ s \in FaultySubjects
    /\ work[s] = Idle
    /\ queue[s] # <<>>
    /\ queue' = [queue EXCEPT ![s] = Tail(@)]
    /\ UNCHANGED <<durable, up, sent, work, moves, crashes, resets>>

---------------------------------------------------------------------------
(* getTransferEvent: a transfer on record of a token with the same id and  *)
(* slot, of whichever contract; First takes the one with the smallest ID,  *)
(* the first recorded and not the last owner.                              *)
OwnerRecords(e, metadata) ==
    {r \in records : /\ SubjectOf[r.event] = "project:transfer"
                     /\ TokenOf[r.event] = TokenOf[e]
                     /\ r.metadata[2] = metadata[2]}
First(rows) == {r \in rows : \A t \in rows : r.id <= t.id}

(* ... and if there is none, sleep and look again, without end.            *)
BadFindTransfer(s) ==
    /\ up
    /\ work[s] # Idle /\ work[s].stage = "wait"
    /\ LET owners == OwnerRecords(work[s].event, work[s].metadata)
       IN \/ /\ owners = {}
             /\ work' = [work EXCEPT ![s] = Idle]
          \/ \E r \in First(owners) :
                work' = [work EXCEPT ![s].stage = "create",
                                     ![s].wallet = r.wallet]
    /\ UNCHANGED <<durable, up, sent, queue, moves, crashes, resets>>

FindTransfer(s) ==
    /\ up
    /\ work[s] # Idle /\ work[s].stage = "wait"
    /\ \E r \in First(OwnerRecords(work[s].event, work[s].metadata)) :
         work' = [work EXCEPT ![s].stage = "create",
                              ![s].wallet = r.wallet]
    /\ UNCHANGED <<durable, up, sent, queue, moves, crashes, resets>>

(* db.Create: refused when the event is recorded already, and nobody looks *)
(* at the result; a purchase goes on to updateMinterBoughtValue.           *)
NewRecord(s) == [event |-> work[s].event, wallet |-> work[s].wallet,
                 metadata |-> work[s].metadata,
                 id |-> Cardinality({r \in records : SubjectOf[r.event] = s})]
AfterCreate(s) == IF s \in PurchaseSubjects
                    THEN [work[s] EXCEPT !.stage = "readValue"] ELSE Idle

BadUpsert(s) ==
    /\ up
    /\ work[s] # Idle /\ work[s].stage = "create"
    /\ records' = {r \in records : r.event # work[s].event}
                      \union {NewRecord(s)}
    /\ work' = [work EXCEPT ![s] = AfterCreate(s)]
    /\ UNCHANGED <<minterRows, up, sent, queue, moves, crashes, resets>>

BadCreate(s) ==
    /\ up
    /\ work[s] # Idle /\ work[s].stage = "create"
    /\ IF Recorded(work[s].event)
         THEN /\ work' = [work EXCEPT ![s] = Idle]
              /\ UNCHANGED records
         ELSE /\ work' = [work EXCEPT ![s] = AfterCreate(s)]
              /\ records' = records \union {NewRecord(s)}
    /\ UNCHANGED <<minterRows, up, sent, queue, moves, crashes, resets>>

Create(s) ==
    /\ up
    /\ work[s] # Idle /\ work[s].stage = "create"
    /\ \E ok \in CallSucceeds(s) :
         records' = IF ok /\ ~Recorded(work[s].event)
                      THEN records \union {NewRecord(s)} ELSE records
    /\ work' = [work EXCEPT ![s] = AfterCreate(s)]
    /\ UNCHANGED <<minterRows, up, sent, queue, moves, crashes, resets>>

---------------------------------------------------------------------------
(* updateMinterBoughtValue: the row of the project, if there is one.       *)
ReadValue(s) ==
    /\ up
    /\ work[s] # Idle /\ work[s].stage = "readValue"
    /\ LET rows == minterRows[work[s].metadata]
       IN \/ \E n \in DOMAIN rows :
               work' = [work EXCEPT ![s].stage = "updateRow",
                                    ![s].row = n, ![s].seen = rows[n]]
          \/ /\ rows = <<>>
             /\ work' = [work EXCEPT ![s].stage = "createRow"]
          \/ /\ s \in FaultySubjects
             /\ work' = [work EXCEPT ![s].stage = "updateUnnamed"]
    /\ UNCHANGED <<durable, up, sent, queue, moves, crashes, resets>>

(* There was none: a row with this purchase alone is created.              *)
Increased(v) == IF v < MaxValue THEN v + 1 ELSE v
SaveRows(s, p, rows) ==
    /\ \E ok \in CallSucceeds(s) :
         minterRows' = IF ok THEN [minterRows EXCEPT ![p] = rows]
                             ELSE minterRows
    /\ work' = [work EXCEPT ![s] = Idle]
    /\ UNCHANGED <<records, up, sent, queue, moves, crashes, resets>>

CreateRow(s) ==
    /\ up
    /\ work[s] # Idle /\ work[s].stage = "createRow"
    /\ LET p == work[s].metadata IN SaveRows(s, p, Append(minterRows[p], 1))

(* There was one: it gets the value it had when it was read, increased.    *)
UpdateRow(s) ==
    /\ up
    /\ work[s] # Idle /\ work[s].stage = "updateRow"
    /\ LET p == work[s].metadata
       IN SaveRows(s, p, [minterRows[p] EXCEPT ![work[s].row] =
                            Increased(work[s].seen)])

(* The read failed: the handler goes on with an empty row, which is that   *)
(* of the purchases without a project.                                     *)
UpdateUnnamed(s) ==
    /\ up
    /\ work[s] # Idle /\ work[s].stage = "updateUnnamed"
    /\ SaveRows(s, NoMetadata, [n \in DOMAIN minterRows[NoMetadata] |-> 1])

(* The migration clears one row, the process running or not.               *)
ClearMinterBuyValue ==
    /\ resets < MaxResets
    /\ resets' = resets + 1
    /\ \E p \in Metadatas : \E n \in DOMAIN minterRows[p] :
         minterRows' = [minterRows EXCEPT ![p][n] = 0]
    /\ UNCHANGED <<records, volatile, moves, crashes>>

(* A token moves to another slot.  The node that answers slot_of is not    *)
(* the gateway that gives the blocks: either may be ahead of the other.    *)
ChangeSlot ==
    /\ moves < Moves
    /\ moves' = moves + 1
    /\ UNCHANGED <<durable, volatile, crashes, resets>>

(* The process dies; one cause is in a handler, when slot_uri fails for a  *)
(* project and metadataFromSlotUri dereferences its nil result.            *)
Crash ==
    /\ up
    /\ crashes < MaxCrashes
    /\ crashes' = crashes + 1
    /\ up' = FALSE
    /\ sent' = [e \in Events |-> 0]
    /\ queue' = [s \in Subjects |-> <<>>]
    /\ work' = [s \in Subjects |-> Idle]
    /\ UNCHANGED <<durable, moves, resets>>

Handle(s) ==
    \/ StartWaiting(s)
    \/ StartRecord(s)
    \/ Drop(s)
    \/ FindTransfer(s)
    \/ Create(s)
    \/ ReadValue(s)
    \/ CreateRow(s)
    \/ UpdateRow(s)
    \/ UpdateUnnamed(s)

Next ==
    \/ Boot
    \/ Crash
    \/ ClearMinterBuyValue
    \/ ChangeSlot
    \/ \E e \in Events : Publish(e)
    \/ \E s \in Subjects : Handle(s)

Spec == Init /\ [][Next]_vars

(* The host restarts the process, in each life every event is announced at *)
(* least once (DeliversAll of module Indexer, the replay included), and    *)
(* every subscription's goroutine is scheduled.                            *)
Fairness ==
    /\ WF_vars(Boot)
    /\ \A e \in Events : WF_vars(sent[e] = 0 /\ Publish(e))
    /\ \A e \in Events : WF_vars(Handle(SubjectOf[e]))

FairSpec == Spec /\ Fairness

---------------------------------------------------------------------------
(* Properties.                                                             *)

(* Every variable keeps its shape, messages wait where their subject is    *)
(* handled, each event has at most one record, and a stopped process holds *)
(* nothing.                                                                *)
OfSubject(s) == {e \in Events : SubjectOf[e] = s}
TypeOK ==
    /\ records \subseteq Record /\ IsFiniteSet(records)
    /\ \A r, t \in records : r.event = t.event => r = t
    /\ minterRows \in [Metadatas -> Seq(0..MaxValue)]
    /\ up \in BOOLEAN
    /\ sent \in [Events -> 0..Copies]
    /\ queue \in [Subjects -> Seq(Events)]
    /\ \A s \in Subjects : queue[s] \in Seq(OfSubject(s))
    /\ work \in [Subjects -> Job \union {Idle}]
    /\ \A s \in Subjects : work[s] # Idle => SubjectOf[work[s].event] = s
    /\ moves \in 0..Moves
    /\ crashes \in 0..MaxCrashes
    /\ resets \in 0..MaxResets
    /\ ~up => /\ queue = [s \in Subjects |-> <<>>]
              /\ work = [s \in Subjects |-> Idle]

(* Domain events are immutable: whatever is announced again, in whatever   *)
(* order, a record once there stays as it is, and a transfer of value or a *)
(* change of slot is only recorded with the wallet of a transfer that was  *)
(* on record before it, with its token id and its slot.                    *)
Justified(r) ==
    SubjectOf[r.event] \in ValueSubjects =>
        \E t \in OwnerRecords(r.event, r.metadata) : t.wallet = r.wallet
RecordsAreFinal ==
    [][/\ records \subseteq records'
       /\ \A r \in records' \ records : ~Recorded(r.event) /\ Justified(r)
      ]_vars

(* While the database answers its handler and that of transfers, every     *)
(* event ends up on record, although a crash loses the messages and the    *)
(* handlers of value wait for transfers that another goroutine records,    *)
(* but for one case: the handler of its subject looks for an owner under   *)
(* another slot than the token's transfer is on record with, because the   *)
(* token moved, or a call failed, between the two.  Then the event, or the *)
(* ones behind it, may wait for ever.                                      *)
Answered(e) == FaultySubjects \cap {SubjectOf[e], "project:transfer"} = {}
HasTransfers(s) ==
    \A e \in OfSubject(s) : \E t \in OfSubject("project:transfer") :
        TokenOf[t] = TokenOf[e]
MissesSlot(s) ==
    /\ work[s] # Idle /\ work[s].stage = "wait"
    /\ OwnerRecords(work[s].event, work[s].metadata) = {}
    /\ \E r \in records : /\ SubjectOf[r.event] = "project:transfer"
                         /\ TokenOf[r.event] = TokenOf[work[s].event]
AllRecorded ==
    \A e \in Events :
        Answered(e) /\ (SubjectOf[e] \in ValueSubjects => HasTransfers(SubjectOf[e]))
          => <>[](Recorded(e) \/ MissesSlot(SubjectOf[e]))

(* With contracts that answer and one subject per project, every purchase  *)
(* ends up in the minter value, maybe more than once, unless the migration *)
(* clears it: the crash between the record and the value is made up for by *)
(* handling the event again, and a handler whose database calls fail only  *)
(* touches the value of its own project.                                   *)
Purchases(p) == {e \in Events : /\ SubjectOf[e] \in PurchaseSubjects
                                /\ Metadata(e) = p}
PurchasesCounted ==
    \A p \in Metadatas :
        LET Counted == \E n \in DOMAIN minterRows[p] :
                          minterRows[p][n] >= Cardinality(Purchases(p))
        IN (/\ Purchases(p) # {}
            /\ \A e \in Purchases(p) : SubjectOf[e] \notin FaultySubjects) =>
             <>[](resets > 0 \/ Counted)

(* A running process forgets no event it has announced: until the event is *)
(* on record its message waits in the queue of its subject or its handler  *)
(* is at work on it, unless that handler's database calls fail.            *)
Queued(e)   == \E n \in DOMAIN queue[SubjectOf[e]] : queue[SubjectOf[e]][n] = e
WorkedOn(e) == LET w == work[SubjectOf[e]] IN w # Idle /\ w.event = e
AnnouncedIsKept ==
    \A e \in Events : sent[e] > 0 /\ SubjectOf[e] \notin FaultySubjects =>
        \/ Recorded(e)
        \/ Queued(e)
        \/ WorkedOn(e) /\ work[SubjectOf[e]].stage \in {"wait", "create"}

(* At no time is the minter value of a project behind the purchases that   *)
(* this life of the process has handled, the ones recorded by an earlier   *)
(* life that died before it could add them included, as long as contracts  *)
(* answer, one subject whose database calls succeed brings all purchases   *)
(* of the project, and the migration clears no value.                      *)
Handled(p) == {e \in Purchases(p) : sent[e] > 0 /\ ~Queued(e) /\ ~WorkedOn(e)}
FromOneSubject(p, s) == /\ s \in PurchaseSubjects \ FaultySubjects
                        /\ Purchases(p) # {}
                        /\ \A e \in Purchases(p) : SubjectOf[e] = s
Covers(rows, handled) ==
    \/ handled = {}
    \/ \E n \in DOMAIN rows : \/ rows[n] >= Cardinality(handled)
                              \/ rows[n] = MaxValue
MinterKeepsUp ==
    \A p \in Metadatas : \A s \in PurchaseSubjects :
        FromOneSubject(p, s) /\ ~RpcFaults /\ resets = 0 =>
            Covers(minterRows[p], Handled(p))

(* A handler that waits for the transfer of a token's owner stops waiting. *)
WaitsEnd ==
    \A s \in ValueSubjects :
        (work[s] # Idle /\ work[s].stage = "wait")
          ~> ~(work[s] # Idle /\ work[s].stage = "wait")

---------------------------------------------------------------------------
(* The inductive invariants of module SubscribersProofs.                   *)

(* A handler that has stopped waiting holds the wallet of a transfer that  *)
(* is still on record: what RecordsAreFinal needs to be inductive.         *)
FoundOwner ==
    \A s \in ValueSubjects :
        (work[s] # Idle /\ work[s].stage = "create") =>
            \E t \in OwnerRecords(work[s].event, work[s].metadata) :
                t.wallet = work[s].wallet

(* While contracts answer, a handler works under the project of its event; *)
(* only purchases get to the minter values, and to the row of no project   *)
(* only those whose database calls may fail.                               *)
ValueStages == {"readValue", "createRow", "updateRow", "updateUnnamed"}
KnowsProject ==
    ~RpcFaults => \A s \in Subjects \ ProjectSubjects :
        work[s] # Idle => work[s].metadata = Metadata(work[s].event)
OnlyPurchases ==
    \A s \in Subjects : work[s] # Idle /\ work[s].stage \in ValueStages =>
        /\ s \in PurchaseSubjects
        /\ work[s].stage = "updateUnnamed" => s \in FaultySubjects

(* A project whose purchases one subject brings has at most one row, and   *)
(* what its handler has read of it still holds when it is written.         *)
RowAtHand(p, s) ==
    /\ DOMAIN minterRows[p] \subseteq {1}
    /\ work[s] # Idle /\ work[s].stage = "createRow" /\ work[s].metadata = p
         => minterRows[p] = <<>>
    /\ work[s] # Idle /\ work[s].stage = "updateRow" /\ work[s].metadata = p
         => 1 \in DOMAIN minterRows[p] /\ work[s].row = 1
            /\ minterRows[p][1] = work[s].seen
ValueInv ==
    \A p \in Metadatas : \A s \in PurchaseSubjects :
        FromOneSubject(p, s) /\ ~RpcFaults /\ resets = 0 =>
            /\ RowAtHand(p, s)
            /\ IsFiniteSet(Handled(p))
            /\ Covers(minterRows[p], Handled(p))

(* What MinterKeepsUp needs to be inductive.                               *)
MinterInv == KnowsProject /\ OnlyPurchases /\ ValueInv
=============================================================================
