----------------------------- MODULE Aggregator -----------------------------
(***************************************************************************)
(* The aggregator process (cmd/aggregator, aggregator.go): once a minute a *)
(* goroutine computes the ranking into tmp_leaderboard_lines and swaps it  *)
(* with leaderboard_lines, which the API reads, by two renames.  Runs      *)
(* share the table names, nothing stops a run from starting while another  *)
(* is going on, and every SQL error is ignored, so a statement that the    *)
(* database fails, or that finds a table missing or in its way, just does  *)
(* nothing.                                                                *)
(* A table is the number of rows it has for each wallet.                   *)
(***************************************************************************)
EXTENDS Integers

CONSTANTS
    Wallets,       (* wallet addresses                                     *)
    Runs,          (* slots for runs: one slot means runs never overlap    *)
    MaxRows,       (* bound: more rows than this count as this many        *)
    MaxCrashes,    (* bound: how often the process dies                    *)
    MaxOverlaps,   (* bound: how often a run starts during another one     *)
    MaxFaults      (* bound: how often the database fails a statement      *)

ASSUME SetsAssumption == Wallets # {} /\ Runs # {}
ASSUME BoundsAssumption == /\ MaxRows \in Nat \ {0, 1}
                           /\ MaxCrashes \in Nat
                           /\ MaxOverlaps \in Nat
                           /\ MaxFaults \in Nat

VARIABLES
    live,          (* leaderboard_lines                                    *)
    tmp,           (* tmp_leaderboard_lines                                *)
    old,           (* leaderboard_lines_old                                *)
    participants,  (* the wallets that occur in domain_events              *)
    stage,         (* the statement a run is about to execute              *)
    todo,          (* the participants a run has yet to insert             *)
    ranked,        (* history: the wallets that have been in `live`        *)
    crashes,       (* history: crashes so far                              *)
    overlaps,      (* history: overlapping starts so far                   *)
    faults         (* history: failed statements so far                    *)

tables == <<live, tmp, old>>
vars   == <<live, tmp, old, participants, stage, todo, ranked, crashes,
            overlaps, faults>>

NoTable == [w \in {} |-> 0]
Empty   == [w \in Wallets |-> 0]
Exists(t) == t # NoTable
WalletsOf(t) == {w \in Wallets : Exists(t) /\ t[w] > 0}

(* Definitions named Bad... are never used: each one is a plausible bug in *)
(* the definition after it, and some property of this module rejects it.   *)

(* INSERT of one row for w.                                                *)
WithRow(t, w) == [t EXCEPT ![w] = IF @ < MaxRows THEN @ + 1 ELSE MaxRows]

(* CREATE TABLE tmp AS SELECT * FROM leaderboard_lines WHERE false.        *)
BadNewTmp == live
NewTmp    == Empty

Stages == {"idle", "migrate", "createTmp", "participants", "insert",
           "renameLive", "renameTmp", "dropOld"}

(* cmd/migration has created leaderboard_lines.                            *)
Init ==
    /\ live = Empty
    /\ tmp = NoTable
    /\ old = NoTable
    /\ participants = {}
    /\ stage = [r \in Runs |-> "idle"]
    /\ todo = [r \in Runs |-> {}]
    /\ ranked = {}
    /\ crashes = 0
    /\ overlaps = 0
    /\ faults = 0

---------------------------------------------------------------------------
(* main's loop: another minute has passed.                                 *)
Start(r) ==
    /\ stage[r] = "idle"
    /\ LET busy == \E q \in Runs : stage[q] # "idle"
       IN /\ busy => overlaps < MaxOverlaps
          /\ overlaps' = IF busy THEN overlaps + 1 ELSE overlaps
    /\ stage' = [stage EXCEPT ![r] = "migrate"]
    /\ UNCHANGED <<tables, participants, todo, ranked, crashes, faults>>

At(r, here, next) ==
    /\ stage[r] = here
    /\ stage' = [stage EXCEPT ![r] = next]
    /\ UNCHANGED <<participants, crashes, overlaps>>

(* One statement of a run, which the database executes, or fails (~ok).    *)
Statement(r, here, next, ok) ==
    /\ At(r, here, next)
    /\ ok \/ faults < MaxFaults
    /\ faults' = IF ok THEN faults ELSE faults + 1

(* createTempTable: AutoMigrate creates leaderboard_lines if it is missing.*)
BadMigrate(r, ok) ==
    /\ Statement(r, "migrate", "createTmp", ok)
    /\ live' = IF ok THEN Empty ELSE live
    /\ UNCHANGED <<tmp, old, todo, ranked>>
Migrate(r, ok) ==
    /\ Statement(r, "migrate", "createTmp", ok)
    /\ live' = IF ok /\ ~Exists(live) THEN Empty ELSE live
    /\ UNCHANGED <<tmp, old, todo, ranked>>

(* createTempTable: CREATE TABLE fails if tmp is there, or live is not.    *)
CreateTmp(r, ok) ==
    /\ Statement(r, "createTmp", "participants", ok)
    /\ tmp' = IF ok /\ ~Exists(tmp) /\ Exists(live) THEN NewTmp ELSE tmp
    /\ UNCHANGED <<live, old, todo, ranked>>

(* The query's error is dropped: its participants are then nobody.         *)
GetParticipants(r, ok) ==
    /\ Statement(r, "participants", "insert", ok)
    /\ todo' = [todo EXCEPT ![r] = IF ok THEN participants ELSE {}]
    /\ UNCHANGED <<tables, ranked>>

(* computeParticipantEvents, which Run waits for: one INSERT per wallet.   *)
(* It reports nil whatever became of the INSERT.                           *)
Insert(r, ok) ==
    /\ Statement(r, "insert", "insert", ok)
    /\ \E w \in todo[r] :
         /\ todo' = [todo EXCEPT ![r] = @ \ {w}]
         /\ tmp' = IF ok /\ Exists(tmp) THEN WithRow(tmp, w) ELSE tmp
    /\ UNCHANGED <<live, old, ranked>>

(* Run's loop is over.  The backup table it makes now is never read.       *)
BadInsertsDone(r) ==
    /\ At(r, "insert", "renameLive")
    /\ UNCHANGED <<tables, todo, ranked, faults>>

InsertsDone(r) ==
    /\ todo[r] = {}
    /\ At(r, "insert", "renameLive")
    /\ UNCHANGED <<tables, todo, ranked, faults>>

(* hotSwapTables: a rename fails if the target exists.                     *)
RenameLive(r, ok) ==
    /\ Statement(r, "renameLive", "renameTmp", ok)
    /\ IF ok /\ Exists(live) /\ ~Exists(old)
         THEN live' = NoTable /\ old' = live
         ELSE UNCHANGED <<live, old>>
    /\ UNCHANGED <<tmp, todo, ranked>>

RenameTmp(r, ok) ==
    /\ Statement(r, "renameTmp", "dropOld", ok)
    /\ IF ok /\ Exists(tmp) /\ ~Exists(live)
         THEN live' = tmp /\ tmp' = NoTable
         ELSE UNCHANGED <<live, tmp>>
    /\ ranked' = ranked \union WalletsOf(live')
    /\ UNCHANGED <<old, todo>>

(* cleanupTmpTables.                                                       *)
BadDropNothing(r, ok) ==
    /\ Statement(r, "dropOld", "idle", ok)
    /\ UNCHANGED <<tables, todo, ranked>>

BadDropTmpToo(r, ok) ==
    /\ Statement(r, "dropOld", "idle", ok)
    /\ old' = NoTable
    /\ tmp' = NoTable
    /\ UNCHANGED <<live, todo, ranked>>

DropOld(r, ok) ==
    /\ Statement(r, "dropOld", "idle", ok)
    /\ old' = IF ok THEN NoTable ELSE old
    /\ UNCHANGED <<live, tmp, todo, ranked>>

(* The process dies (log.Fatal, a redeploy); the tables stay.              *)
Crash ==
    /\ crashes < MaxCrashes
    /\ crashes' = crashes + 1
    /\ stage' = [r \in Runs |-> "idle"]
    /\ todo' = [r \in Runs |-> {}]
    /\ UNCHANGED <<tables, participants, ranked, overlaps, faults>>

(* The indexer process records a first domain event of a wallet.           *)
Join ==
    /\ \E w \in Wallets \ participants :
         participants' = participants \union {w}
    /\ UNCHANGED <<tables, stage, todo, ranked, crashes, overlaps, faults>>

Step(r) ==
    \/ InsertsDone(r)
    \/ \E ok \in BOOLEAN :
          \/ Migrate(r, ok)
          \/ CreateTmp(r, ok)
          \/ GetParticipants(r, ok)
          \/ Insert(r, ok)
          \/ RenameLive(r, ok)
          \/ RenameTmp(r, ok)
          \/ DropOld(r, ok)

Next == Crash \/ Join \/ \E r \in Runs : Start(r) \/ Step(r)

Spec == Init /\ [][Next]_vars

(* Minutes keep passing and every run's goroutine is scheduled.            *)
Fairness ==
    /\ WF_vars(\E r \in Runs : Start(r))
    /\ \A r \in Runs : WF_vars(Step(r))

FairSpec == Spec /\ Fairness

---------------------------------------------------------------------------
(* Properties.                                                             *)

(* A table is missing or counts the rows of every wallet, only wallets     *)
(* with domain events have rows, and only a run at its inserts has any     *)
(* left to do.                                                             *)
Table == [Wallets -> 0..MaxRows] \union {NoTable}
TypeOK ==
    /\ live \in Table /\ tmp \in Table /\ old \in Table
    /\ participants \subseteq Wallets
    /\ stage \in [Runs -> Stages]
    /\ todo \in [Runs -> SUBSET participants]
    /\ WalletsOf(live) \union WalletsOf(tmp) \union WalletsOf(old)
         \union ranked \subseteq participants
    /\ crashes \in 0..MaxCrashes
    /\ overlaps \in 0..MaxOverlaps
    /\ faults \in 0..MaxFaults
    /\ \A r \in Runs : stage[r] # "insert" => todo[r] = {}

(* leaderboard_lines has at most one row per wallet.                       *)
WalletUnique == Exists(live) => \A w \in Wallets : live[w] <= 1

(* It does as long as no run has died, none has overlapped another and the *)
(* database has failed no statement.                                       *)
Calm == crashes = 0 /\ overlaps = 0 /\ faults = 0
UniqueWhileCalm == Calm => WalletUnique

(* As long as runs do not overlap and the database does not fail, the      *)
(* ranking once shown is in the table the API reads or in the next run's,  *)
(* at every moment: a crash may leave it under a name nobody reads, but    *)
(* never only in the table that cleanup drops.                             *)
Holds(t) == ranked \subseteq WalletsOf(t)
RankingHeld == Holds(live) \/ Holds(tmp)
RankingNeverLost == overlaps = 0 /\ faults = 0 => RankingHeld

(* While no run dies either, whoever has been in the table that the API    *)
(* reads is in it whenever it exists: a reader between the two renames     *)
(* finds no table, but never one with somebody missing.                    *)
ShownStaysShown == Calm /\ Exists(live) => Holds(live)

(* However often runs overlap, die, or swap in a ranking that misses those *)
(* whose INSERT failed, once that stops the table that the API reads is,   *)
(* whenever it exists, the ranking of everybody, each wallet once: the     *)
(* runs that follow use up leftover tables and insert everybody again.     *)
Whole == [w \in Wallets |-> IF w \in participants THEN 1 ELSE 0]
EventuallyWhole == <>[](Exists(live) => live = Whole) /\ []<>(live = Whole)

---------------------------------------------------------------------------
(* The inductive invariant of module AggregatorProofs, until runs overlap: *)
(* one run at a time, and what it has established before each statement.   *)
SwapInv(r) ==
    /\ RankingHeld
    /\ WalletsOf(live) \subseteq ranked
    /\ stage[r] = "createTmp" => Exists(live)
    /\ stage[r] \in {"participants", "insert", "renameLive", "renameTmp"} =>
          Exists(tmp)
    /\ stage[r] = "insert" => ranked \subseteq WalletsOf(tmp) \union todo[r]
    /\ stage[r] \in {"renameLive", "renameTmp"} => Holds(tmp)
OneAtATime ==
    \A r, q \in Runs : stage[r] # "idle" /\ stage[q] # "idle" => r = q
SwapsInv ==
    overlaps = 0 /\ faults = 0 => OneAtATime /\ \A r \in Runs : SwapInv(r)

(* Until a run dies, too: what each of the tables is before each statement,*)
(* and that between the runs there is only the one.                        *)
Once(t) == Exists(t) /\ \A w \in Wallets : t[w] <= 1
Clean == Once(live) /\ tmp = NoTable /\ old = NoTable
CalmTables(r) ==
    /\ stage[r] \in {"migrate", "createTmp"} => Clean
    /\ stage[r] = "participants" =>
          Once(live) /\ tmp = Empty /\ old = NoTable
    /\ stage[r] = "insert" =>
          /\ Once(live) /\ Once(tmp) /\ old = NoTable
          /\ \A w \in todo[r] : tmp[w] = 0
    /\ stage[r] = "renameLive" => Once(live) /\ Once(tmp) /\ old = NoTable
    /\ stage[r] = "renameTmp" => live = NoTable /\ Once(tmp)
    /\ stage[r] = "dropOld" => Once(live) /\ tmp = NoTable
CalmInv ==
    Calm => /\ Exists(live) => Holds(live)
            /\ (\A r \in Runs : stage[r] = "idle") => Clean
            /\ \A r \in Runs : CalmTables(r)
=============================================================================
