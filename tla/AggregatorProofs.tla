-------------------------- MODULE AggregatorProofs --------------------------
(***************************************************************************)
(* Proofs about modules Aggregator and LeaderboardApi, for any set of      *)
(* wallets, any number of crashes, and any pages that readers ask for.     *)
(***************************************************************************)
EXTENDS LeaderboardApi, FiniteSetTheorems, TLAPS

USE SetsAssumption, BoundsAssumption DEF SetsAssumption, BoundsAssumption

LEMMA EmptyExists == Empty \in Table /\ Exists(Empty) /\ WalletsOf(Empty) = {}
<1>1. DOMAIN Empty # DOMAIN NoTable
  BY DEF Empty, NoTable
<1> QED
  BY <1>1 DEF Empty, Table, Exists, WalletsOf

(* Inserting a row keeps the table and adds its wallet.                    *)
LEMMA RowAdded ==
  ASSUME NEW t \in Table, Exists(t), NEW w \in Wallets
  PROVE  /\ WithRow(t, w) \in Table /\ Exists(WithRow(t, w))
         /\ WalletsOf(WithRow(t, w)) = WalletsOf(t) \union {w}
<1>1. t \in [Wallets -> 0..MaxRows]
  BY DEF Table, Exists
<1>2. WithRow(t, w) \in [Wallets -> 0..MaxRows]
  BY <1>1 DEF WithRow
<1>3. \A v \in Wallets : WithRow(t, w)[v] > 0 <=> (t[v] > 0 \/ v = w)
  BY <1>1 DEF WithRow
<1>4. DOMAIN WithRow(t, w) # DOMAIN NoTable
  BY <1>2 DEF NoTable
<1> QED
  BY <1>2, <1>3, <1>4 DEF Table, Exists, WalletsOf

LEMMA NoTableEmpty == NoTable \in Table /\ WalletsOf(NoTable) = {}
  BY DEF Table, WalletsOf, Exists

LEMMA TypeInit == Init => TypeOK
<1> SUFFICES ASSUME Init PROVE TypeOK
  OBVIOUS
<1>1. live \in Table /\ tmp \in Table /\ old \in Table
  BY EmptyExists DEF Init, Table
<1>2. stage \in [Runs -> Stages] /\ todo \in [Runs -> SUBSET participants]
  BY DEF Init, Stages
<1> QED
  BY <1>1, <1>2, EmptyExists, NoTableEmpty DEF Init, TypeOK

(* A run's statements, the loop of its inserts aside.                      *)
RunStatement(r, ok) ==
    \/ Migrate(r, ok)
    \/ CreateTmp(r, ok)
    \/ GetParticipants(r, ok)
    \/ Insert(r, ok)
    \/ RenameLive(r, ok)
    \/ RenameTmp(r, ok)
    \/ DropOld(r, ok)

LEMMA FaultsCounted ==
  ASSUME TypeOK, NEW r \in Runs, NEW ok \in BOOLEAN, RunStatement(r, ok)
  PROVE  /\ faults' \in 0..MaxFaults
         /\ faults' = 0 => ok /\ faults = 0
         /\ stage[r] # "idle"
         /\ UNCHANGED <<participants, crashes, overlaps>>
         /\ \A q \in Runs \ {r} : stage'[q] = stage[q]
<1>1. PICK here \in Stages \ {"idle"}, next \in Stages : Statement(r, here, next, ok)
  BY DEF RunStatement, Migrate, CreateTmp, GetParticipants, Insert, RenameLive,
     RenameTmp, DropOld, Stages
<1>2. /\ ok \/ faults < MaxFaults
      /\ faults' = IF ok THEN faults ELSE faults + 1
      /\ stage[r] = here /\ stage' = [stage EXCEPT ![r] = next]
      /\ UNCHANGED <<participants, crashes, overlaps>>
  BY <1>1 DEF Statement, At
<1>3. faults \in 0..MaxFaults /\ stage \in [Runs -> Stages]
  BY DEF TypeOK
<1>4. faults' \in 0..MaxFaults /\ (faults' = 0 => ok /\ faults = 0)
  BY <1>2, <1>3
<1>5. stage[r] # "idle" /\ \A q \in Runs \ {r} : stage'[q] = stage[q]
  BY <1>2, <1>3
<1> QED
  BY <1>2, <1>4, <1>5

LEMMA TypeNext == TypeOK /\ [Next]_vars => TypeOK'
<1> SUFFICES ASSUME TypeOK, [Next]_vars PROVE TypeOK'
  OBVIOUS
<1> USE DEF TypeOK, tables
<1>1. ASSUME NEW r \in Runs, Start(r) PROVE TypeOK'
  <2>1. overlaps' \in 0..MaxOverlaps
    BY <1>1 DEF Start
  <2> QED
    BY <1>1, <2>1 DEF Start, Stages
<1>2. ASSUME NEW r \in Runs, InsertsDone(r) PROVE TypeOK'
  BY <1>2 DEF InsertsDone, At, Stages
<1>3. ASSUME NEW r \in Runs, NEW ok \in BOOLEAN, RunStatement(r, ok) PROVE TypeOK'
  <2>0. faults' \in 0..MaxFaults
    BY <1>3, FaultsCounted
  <2> USE <2>0 DEF At, Stages
  <2>1. CASE Migrate(r, ok)
    BY <2>1, EmptyExists DEF Migrate, Statement
  <2>2. CASE CreateTmp(r, ok)
    BY <2>2, EmptyExists DEF CreateTmp, NewTmp, Statement
  <2>3. CASE GetParticipants(r, ok)
    BY <2>3 DEF GetParticipants, Statement
  <2>4. CASE Insert(r, ok)
    <3>1. PICK w \in todo[r] :
            /\ todo' = [todo EXCEPT ![r] = @ \ {w}]
            /\ tmp' = IF ok /\ Exists(tmp) THEN WithRow(tmp, w) ELSE tmp
      BY <2>4 DEF Insert
    <3>2. tmp' \in Table /\ WalletsOf(tmp') \subseteq participants
      BY <3>1, RowAdded
    <3> QED
      BY <2>4, <3>1, <3>2 DEF Insert, Statement
  <2>5. CASE RenameLive(r, ok)
    BY <2>5, NoTableEmpty DEF RenameLive, Statement
  <2>6. CASE RenameTmp(r, ok)
    BY <2>6, NoTableEmpty DEF RenameTmp, Statement
  <2>7. CASE DropOld(r, ok)
    BY <2>7, NoTableEmpty DEF DropOld, Statement
  <2> QED
    BY <1>3, <2>1, <2>2, <2>3, <2>4, <2>5, <2>6, <2>7 DEF RunStatement
<1>4. CASE Crash
  BY <1>4 DEF Crash, Stages
<1>5. CASE Join
  BY <1>5 DEF Join
<1>6. CASE UNCHANGED vars
  BY <1>6 DEF vars
<1> QED
  BY <1>1, <1>2, <1>3, <1>4, <1>5, <1>6 DEF Next, Step, RunStatement

(* Every variable keeps its shape; only participants are ever ranked.      *)
THEOREM TypeCorrect == Spec => []TypeOK
  BY TypeInit, TypeNext, PTL DEF Spec

---------------------------------------------------------------------------
(* The ranking survives crashes.                                           *)

LEMMA SwapInit == Init => SwapsInv
  BY EmptyExists DEF Init, SwapsInv, OneAtATime, SwapInv, RankingHeld, Holds

(* What a run establishes, its own statements and a crash keep, as long as *)
(* the database executes them.                                             *)
LEMMA SwapStep ==
  ASSUME TypeOK, NEW r \in Runs, SwapInv(r),
         \/ Start(r) \/ RunStatement(r, TRUE) \/ InsertsDone(r)
         \/ Crash \/ Join \/ UNCHANGED vars
  PROVE  SwapInv(r)'
<1> USE DEF SwapInv, RankingHeld, Holds, tables, At
<1>1. ASSUME NEW next \in Stages, stage' = [stage EXCEPT ![r] = next]
      PROVE  stage'[r] = next
  BY <1>1 DEF TypeOK
<1>2. CASE Start(r)
  BY <1>2, <1>1 DEF Start, Stages
<1>3. CASE Migrate(r, TRUE)
  <2>1. stage'[r] = "createTmp"
    BY <1>3, <1>1 DEF Migrate, Statement, Stages
  <2>2. WalletsOf(live') = WalletsOf(live) /\ Exists(live')
    BY <1>3, EmptyExists, NoTableEmpty DEF Migrate, Exists
  <2> QED
    BY <1>3, <2>1, <2>2 DEF Migrate
<1>4. CASE CreateTmp(r, TRUE)
  <2>1. stage'[r] = "participants" /\ Exists(live)
    BY <1>4, <1>1 DEF CreateTmp, Statement, Stages
  <2>2. WalletsOf(tmp') = WalletsOf(tmp) /\ Exists(tmp')
    BY <1>4, <2>1, EmptyExists, NoTableEmpty DEF CreateTmp, NewTmp, Exists
  <2> QED
    BY <1>4, <2>1, <2>2 DEF CreateTmp
<1>5. CASE GetParticipants(r, TRUE)
  <2>1. stage'[r] = "insert" /\ Exists(tmp)
    BY <1>5, <1>1 DEF GetParticipants, Statement, Stages
  <2>2. todo'[r] = participants
    BY <1>5 DEF GetParticipants, TypeOK
  <2> QED
    BY <1>5, <2>1, <2>2 DEF GetParticipants, TypeOK
<1>6. CASE Insert(r, TRUE)
  <2>1. PICK w \in todo[r] :
          /\ todo' = [todo EXCEPT ![r] = @ \ {w}]
          /\ tmp' = IF Exists(tmp) THEN WithRow(tmp, w) ELSE tmp
    BY <1>6 DEF Insert
  <2>2. stage[r] = "insert" /\ stage'[r] = "insert" /\ Exists(tmp)
    BY <1>6, <1>1 DEF Insert, Statement, Stages
  <2>3. w \in Wallets /\ tmp \in Table
    BY DEF TypeOK
  <2>4. Exists(tmp') /\ WalletsOf(tmp') = WalletsOf(tmp) \union {w}
    BY <2>1, <2>2, <2>3, RowAdded
  <2>5. todo'[r] = todo[r] \ {w}
    BY <2>1 DEF TypeOK
  <2> QED
    BY <1>6, <2>2, <2>4, <2>5 DEF Insert
<1>7. CASE InsertsDone(r)
  <2>1. stage[r] = "insert" /\ stage'[r] = "renameLive" /\ todo[r] = {}
    BY <1>7, <1>1 DEF InsertsDone, Stages
  <2> QED
    BY <1>7, <2>1 DEF InsertsDone
(* The only copy the live table may have been is by now in tmp as well.    *)
<1>8. CASE RenameLive(r, TRUE)
  <2>1. stage[r] = "renameLive" /\ stage'[r] = "renameTmp"
    BY <1>8, <1>1 DEF RenameLive, Statement, Stages
  <2>2. live' \in {live, NoTable} /\ UNCHANGED <<tmp, ranked>>
    BY <1>8 DEF RenameLive
  <2> QED
    BY <2>1, <2>2, NoTableEmpty
<1>9. CASE RenameTmp(r, TRUE)
  <2>1. stage[r] = "renameTmp" /\ stage'[r] = "dropOld"
    BY <1>9, <1>1 DEF RenameTmp, Statement, Stages
  <2> QED
    BY <1>9, <2>1 DEF RenameTmp
<1>10. CASE DropOld(r, TRUE)
  <2>1. stage'[r] = "idle"
    BY <1>10, <1>1 DEF DropOld, Statement, Stages
  <2> QED
    BY <1>10, <2>1 DEF DropOld
<1>11. CASE Crash
  <2>1. stage'[r] = "idle" /\ UNCHANGED <<live, tmp, ranked>>
    BY <1>11 DEF Crash
  <2> QED
    BY <2>1
<1>12. CASE Join
  BY <1>12 DEF Join
<1>13. CASE UNCHANGED vars
  BY <1>13 DEF vars
<1> QED
  BY <1>2, <1>3, <1>4, <1>5, <1>6, <1>7, <1>8, <1>9, <1>10, <1>11, <1>12,
     <1>13 DEF RunStatement

(* A step after which there is still no overlap and no fault is a crash, a *)
(* joining wallet, or a step of the only run that is not idle.             *)
LEMMA QuietStep ==
  ASSUME TypeOK, [Next]_vars, overlaps' = 0, faults' = 0,
         overlaps = 0 /\ faults = 0 => OneAtATime
  PROVE  /\ overlaps = 0 /\ faults = 0 /\ OneAtATime'
         /\ \/ Crash \/ Join \/ UNCHANGED vars
            \/ \E r \in Runs :
                  /\ \/ Start(r) /\ stage[r] = "idle"
                     \/ RunStatement(r, TRUE) \/ InsertsDone(r)
                  /\ \A q \in Runs \ {r} : stage[q] = "idle" /\ stage'[q] = "idle"
<1>1. CASE Crash \/ Join \/ UNCHANGED vars
  BY <1>1 DEF Crash, Join, vars, OneAtATime
<1>2. ASSUME NEW r \in Runs, Start(r)
      PROVE  /\ overlaps = 0 /\ faults = 0 /\ OneAtATime' /\ stage[r] = "idle"
             /\ \A q \in Runs \ {r} : stage[q] = "idle" /\ stage'[q] = "idle"
  <2>1. overlaps = 0 /\ faults = 0 /\ \A q \in Runs : stage[q] = "idle"
    BY <1>2 DEF Start, TypeOK
  <2>2. \A q \in Runs \ {r} : stage'[q] = "idle"
    BY <1>2, <2>1 DEF Start, TypeOK
  <2> QED
    BY <2>1, <2>2 DEF OneAtATime
<1>3. ASSUME NEW r \in Runs, NEW ok \in BOOLEAN, RunStatement(r, ok) \/ InsertsDone(r)
      PROVE  /\ overlaps = 0 /\ faults = 0 /\ OneAtATime'
             /\ RunStatement(r, TRUE) \/ InsertsDone(r)
             /\ \A q \in Runs \ {r} : stage[q] = "idle" /\ stage'[q] = "idle"
  <2>1. overlaps = 0 /\ faults = 0 /\ stage[r] # "idle"
    BY <1>3, FaultsCounted DEF InsertsDone, At
  <2>2. RunStatement(r, TRUE) \/ InsertsDone(r)
    <3>1. CASE RunStatement(r, ok)
      <4>1. ok = TRUE
        BY <3>1, FaultsCounted
      <4> QED
        BY <3>1, <4>1
    <3> QED
      BY <1>3, <3>1
  <2>3. \A q \in Runs \ {r} : stage'[q] = stage[q]
    BY <1>3, FaultsCounted DEF InsertsDone, At, TypeOK
  <2>4. \A q \in Runs \ {r} : stage[q] = "idle"
    BY <2>1 DEF OneAtATime
  <2>5. OneAtATime'
    BY <2>3, <2>4 DEF OneAtATime
  <2> QED
    BY <2>1, <2>2, <2>3, <2>4, <2>5
<1>4. \/ Crash \/ Join \/ UNCHANGED vars
      \/ \E r \in Runs : \/ Start(r) \/ InsertsDone(r)
                         \/ \E ok \in BOOLEAN : RunStatement(r, ok)
  BY DEF Next, Step, RunStatement
<1>5. CASE \E r \in Runs : Start(r)
  BY <1>2, <1>5
<1>6. CASE \E r \in Runs : InsertsDone(r) \/ \E ok \in BOOLEAN : RunStatement(r, ok)
  BY <1>3, <1>6
<1> QED
  BY <1>1, <1>4, <1>5, <1>6

(* The other runs are idle, and stay it.                                   *)
LEMMA SwapNext == TypeOK /\ SwapsInv /\ [Next]_vars => SwapsInv'
<1> SUFFICES ASSUME TypeOK, SwapsInv, [Next]_vars, overlaps' = 0, faults' = 0
             PROVE  OneAtATime' /\ \A r \in Runs : SwapInv(r)'
  BY DEF SwapsInv
<1>1. overlaps = 0 /\ faults = 0 /\ OneAtATime'
  BY QuietStep DEF SwapsInv
<1>2. \A r \in Runs : SwapInv(r)
  BY <1>1 DEF SwapsInv
<1>3. CASE Crash \/ Join \/ UNCHANGED vars
  BY <1>1, <1>2, <1>3, SwapStep
<1>4. ASSUME NEW r \in Runs, Start(r) \/ RunStatement(r, TRUE) \/ InsertsDone(r),
             \A q \in Runs \ {r} : stage'[q] = "idle"
      PROVE  \A q \in Runs : SwapInv(q)'
  <2>1. SwapInv(r)'
    BY <1>2, <1>4, SwapStep
  <2>2. \A q \in Runs \ {r} : SwapInv(q)'
    BY <1>4, <2>1 DEF SwapInv
  <2> QED
    BY <2>1, <2>2
<1> QED
  BY <1>1, <1>3, <1>4, QuietStep DEF SwapsInv

(* As long as runs do not overlap and no statement fails, a crash at any   *)
(* point, between the two renames of hotSwapTables included, leaves the    *)
(* whole ranking in the live table or in the one the next run works with.  *)
THEOREM RankingSurvivesCrashes == Spec => []RankingNeverLost
<1>1. SwapsInv => RankingNeverLost
  BY DEF SwapsInv, SwapInv, RankingNeverLost
<1> QED
  BY TypeInit, TypeNext, SwapInit, SwapNext, <1>1, PTL DEF Spec

---------------------------------------------------------------------------
(* While nothing goes wrong at all.                                        *)

(* A first row for w leaves every wallet with at most one.                 *)
LEMMA FirstRow ==
  ASSUME NEW t \in Table, Once(t), NEW w \in Wallets, t[w] = 0
  PROVE  /\ Once(WithRow(t, w))
         /\ \A v \in Wallets \ {w} : WithRow(t, w)[v] = t[v]
<1>1. t \in [Wallets -> 0..MaxRows]
  BY DEF Table, Once, Exists
<1>2. WithRow(t, w)[w] = 1 /\ \A v \in Wallets \ {w} : WithRow(t, w)[v] = t[v]
  BY <1>1 DEF WithRow
<1> QED
  BY <1>2, RowAdded DEF Once

LEMMA EmptyOnce == Once(Empty) /\ ~Exists(NoTable)
  BY EmptyExists DEF Once, Empty, Exists

LEMMA CalmInit == Init => CalmInv
  BY EmptyOnce DEF Init, CalmInv, Clean, CalmTables, Holds

(* The statements of the only run, one after the other.                    *)
LEMMA CalmStep ==
  ASSUME TypeOK, NEW r \in Runs, SwapInv(r), CalmTables(r),
         Exists(live) => Holds(live),
         \/ Start(r) /\ Clean
         \/ RunStatement(r, TRUE) \/ InsertsDone(r)
  PROVE  /\ CalmTables(r)'
         /\ stage'[r] = "idle" => Clean'
         /\ (Exists(live) => Holds(live))'
<1> USE DEF CalmTables, Clean, tables, At
<1>1. ASSUME NEW next \in Stages, stage' = [stage EXCEPT ![r] = next]
      PROVE  stage'[r] = next
  BY <1>1 DEF TypeOK
<1>2. CASE Start(r) /\ Clean
  <2>1. stage'[r] = "migrate" /\ UNCHANGED <<live, tmp, old, ranked>>
    BY <1>2, <1>1 DEF Start, Stages
  <2> QED
    BY <1>2, <2>1 DEF Once, Holds
<1>3. CASE Migrate(r, TRUE)
  <2>1. stage[r] = "migrate" /\ stage'[r] = "createTmp"
    BY <1>3, <1>1 DEF Migrate, Statement, Stages
  <2>2. UNCHANGED <<live, tmp, old, ranked>>
    BY <1>3, <2>1 DEF Migrate, Once
  <2> QED
    BY <2>1, <2>2 DEF Once, Holds
<1>4. CASE CreateTmp(r, TRUE)
  <2>1. stage[r] = "createTmp" /\ stage'[r] = "participants"
    BY <1>4, <1>1 DEF CreateTmp, Statement, Stages
  <2>2. tmp' = Empty /\ UNCHANGED <<live, old, ranked>>
    BY <1>4, <2>1, EmptyOnce DEF CreateTmp, NewTmp, Once
  <2> QED
    BY <2>1, <2>2 DEF Once, Holds
<1>5. CASE GetParticipants(r, TRUE)
  <2>1. stage[r] = "participants" /\ stage'[r] = "insert"
    BY <1>5, <1>1 DEF GetParticipants, Statement, Stages
  <2>2. UNCHANGED <<live, tmp, old, ranked>>
    BY <1>5 DEF GetParticipants
  <2>3. todo'[r] \subseteq Wallets
    BY <1>5 DEF GetParticipants, TypeOK
  <2>4. \A w \in todo'[r] : tmp[w] = 0
    BY <2>1, <2>3 DEF Empty
  <2> QED
    BY <2>1, <2>2, <2>4, EmptyOnce DEF Once, Holds
<1>6. CASE Insert(r, TRUE)
  <2>1. PICK w \in todo[r] :
          /\ todo' = [todo EXCEPT ![r] = @ \ {w}]
          /\ tmp' = IF Exists(tmp) THEN WithRow(tmp, w) ELSE tmp
    BY <1>6 DEF Insert
  <2>2. stage[r] = "insert" /\ stage'[r] = "insert"
    BY <1>6, <1>1 DEF Insert, Statement, Stages
  <2>3. w \in Wallets /\ todo[r] \subseteq Wallets /\ tmp \in Table
    BY DEF TypeOK
  <2>4. tmp' = WithRow(tmp, w) /\ Once(tmp) /\ tmp[w] = 0
    BY <2>1, <2>2 DEF Once
  <2>5. todo'[r] = todo[r] \ {w}
    BY <2>1 DEF TypeOK
  <2>6. Once(tmp') /\ \A v \in todo'[r] : tmp'[v] = 0
    BY <2>2, <2>3, <2>4, <2>5, FirstRow
  <2>7. UNCHANGED <<live, old, ranked>>
    BY <1>6 DEF Insert
  <2> QED
    BY <2>2, <2>6, <2>7 DEF Once, Holds
<1>7. CASE InsertsDone(r)
  <2>1. stage[r] = "insert" /\ stage'[r] = "renameLive"
    BY <1>7, <1>1 DEF InsertsDone, Stages
  <2>2. UNCHANGED <<live, tmp, old, ranked>>
    BY <1>7 DEF InsertsDone
  <2> QED
    BY <2>1, <2>2 DEF Once, Holds
<1>8. CASE RenameLive(r, TRUE)
  <2>1. stage[r] = "renameLive" /\ stage'[r] = "renameTmp"
    BY <1>8, <1>1 DEF RenameLive, Statement, Stages
  <2>2. live' = NoTable /\ UNCHANGED tmp
    BY <1>8, <2>1, EmptyOnce DEF RenameLive, Once
  <2> QED
    BY <2>1, <2>2, EmptyOnce DEF Once
(* The table a run swaps in holds whoever was ranked before.               *)
<1>9. CASE RenameTmp(r, TRUE)
  <2>1. stage[r] = "renameTmp" /\ stage'[r] = "dropOld"
    BY <1>9, <1>1 DEF RenameTmp, Statement, Stages
  <2>2. live' = tmp /\ tmp' = NoTable
    BY <1>9, <2>1, EmptyOnce DEF RenameTmp, Once
  <2>3. ranked' = ranked \union WalletsOf(live')
    BY <1>9 DEF RenameTmp
  <2>4. ranked \subseteq WalletsOf(tmp)
    BY <2>1 DEF SwapInv, Holds
  <2>5. ranked' \subseteq WalletsOf(live')
    BY <2>2, <2>3, <2>4
  <2> QED
    BY <2>1, <2>2, <2>5 DEF Once, Holds
<1>10. CASE DropOld(r, TRUE)
  <2>1. stage[r] = "dropOld" /\ stage'[r] = "idle"
    BY <1>10, <1>1 DEF DropOld, Statement, Stages
  <2>2. old' = NoTable /\ UNCHANGED <<live, tmp, ranked>>
    BY <1>10 DEF DropOld
  <2> QED
    BY <2>1, <2>2 DEF Once, Holds
<1> QED
  BY <1>2, <1>3, <1>4, <1>5, <1>6, <1>7, <1>8, <1>9, <1>10 DEF RunStatement

LEMMA CalmNext == TypeOK /\ SwapsInv /\ CalmInv /\ [Next]_vars => CalmInv'
<1> SUFFICES ASSUME TypeOK, SwapsInv, CalmInv, [Next]_vars, Calm'
             PROVE  /\ (Exists(live) => Holds(live))'
                    /\ ((\A r \in Runs : stage[r] = "idle") => Clean)'
                    /\ \A r \in Runs : CalmTables(r)'
  BY DEF CalmInv
<1>1. overlaps' = 0 /\ faults' = 0 /\ crashes' = 0
  BY DEF Calm
<1>2. overlaps = 0 /\ faults = 0
  BY <1>1, QuietStep DEF SwapsInv
<1>3. CASE Crash
  <2>1. crashes' # 0
    BY <1>3 DEF Crash, TypeOK
  <2> QED
    BY <1>1, <2>1
<1>4. CASE Join \/ UNCHANGED vars
  <2>1. /\ UNCHANGED <<live, tmp, old, stage, todo, ranked>>
        /\ UNCHANGED <<crashes, overlaps, faults>>
    BY <1>4 DEF Join, vars, tables
  <2> QED
    BY <1>1, <2>1 DEF CalmInv, Calm, Holds, Clean, Once, CalmTables
<1>5. ASSUME NEW r \in Runs,
             \/ Start(r) /\ stage[r] = "idle"
             \/ RunStatement(r, TRUE) \/ InsertsDone(r),
             \A q \in Runs \ {r} : stage[q] = "idle" /\ stage'[q] = "idle"
      PROVE  /\ (Exists(live) => Holds(live))'
             /\ ((\A q \in Runs : stage[q] = "idle") => Clean)'
             /\ \A q \in Runs : CalmTables(q)'
  <2>1. Calm
    BY <1>1, <1>2, <1>5, FaultsCounted DEF Calm, Start, InsertsDone, At
  <2>2. SwapInv(r) /\ CalmTables(r) /\ (Exists(live) => Holds(live))
    BY <1>2, <2>1 DEF SwapsInv, CalmInv
  <2>3. stage[r] = "idle" => Clean
    BY <1>5, <2>1 DEF CalmInv
  <2>4. /\ CalmTables(r)' /\ (stage'[r] = "idle" => Clean')
        /\ (Exists(live) => Holds(live))'
    BY <1>5, <2>2, <2>3, CalmStep
  <2>5. \A q \in Runs \ {r} : CalmTables(q)'
    BY <1>5 DEF CalmTables
  <2> QED
    BY <2>4, <2>5
<1> QED
  BY <1>1, <1>3, <1>4, <1>5, QuietStep DEF SwapsInv

(* While no run dies or overlaps another and the database fails nothing,   *)
(* every wallet is listed at most once, at every moment of the swap ...    *)
THEOREM OncePerWallet == Spec => []UniqueWhileCalm
<1>1. TypeOK /\ CalmInv => UniqueWhileCalm
  <2> SUFFICES ASSUME TypeOK, CalmInv, Calm, Exists(live) PROVE Once(live)
    BY DEF UniqueWhileCalm, WalletUnique, Once
  <2>1. CASE \A r \in Runs : stage[r] = "idle"
    BY <2>1 DEF CalmInv, Clean
  <2>2. ASSUME NEW r \in Runs, stage[r] # "idle" PROVE Once(live)
    <3>1. CalmTables(r) /\ stage[r] \in Stages
      BY DEF CalmInv, TypeOK
    <3> QED
      BY <2>2, <3>1 DEF CalmTables, Stages, Clean, Exists
  <2> QED
    BY <2>1, <2>2
<1> QED
  BY TypeInit, TypeNext, SwapInit, SwapNext, CalmInit, CalmNext, <1>1, PTL
  DEF Spec

(* ... and whoever has been listed is, whenever there is a table.          *)
THEOREM ListedStaysListed == Spec => []ShownStaysShown
<1>1. CalmInv => ShownStaysShown
  BY DEF CalmInv, ShownStaysShown
<1> QED
  BY TypeInit, TypeNext, SwapInit, SwapNext, CalmInit, CalmNext, <1>1, PTL
  DEF Spec
---------------------------------------------------------------------------
(* The readers of the ranking.                                             *)

(* They read, and never get in the way of the runs: what holds of the      *)
(* ranking without them holds with them.                                   *)
THEOREM ReadersOnlyRead == ApiSpec => Spec
<1>1. ApiInit => Init
  BY DEF ApiInit
<1>2. [ApiNext]_allVars => [Next]_vars
  BY DEF ApiNext, Ranking, CountLines, AnswerPage, allVars, vars, tables
<1> QED
  BY <1>1, <1>2, PTL DEF ApiSpec, Spec

LEMMA RowsCounted ==
  ASSUME NEW t
  PROVE  /\ MaxRows * Cardinality(Wallets) \in Nat
         /\ IsFiniteSet(RowsOf(t))
         /\ Cardinality(RowsOf(t)) \in 0..(MaxRows * Cardinality(Wallets))
<1>1. IsFiniteSet(Wallets) /\ Cardinality(Wallets) \in Nat
  BY ScoreAssumption, FS_CardinalityType DEF ScoreAssumption
<1>2. IsFiniteSet(1..MaxRows) /\ Cardinality(1..MaxRows) = MaxRows
  BY FS_Interval
<1>3. /\ IsFiniteSet(Wallets \X (1..MaxRows))
      /\ Cardinality(Wallets \X (1..MaxRows))
           = Cardinality(Wallets) * MaxRows
  BY <1>1, <1>2, FS_Product
<1>4. RowsOf(t) \in SUBSET (Wallets \X (1..MaxRows))
  BY DEF RowsOf
<1>5. /\ IsFiniteSet(RowsOf(t)) /\ Cardinality(RowsOf(t)) \in Nat
      /\ Cardinality(RowsOf(t)) <= Cardinality(Wallets) * MaxRows
  BY <1>3, <1>4, FS_Subset, FS_CardinalityType
<1> QED
  BY <1>1, <1>5

LEMMA CountInit == ApiInit => ApiTypeOK
BY DEF ApiInit, ApiTypeOK

LEMMA CountNext == ApiTypeOK /\ [ApiNext]_allVars => ApiTypeOK'
<1> SUFFICES ASSUME ApiTypeOK, [ApiNext]_allVars PROVE ApiTypeOK'
  OBVIOUS
<1> USE DEF ApiTypeOK
<1>1. CASE Ranking
  BY <1>1 DEF Ranking
<1>2. ASSUME NEW ok \in BOOLEAN, CountLines(ok) PROVE ApiTypeOK'
  <2>1. /\ live' = live /\ same' = (ok /\ Exists(live))
        /\ counted' = IF same' THEN Cardinality(RowsOf(live)) ELSE 0
    BY <1>2 DEF CountLines, vars
  <2>2. 0 \in 0..(MaxRows * Cardinality(Wallets))
    BY RowsCounted
  <2> QED
    BY <2>1, <2>2, RowsCounted
<1>3. ASSUME NEW page, NEW limit, NEW maxPage,
             AnswerPage(page, limit, maxPage)
      PROVE  ApiTypeOK'
  BY <1>3 DEF AnswerPage
<1>4. CASE UNCHANGED allVars
  BY <1>4 DEF allVars
<1> QED
  BY <1>1, <1>2, <1>3, <1>4 DEF ApiNext

(* A count in hand is a number of rows, and `same` says truly when it is   *)
(* the number of rows of the table that is live.                           *)
THEOREM CountsAreOfTheirTable == ApiSpec => []ApiTypeOK
BY CountInit, CountNext, PTL DEF ApiSpec

(* math.Ceil(count / limit) is the number of pages: the page p that ends   *)
(* before the last line is one that another page follows.                  *)
LEMMA PagesNeeded ==
  ASSUME NEW n \in Nat, NEW limit \in Nat \ {0}, NEW page \in Nat
  PROVE  page < (n + limit - 1) \div limit <=> page * limit < n
<1> DEFINE m == n + limit - 1
           q == m \div limit
<1>1. m \in Nat /\ q \in Nat /\ q * limit <= m /\ m < (q + 1) * limit
  OBVIOUS
<1> HIDE DEF q
<1>2. page < q => page * limit < n
  <2> SUFFICES ASSUME page + 1 <= q PROVE page * limit < n
    BY <1>1
  <2>1. (page + 1) * limit <= q * limit
    BY <1>1
  <2>2. (page + 1) * limit = page * limit + limit
    OBVIOUS
  <2> QED
    BY <1>1, <2>1, <2>2
<1>3. page >= q => page * limit >= n
  <2> SUFFICES ASSUME page >= q PROVE page * limit >= n
    OBVIOUS
  <2>1. page * limit >= q * limit
    BY <1>1
  <2>2. (q + 1) * limit = q * limit + limit
    BY <1>1
  <2> QED
    BY <1>1, <2>1, <2>2
<1> QED
  BY <1>1, <1>2, <1>3 DEF q

(* The lines of a page are an interval of the ranking.                     *)
LEMMA LinesOfPage ==
  ASSUME NEW n \in Nat, NEW limit \in Nat \ {0}, NEW page \in Nat \ {0}
  PROVE  LET before == (page - 1) * limit
             last   == IF n < before + limit THEN n ELSE before + limit
         IN /\ before \in Nat /\ page * limit = before + limit
            /\ LinesOf(n, page, limit) = (before + 1)..last
            /\ Cardinality(LinesOf(n, page, limit))
                 = IF before + 1 > last THEN 0 ELSE last - before
<1> DEFINE before == (page - 1) * limit
           last   == IF n < before + limit THEN n ELSE before + limit
<1>1. before \in Nat /\ page * limit = before + limit
  OBVIOUS
<1> HIDE DEF before
<1>2. LinesOf(n, page, limit) = (before + 1)..last
  <2>1. LinesOf(n, page, limit)
          = {k \in 1..n : before < k /\ k <= before + limit}
    BY <1>1 DEF LinesOf, Offset, before
  <2> QED
    BY <1>1, <2>1
<1>3. last \in Nat
  BY <1>1
<1> HIDE DEF last
<1>4. Cardinality((before + 1)..last)
        = IF before + 1 > last THEN 0 ELSE last - (before + 1) + 1
  BY <1>1, <1>3, FS_Interval
<1>5. last - (before + 1) + 1 = last - before
  BY <1>1, <1>3
<1> QED
  BY <1>1, <1>2, <1>4, <1>5 DEF before, last

(* The answer of a reader whose two statements found the same table: the   *)
(* page's lines and the page info agree (PaginateRaw in db.go).            *)
THEOREM PagesAddUp == ApiSpec => PageAddsUp
<1>1. ASSUME ApiTypeOK, NEW page \in Pages, NEW limit \in Limits, NEW maxPage,
             maxPage \in MaxPages(counted, limit), page >= 1, limit >= 1, same,
             CanOrder(live), AnswerPage(page, limit, maxPage)
      PROVE  AddsUp(Leaderboard(page, limit, TRUE, maxPage), page, limit)
  <2> DEFINE n == counted
             answer == Leaderboard(page, limit, TRUE, maxPage)
             before == (page - 1) * limit
             last   == IF n < before + limit THEN n ELSE before + limit
  <2>1. n = Cardinality(RowsOf(live)) /\ n \in Nat
    BY <1>1, RowsCounted DEF ApiTypeOK
  <2>2. limit \in Nat \ {0} /\ page \in Nat \ {0}
    BY <1>1, RequestAssumption DEF RequestAssumption
  <2>3. maxPage = (n + limit - 1) \div limit
    BY <1>1, <2>2 DEF MaxPages, Ceiling
  <2>4. /\ answer.data = LinesOf(n, page, limit)
        /\ answer.count = n
        /\ answer.has_next_page = (page < maxPage)
        /\ answer.has_previous_page = (page > 1)
    BY <1>1, <2>1 DEF Leaderboard, ReadLines
  <2>5. /\ before \in Nat /\ page * limit = before + limit
        /\ LinesOf(n, page, limit) = (before + 1)..last
        /\ Cardinality(LinesOf(n, page, limit))
             = IF before + 1 > last THEN 0 ELSE last - before
    BY <2>1, <2>2, LinesOfPage
  <2>6. page < maxPage <=> before + limit < n
    BY <2>1, <2>2, <2>3, <2>5, PagesNeeded
  <2> HIDE DEF answer, before, n
  <2>7. (answer.has_next_page) = (n - before > limit)
    <3>1. before + limit < n <=> n - before > limit
      BY <2>1, <2>2, <2>5
    <3> QED
      BY <2>4, <2>6, <3>1
  <2>8. answer.has_next_page => Cardinality(answer.data) = limit
    <3>1. n - before > limit => last = before + limit
      BY <2>1, <2>2, <2>5
    <3>2. last = before + limit
            => ~(before + 1 > last) /\ last - before = limit
      BY <2>2, <2>5
    <3> HIDE DEF last
    <3> QED
      BY <2>4, <2>5, <2>7, <3>1, <3>2
  <2>9. ~answer.has_next_page /\ n - before > 0
          => Cardinality(answer.data) = n - before
    <3>1. ~(n - before > limit) => last = n
      BY <2>1, <2>2, <2>5
    <3>2. n - before > 0 /\ last = n => ~(before + 1 > last)
      BY <2>1, <2>5
    <3> HIDE DEF last
    <3> QED
      BY <2>4, <2>5, <2>7, <3>1, <3>2
  <2>10. n - before <= 0 => answer.data = {}
    BY <2>1, <2>2, <2>4, <2>5
  <2> QED
    BY <2>4, <2>7, <2>8, <2>9, <2>10 DEF AddsUp, Offset, answer, before, n
<1>2. ASSUME NEW page \in Pages, NEW limit \in Limits, NEW maxPage,
             ~(page >= 1 /\ limit >= 1)
      PROVE  Leaderboard(page, limit, TRUE, maxPage).data = {}
  <2>1. page \in Int /\ limit \in Int
    BY RequestAssumption DEF RequestAssumption
  <2>2. \A n : LinesOf(n, page, limit) = {}
    <3> DEFINE offset == Offset(page, limit)
    <3>0. offset \in Int /\ (limit >= 1 => offset < 0)
      <4>1. limit >= 1 => page <= 0
        BY <1>2, <2>1
      <4>2. ASSUME limit >= 1, page <= 0 PROVE (page - 1) * limit < 0
        <5>1. page - 1 \in Int /\ page - 1 <= -1
          BY <2>1, <4>2
        <5> QED
          BY <5>1, <4>2, <2>1, SMTT(20)
      <4> QED
        BY <2>1, <4>1, <4>2 DEF Offset
    <3> HIDE DEF offset
    <3>1. CASE limit < 1
      BY <2>1, <3>0, <3>1 DEF LinesOf, offset
    <3>2. CASE limit >= 1
      BY <2>1, <3>0, <3>2 DEF LinesOf, offset
    <3> QED
      BY <2>1, <3>1, <3>2
  <2> QED
    BY <2>2 DEF Leaderboard, ReadLines
<1>3. ApiTypeOK => [\A page \in Pages, limit \in Limits :
         \A maxPage \in MaxPages(counted, limit) :
            (same /\ CanOrder(live) /\ AnswerPage(page, limit, maxPage)) =>
              LET answer == Leaderboard(page, limit, TRUE, maxPage)
              IN IF page >= 1 /\ limit >= 1 THEN AddsUp(answer, page, limit)
                                             ELSE answer.data = {}]_allVars
  BY <1>1, <1>2
<1> QED
  BY CountsAreOfTheirTable, <1>3, PTL DEF PageAddsUp

(* While nothing goes wrong and no rename is under way, there is a table to *)
(* read, and once somebody has been ranked it has a row.                   *)
LEMMA NobodyMissing ==
  ASSUME TypeOK, CalmInv, Calm, ranked # {},
         \A r \in Runs : stage[r] # "renameTmp"
  PROVE  Exists(live) /\ WalletsOf(live) # {}
<1>1. Exists(live)
  <2>1. CASE \A r \in Runs : stage[r] = "idle"
    BY <2>1 DEF CalmInv, Clean, Once
  <2>2. ASSUME NEW r \in Runs, stage[r] # "idle" PROVE Exists(live)
    <3>1. CalmTables(r) /\ stage[r] \in Stages
      BY DEF CalmInv, TypeOK
    <3> QED
      BY <2>2, <3>1 DEF CalmTables, Stages, Clean, Once
  <2> QED
    BY <2>1, <2>2
<1> QED
  BY <1>1 DEF CalmInv, Holds

(* While nothing goes wrong, a reader is told that the ranking is empty    *)
(* only before there is one, or between the renames of hotSwapTables.      *)
THEOREM EmptyOnlyBetweenRenames == ApiSpec => EmptyOnlyInSwap
<1>1. ASSUME TypeOK, CalmInv, CountLines(TRUE), counted' = 0, ranked # {},
             Calm
      PROVE  \E r \in Runs : stage[r] = "renameTmp"
  <2> SUFFICES ASSUME \A r \in Runs : stage[r] # "renameTmp" PROVE FALSE
    OBVIOUS
  <2>1. Exists(live) /\ WalletsOf(live) # {}
    BY <1>1, NobodyMissing
  <2>2. Cardinality(RowsOf(live)) = 0
    BY <1>1, <2>1 DEF CountLines
  <2>3. RowsOf(live) = {}
    BY <2>2, RowsCounted, FS_EmptySet
  <2>4. PICK w \in Wallets : live[w] > 0
    BY <2>1 DEF WalletsOf
  <2>5. live[w] \in 0..MaxRows
    BY <1>1, <2>1 DEF TypeOK, Table, Exists
  <2>6. <<w, 1>> \in RowsOf(live)
    BY <2>1, <2>4, <2>5 DEF RowsOf
  <2> QED
    BY <2>3, <2>6
<1>2. TypeOK /\ CalmInv =>
        [(CountLines(TRUE) /\ counted' = 0 /\ ranked # {} /\ Calm)
           => \E r \in Runs : stage[r] = "renameTmp"]_allVars
  BY <1>1
<1> QED
  BY ReadersOnlyRead, TypeInit, TypeNext, SwapInit, SwapNext, CalmInit,
     CalmNext, <1>2, PTL DEF Spec, EmptyOnlyInSwap
=============================================================================
