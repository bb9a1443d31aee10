------------------------- MODULE FeederClientProofs -------------------------
(***************************************************************************)
(* Proofs about module FeederClient, for any number of callers, any limit  *)
(* and any number of failing requests.                                     *)
(***************************************************************************)
EXTENDS FeederClient, FiniteSetTheorems, TLAPS

USE CallersAssumption, LimitsAssumption DEF CallersAssumption, LimitsAssumption

LEMMA TypeInit == Init => TypeOK
<1> SUFFICES ASSUME Init PROVE TypeOK
  OBVIOUS
<1>1. slots \in 0..MaxRpm /\ failures \in 0..MaxFailures
  BY DEF Init
<1>2. /\ call \in [Callers -> CallStates] /\ request \in [Callers -> RequestStates]
      /\ \A c \in Callers : call[c] # "select" /\ request[c] = "none"
  BY DEF Init, AllIdle, NoneSent, CallStates, RequestStates
<1> QED
  BY <1>1, <1>2 DEF Init, TypeOK, Timer

LEMMA TypeNext == TypeOK /\ [Next]_vars => TypeOK'
<1> SUFFICES ASSUME TypeOK, [Next]_vars PROVE TypeOK'
  OBVIOUS
<1> USE DEF TypeOK, CallStates, RequestStates, Timer, Goes, client
<1>1. CASE Boot
  BY <1>1 DEF Boot
<1>2. CASE TimerFires
  BY <1>2 DEF TimerFires
<1>3. CASE TakeSlot
  BY <1>3 DEF TakeSlot
<1>4. CASE NilDereference
  <2>1. slots' \in 0..MaxRpm /\ failures' \in 0..MaxFailures
    BY <1>4 DEF NilDereference
  <2>2. /\ call' \in [Callers -> CallStates] /\ request' \in [Callers -> RequestStates]
        /\ \A c \in Callers : call'[c] # "select" /\ request'[c] = "none"
    BY <1>4 DEF NilDereference, AllIdle, NoneSent
  <2> QED
    BY <1>4, <2>1, <2>2 DEF NilDereference
<1>5. ASSUME NEW c \in Callers, CheckRpm(c) PROVE TypeOK'
  BY <1>5 DEF CheckRpm
<1>6. ASSUME NEW c \in Callers, LimitPasses(c) PROVE TypeOK'
  BY <1>6 DEF LimitPasses
<1>7. ASSUME NEW c \in Callers, Spawn(c) PROVE TypeOK'
  BY <1>7 DEF Spawn
<1>8. ASSUME NEW c \in Callers, HttpAnswers(c) PROVE TypeOK'
  BY <1>8 DEF HttpAnswers
<1>9. ASSUME NEW c \in Callers, HttpGoesWrong(c) PROVE TypeOK'
  <2>1. failures' \in 0..MaxFailures
    BY <1>9 DEF HttpGoesWrong
  <2> QED
    BY <1>9, <2>1 DEF HttpGoesWrong
<1>10. ASSUME NEW c \in Callers, ReceiveBody(c) PROVE TypeOK'
  BY <1>10 DEF ReceiveBody
<1>11. ASSUME NEW c \in Callers, ReceiveError(c) PROVE TypeOK'
  BY <1>11 DEF ReceiveError, Failed
<1>12. ASSUME NEW c \in Callers, ReleaseSlot(c) PROVE TypeOK'
  BY <1>12 DEF ReleaseSlot
<1>13. CASE UNCHANGED vars
  BY <1>13 DEF vars
<1> QED
  BY <1>1, <1>2, <1>3, <1>4, <1>5, <1>6, <1>7, <1>8, <1>9, <1>10, <1>11, <1>12,
     <1>13 DEF Next, Step

(* Every variable keeps its shape; a call has a request exactly while the  *)
(* caller waits for it; a stopped process has nothing left.                *)
THEOREM TypeCorrect == Spec => []TypeOK
  BY TypeInit, TypeNext, PTL DEF Spec

---------------------------------------------------------------------------
(* Slots.                                                                  *)

LEMMA InFlightFinite ==
  /\ IsFiniteSet(InFlight) /\ Cardinality(InFlight) \in Nat
  /\ Cardinality(InFlight) <= Cardinality(Callers)
  BY FS_Subset, FS_CardinalityType DEF InFlight

(* A caller that leaves or enters Get changes the count by one.            *)
LEMMA Enters ==
  ASSUME NEW c \in Callers, TypeOK, Goes(c, "spawn", "select")
  PROVE  Cardinality(InFlight') = Cardinality(InFlight) + 1
<1>1. InFlight' = InFlight \union {c} /\ c \notin InFlight
  BY DEF Goes, InFlight, TypeOK
<1> QED
  BY <1>1, InFlightFinite, FS_AddElement

LEMMA Leaves ==
  ASSUME NEW c \in Callers, TypeOK, Goes(c, "release", "idle")
  PROVE  Cardinality(InFlight') = Cardinality(InFlight) - 1
<1>1. InFlight' = InFlight \ {c} /\ c \in InFlight
  BY DEF Goes, InFlight, TypeOK
<1> QED
  BY <1>1, InFlightFinite, FS_RemoveElement

LEMMA Stays ==
  ASSUME TypeOK, NEW c \in Callers,
         \/ Goes(c, "idle", "limited") \/ Goes(c, "idle", "spawn")
         \/ Goes(c, "limited", "spawn") \/ Goes(c, "select", "release")
  PROVE  InFlight' = InFlight
  BY DEF Goes, InFlight, TypeOK

LEMMA SlotsInit == Init => SlotsAreCalls
<1> SUFFICES ASSUME Init PROVE SlotsAreCalls
  OBVIOUS
<1>1. InFlight = {}
  BY DEF Init, AllIdle, InFlight
<1> QED
  BY <1>1, FS_EmptySet DEF Init, SlotsAreCalls

LEMMA SlotsNext == TypeOK /\ SlotsAreCalls /\ [Next]_vars => SlotsAreCalls'
<1> SUFFICES ASSUME TypeOK, SlotsAreCalls, [Next]_vars PROVE SlotsAreCalls'
  OBVIOUS
<1> USE InFlightFinite DEF SlotsAreCalls, client
<1>1. CASE TakeSlot
  <2>1. InFlight' = InFlight
    BY <1>1 DEF TakeSlot, InFlight
  <2> QED
    BY <1>1, <2>1 DEF TakeSlot, TypeOK
<1>2. CASE NilDereference
  <2>1. InFlight' = {}
    BY <1>2 DEF NilDereference, InFlight, AllIdle
  <2> QED
    BY <1>2, <2>1, FS_EmptySet DEF NilDereference
<1>3. ASSUME NEW c \in Callers, Spawn(c) PROVE SlotsAreCalls'
  BY <1>3, Enters DEF Spawn, TypeOK
<1>4. ASSUME NEW c \in Callers, ReleaseSlot(c) PROVE SlotsAreCalls'
  BY <1>4, Leaves DEF ReleaseSlot, TypeOK
<1>5. ASSUME NEW c \in Callers,
             CheckRpm(c) \/ LimitPasses(c) \/ ReceiveBody(c) \/ ReceiveError(c)
      PROVE  SlotsAreCalls'
  <2>1. InFlight' = InFlight
    BY <1>5, Stays DEF CheckRpm, LimitPasses, ReceiveBody, ReceiveError
  <2> QED
    BY <1>5, <2>1 DEF CheckRpm, LimitPasses, ReceiveBody, ReceiveError
<1>6. CASE \/ Boot \/ TimerFires \/ UNCHANGED vars
           \/ \E c \in Callers : HttpAnswers(c) \/ HttpGoesWrong(c)
  <2>1. UNCHANGED <<call, slots, taking>>
    BY <1>6 DEF Boot, TimerFires, vars, HttpAnswers, HttpGoesWrong
  <2> QED
    BY <2>1 DEF InFlight
<1> QED
  BY <1>1, <1>2, <1>3, <1>4, <1>5, <1>6 DEF Next, Step

(* Get never waits for its slot in vain and no slot outlives its call: the *)
(* slots taken and about to be taken are as many as the calls in flight,   *)
(* and the goroutines left behind by failed requests hold none.            *)
THEOREM SlotsConserved == Spec => []SlotsAreCalls
  BY TypeInit, TypeNext, SlotsInit, SlotsNext, PTL DEF Spec

LEMMA LimitStep ==
  ASSUME TypeOK, SlotsAreCalls, [Next]_vars, NEW c \in Callers,
         call[c] # "limited", call'[c] = "limited"
  PROVE  call[c] = "idle" /\ slots >= MaxRpm
<1> USE DEF TypeOK, Goes
<1>1. ASSUME NEW d \in Callers, CheckRpm(d)
      PROVE  call[c] = "idle" /\ slots >= MaxRpm
  BY <1>1 DEF CheckRpm
<1>2. ASSUME NEW d \in Callers, Step(d) PROVE FALSE
  BY <1>2 DEF Step, LimitPasses, Spawn, HttpAnswers, ReceiveBody, ReceiveError,
     ReleaseSlot
<1>3. CASE \/ Boot \/ TimerFires \/ TakeSlot \/ NilDereference \/ UNCHANGED vars
           \/ \E d \in Callers : HttpGoesWrong(d)
  BY <1>3 DEF Boot, TimerFires, TakeSlot, NilDereference, AllIdle, HttpGoesWrong,
     vars
<1> QED
  BY <1>1, <1>2, <1>3 DEF Next

(* The limiter stops a caller only while maxRpm other calls are in flight. *)
THEOREM LimitsOnlyBusy == Spec => OnlyBusyLimits
<1> DEFINE Busy == \A c \in Callers : call[c] = "idle" /\ call'[c] = "limited"
                      => Cardinality(InFlight) >= MaxRpm
<1>1. TypeOK /\ SlotsAreCalls /\ [Next]_vars => [Busy]_vars
  <2> SUFFICES ASSUME TypeOK, SlotsAreCalls, [Next]_vars, NEW c \in Callers,
                      call[c] = "idle", call'[c] = "limited"
               PROVE  Cardinality(InFlight) >= MaxRpm
    OBVIOUS
  <2>1. slots >= MaxRpm
    BY LimitStep
  <2> QED
    BY <2>1, InFlightFinite DEF SlotsAreCalls, TypeOK
<1> QED
  BY <1>1, TypeCorrect, SlotsConserved, PTL DEF Spec, OnlyBusyLimits

NobodyLimited == \A c \in Callers : call[c] # "limited"

(* With no more callers than maxRpm, and the indexer has one per contract, *)
(* nobody ever meets the limiter and its only timer does not matter.       *)
THEOREM FewCallersNeverLimited ==
  ASSUME Cardinality(Callers) <= MaxRpm
  PROVE  Spec => []NobodyLimited
<1>1. Init => NobodyLimited
  BY DEF Init, AllIdle, NobodyLimited
<1>2. TypeOK /\ SlotsAreCalls /\ NobodyLimited /\ [Next]_vars => NobodyLimited'
  <2> SUFFICES ASSUME TypeOK, SlotsAreCalls, NobodyLimited, [Next]_vars,
                      NEW c \in Callers, call'[c] = "limited"
               PROVE  FALSE
    BY DEF NobodyLimited
  <2>1. call[c] = "idle" /\ slots >= MaxRpm
    BY LimitStep DEF NobodyLimited
  <2>2. c \notin InFlight /\ InFlight \in SUBSET (Callers \ {c})
    BY <2>1 DEF InFlight
  <2>3. Cardinality(InFlight) <= Cardinality(Callers) - 1
    BY <2>2, FS_RemoveElement, FS_Subset, FS_CardinalityType
  <2> QED
    BY <2>1, <2>3, InFlightFinite, FS_CardinalityType DEF SlotsAreCalls, TypeOK
<1> QED
  BY <1>1, <1>2, TypeCorrect, SlotsConserved, PTL DEF Spec
---------------------------------------------------------------------------
(* The steps of the client are steps of the abstract call.                 *)

LEMMA AllDoing ==
  ASSUME TypeOK
  PROVE  \A c \in Callers :
            /\ call[c] = "idle" => Doing(c) = "idle"
            /\ call[c] \in {"spawn", "release"} => Doing(c) = "asking"
            /\ call[c] = "limited" =>
                 Doing(c) = IF timer = "read" THEN "kept" ELSE "asking"
            /\ call[c] = "select" =>
                 Doing(c) = IF request[c] = "hung" THEN "kept" ELSE "asking"
            /\ call[c] \in CallStates
  BY DEF Doing, Kept, TypeOK

(* A step of one caller, while the timer stays as it is, is at most a Move *)
(* of that caller.                                                         *)
LEMMA OneMoves ==
  ASSUME TypeOK, TypeOK', NEW c \in Callers, UNCHANGED timer,
         \A d \in Callers \ {c} : call'[d] = call[d] /\ request'[d] = request[d]
  PROVE  [d \in Callers |-> Doing(d)]'
           = [[d \in Callers |-> Doing(d)] EXCEPT ![c] = Doing(c)']
<1>1. \A d \in Callers \ {c} : Doing(d)' = Doing(d)
  BY DEF Doing, Kept
<1>2. [d \in Callers |-> Doing(d)]' = [d \in Callers |-> Doing(d)']
  OBVIOUS
<1> HIDE DEF Doing
<1> QED
  BY <1>1, <1>2

LEMMA StepImplements ==
  ASSUME TypeOK, TypeOK', [Next]_vars
  PROVE  [Gateway!Next]_(Gateway!vars)
<1> USE DEF Goes, client
<1> DEFINE doing == [d \in Callers |-> Doing(d)]
<1>m. ASSUME NEW c \in Callers, UNCHANGED <<up, timer>>, up,
             \A d \in Callers \ {c} : call'[d] = call[d] /\ request'[d] = request[d],
             \/ Doing(c)' = Doing(c)
             \/ Doing(c) = "idle" /\ Doing(c)' = "asking"
             \/ Doing(c) = "idle" /\ Doing(c)' = "kept" /\ timer = "read"
             \/ Doing(c) = "asking" /\ Doing(c)' \in {"idle", "kept"}
      PROVE  [Gateway!Next]_(Gateway!vars)
  <2>1. doing' = [doing EXCEPT ![c] = Doing(c)'] /\ doing[c] = Doing(c)
    BY <1>m, OneMoves
  <2>2. CASE Doing(c)' = Doing(c)
    BY <1>m, <2>1, <2>2 DEF Gateway!vars
  <2>3. CASE Doing(c) = "idle" /\ Doing(c)' = "asking"
    <3>1. Gateway!Ask(c)
      BY <1>m, <2>1, <2>3 DEF Gateway!Ask, Gateway!Move
    <3> QED
      BY <3>1 DEF Gateway!Next
  <2>4. CASE Doing(c) = "idle" /\ Doing(c)' = "kept" /\ timer = "read"
    <3>1. Gateway!Limit(c)
      BY <1>m, <2>1, <2>4 DEF Gateway!Limit, Gateway!Move
    <3> QED
      BY <3>1 DEF Gateway!Next
  <2>5. CASE Doing(c) = "asking" /\ Doing(c)' \in {"idle", "kept"}
    <3>1. Gateway!Return(c) \/ Gateway!Hang(c)
      BY <1>m, <2>1, <2>5 DEF Gateway!Return, Gateway!Hang, Gateway!Move
    <3> QED
      BY <3>1 DEF Gateway!Next
  <2> QED
    BY <1>m, <2>2, <2>3, <2>4, <2>5
<1>1. CASE Boot
  <2>1. Gateway!Boot
    BY <1>1 DEF Boot, TypeOK, Gateway!Boot, Doing, Kept
  <2> QED
    BY <2>1 DEF Gateway!Next
<1>2. CASE TimerFires \/ TakeSlot \/ UNCHANGED vars
  BY <1>2 DEF TimerFires, TakeSlot, vars, Gateway!vars, Doing, Kept
<1>3. CASE NilDereference
  <2>1. Gateway!Die
    BY <1>3 DEF NilDereference, Gateway!Die, Doing, AllIdle
  <2> QED
    BY <2>1 DEF Gateway!Next
<1>4. ASSUME NEW c \in Callers, LimitPasses(c)
      PROVE  [Gateway!Next]_(Gateway!vars)
  <2> DEFINE kept == {d \in Callers \ {c} : call[d] = "limited"}
  <2>1. \A d \in kept : Doing(d) = "asking" /\ Doing(d)' = "kept"
    BY <1>4, AllDoing DEF LimitPasses, Doing, Kept, TypeOK
  <2>2. \A d \in Callers \ kept : Doing(d)' = Doing(d)
    BY <1>4 DEF LimitPasses, Doing, Kept, TypeOK
  <2>3. doing' = [d \in Callers |-> IF d \in kept THEN "kept" ELSE doing[d]]
    BY <2>1, <2>2
  <2>4. kept \in SUBSET {d \in Callers : doing[d] = "asking"}
    BY <2>1
  <2>5. Gateway!Spend
    BY <1>4, <2>3, <2>4 DEF LimitPasses, Gateway!Spend
  <2> QED
    BY <2>5 DEF Gateway!Next
<1>5. ASSUME NEW c \in Callers, CheckRpm(c) PROVE [Gateway!Next]_(Gateway!vars)
  BY <1>5, <1>m, AllDoing DEF CheckRpm, TypeOK, Doing, Kept
<1>6. ASSUME NEW c \in Callers,
             Spawn(c) \/ HttpAnswers(c) \/ HttpGoesWrong(c) \/ ReceiveBody(c)
      PROVE  [Gateway!Next]_(Gateway!vars)
  BY <1>6, <1>m DEF Spawn, HttpAnswers, HttpGoesWrong, ReceiveBody, TypeOK,
     Doing, Kept
<1>7. ASSUME NEW c \in Callers, ReceiveError(c) \/ ReleaseSlot(c)
      PROVE  [Gateway!Next]_(Gateway!vars)
  BY <1>7, <1>m DEF ReceiveError, ReleaseSlot, Failed, TypeOK, Doing, Kept
<1> QED
  BY <1>1, <1>2, <1>3, <1>4, <1>5, <1>6, <1>7 DEF Next, Step

(* Every step of the client is one the abstract call may take: a caller is *)
(* kept only by the gateway, or by a limiter whose timer has been read.    *)
THEOREM ClientImplementsCall ==
  Spec => Gateway!Init /\ [][Gateway!Next]_(Gateway!vars)
<1>1. Init => Gateway!Init
  BY DEF Init, Gateway!Init, AllIdle, Doing
<1> QED
  BY <1>1, TypeInit, TypeNext, StepImplements, PTL DEF Spec
=============================================================================
