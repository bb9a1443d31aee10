---------------------------- MODULE FeederClient ----------------------------
(***************************************************************************)
(* The client of the feeder gateway (internal/starknet/rpc.go), shared by  *)
(* all goroutines of a process that ask for blocks.  Get starts two        *)
(* goroutines: one takes a slot of the buffered channel currentRequests,   *)
(* the other makes the HTTP request and sends the body or an error to the  *)
(* caller, over channels of this call alone.  After an error that second   *)
(* goroutine does not return: when there is no response it dereferences    *)
(* nil, which ends the process, otherwise it sends once more, to a channel *)
(* nobody reads any more, and stays there for good.                        *)
(***************************************************************************)
EXTENDS Integers, FiniteSets

CONSTANTS
    Callers,       (* goroutines that ask for blocks                       *)
    MaxRpm,        (* maxRpm, the capacity of currentRequests              *)
    MaxFailures    (* bound: requests that go wrong                        *)

ASSUME CallersAssumption == Callers # {} /\ IsFiniteSet(Callers)
ASSUME LimitsAssumption == MaxRpm \in Nat \ {0} /\ MaxFailures \in Nat

VARIABLES
    up,         (* the process runs                                        *)
    call,       (* where each caller is in Get                             *)
    request,    (* where the HTTP goroutine of its call is                 *)
    slots,      (* len(currentRequests)                                    *)
    taking,     (* goroutines about to send to currentRequests             *)
    timer,      (* the one-shot timer of a minute                          *)
    doomed,     (* HTTP goroutines about to dereference a nil response     *)
    leaked,     (* HTTP goroutines left with a channel nobody reads        *)
    failures    (* history: requests gone wrong so far                     *)

client == <<slots, taking, timer>>
vars   == <<up, call, request, slots, taking, timer, doomed, leaked, failures>>

CallStates    == {"idle", "limited", "spawn", "select", "release"}
RequestStates == {"none", "http", "hung", "noResponse", "badStatus",
                  "badBody", "body"}
Timer == {"running", "fired", "read"}

AllIdle == [c \in Callers |-> "idle"]
NoneSent == [c \in Callers |-> "none"]

(* The callers that have started a request and not left Get.               *)
InFlight == {c \in Callers : call[c] \in {"select", "release"}}

Init ==
    /\ up = FALSE
    /\ call = AllIdle
    /\ request = NoneSent
    /\ slots = 0 /\ taking = 0 /\ timer = "running"
    /\ doomed = 0 /\ leaked = 0 /\ failures = 0

---------------------------------------------------------------------------
(* newCLient, when the process starts.                                     *)
Boot ==
    /\ ~up
    /\ up' = TRUE
    /\ timer' = "running"
    /\ UNCHANGED <<call, request, slots, taking, doomed, leaked, failures>>

(* The client has existed for a minute: its timer fires, once.             *)
TimerFires ==
    /\ up /\ timer = "running"
    /\ timer' = "fired"
    /\ UNCHANGED <<up, call, request, slots, taking, doomed, leaked, failures>>

Goes(c, from, to) ==
    /\ up /\ call[c] = from
    /\ call' = [call EXCEPT ![c] = to]

(* Definitions named Bad... are never used: each one is a plausible bug in *)
(* the definition after it, and some property of this module rejects it.   *)

(* checkRpm.                                                               *)
BadCheckRpm(c) ==
    /\ Goes(c, "idle", IF slots + 1 >= MaxRpm THEN "limited" ELSE "spawn")
    /\ UNCHANGED <<up, request, client, doomed, leaked, failures>>
CheckRpm(c) ==
    /\ Goes(c, "idle", IF slots >= MaxRpm THEN "limited" ELSE "spawn")
    /\ UNCHANGED <<up, request, client, doomed, leaked, failures>>

(* ... <-c.timer.C, which has one value for ever.                          *)
LimitPasses(c) ==
    /\ timer = "fired" /\ timer' = "read"
    /\ Goes(c, "limited", "spawn")
    /\ UNCHANGED <<up, request, slots, taking, doomed, leaked, failures>>

(* Get starts its two goroutines.                                          *)
Spawn(c) ==
    /\ Goes(c, "spawn", "select")
    /\ taking' = taking + 1
    /\ request' = [request EXCEPT ![c] = "http"]
    /\ UNCHANGED <<up, slots, timer, doomed, leaked, failures>>

(* c.currentRequests <- true, as soon as there is room.                    *)
BadTakeSlot ==
    /\ up /\ taking > 0
    /\ taking' = taking - 1
    /\ slots' = slots + 1
    /\ UNCHANGED <<up, call, request, timer, doomed, leaked, failures>>
TakeSlot ==
    /\ up /\ taking > 0 /\ slots < MaxRpm
    /\ taking' = taking - 1
    /\ slots' = slots + 1
    /\ UNCHANGED <<up, call, request, timer, doomed, leaked, failures>>

(* http.Get and reading the body: a body with status 200, or a failure of  *)
(* the connection, of the status, or in the middle of the body; or nothing *)
(* at all, for there is no timeout.                                        *)
HttpAnswers(c) ==
    /\ up /\ request[c] = "http"
    /\ request' = [request EXCEPT ![c] = "body"]
    /\ UNCHANGED <<up, call, client, doomed, leaked, failures>>

HttpGoesWrong(c) ==
    /\ up /\ request[c] = "http" /\ failures < MaxFailures
    /\ failures' = failures + 1
    /\ \E how \in {"noResponse", "badStatus", "badBody", "hung"} :
         request' = [request EXCEPT ![c] = how]
    /\ UNCHANGED <<up, call, client, doomed, leaked>>

(* The caller's select meets the goroutine's send: of the body ...         *)
ReceiveBody(c) ==
    /\ request[c] = "body"
    /\ Goes(c, "select", "release")
    /\ request' = [request EXCEPT ![c] = "none"]
    /\ UNCHANGED <<up, client, doomed, leaked, failures>>

(* ... or of an error, after which the goroutine goes on.                  *)
BadFailed == {"noResponse", "badStatus"}
Failed    == {"noResponse", "badStatus", "badBody"}
ReceiveError(c) ==
    /\ request[c] \in Failed
    /\ Goes(c, "select", "release")
    /\ request' = [request EXCEPT ![c] = "none"]
    /\ IF request[c] = "noResponse"
         THEN doomed' = doomed + 1 /\ UNCHANGED leaked
         ELSE leaked' = leaked + 1 /\ UNCHANGED doomed
    /\ UNCHANGED <<up, client, failures>>

(* <-c.currentRequests, whoever took the slot.                             *)
ReleaseSlot(c) ==
    /\ slots > 0
    /\ slots' = slots - 1
    /\ Goes(c, "release", "idle")
    /\ UNCHANGED <<up, request, taking, timer, doomed, leaked, failures>>

(* resp.Body of a nil response: the panic ends the process.  Everything it *)
(* held is gone.                                                           *)
NilDereference ==
    /\ up /\ doomed > 0
    /\ up' = FALSE
    /\ call' = AllIdle
    /\ request' = NoneSent
    /\ slots' = 0 /\ taking' = 0 /\ timer' = "running"
    /\ doomed' = 0 /\ leaked' = 0
    /\ UNCHANGED failures

Step(c) ==
    \/ LimitPasses(c)
    \/ Spawn(c)
    \/ HttpAnswers(c)
    \/ ReceiveBody(c)
    \/ ReceiveError(c)
    \/ ReleaseSlot(c)

Next ==
    \/ Boot
    \/ TimerFires
    \/ TakeSlot
    \/ NilDereference
    \/ \E c \in Callers : CheckRpm(c) \/ Step(c) \/ HttpGoesWrong(c)

Spec == Init /\ [][Next]_vars

(* Goroutines are scheduled, the host restarts the process, and an HTTP    *)
(* request that does not hang ends.  Strong fairness for the release: a    *)
(* Go channel serves the goroutines that wait for it in turn.              *)
Fairness ==
    /\ WF_vars(Boot) /\ WF_vars(TimerFires) /\ WF_vars(TakeSlot)
    /\ WF_vars(NilDereference)
    /\ \A c \in Callers : WF_vars(Step(c)) /\ SF_vars(ReleaseSlot(c))

FairSpec == Spec /\ Fairness

---------------------------------------------------------------------------
(* Properties.                                                             *)

(* Every variable keeps its shape; a call has a request exactly while the  *)
(* caller waits for it; a stopped process has nothing left.                *)
TypeOK ==
    /\ up \in BOOLEAN
    /\ call \in [Callers -> CallStates]
    /\ request \in [Callers -> RequestStates]
    /\ slots \in 0..MaxRpm
    /\ taking \in Nat
    /\ timer \in Timer
    /\ doomed \in Nat /\ leaked \in Nat
    /\ failures \in 0..MaxFailures
    /\ \A c \in Callers : call[c] = "select" <=> request[c] # "none"
    /\ ~up => call = AllIdle /\ slots = 0 /\ taking = 0 /\ timer = "running"

(* Get never waits for its slot in vain and no slot outlives its call:     *)
(* although the slot is taken by a goroutine nobody waits for and given    *)
(* back by whoever finishes first, the slots taken and about to be taken   *)
(* are as many as the calls in flight, and the goroutines left behind by   *)
(* failed requests hold none.                                              *)
SlotsAreCalls == slots + taking = Cardinality(InFlight)

(* The limiter stops a caller only while maxRpm other calls are in flight: *)
(* what it limits is concurrency, whatever the name says of minutes.       *)
OnlyBusyLimits ==
    [][\A c \in Callers :
          call[c] = "idle" /\ call'[c] = "limited"
            => Cardinality(InFlight) >= MaxRpm]_vars

(* The client implements the abstract call of module GatewayCall: every    *)
(* call ends, unless the process dies, the gateway never answers, or the   *)
(* limiter's only timer has been read by another call.                     *)
Kept(c) == (call[c] = "limited" /\ timer = "read") \/ request[c] = "hung"
Doing(c) ==
    IF call[c] = "idle" THEN "idle" ELSE IF Kept(c) THEN "kept" ELSE "asking"
Gateway == INSTANCE GatewayCall WITH
    running <- up, spent <- timer = "read", calls <- [c \in Callers |-> Doing(c)]
ImplementsGateway == Gateway!Spec
=============================================================================
