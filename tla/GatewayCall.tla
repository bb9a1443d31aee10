----------------------------- MODULE GatewayCall -----------------------------
(***************************************************************************)
(* What the synchronizer and the indexer may take for granted when they    *)
(* ask the feeder gateway for a block: a call ends with a block or an      *)
(* error, or the process dies; only a gateway that never answers keeps a   *)
(* call for ever, or the rate limiter, and that only after it has let one  *)
(* call pass.  Module FeederClient implements it.                          *)
(***************************************************************************)
CONSTANT Callers

VARIABLES
    running,     (* the process runs                                       *)
    spent,       (* its rate limiter has let a waiting call pass           *)
    calls        (* what each caller is doing                              *)

vars == <<running, spent, calls>>

States == {"idle", "asking", "kept"}

Init == running = FALSE /\ spent = FALSE /\ calls = [c \in Callers |-> "idle"]

Boot == ~running /\ running' = TRUE /\ UNCHANGED <<spent, calls>>

Move(c, from, to) ==
    /\ running
    /\ calls[c] = from
    /\ calls' = [calls EXCEPT ![c] = to]
    /\ UNCHANGED <<running, spent>>

Ask(c)    == Move(c, "idle", "asking")
Return(c) == Move(c, "asking", "idle")

(* The gateway never answers.                                              *)
Hang(c) == Move(c, "asking", "kept")

(* The limiter lets one of the calls that wait for it pass, and keeps the  *)
(* others, and later any call that meets it.                               *)
Spend ==
    /\ running /\ ~spent /\ spent' = TRUE
    /\ \E kept \in SUBSET {c \in Callers : calls[c] = "asking"} :
         calls' = [c \in Callers |-> IF c \in kept THEN "kept" ELSE calls[c]]
    /\ UNCHANGED running
Limit(c) == spent /\ Move(c, "idle", "kept")

Die ==
    /\ running
    /\ running' = FALSE
    /\ spent' = FALSE
    /\ calls' = [c \in Callers |-> "idle"]

Next ==
    \/ Boot \/ Die \/ Spend
    \/ \E c \in Callers : Ask(c) \/ Return(c) \/ Hang(c) \/ Limit(c)

Spec == /\ Init /\ [][Next]_vars
        /\ WF_vars(Boot)
        /\ \A c \in Callers : WF_vars(Return(c))
=============================================================================
