------------------------------ MODULE EventLog ------------------------------
(***************************************************************************)
(* What the indexer promises its readers, with no process, storage or bus: *)
(* for each contract a set of finished blocks, a point from which work     *)
(* would resume, and the events handed over so far.  Work may be done      *)
(* again, and the resume point may move back, but                          *)
(*   - nothing below the resume point is unfinished,                       *)
(*   - an event is first handed over when every earlier block is finished, *)
(*   - in the end every block is finished and every event handed over.     *)
(***************************************************************************)
EXTENDS Integers

CONSTANTS
    Contracts,   (* the contracts followed                                 *)
    First,       (* the first and the last block of the chain              *)
    Last,
    Events       (* the events: triples of contract, block and position    *)

VARIABLES
    done,        (* per contract, the finished blocks                      *)
    resume,      (* per contract, where work would resume                  *)
    delivered    (* the events handed over at least once                   *)

vars == <<done, resume, delivered>>

(* Every block of c below b is in the set of finished blocks.              *)
AllBelow(finished, b) == First..(b - 1) \subseteq finished

Init ==
    /\ done = [c \in Contracts |-> {}]
    /\ resume = [c \in Contracts |-> First]
    /\ delivered = {}

(* A block is finished, maybe not for the first time, and the resume point *)
(* moves anywhere that leaves no unfinished block behind.                  *)
Finish(c, b) ==
    /\ AllBelow(done[c], b)
    /\ done' = [done EXCEPT ![c] = @ \union {b}]
    /\ resume' \in {[resume EXCEPT ![c] = r] :
                       r \in {n \in First..Last : AllBelow(done'[c], n)}}
    /\ UNCHANGED delivered

(* The resume point alone is saved.                                        *)
Rewind(c) ==
    /\ resume' \in {[resume EXCEPT ![c] = r] :
                       r \in {n \in First..Last : AllBelow(done[c], n)}}
    /\ UNCHANGED <<done, delivered>>

Deliver(e) ==
    /\ AllBelow(done[e[1]], e[2])
    /\ delivered' = delivered \union {e}
    /\ UNCHANGED <<done, resume>>

Next ==
    \/ \E c \in Contracts : Rewind(c) \/ \E b \in First..Last : Finish(c, b)
    \/ \E e \in Events : Deliver(e)

Spec == Init /\ [][Next]_vars

(* Every block is finished and every event handed over at least once.      *)
AtLeastOnce ==
    /\ \A c \in Contracts : \A b \in First..Last : <>(b \in done[c])
    /\ \A e \in Events : <>(e \in delivered)
=============================================================================
