--------------------------- MODULE MCSubscribers ---------------------------
(* Instances of Subscribers small enough for TLC.                          *)
EXTENDS Subscribers, TLC

(* A token that is minted and changes its slot, a purchase, and an airdrop *)
(* of another project, whose handler the database may fail.                *)
MixedSubjects ==
    ("mint" :> "project:transfer") @@ ("change" :> "project:slot-changed")
    @@ ("buy" :> "minter:buy") @@ ("airdrop" :> "minter:airdrop")
AirdropFails == {"minter:airdrop"}

(* A token whose transfer may be recorded under the wrong slot.            *)
WaitSubjects ==
    ("mint" :> "project:transfer") @@ ("value" :> "project:transfer-value")

MixedEvents == DOMAIN MixedSubjects
WaitEvents  == DOMAIN WaitSubjects

(* Everything else is about one token in one project, which moves from its *)
(* first slot to its second.                                               *)
TwoProjects ==
    [e \in Events |->
        IF SubjectOf[e] = "minter:airdrop" THEN "second" ELSE "first"]
OneProject == [e \in Events |-> "first"]
SlotsOf    == [e \in Events |-> [n \in 0..Moves |->
                 IF SubjectOf[e] \in ProjectSubjects THEN n + 1 ELSE 1]]
OneToken   == [e \in Events |-> 1]
=============================================================================
