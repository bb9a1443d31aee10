---------------------------- MODULE MCIngestion ----------------------------
(* One contract and three blocks: a purchase, a transfer, and nothing, so  *)
(* that the latest block gets above every listed one.                      *)
EXTENDS Ingestion, TLC

OneContract == {"c1"}
OneContractItems == "c1" :> ((3 :> <<"event">>) @@ (4 :> <<"event">>)
                              @@ (5 :> <<>>))

Subject == (<<"c1", 3, 1>> :> "minter:buy")
             @@ (<<"c1", 4, 1>> :> "project:transfer")

(* Everything is about one token in one slot of one project.              *)
OneProject == [e \in EventIds |-> "first"]
OneSlot    == [e \in EventIds |-> [n \in 0..Moves |-> 1]]
OneToken   == [e \in EventIds |-> 1]
=============================================================================
