----------------------------- MODULE MCIndexer -----------------------------
(* Instances of Indexer small enough for TLC.                              *)
EXTENDS Indexer, TLC

(* One contract, three blocks: an event, nothing, a transaction and event. *)
OneContract == {"c1"}
OneContractItems ==
    [c \in OneContract |->
        (3 :> <<"event">>) @@ (4 :> <<>>) @@ (5 :> <<"tx", "event">>)]
=============================================================================
