----------------------------- MODULE MCPipeline -----------------------------
(* Instances of Pipeline small enough for TLC.                             *)
EXTENDS Pipeline, TLC

(* One contract on a chain of two blocks; the first, which alone can be    *)
(* overtaken by its successor and lost, has an event.                      *)
OneContract == {"c1"}
OneContractItems == "c1" :> ((3 :> <<"event">>) @@ (4 :> <<>>))
=============================================================================
