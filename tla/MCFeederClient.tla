--------------------------- MODULE MCFeederClient ---------------------------
(* Instances of FeederClient small enough for TLC: one caller more than    *)
(* the limiter lets pass.                                                  *)
EXTENDS FeederClient, TLC

ThreeCallers == {"c1", "c2", "c3"}
=============================================================================
