---------------------------- MODULE MCAggregator ----------------------------
(* Instances of Aggregator small enough for TLC.                           *)
EXTENDS Aggregator, TLC

TwoWallets == {"w1", "w2"}
OneSlot    == {"r1"}
TwoSlots   == {"r1", "r2"}
=============================================================================
