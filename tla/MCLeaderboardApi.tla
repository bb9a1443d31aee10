-------------------------- MODULE MCLeaderboardApi --------------------------
(* Instances of LeaderboardApi small enough for TLC.  The score of one     *)
(* wallet is too large for an INT.                                         *)
EXTENDS LeaderboardApi, TLC

TwoWallets == {"w1", "w2"}
SomeLimits == {-1, 0, 2}
TwoSlots   == {"r1", "r2"}
Scores     == [w \in TwoWallets |-> IF w = "w1" THEN 5 ELSE 9]
=============================================================================
