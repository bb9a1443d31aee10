----------------------------- MODULE MCScoring -----------------------------
(* Events and points small enough for TLC; a point is 2 units.             *)
EXTENDS Scoring, TLC

SmallSteps == << [step |-> 4, coef |-> 300], [step |-> 2, coef |-> 200] >>
SmallMilestones == << [step |-> 2, coef |-> 300], [step |-> 3, coef |-> 200],
                      [step |-> 5, coef |-> 150] >>
EarlyPoints == ("farm" :> 2) @@ ("delicias" :> 1)

Event(id, name, wallet, project, value, recordedAt) ==
    [id |-> id, name |-> name, wallet |-> wallet, project |-> project,
     value |-> value, recordedAt |-> recordedAt]

Buy      == Event(1, "minter:buy", "w", "farm", 5, 1)
Claim    == Event(2, "yielder:claim", "w", "delicias", 1, 1)
Transfer == Event(3, "project:transfer", "w", "farm", 0, 1)
Unnamed  == Event(4, "migrator:migration", "w", "none", 3, 1)
Karat    == Event(5, "minter:buy", "w", "karathuru", 3, 1)
Others   == Event(6, "minter:airdrop", "v", "karathuru", 4, 1)
Offset   == Event(7, "offseter:claim", "w", "delicias", 1, 2)

(* Every builder, ties of every kind, an event without a project, and a    *)
(* milestone that another wallet moves.                                    *)
TiedEvents == {Buy, Claim, Transfer, Unnamed, Karat, Others, Offset}
(* A purchase whose metadata could not be fetched, and one that could.     *)
UnnamedEvents == {Buy, Unnamed}
=============================================================================
