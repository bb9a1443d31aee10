------------------------------- MODULE MCApi -------------------------------
(* Two wallets, scorings of one and two points, and the steps of the code  *)
(* with smaller ratios.                                                    *)
EXTENDS Api

CONSTANTS A, B

Score(rule, points, boosts) ==
    [rule |-> rule, points |-> points, boosts |-> boosts, event |-> rule,
     slot |-> "1", project |-> "p", date |-> 1000]
ByTotal(scores, total) ==
    [scores |-> scores, total |-> total,
     categories |-> [fund |-> total, farming |-> 0, other |-> 0]]
Funded    == Score("fund", 7, "x1.5 - value")
Farmed    == Score("farming", 3, "")
Scorings  == {ByTotal(<<Funded>>, 7), ByTotal(<<Funded, Farmed>>, 10)}

OtherLine == [id |-> "", wallet_address |-> "", points |-> <<Nil>>,
              categories |-> [fund |-> "", farming |-> "", other |-> ""],
              total_score |-> "", position |-> 0]
HalfPoint == [rule |-> Nil, value |-> Nil, metadata |-> Nil]
MCLines   == {Nil, OtherLine, [OtherLine EXCEPT !.categories = Nil],
              [OtherLine EXCEPT !.points = <<HalfPoint>>]}

Steps3 == << [step |-> 20, coef |-> 300], [step |-> 8, coef |-> 200],
             [step |-> 5, coef |-> 150] >>
Milestones == << [step |-> 200, coef |-> 300] >>
=============================================================================
