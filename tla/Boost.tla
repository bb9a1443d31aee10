------------------------------- MODULE Boost -------------------------------
(***************************************************************************)
(* The boosts on a purchase (internal/leaderboard/boost.go): a multiplier  *)
(* that grows with its value, and one for the project Karathuru that       *)
(* shrinks as the project is funded.  Multipliers are percentages, points  *)
(* are dollars times Precision.                                            *)
(***************************************************************************)
EXTENDS Integers, Sequences, FiniteSetsExt

CONSTANTS
    Precision,       (* 10^6 in the code                                   *)
    ValueSteps,      (* (5000, 300%), (1000, 200%), (500, 150%)            *)
    MilestoneSteps   (* (50000, 300%), (150000, 200%), ... (700000, 110%)  *)

Steps == Seq([step : Nat, coef : Nat \ {0}])
ASSUME BoostAssumption == /\ Precision \in Nat \ {0}
                          /\ ValueSteps \in Steps /\ ValueSteps # <<>>
                          /\ MilestoneSteps \in Steps

(* Both tables are literals of the code: no multiplier takes points away,  *)
(* none grows along its table, and ValueSteps starts at its highest step.  *)
ASSUME TablesAssumption ==
    /\ \A steps \in {ValueSteps, MilestoneSteps} : \A i \in DOMAIN steps :
          steps[i].coef >= 100 /\ \A j \in 1..i : steps[j].coef >= steps[i].coef
    /\ \A i \in DOMAIN ValueSteps : \A j \in 1..(i - 1) :
          ValueSteps[j].step > ValueSteps[i].step

(* mulCoeficient: rounds down.                                             *)
MulCoeficient(points, coef) == (points * coef) \div 100

(* The loops of the boosts stop at the first step that is hit.             *)
AtFirst(points, steps, hit) ==
    IF hit = {} THEN points ELSE MulCoeficient(points, steps[Min(hit)].coef)

(* Definitions named Bad... are never used: each one is a plausible bug in *)
(* the definition after it, and some property rejects it.                  *)

(* ProjectValueBoostCalculator.Apply: by what the purchase is worth, other *)
(* boosts included.                                                        *)
BadValueBoost(points) ==
    AtFirst(points, ValueSteps,
            {i \in DOMAIN ValueSteps : points > ValueSteps[i].step * Precision})
ValueBoost(points) ==
    AtFirst(points, ValueSteps,
            {i \in DOMAIN ValueSteps : points >= ValueSteps[i].step * Precision})

(* KarathuruFundingMilestoneBoostCalculator.Apply: by what had been bought *)
(* of the project at the time of the purchase, itself included.            *)
BadMilestoneBoost(points, minterValue) ==
    AtFirst(points, MilestoneSteps,
            {i \in DOMAIN MilestoneSteps : minterValue >= MilestoneSteps[i].step})
MilestoneBoost(points, minterValue) ==
    AtFirst(points, MilestoneSteps,
            {i \in DOMAIN MilestoneSteps : minterValue <= MilestoneSteps[i].step})

(* ProjectValueBoostCalculator.GetInterval: the boost for a value, the     *)
(* next step above it and its boost; above the highest step there is none. *)
BadGetInterval(v) ==
    LET hit == {i \in DOMAIN ValueSteps : v >= ValueSteps[i].step}
        own == IF hit = {} THEN Len(ValueSteps) ELSE Min(hit)
    IN [boost |-> IF hit = {} THEN 0 ELSE ValueSteps[own].coef,
        next |-> ValueSteps[own].step, nextBoost |-> ValueSteps[own].coef]
GetInterval(v) ==
    LET hit   == {i \in DOMAIN ValueSteps : v >= ValueSteps[i].step}
        above == IF hit = {} THEN Len(ValueSteps) ELSE Min(hit) - 1
    IN [boost     |-> IF hit = {} THEN 0 ELSE ValueSteps[above + 1].coef,
        next      |-> IF above = 0 THEN 0 ELSE ValueSteps[above].step,
        nextBoost |-> IF above = 0 THEN 0 ELSE ValueSteps[above].coef]
=============================================================================
