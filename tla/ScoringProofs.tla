--------------------------- MODULE ScoringProofs ---------------------------
(***************************************************************************)
(* Proofs about module Scoring, for any events, any order of recording     *)
(* them, any ties, any steps of the boosts and any failing queries.        *)
(***************************************************************************)
EXTENDS Scoring, FiniteSetTheorems, WellFoundedInduction, TLAPS

(* A set of naturals that is not empty has a least member.                 *)
LEMMA MinIsMember ==
  ASSUME NEW S, S \subseteq Nat, S # {}
  PROVE  Min(S) \in S /\ \A y \in S : Min(S) <= y
<1>1. \E x \in S : \A y \in S : ~(<<y, x>> \in OpToRel(<, Nat))
  BY NatLessThanWellFounded, WFMin
<1>2. \A x, y \in S : ~(<<y, x>> \in OpToRel(<, Nat)) => x <= y
  BY DEF OpToRel
<1>3. \E x \in S : \A y \in S : x <= y
  BY <1>1, <1>2
<1> QED
  BY <1>3 DEF Min

(* Induction over finite sets: a family of them has a smallest one.        *)
LEMMA SmallestMember ==
  ASSUME NEW F, F # {}, \A s \in F : IsFiniteSet(s)
  PROVE  \E s \in F :
           Cardinality(s) \in Nat /\ \A t \in F : Cardinality(s) <= Cardinality(t)
<1> DEFINE Sizes == {Cardinality(s) : s \in F}
<1>1. Sizes \subseteq Nat /\ Sizes # {}
  BY FS_CardinalityType
<1>2. Min(Sizes) \in Sizes /\ \A n \in Sizes : Min(Sizes) <= n
  BY <1>1, MinIsMember
<1> QED
  BY <1>1, <1>2

LEMMA SmallerSets ==
  ASSUME NEW s, NEW x \in s, IsFiniteSet(s)
  PROVE  /\ IsFiniteSet(s \ {x}) /\ s \ {x} \in SUBSET s
         /\ Cardinality(s) \in Nat /\ Cardinality(s \ {x}) \in Nat
         /\ Cardinality(s \ {x}) = Cardinality(s) - 1
<1>1. Cardinality(s) \in Nat
  BY FS_CardinalityType
<1>2. IsFiniteSet(s \ {x}) /\ Cardinality(s \ {x}) = Cardinality(s) - 1
  BY FS_RemoveElement
<1>3. Cardinality(s \ {x}) \in Nat
  BY <1>2, FS_CardinalityType
<1> QED
  BY <1>1, <1>2, <1>3

(* The folds of Scoring, as the sum over the members of a set; Any is the   *)
(* member its recursion takes next.                                        *)
Sum(f, S) == FoldFunctionOnSet(+, 0, f, S)
Any(s) == CHOOSE x \in s : TRUE
FirstSum(f, s, it) == IF s = {} THEN 0 ELSE f[Any(s)] + it[s \ {Any(s)}]
Recursion(f, S, it) == it = [s \in SUBSET S |-> FirstSum(f, s, it)]

LEMMA SumIsRecursive ==
  ASSUME NEW f, NEW S
  PROVE  Sum(f, S) = (CHOOSE it : Recursion(f, S, it))[S]
  BY DEF Sum, FoldFunctionOnSet, MapThenFoldSet, Recursion, FirstSum, Any

(* The recursion has a solution over a finite set...                       *)
LEMMA RecursionExists ==
  ASSUME NEW f, NEW S, IsFiniteSet(S)
  PROVE  \E it : Recursion(f, S, it)
<1> DEFINE UpTo(n) == {s \in SUBSET S : Cardinality(s) <= n}
           Partial(n, it) == it = [s \in UpTo(n) |-> FirstSum(f, s, it)]
           Failing == {n \in Nat : ~\E it : Partial(n, it)}
<1>0. \A s \in SUBSET S : IsFiniteSet(s) /\ Cardinality(s) \in Nat
                          /\ Cardinality(s) <= Cardinality(S)
  BY FS_Subset, FS_CardinalityType
<1>1. \E it : Partial(0, it)
  <2> DEFINE it == [s \in UpTo(0) |-> 0]
  <2>1. \A s \in UpTo(0) : s = {}
    BY <1>0, FS_EmptySet
  <2>2. Partial(0, it)
    BY <2>1 DEF FirstSum
  <2> QED
    BY <2>2
<1>2. ASSUME NEW n \in Nat, NEW it, Partial(n, it)
      PROVE  \E jt : Partial(n + 1, jt)
  <2> DEFINE jt == [s \in UpTo(n + 1) |-> FirstSum(f, s, it)]
  <2>1. \A s \in UpTo(n + 1) : s # {} => s \ {Any(s)} \in UpTo(n)
    <3> SUFFICES ASSUME NEW s \in UpTo(n + 1), s # {}
                 PROVE  s \ {Any(s)} \in UpTo(n)
      OBVIOUS
    <3>1. Any(s) \in s
      BY DEF Any
    <3>2. /\ IsFiniteSet(s) /\ Cardinality(s) \in Nat /\ s \in SUBSET S
          /\ Cardinality(s) <= n + 1
      BY <1>0
    <3>3. s \ {Any(s)} \in SUBSET S /\ Cardinality(s \ {Any(s)}) <= n
      BY <3>1, <3>2, SmallerSets
    <3> QED
      BY <3>3
  <2>2. \A s \in UpTo(n) : s \in UpTo(n + 1)
    BY <1>0
  <2>3. \A s \in UpTo(n) : it[s] = FirstSum(f, s, it)
    BY <1>2
  <2> HIDE DEF UpTo
  <2>4. \A s \in UpTo(n) : jt[s] = it[s]
    BY <2>2, <2>3
  <2>5. \A s \in UpTo(n + 1) : FirstSum(f, s, it) = FirstSum(f, s, jt)
    <3> HIDE DEF jt
    <3> QED
      BY <2>1, <2>4 DEF FirstSum
  <2>6. Partial(n + 1, jt)
    BY <2>5
  <2> QED
    BY <2>6
<1>3. Failing = {}
  <2> SUFFICES ASSUME Failing # {} PROVE FALSE
    OBVIOUS
  <2> DEFINE m == Min(Failing)
  <2>1. m \in Failing /\ \A n \in Failing : m <= n
    BY MinIsMember
  <2> HIDE DEF m, Partial
  <2>2. m # 0
    BY <1>1, <2>1
  <2>3. m - 1 \in Nat /\ m - 1 \notin Failing
    BY <2>1, <2>2
  <2>4. PICK it : Partial(m - 1, it)
    BY <2>3
  <2>5. \E jt : Partial(m - 1 + 1, jt)
    BY <1>2, <2>3, <2>4
  <2> QED
    BY <2>1, <2>5
<1>4. PICK it : Partial(Cardinality(S), it)
  BY <1>3, FS_CardinalityType
<1>5. UpTo(Cardinality(S)) = SUBSET S
  BY <1>0
<1> QED
  BY <1>4, <1>5 DEF Recursion

(* Induction over the subsets of a finite set: the property is the set of  *)
(* those that have it.                                                     *)
LEMMA SubsetInduction ==
  ASSUME NEW S, IsFiniteSet(S), NEW G, {} \in G,
         \A s \in SUBSET S : (s # {} /\ \A x \in s : s \ {x} \in G) => s \in G
  PROVE  SUBSET S \subseteq G
<1> DEFINE Failing == (SUBSET S) \ G
<1>1. SUFFICES ASSUME Failing # {} PROVE FALSE
  OBVIOUS
<1>2. \A s \in Failing : IsFiniteSet(s)
  BY FS_Subset
<1>3. PICK s \in Failing :
        /\ Cardinality(s) \in Nat
        /\ \A t \in Failing : Cardinality(s) <= Cardinality(t)
  <2> HIDE DEF Failing
  <2> QED
    BY <1>1, <1>2, SmallestMember
<1>4. PICK x \in s : s \ {x} \notin G
  BY <1>3
<1>5. s \ {x} \in Failing
  BY <1>3, <1>4
<1>6. /\ Cardinality(s) \in Nat /\ Cardinality(s \ {x}) \in Nat
      /\ Cardinality(s \ {x}) = Cardinality(s) - 1
  BY <1>2, <1>3, SmallerSets
<1> QED
  BY <1>3, <1>5, <1>6

(* ... which does not depend on the set it is solved over...               *)
LEMMA RecursionUnique ==
  ASSUME NEW f, NEW S, NEW T, IsFiniteSet(S), T \subseteq S,
         NEW it, Recursion(f, S, it), NEW jt, Recursion(f, T, jt)
  PROVE  it[T] = jt[T]
<1> DEFINE G == {s \in SUBSET T : it[s] = jt[s]}
<1>1. IsFiniteSet(T)
  BY FS_Subset
<1>2. \A s \in SUBSET T :
        it[s] = FirstSum(f, s, it) /\ jt[s] = FirstSum(f, s, jt)
  BY DEF Recursion
<1>3. {} \in G
  BY <1>2 DEF FirstSum
<1>4. ASSUME NEW s \in SUBSET T, s # {}, \A x \in s : s \ {x} \in G
      PROVE  s \in G
  <2>1. Any(s) \in s
    BY <1>4 DEF Any
  <2> QED
    BY <1>2, <1>4, <2>1 DEF FirstSum
<1> HIDE DEF G
<1>5. SUBSET T \subseteq G
  BY <1>1, <1>3, <1>4, SubsetInduction
<1> QED
  BY <1>5 DEF G

(* ... so that a sum is a term and the sum of the rest.                    *)
LEMMA SumRecursion ==
  ASSUME NEW f, NEW S, IsFiniteSet(S)
  PROVE  /\ S = {} => Sum(f, S) = 0
         /\ S # {} =>
              Any(S) \in S /\ Sum(f, S) = f[Any(S)] + Sum(f, S \ {Any(S)})
<1> DEFINE it == CHOOSE it : Recursion(f, S, it)
           T  == S \ {Any(S)}
           jt == CHOOSE jt : Recursion(f, T, jt)
<1>1. Recursion(f, S, it) /\ Sum(f, S) = it[S]
  BY RecursionExists, SumIsRecursive
<1>2. Sum(f, S) = FirstSum(f, S, it)
  BY <1>1 DEF Recursion
<1>3. T \subseteq S /\ IsFiniteSet(T)
  BY FS_Subset
<1>4. Recursion(f, T, jt) /\ Sum(f, T) = jt[T]
  BY <1>3, RecursionExists, SumIsRecursive
<1>5. it[T] = jt[T]
  <2> HIDE DEF it, jt, T
  <2> QED
    BY <1>1, <1>3, <1>4, RecursionUnique
<1>6. S # {} => Any(S) \in S
  BY DEF Any
<1> QED
  BY <1>2, <1>4, <1>5, <1>6 DEF FirstSum

LEMMA SumOfNone ==
  ASSUME NEW f
  PROVE  Sum(f, {}) = 0
  BY FS_EmptySet, SumRecursion

(* A sum of naturals is a natural.                                         *)
LEMMA SumIsNat ==
  ASSUME NEW S, IsFiniteSet(S), NEW f, \A x \in S : f[x] \in Nat
  PROVE  Sum(f, S) \in Nat
<1> DEFINE G == {s \in SUBSET S : Sum(f, s) \in Nat}
<1>0. \A s \in SUBSET S : IsFiniteSet(s)
  BY FS_Subset
<1>1. {} \in G
  BY SumOfNone
<1>2. ASSUME NEW s \in SUBSET S, s # {}, \A x \in s : s \ {x} \in G
      PROVE  s \in G
  <2>1. PICK x \in s : Sum(f, s) = f[x] + Sum(f, s \ {x})
    BY <1>0, <1>2, SumRecursion
  <2>2. Sum(f, s \ {x}) \in Nat /\ f[x] \in Nat
    BY <1>2
  <2> QED
    BY <2>1, <2>2
<1> HIDE DEF G
<1>3. SUBSET S \subseteq G
  BY <1>1, <1>2, SubsetInduction
<1> QED
  BY <1>3 DEF G

(* Any member may be the first.                                            *)
LEMMA SumOfAny ==
  ASSUME NEW S, IsFiniteSet(S), NEW f, \A x \in S : f[x] \in Nat, NEW x \in S
  PROVE  Sum(f, S) = f[x] + Sum(f, S \ {x})
<1> DEFINE G == {s \in SUBSET S :
                   \A y \in s : Sum(f, s) = f[y] + Sum(f, s \ {y})}
<1>0. \A s \in SUBSET S : IsFiniteSet(s) /\ Sum(f, s) \in Nat
  BY FS_Subset, SumIsNat
<1>1. {} \in G
  OBVIOUS
<1>2. ASSUME NEW s \in SUBSET S, s # {}, \A y \in s : s \ {y} \in G
      PROVE  s \in G
  <2> SUFFICES ASSUME NEW y \in s PROVE Sum(f, s) = f[y] + Sum(f, s \ {y})
    OBVIOUS
  <2>0. IsFiniteSet(s)
    BY <1>0
  <2>4. s # {} /\ \A z \in s : s \ {z} \in G
    BY <1>2
  <2>5. Any(s) \in s /\ Sum(f, s) = f[Any(s)] + Sum(f, s \ {Any(s)})
    BY <2>0, <2>4, SumRecursion
  <2>1. PICK z \in s : Sum(f, s) = f[z] + Sum(f, s \ {z})
    BY <2>5
  <2>2. CASE y # z
    <3>1. Sum(f, s \ {z}) = f[y] + Sum(f, (s \ {z}) \ {y})
      BY <1>2, <2>2
    <3>2. Sum(f, s \ {y}) = f[z] + Sum(f, (s \ {y}) \ {z})
      BY <1>2, <2>2
    <3>3. (s \ {z}) \ {y} = (s \ {y}) \ {z}
      OBVIOUS
    <3>4. /\ f[y] \in Nat /\ f[z] \in Nat
          /\ Sum(f, (s \ {z}) \ {y}) \in Nat
      BY <1>0
    <3>5. f[z] + (f[y] + Sum(f, (s \ {z}) \ {y}))
            = f[y] + (f[z] + Sum(f, (s \ {z}) \ {y}))
      BY <3>4
    <3> QED
      BY <2>1, <3>1, <3>2, <3>3, <3>5, Zenon
  <2> QED
    BY <2>1, <2>2
<1> HIDE DEF G
<1>3. SUBSET S \subseteq G
  BY <1>1, <1>2, SubsetInduction
<1> QED
  BY <1>3 DEF G

(* The sum over two sets without a common member.                          *)
LEMMA SumOfUnion ==
  ASSUME NEW S, IsFiniteSet(S), NEW T, IsFiniteSet(T), S \cap T = {},
         NEW f, \A x \in S \union T : f[x] \in Nat
  PROVE  Sum(f, S \union T) = Sum(f, S) + Sum(f, T)
<1> DEFINE G == {t \in SUBSET T : Sum(f, S \union t) = Sum(f, S) + Sum(f, t)}
<1>0. \A t \in SUBSET T : /\ IsFiniteSet(t) /\ Sum(f, t) \in Nat
                          /\ IsFiniteSet(S \union t)
  BY FS_Subset, FS_Union, SumIsNat
<1>1. Sum(f, S) \in Nat
  BY SumIsNat
<1>2. {} \in G
  <2>1. Sum(f, {}) = 0 /\ S \union {} = S
    BY SumOfNone
  <2> QED
    BY <1>1, <2>1
<1>3. ASSUME NEW t \in SUBSET T, t # {}, \A y \in t : t \ {y} \in G
      PROVE  t \in G
  <2>1. PICK y \in t : TRUE
    BY <1>3
  <2>2. Sum(f, t) = f[y] + Sum(f, t \ {y})
    BY <1>0, SumOfAny
  <2>3. Sum(f, S \union t) = f[y] + Sum(f, (S \union t) \ {y})
    BY <1>0, SumOfAny
  <2>4. (S \union t) \ {y} = S \union (t \ {y})
    OBVIOUS
  <2>5. Sum(f, S \union (t \ {y})) = Sum(f, S) + Sum(f, t \ {y})
    BY <1>3
  <2>6. f[y] \in Nat /\ Sum(f, t \ {y}) \in Nat
    BY <1>0
  <2> QED
    BY <1>1, <2>2, <2>3, <2>4, <2>5, <2>6
<1> HIDE DEF G
<1>4. SUBSET T \subseteq G
  BY <1>2, <1>3, SubsetInduction
<1> QED
  BY <1>4 DEF G

(* A sum over more members is no less.                                     *)
LEMMA SumGrows ==
  ASSUME NEW T, IsFiniteSet(T), NEW S \in SUBSET T,
         NEW f, \A x \in T : f[x] \in Nat
  PROVE  Sum(f, S) <= Sum(f, T)
<1>1. IsFiniteSet(S) /\ IsFiniteSet(T \ S)
  BY FS_Subset
<1>2. T = S \union (T \ S)
  OBVIOUS
<1>3. Sum(f, T) = Sum(f, S) + Sum(f, T \ S)
  BY <1>1, <1>2, SumOfUnion
<1>4. Sum(f, S) \in Nat /\ Sum(f, T \ S) \in Nat
  BY <1>1, SumIsNat
<1> QED
  BY <1>3, <1>4

(* It depends on the function's values on the set only.                    *)
LEMMA SumOfSame ==
  ASSUME NEW S, IsFiniteSet(S), NEW f, NEW g, \A x \in S : f[x] = g[x]
  PROVE  Sum(f, S) = Sum(g, S)
<1> DEFINE G == {s \in SUBSET S : Sum(f, s) = Sum(g, s)}
<1>1. {} \in G
  BY SumOfNone
<1>2. ASSUME NEW s \in SUBSET S, s # {}, \A y \in s : s \ {y} \in G
      PROVE  s \in G
  <2>1. IsFiniteSet(s) /\ Any(s) \in s
    BY <1>2, FS_Subset DEF Any
  <2>2. /\ Sum(f, s) = f[Any(s)] + Sum(f, s \ {Any(s)})
        /\ Sum(g, s) = g[Any(s)] + Sum(g, s \ {Any(s)})
    BY <1>2, <2>1, SumRecursion
  <2> QED
    BY <1>2, <2>1, <2>2
<1> HIDE DEF G
<1>3. SUBSET S \subseteq G
  BY <1>1, <1>2, SubsetInduction
<1> QED
  BY <1>3 DEF G

---------------------------------------------------------------------------
USE BoostAssumption, EventsAssumption, PointsAssumption
    DEF BoostAssumption, EventsAssumption, PointsAssumption

LEMMA Elements ==
  ASSUME NEW S, NEW q \in Seq(S), NEW i \in DOMAIN q
  PROVE  q[i] \in S
OBVIOUS

(* The boosts turn points into points.                                     *)
LEMMA MulType ==
  ASSUME NEW points \in Nat, NEW coef \in Nat
  PROVE  MulCoeficient(points, coef) \in Nat
<1>1. points * coef \in Nat
  OBVIOUS
<1> QED
  BY <1>1 DEF MulCoeficient

(* The entries of a boost's table.                                         *)
LEMMA StepFields ==
  ASSUME NEW steps \in Steps
  PROVE  /\ DOMAIN steps = 1..Len(steps) /\ Len(steps) \in Nat
         /\ \A i \in DOMAIN steps :
               steps[i].step \in Nat /\ steps[i].coef \in Nat
<1> DEFINE Step == [step : Nat, coef : Nat \ {0}]
<1>1. steps \in Seq(Step)
  BY DEF Steps
<1> HIDE DEF Step
<1>2. DOMAIN steps = 1..Len(steps) /\ Len(steps) \in Nat
  BY <1>1
<1>3. ASSUME NEW i \in DOMAIN steps
      PROVE  steps[i].step \in Nat /\ steps[i].coef \in Nat
  <2>1. steps[i] \in Step
    BY <1>1, Elements
  <2> QED
    BY <2>1 DEF Step
<1> QED
  BY <1>2, <1>3

LEMMA AtFirstType ==
  ASSUME NEW points \in Nat, NEW steps \in Steps, NEW hit,
         hit \subseteq DOMAIN steps
  PROVE  AtFirst(points, steps, hit) \in Nat
<1>1. CASE hit = {}
  BY <1>1 DEF AtFirst
<1>2. CASE hit # {}
  <2>1. hit \subseteq Nat
    BY StepFields
  <2>2. Min(hit) \in DOMAIN steps
    BY <1>2, <2>1, MinIsMember
  <2>3. \A i \in DOMAIN steps : steps[i].coef \in Nat
    BY StepFields
  <2> QED
    BY <1>2, <2>2, <2>3, MulType DEF AtFirst
<1> QED
  BY <1>1, <1>2

LEMMA BoostedType ==
  ASSUME NEW e \in DomainEvents, NEW answered \in BOOLEAN
  PROVE  BoostedPoints(e, answered) \in Nat
<1>1. \A points \in Nat : \A value : MilestoneBoost(points, value) \in Nat
  BY AtFirstType DEF MilestoneBoost
<1>2. \A points \in Nat : ValueBoost(points) \in Nat
  BY AtFirstType DEF ValueBoost
<1> QED
  BY <1>1, <1>2 DEF BoostedPoints

---------------------------------------------------------------------------
(* What the builders keep true of a list of scores.                        *)
Rewarding == {"number_of_projects", "early_adopter"}
Once(list) ==
  \A i, j \in DOMAIN list :
    (/\ list[i].rule = list[j].rule /\ list[i].rule \in Rewarding
     /\ list[i].event.project = list[j].event.project) => i = j
FixedPoints(list) ==
  \A i \in DOMAIN list : list[i].rule = "number_of_projects" =>
                           list[i].points = ProjectPoints * Precision
Good(list) == list \in Seq(Score) /\ Once(list) /\ FixedPoints(list)
Prefix(short, long) ==
  /\ Len(short) <= Len(long)
  /\ \A i \in DOMAIN short : i \in DOMAIN long /\ long[i] = short[i]

(* What a builder may add to a list: nothing, or one score that is new     *)
(* where it has to be, and fixed where it has to be.                       *)
Adds(list, more) ==
  \/ more = <<>>
  \/ \E s \in Score :
       /\ more = <<s>>
       /\ s.rule \in Rewarding =>
            ~RuleWasApplied(s.rule, s.event.project, list)
       /\ s.rule = "number_of_projects" => s.points = ProjectPoints * Precision

LEMMA AddsGood ==
  ASSUME NEW list, Good(list), NEW more, Adds(list, more)
  PROVE  Good(list \o more) /\ Prefix(list, list \o more)
<1>0. list \in Seq(Score)
  BY DEF Good
<1>1. CASE more = <<>>
  <2>1. list \o more = list
    BY <1>0, <1>1
  <2> QED
    BY <1>0, <2>1 DEF Good, Prefix
<1>2. CASE more # <<>>
  <2>1. PICK s \in Score :
          /\ more = <<s>>
          /\ s.rule \in Rewarding =>
               ~RuleWasApplied(s.rule, s.event.project, list)
          /\ s.rule = "number_of_projects" => s.points = ProjectPoints * Precision
    BY <1>2 DEF Adds
  <2> DEFINE new == list \o <<s>>
  <2>2. /\ new \in Seq(Score) /\ Len(new) = Len(list) + 1
        /\ DOMAIN new = 1..(Len(list) + 1) /\ DOMAIN list = 1..Len(list)
        /\ \A i \in 1..Len(list) : new[i] = list[i]
        /\ new[Len(list) + 1] = s
    BY <1>0
  <2>3. Len(list) \in Nat
    BY <1>0
  <2> HIDE DEF new
  <2>4. Prefix(list, new)
    BY <2>2, <2>3 DEF Prefix
  <2>5. FixedPoints(new)
    <3>1. \A i \in DOMAIN new : i \in DOMAIN list \/ i = Len(list) + 1
      BY <2>2, <2>3
    <3>2. FixedPoints(list)
      BY DEF Good
    <3> QED
      BY <2>1, <2>2, <3>1, <3>2 DEF FixedPoints
  <2>6. Once(new)
    <3> SUFFICES ASSUME NEW i \in DOMAIN new, NEW j \in DOMAIN new,
                        new[i].rule = new[j].rule, new[i].rule \in Rewarding,
                        new[i].event.project = new[j].event.project, i # j
                 PROVE  FALSE
      BY DEF Once
    <3>1. CASE i \in 1..Len(list) /\ j \in 1..Len(list)
      BY <2>2, <3>1 DEF Once, Good
    <3>2. CASE i \in 1..Len(list) /\ j = Len(list) + 1
      BY <2>1, <2>2, <3>2 DEF RuleWasApplied
    <3>3. CASE j \in 1..Len(list) /\ i = Len(list) + 1
      BY <2>1, <2>2, <3>3 DEF RuleWasApplied
    <3> QED
      BY <2>2, <2>3, <3>1, <3>2, <3>3
  <2> QED
    BY <2>1, <2>2, <2>4, <2>5, <2>6 DEF Good, new
<1> QED
  BY <1>1, <1>2

LEMMA PrefixTransitive ==
  ASSUME NEW a \in Seq(Score), NEW b \in Seq(Score), NEW c \in Seq(Score),
         Prefix(a, b), Prefix(b, c)
  PROVE  Prefix(a, c)
  BY DEF Prefix

(* Each builder in turn; NumberOfProjects runs on a list that holds the    *)
(* amount funded of the event, if it is a purchase.                        *)
LEMMA Builders ==
  ASSUME NEW e \in DomainEvents, NEW list, Good(list), NEW answered \in BOOLEAN
  PROVE  /\ Adds(list, AmountFunded(e, answered))
         /\ (e.name \in Purchases => list # <<>>) =>
              Adds(list, NumberOfProjects(e, list))
         /\ Adds(list, Resaler(e)) /\ Adds(list, Offseter(e))
         /\ Adds(list, EarlyAdopter(e, list))
<1>0. e.value \in Nat /\ BoostedPoints(e, answered) \in Nat
  BY BoostedType
<1>s. ASSUME NEW rule \in Rules, NEW points \in Nat,
             rule \in Rewarding => ~RuleWasApplied(rule, e.project, list),
             rule = "number_of_projects" => points = ProjectPoints * Precision
      PROVE  Adds(list, Scored(e, rule, points))
  <2> DEFINE s == [rule |-> rule, event |-> e, points |-> points]
  <2>1. s \in Score /\ s.rule = rule /\ s.event = e /\ s.points = points
    BY DEF Score
  <2>2. Scored(e, rule, points) = <<s>>
    BY DEF Scored
  <2> HIDE DEF s
  <2> QED
    BY <1>s, <2>1, <2>2 DEF Adds
<1>e. Adds(list, <<>>)
  BY DEF Adds
<1>1. Adds(list, AmountFunded(e, answered))
  BY <1>0, <1>s, <1>e DEF AmountFunded, Rules, Rewarding
<1>2. ASSUME e.name \in Purchases => list # <<>>
      PROVE  Adds(list, NumberOfProjects(e, list))
  <2>1. ProjectPoints * Precision \in Nat
    OBVIOUS
  <2>2. ~(list = <<>> /\ e.name = "minter:buy")
    BY <1>2 DEF Purchases
  <2> QED
    BY <1>s, <1>e, <2>1, <2>2 DEF NumberOfProjects, Rules
<1>3. Adds(list, Resaler(e))
  BY <1>0, <1>s, <1>e DEF Resaler, Rules, Rewarding
<1>4. Adds(list, Offseter(e))
  <2>1. e.value * 100 \in Nat
    BY <1>0
  <2> QED
    BY <1>s, <1>e, <2>1 DEF Offseter, Rules, Rewarding
<1>5. Adds(list, EarlyAdopter(e, list))
  <2>1. \A p \in DOMAIN PointsPerProject : PointsPerProject[p] * Precision \in Nat
    OBVIOUS
  <2> QED
    BY <1>s, <1>e, <2>1 DEF EarlyAdopter, Rules
<1> QED
  BY <1>1, <1>2, <1>3, <1>4, <1>5

(* One event: the list stays good and keeps what it had, and a purchase of *)
(* a project leaves points for that project in it.                         *)
LEMMA OneEvent ==
  ASSUME NEW e \in DomainEvents, NEW list, Good(list), NEW answered \in BOOLEAN
  PROVE  LET new == WithScores(list, e, answered)
         IN /\ Good(new) /\ Prefix(list, new)
            /\ (e.name \in Purchases /\ e.project # NoProject) =>
                 RuleWasApplied("number_of_projects", e.project, new)
<1> DEFINE s1 == list \o AmountFunded(e, answered)
           s2 == s1 \o NumberOfProjects(e, s1)
           r3 == s2 \o Resaler(e)
           s3 == r3 \o Offseter(e)
           s4 == s3 \o EarlyAdopter(e, s3)
<1>1. Good(s1) /\ Prefix(list, s1)
  BY Builders, AddsGood
<1>2. e.name \in Purchases =>
        /\ s1 # <<>> /\ Len(s1) \in DOMAIN s1
        /\ s1[Len(s1)].event = e
  <2> SUFFICES ASSUME e.name \in Purchases
               PROVE  /\ s1 # <<>> /\ Len(s1) \in DOMAIN s1
                      /\ s1[Len(s1)].event = e
    OBVIOUS
  <2> DEFINE s == [rule |-> "amount_funded", event |-> e,
                   points |-> BoostedPoints(e, answered)]
  <2>1. s1 = list \o <<s>> /\ s.event = e
    BY DEF AmountFunded, Scored
  <2>2. s \in Score /\ list \in Seq(Score)
    BY BoostedType DEF Score, Rules, Good
  <2> HIDE DEF s, s1
  <2> QED
    BY <2>1, <2>2
<1>3. Good(s2) /\ Prefix(s1, s2)
  <2> HIDE DEF s1
  <2> QED
    BY <1>1, <1>2, Builders, AddsGood
<1>4. (e.name \in Purchases /\ e.project # NoProject) =>
        RuleWasApplied("number_of_projects", e.project, s2)
  <2> SUFFICES ASSUME e.name \in Purchases, e.project # NoProject
               PROVE  RuleWasApplied("number_of_projects", e.project, s2)
    OBVIOUS
  <2> HIDE DEF s1
  <2>1. CASE RuleWasApplied("number_of_projects", e.project, s1)
    BY <1>3, <2>1 DEF RuleWasApplied, Prefix
  <2>2. CASE ~RuleWasApplied("number_of_projects", e.project, s1)
    <3> DEFINE s == [rule |-> "number_of_projects", event |-> e,
                     points |-> ProjectPoints * Precision]
    <3>1. NumberOfProjects(e, s1) = <<s>>
      BY <1>2, <2>2 DEF NumberOfProjects, Scored
    <3>2. s \in Score /\ s.rule = "number_of_projects" /\ s.event = e
      BY DEF Score, Rules
    <3>3. s1 \in Seq(Score)
      BY <1>1 DEF Good
    <3> HIDE DEF s
    <3>4. /\ Len(s1) + 1 \in DOMAIN (s1 \o <<s>>)
          /\ (s1 \o <<s>>)[Len(s1) + 1] = s
      BY <3>2, <3>3
    <3> QED
      BY <3>1, <3>2, <3>4 DEF RuleWasApplied
  <2> QED
    BY <2>1, <2>2
<1>5. Good(r3) /\ Prefix(s2, r3)
  <2> HIDE DEF s2
  <2> QED
    BY <1>3, Builders, AddsGood
<1>6. Good(s3) /\ Prefix(r3, s3)
  <2> HIDE DEF r3
  <2> QED
    BY <1>5, Builders, AddsGood
<1>7. Good(s4) /\ Prefix(s3, s4)
  <2> HIDE DEF s3
  <2> QED
    BY <1>6, Builders, AddsGood
<1>8. s4 = WithScores(list, e, answered)
  <2>1. s3 = s2 \o Resaler(e) \o Offseter(e)
    OBVIOUS
  <2> QED
    BY <2>1 DEF WithScores
<1> HIDE DEF s1, s2, r3, s3, s4
<1>9. Prefix(list, s4) /\ Prefix(s2, s4)
  BY <1>1, <1>3, <1>5, <1>6, <1>7, PrefixTransitive DEF Good
<1>10. (e.name \in Purchases /\ e.project # NoProject) =>
         RuleWasApplied("number_of_projects", e.project, s4)
  BY <1>4, <1>9 DEF RuleWasApplied, Prefix
<1> QED
  BY <1>7, <1>8, <1>9, <1>10

---------------------------------------------------------------------------
(* The inductive invariant: the scores of the run are good, and hold       *)
(* points for the project of every purchase that was handled.              *)
Rewarded ==
  \A e \in loaded \ pending :
    (e.name \in Purchases /\ e.project # NoProject) =>
      RuleWasApplied("number_of_projects", e.project, scores)
IInv == TypeOK /\ Good(scores) /\ Rewarded

LEMMA EmptyIsGood == Good(<<>>)
  BY DEF Good, Once, FixedPoints

LEMMA IInvInit == Init => IInv
<1> SUFFICES ASSUME Init PROVE IInv
  OBVIOUS
<1>1. TypeOK
  <2>1. <<>> \in Seq(Score)
    BY EmptyIsGood DEF Good
  <2> QED
    BY <2>1 DEF Init, TypeOK
<1>2. Good(scores)
  BY EmptyIsGood DEF Init
<1>3. Rewarded
  BY DEF Init, Rewarded
<1> QED
  BY <1>1, <1>2, <1>3 DEF IInv

LEMMA IInvNext == IInv /\ [Next]_vars => IInv'
<1> SUFFICES ASSUME IInv, [Next]_vars PROVE IInv'
  OBVIOUS
<1> USE DEF IInv
<1>1. ASSUME NEW e \in DomainEvents, Record(e) PROVE IInv'
  <2>1. TypeOK'
    BY <1>1 DEF Record, TypeOK
  <2>2. Good(scores)'
    BY <1>1 DEF Record, Good, Once, FixedPoints
  <2>3. Rewarded'
    BY <1>1 DEF Record, Rewarded, RuleWasApplied
  <2> QED
    BY <2>1, <2>2, <2>3
<1>2. CASE Load
  <2>1. TypeOK'
    BY <1>2 DEF Load, TypeOK
  <2>2. Good(scores)'
    BY <1>2, EmptyIsGood DEF Load
  <2>3. Rewarded'
    BY <1>2 DEF Load, Rewarded
  <2> QED
    BY <2>1, <2>2, <2>3
<1>3. ASSUME NEW e \in DomainEvents, ComputeScore(e) PROVE IInv'
  <2>1. PICK answered \in BOOLEAN : scores' = WithScores(scores, e, answered)
    BY <1>3 DEF ComputeScore, Answers
  <2>2. /\ Good(scores') /\ Prefix(scores, scores')
        /\ (e.name \in Purchases /\ e.project # NoProject) =>
             RuleWasApplied("number_of_projects", e.project, scores')
    BY <2>1, OneEvent
  <2>3. pending' = pending \ {e}
        /\ failed' \in BOOLEAN
        /\ UNCHANGED <<recorded, running, loaded, line>> /\ running
    BY <1>3 DEF ComputeScore, TypeOK
  <2>4. TypeOK'
    BY <2>2, <2>3 DEF TypeOK, Good
  <2>5. Rewarded'
    BY <2>2, <2>3 DEF Rewarded, RuleWasApplied, Prefix
  <2> QED
    BY <2>2, <2>4, <2>5
<1>4. CASE Publish
  <2>1. scores' = <<>> /\ line' = scores /\ loaded' = {}
        /\ UNCHANGED <<recorded, pending, failed>>
        /\ running' = FALSE /\ pending = {}
    BY <1>4 DEF Publish
  <2>2. <<>> \in Seq(Score)
    BY EmptyIsGood DEF Good
  <2>3. TypeOK'
    BY <2>1, <2>2 DEF TypeOK
  <2>4. Good(scores)'
    BY <2>1, EmptyIsGood
  <2>5. Rewarded'
    BY <2>1 DEF Rewarded
  <2> QED
    BY <2>3, <2>4, <2>5
<1>5. CASE UNCHANGED vars
  BY <1>5 DEF vars, TypeOK, Rewarded
<1> QED
  BY <1>1, <1>2, <1>3, <1>4, <1>5 DEF Next

LEMMA IInvAlways == Spec => []IInv
  BY IInvInit, IInvNext, PTL DEF Spec

(* Type correctness; with it, every score is a natural number of points.   *)
THEOREM TypeCorrect == Spec => []TypeOK
<1>1. IInv => TypeOK
  BY DEF IInv
<1> QED
  BY <1>1, IInvAlways, PTL

(* No project is rewarded twice, whatever the order and the ties.          *)
THEOREM RewardedOnce == Spec => []OncePerProject
<1>1. IInv => OncePerProject
  BY DEF IInv, Good, Once, OncePerProject, Rewarding
<1> QED
  BY <1>1, IInvAlways, PTL

(* Every purchase handled has the fixed points for its project.            *)
THEOREM EveryPurchaseRewarded == Spec => []PurchasesRewarded
<1>1. IInv => PurchasesRewarded
  BY DEF IInv, Good, FixedPoints, Rewarded, RuleWasApplied, PurchasesRewarded
<1> QED
  BY <1>1, IInvAlways, PTL

---------------------------------------------------------------------------
(* Division, by the positive numbers the code divides by.                  *)
LEMMA DivMonotone ==
  ASSUME NEW m \in Nat, NEW n \in Nat, m <= n
  PROVE  m \div 100 <= n \div 100
OBVIOUS

LEMMA DivByPrecision ==
  ASSUME NEW m \in Nat, NEW n \in Nat
  PROVE  /\ m <= n => m \div Precision <= n \div Precision
         /\ (m + n) \div Precision - (m \div Precision + n \div Precision)
              \in {0, 1}
         /\ m \div Precision \in Nat
OBVIOUS

(* The sum of the points of some rules is the one TotalScore divides.      *)
PointsOf(list) == [i \in DOMAIN list |-> list[i].points]
Counted(list, rules) == {i \in DOMAIN list : list[i].rule \in rules}
PointsSum(list, rules) == Sum(PointsOf(list), Counted(list, rules))

LEMMA CountedPoints ==
  ASSUME NEW list \in Seq(Score), NEW rules
  PROVE  /\ IsFiniteSet(Counted(list, rules))
         /\ \A i \in Counted(list, rules) : PointsOf(list)[i] \in Nat
<1>1. \A i \in DOMAIN list : list[i] \in Score
  BY Elements
<1>2. \A i \in DOMAIN list : list[i].points \in Nat
  BY <1>1 DEF Score
<1>3. Len(list) \in Nat /\ DOMAIN list = 1..Len(list)
  OBVIOUS
<1>4. IsFiniteSet(DOMAIN list)
  BY <1>3, FS_Interval
<1>5. Counted(list, rules) \subseteq DOMAIN list
  BY DEF Counted
<1>6. IsFiniteSet(Counted(list, rules))
  BY <1>4, <1>5, FS_Subset
<1> QED
  BY <1>2, <1>5, <1>6 DEF PointsOf

LEMMA PointsSumType ==
  ASSUME NEW list \in Seq(Score), NEW rules
  PROVE  PointsSum(list, rules) \in Nat
BY CountedPoints, SumIsNat DEF PointsSum

(* Rules that have none in common add up.                                  *)
LEMMA PointsSumUnion ==
  ASSUME NEW list \in Seq(Score), NEW some, NEW more, some \cap more = {}
  PROVE  PointsSum(list, some \union more)
           = PointsSum(list, some) + PointsSum(list, more)
<1> DEFINE A == Counted(list, some)
           B == Counted(list, more)
           f == PointsOf(list)
<1>1. IsFiniteSet(A) /\ IsFiniteSet(B)
  BY CountedPoints
<1>2. \A i \in A \union B : f[i] \in Nat
  BY CountedPoints
<1>3. A \cap B = {} /\ Counted(list, some \union more) = A \union B
  BY DEF Counted
<1> HIDE DEF A, B, f
<1>4. Sum(f, A \union B) = Sum(f, A) + Sum(f, B)
  BY <1>1, <1>2, <1>3, SumOfUnion
<1> QED
  BY <1>3, <1>4 DEF PointsSum, A, B, f

LEMMA TotalIsSum ==
  ASSUME NEW list, NEW rules
  PROVE  TotalScore(list, rules) = PointsSum(list, rules) \div Precision
BY DEF TotalScore, PointsSum, PointsOf, Counted, Sum

(* The two categories share no rule and leave none out, so the total is a  *)
(* point more than both together at most: what the two divisions lose.     *)
THEOREM CategoriesLackAPointAtMost == Spec => []CategoriesAddUp
<1>1. IInv => CategoriesAddUp
  <2> SUFFICES ASSUME IInv PROVE CategoriesAddUp
    OBVIOUS
  <2>1. line \in Seq(Score)
    BY DEF IInv, TypeOK
  <2>2. Fund \cap Farming = {} /\ Rules = Fund \union Farming
    BY DEF Fund, Farming, Rules
  <2>3. PointsSum(line, Rules) = PointsSum(line, Fund) + PointsSum(line, Farming)
    BY <2>1, <2>2, PointsSumUnion
  <2>4. PointsSum(line, Fund) \in Nat /\ PointsSum(line, Farming) \in Nat
    BY <2>1, PointsSumType
  <2> QED
    BY <2>3, <2>4, TotalIsSum, DivByPrecision DEF CategoriesAddUp
<1> QED
  BY <1>1, IInvAlways, PTL

---------------------------------------------------------------------------
(* What the builders add for an event is about that event, and its amount  *)
(* funded is what the boosts give at that moment.                          *)
About(e, answered) ==
  {s \in Score : /\ s.event = e
                 /\ s.rule = "amount_funded" =>
                      s.points = BoostedPoints(e, answered)}
Extends(list, e, answered, new) ==
  /\ new \in Seq(Score)
  /\ \A i \in DOMAIN new : \/ i \in DOMAIN list /\ new[i] = list[i]
                           \/ new[i] \in About(e, answered)

LEMMA ExtendsMore ==
  ASSUME NEW list, NEW e, NEW answered, NEW new, Extends(list, e, answered, new),
         NEW more, more = <<>> \/ \E s \in About(e, answered) : more = <<s>>
  PROVE  Extends(list, e, answered, new \o more)
<1>0. new \in Seq(Score)
  BY DEF Extends
<1>1. CASE more = <<>>
  <2>1. new \o more = new
    BY <1>0, <1>1
  <2> QED
    BY <2>1
<1>2. CASE more # <<>>
  <2>1. PICK s \in About(e, answered) : more = <<s>>
    BY <1>2
  <2>2. s \in Score
    BY DEF About
  <2>3. /\ new \o <<s>> \in Seq(Score)
        /\ DOMAIN (new \o <<s>>) = 1..(Len(new) + 1) /\ DOMAIN new = 1..Len(new)
        /\ \A i \in 1..Len(new) : (new \o <<s>>)[i] = new[i]
        /\ (new \o <<s>>)[Len(new) + 1] = s
    BY <1>0, <2>2
  <2>4. Len(new) \in Nat
    BY <1>0
  <2> QED
    BY <2>1, <2>3, <2>4 DEF Extends
<1> QED
  BY <1>1, <1>2

LEMMA BuildersAbout ==
  ASSUME NEW e \in DomainEvents, NEW answered \in BOOLEAN, NEW list
  PROVE  LET Adds1(more) == \/ more = <<>>
                            \/ \E s \in About(e, answered) : more = <<s>>
         IN /\ Adds1(AmountFunded(e, answered))
            /\ Adds1(NumberOfProjects(e, list))
            /\ Adds1(Resaler(e)) /\ Adds1(Offseter(e))
            /\ Adds1(EarlyAdopter(e, list))
<1> DEFINE Adds1(more) == \/ more = <<>>
                          \/ \E s \in About(e, answered) : more = <<s>>
<1>0. e.value \in Nat /\ BoostedPoints(e, answered) \in Nat
  BY BoostedType
<1>1. /\ e.value * 100 \in Nat /\ ProjectPoints * Precision \in Nat
      /\ \A p \in DOMAIN PointsPerProject :
            PointsPerProject[p] * Precision \in Nat
  BY <1>0
<1>2. ASSUME NEW rule \in Rules, NEW points \in Nat,
             rule = "amount_funded" => points = BoostedPoints(e, answered)
      PROVE  Adds1(Scored(e, rule, points))
  <2> DEFINE s == [rule |-> rule, event |-> e, points |-> points]
  <2>1. s \in Score /\ s.rule = rule /\ s.event = e /\ s.points = points
    BY DEF Score
  <2>2. Scored(e, rule, points) = <<s>>
    BY DEF Scored
  <2> HIDE DEF s
  <2> QED
    BY <1>2, <2>1, <2>2 DEF About
<1>3. Adds1(<<>>)
  OBVIOUS
<1> HIDE DEF Adds1
<1>4. Adds1(AmountFunded(e, answered))
  BY <1>0, <1>2, <1>3 DEF AmountFunded, Rules
<1>5. Adds1(NumberOfProjects(e, list))
  BY <1>0, <1>1, <1>2, <1>3 DEF NumberOfProjects, Rules
<1>6. Adds1(Resaler(e)) /\ Adds1(Offseter(e))
  BY <1>0, <1>1, <1>2, <1>3 DEF Resaler, Offseter, Rules
<1>7. Adds1(EarlyAdopter(e, list))
  BY <1>1, <1>2, <1>3 DEF EarlyAdopter, Rules
<1> QED
  BY <1>4, <1>5, <1>6, <1>7 DEF Adds1

LEMMA NewScores ==
  ASSUME NEW e \in DomainEvents, NEW answered \in BOOLEAN, NEW list \in Seq(Score)
  PROVE  Extends(list, e, answered, WithScores(list, e, answered))
<1> DEFINE s1 == list \o AmountFunded(e, answered)
           s2 == s1 \o NumberOfProjects(e, s1)
           r3 == s2 \o Resaler(e)
           s3 == r3 \o Offseter(e)
           s4 == s3 \o EarlyAdopter(e, s3)
           Grown(new) == Extends(list, e, answered, new)
<1>1. Grown(list)
  BY DEF Extends
<1>2. Grown(s1)
  BY <1>1, ExtendsMore, BuildersAbout
<1>3. Grown(s2)
  <2> HIDE DEF s1
  <2> QED
    BY <1>2, ExtendsMore, BuildersAbout
<1>4. Grown(r3)
  <2> HIDE DEF s2
  <2> QED
    BY <1>3, ExtendsMore, BuildersAbout
<1>5. Grown(s3)
  <2> HIDE DEF r3
  <2> QED
    BY <1>4, ExtendsMore, BuildersAbout
<1>6. Grown(s4)
  <2> HIDE DEF s3
  <2> QED
    BY <1>5, ExtendsMore, BuildersAbout
<1>7. s4 = WithScores(list, e, answered)
  <2>1. s3 = s2 \o Resaler(e) \o Offseter(e)
    OBVIOUS
  <2> QED
    BY <2>1 DEF WithScores
<1> QED
  BY <1>6, <1>7

(* A run scores the events it loaded; where all of them have a project, the *)
(* early adopter's points were not held back by a score without one.       *)
OfRun == \A i \in DOMAIN scores : scores[i].event \in loaded
AdopterInv == IInv /\ OfRun /\ NamedAdopterGiven

LEMMA AdoptedOnce ==
  ASSUME NEW e \in DomainEvents, NEW list \in Seq(Score), NEW answered \in BOOLEAN,
         e.project \in DOMAIN PointsPerProject,
         \A i \in DOMAIN list : list[i].event.project # NoProject
  PROVE  RuleWasApplied("early_adopter", e.project,
                        WithScores(list, e, answered))
<1> DEFINE s1 == list \o AmountFunded(e, answered)
           s2 == s1 \o NumberOfProjects(e, s1)
           r3 == s2 \o Resaler(e)
           s3 == r3 \o Offseter(e)
           Grown(new) == Extends(list, e, answered, new)
<1>1. Grown(s1)
  <2>1. Grown(list)
    BY DEF Extends
  <2> QED
    BY <2>1, ExtendsMore, BuildersAbout
<1>2. Grown(s2)
  <2> HIDE DEF s1
  <2> QED
    BY <1>1, ExtendsMore, BuildersAbout
<1>3. Grown(r3)
  <2> HIDE DEF s2
  <2> QED
    BY <1>2, ExtendsMore, BuildersAbout
<1>4. Grown(s3)
  <2> HIDE DEF r3
  <2> QED
    BY <1>3, ExtendsMore, BuildersAbout
<1>5. WithScores(list, e, answered) = s3 \o EarlyAdopter(e, s3)
  <2>1. s3 = s2 \o Resaler(e) \o Offseter(e)
    OBVIOUS
  <2> QED
    BY <2>1 DEF WithScores
<1> HIDE DEF s3
<1>6. s3 \in Seq(Score)
  BY <1>4 DEF Extends
<1>7. e.project # NoProject
  OBVIOUS
<1>8. \A i \in DOMAIN s3 : s3[i].event.project # NoProject
  BY <1>4, <1>7 DEF Extends, About
<1>9. CASE RuleWasApplied("early_adopter", e.project, s3)
  <2>1. EarlyAdopter(e, s3) = <<>>
    BY <1>9 DEF EarlyAdopter
  <2> QED
    BY <1>5, <1>6, <1>9, <2>1
<1>10. CASE ~RuleWasApplied("early_adopter", e.project, s3)
  <2> DEFINE s == [rule |-> "early_adopter", event |-> e,
                   points |-> PointsPerProject[e.project] * Precision]
  <2>1. EarlyAdopter(e, s3) = <<s>>
    BY <1>8, <1>10 DEF EarlyAdopter, Scored
  <2>2. s.rule = "early_adopter" /\ s.event = e
    OBVIOUS
  <2>3. s \in Score
    <3>1. PointsPerProject[e.project] * Precision \in Nat
      OBVIOUS
    <3> QED
      BY <3>1 DEF Score, Rules
  <2> HIDE DEF s
  <2>4. /\ Len(s3) + 1 \in DOMAIN (s3 \o <<s>>)
        /\ (s3 \o <<s>>)[Len(s3) + 1] = s
    BY <1>6, <2>3
  <2> QED
    BY <1>5, <2>1, <2>2, <2>4 DEF RuleWasApplied
<1> QED
  BY <1>9, <1>10

LEMMA AdopterInit == Init => AdopterInv
BY IInvInit DEF Init, AdopterInv, OfRun, NamedAdopterGiven, EarlyAdopterGiven

LEMMA AdopterNext == AdopterInv /\ [Next]_vars => AdopterInv'
<1> SUFFICES ASSUME AdopterInv, [Next]_vars PROVE OfRun' /\ NamedAdopterGiven'
  BY IInvNext DEF AdopterInv
<1> USE DEF AdopterInv
<1>1. ASSUME NEW e \in DomainEvents, Record(e) PROVE OfRun' /\ NamedAdopterGiven'
  BY <1>1 DEF Record, OfRun, NamedAdopterGiven, EarlyAdopterGiven,
              RuleWasApplied
<1>2. CASE Load
  BY <1>2 DEF Load, OfRun, NamedAdopterGiven, EarlyAdopterGiven
<1>3. ASSUME NEW e \in DomainEvents, ComputeScore(e)
      PROVE  OfRun' /\ NamedAdopterGiven'
  <2>1. PICK answered \in BOOLEAN : scores' = WithScores(scores, e, answered)
    BY <1>3 DEF ComputeScore, Answers
  <2>2. /\ scores \in Seq(Score) /\ e \in loaded
        /\ pending' = pending \ {e} /\ loaded' = loaded
    BY <1>3 DEF ComputeScore, IInv, TypeOK
  <2>3. Extends(scores, e, answered, scores')
    BY <2>1, <2>2, NewScores
  <2>4. OfRun'
    BY <2>2, <2>3 DEF OfRun, Extends, About
  <2>5. NamedAdopterGiven'
    <3> SUFFICES ASSUME \A f \in loaded : f.project # NoProject,
                        NEW f \in loaded \ pending',
                        f.project \in DOMAIN PointsPerProject
                 PROVE  RuleWasApplied("early_adopter", f.project, scores')
      BY <2>2 DEF NamedAdopterGiven, EarlyAdopterGiven, RuleWasApplied
    <3>1. CASE f = e
      <4>1. \A i \in DOMAIN scores : scores[i].event.project # NoProject
        BY DEF OfRun
      <4> QED
        BY <2>1, <2>2, <3>1, <4>1, AdoptedOnce
    <3>2. CASE f # e
      <4>1. RuleWasApplied("early_adopter", f.project, scores)
        BY <2>2, <3>2 DEF NamedAdopterGiven, EarlyAdopterGiven
      <4>2. Prefix(scores, scores')
        BY <2>1, OneEvent DEF IInv
      <4> QED
        BY <4>1, <4>2 DEF RuleWasApplied, Prefix
    <3> QED
      BY <3>1, <3>2
  <2> QED
    BY <2>4, <2>5
<1>4. CASE Publish
  BY <1>4 DEF Publish, OfRun, NamedAdopterGiven, EarlyAdopterGiven
<1>5. CASE UNCHANGED vars
  BY <1>5 DEF vars, OfRun, NamedAdopterGiven, EarlyAdopterGiven, RuleWasApplied
<1> QED
  BY <1>1, <1>2, <1>3, <1>4, <1>5 DEF Next

(* A wallet whose events all have their project is given the points of     *)
(* each early project among them, whatever the order and the other rules.  *)
THEOREM NamedAdopterRewarded == Spec => []NamedAdopterGiven
<1>1. AdopterInv => NamedAdopterGiven
  BY DEF AdopterInv
<1> QED
  BY <1>1, AdopterInit, AdopterNext, PTL DEF Spec

---------------------------------------------------------------------------
(* The boosts are monotone: a purchase worth more is boosted no less, and  *)
(* a project that has been funded more boosts no more.                     *)
LEMMA MulMonotone ==
  ASSUME NEW p \in Nat, NEW q \in Nat, p <= q,
         NEW b \in Nat, NEW c \in Nat, b <= c
  PROVE  /\ MulCoeficient(p, b) <= MulCoeficient(q, c)
         /\ 100 <= c => p <= MulCoeficient(p, c)
<1>1. /\ p * b \in Nat /\ q * c \in Nat /\ p * c \in Nat
      /\ p * b <= q * c
  OBVIOUS
<1>2. MulCoeficient(p, b) <= MulCoeficient(q, c)
  BY <1>1, DivMonotone DEF MulCoeficient
<1>3. 100 <= c => p <= MulCoeficient(p, c)
  BY DEF MulCoeficient
<1> QED
  BY <1>2, <1>3

LEMMA AtFirstMonotone ==
  ASSUME NEW steps \in {ValueSteps, MilestoneSteps},
         NEW p \in Nat, NEW q \in Nat, p <= q,
         NEW less, NEW more, less \subseteq more, more \subseteq DOMAIN steps
  PROVE  AtFirst(p, steps, less) <= AtFirst(q, steps, more)
<1>0. steps \in Steps
  OBVIOUS
<1>1. DOMAIN steps = 1..Len(steps) /\ Len(steps) \in Nat
  BY <1>0, StepFields
<1>2. \A i \in DOMAIN steps : steps[i].coef \in Nat
  BY <1>0, StepFields
<1>3. \A i \in DOMAIN steps :
        100 <= steps[i].coef /\ \A j \in 1..i : steps[i].coef <= steps[j].coef
  BY <1>1, <1>2, TablesAssumption DEF TablesAssumption
<1>4. more \subseteq Nat /\ less \subseteq Nat
  BY <1>1
<1>5. CASE more = {}
  BY <1>5 DEF AtFirst
<1>6. CASE more # {} /\ less = {}
  <2>1. Min(more) \in DOMAIN steps
    BY <1>4, <1>6, MinIsMember
  <2>2. q <= MulCoeficient(q, steps[Min(more)].coef)
    BY <1>2, <1>3, <2>1, MulMonotone
  <2>3. MulCoeficient(q, steps[Min(more)].coef) \in Nat
    BY <1>2, <2>1, MulType
  <2> QED
    BY <1>6, <2>2, <2>3 DEF AtFirst
<1>7. CASE less # {}
  <2>1. /\ Min(more) \in DOMAIN steps /\ Min(less) \in DOMAIN steps
        /\ Min(more) \in 1..Min(less)
    <3>1. Min(less) \in less /\ more # {}
      BY <1>4, <1>7, MinIsMember
    <3>2. Min(more) \in more /\ Min(more) <= Min(less)
      BY <1>4, <3>1, MinIsMember
    <3> QED
      BY <1>1, <3>1, <3>2
  <2>2. steps[Min(less)].coef <= steps[Min(more)].coef
    BY <1>3, <2>1
  <2>3. more # {}
    BY <1>7
  <2> QED
    BY <1>2, <1>7, <2>1, <2>2, <2>3, MulMonotone DEF AtFirst
<1> QED
  BY <1>5, <1>6, <1>7

LEMMA ValueBoostMonotone ==
  ASSUME NEW p \in Nat, NEW q \in Nat, p <= q
  PROVE  ValueBoost(p) <= ValueBoost(q)
<1> DEFINE Hit(n) == {i \in DOMAIN ValueSteps :
                        n >= ValueSteps[i].step * Precision}
<1>1. \A i \in DOMAIN ValueSteps : ValueSteps[i].step * Precision \in Nat
  <2>1. \A i \in DOMAIN ValueSteps : ValueSteps[i].step \in Nat
    BY StepFields
  <2> QED
    BY <2>1
<1>2. Hit(p) \subseteq Hit(q) /\ Hit(q) \subseteq DOMAIN ValueSteps
  BY <1>1
<1> HIDE DEF Hit
<1>3. AtFirst(p, ValueSteps, Hit(p)) <= AtFirst(q, ValueSteps, Hit(q))
  BY <1>2, AtFirstMonotone
<1> QED
  BY <1>3 DEF ValueBoost, Hit

LEMMA MilestoneBoostMonotone ==
  ASSUME NEW p \in Nat, NEW v \in Nat, NEW w \in Nat, v <= w
  PROVE  MilestoneBoost(p, w) <= MilestoneBoost(p, v)
<1> DEFINE Hit(n) == {i \in DOMAIN MilestoneSteps : n <= MilestoneSteps[i].step}
<1>1. \A i \in DOMAIN MilestoneSteps : MilestoneSteps[i].step \in Nat
  BY StepFields
<1>2. Hit(w) \subseteq Hit(v) /\ Hit(v) \subseteq DOMAIN MilestoneSteps
  BY <1>1
<1> HIDE DEF Hit
<1>3. AtFirst(p, MilestoneSteps, Hit(w)) <= AtFirst(p, MilestoneSteps, Hit(v))
  BY <1>2, AtFirstMonotone
<1> QED
  BY <1>3 DEF MilestoneBoost, Hit

(* The minter value of a moment as a sum; recording more only adds to it.  *)
Bought(t) == {e \in recorded : /\ e.name \in Boosted
                               /\ e.project = Karathuru
                               /\ e.recordedAt <= t}
BoughtValues(t) == [e \in Bought(t) |-> e.value]

IsSum(t) == MinterValue(t) = Sum(BoughtValues(t), Bought(t)) \div Precision

LEMMA MinterValueIsSum ==
  ASSUME NEW t
  PROVE  IsSum(t) /\ IsSum(t)'
<1>1. IsSum(t)
  <2>1. DOMAIN BoughtValues(t) = Bought(t)
    BY DEF BoughtValues
  <2>2. MinterValue(t)
          = FoldFunctionOnSet(+, 0, BoughtValues(t), DOMAIN BoughtValues(t))
             \div Precision
    BY DEF MinterValue, FoldFunction, BoughtValues, Bought
  <2> QED
    BY <2>1, <2>2 DEF IsSum, Sum
<1>2. IsSum(t)'
  BY <1>1, PTL
<1> QED
  BY <1>1, <1>2

LEMMA MinterValueGrows ==
  ASSUME NEW t, IsFiniteSet(recorded)', recorded \subseteq recorded',
         (recorded \subseteq DomainEvents)'
  PROVE  /\ MinterValue(t) \in Nat /\ MinterValue(t)' \in Nat
         /\ MinterValue(t) <= MinterValue(t)'
<1> DEFINE S == Bought(t)
           T == Bought(t)'
           f == BoughtValues(t)
           g == BoughtValues(t)'
<1>1. IsFiniteSet(T) /\ S \in SUBSET T /\ IsFiniteSet(S)
  <2>1. T \subseteq recorded' /\ S \subseteq T
    BY DEF Bought
  <2> QED
    BY <2>1, FS_Subset
<1>2. \A e \in T : g[e] \in Nat
  BY DEF BoughtValues, Bought
<1>3. \A e \in S : f[e] = g[e] /\ f[e] \in Nat
  BY DEF BoughtValues, Bought
<1>4. /\ MinterValue(t) = Sum(f, S) \div Precision
      /\ MinterValue(t)' = Sum(g, T) \div Precision
  BY MinterValueIsSum DEF IsSum
<1> HIDE DEF S, T, f, g
<1>5. Sum(f, S) = Sum(g, S)
  BY <1>1, <1>3, SumOfSame
<1>6. Sum(g, S) <= Sum(g, T)
  BY <1>1, <1>2, SumGrows
<1>7. Sum(g, S) \in Nat /\ Sum(g, T) \in Nat
  <2>1. \A e \in S : g[e] \in Nat
    BY <1>1, <1>2
  <2> QED
    BY <1>1, <1>2, <2>1, SumIsNat
<1> QED
  BY <1>4, <1>5, <1>6, <1>7, DivByPrecision

LEMMA MinterValueSame ==
  ASSUME NEW t, recorded' = recorded
  PROVE  MinterValue(t)' = MinterValue(t)
BY MinterValueIsSum DEF IsSum, BoughtValues, Bought

(* So what an event is worth at a moment only shrinks as more is recorded. *)
WorthAt(e, value) ==
  IF e.name \in Boosted
    THEN ValueBoost(IF e.project = Karathuru
                      THEN MilestoneBoost(e.value, value) ELSE e.value)
    ELSE e.value
WorthNow == [e \in DomainEvents |-> WorthAt(e, MinterValue(e.recordedAt))]

LEMMA WorthIsBoosted ==
  ASSUME NEW e \in DomainEvents
  PROVE  WorthNow[e] = BoostedPoints(e, TRUE)
BY DEF WorthNow, WorthAt, BoostedPoints

LEMMA WorthMonotone ==
  ASSUME NEW e \in DomainEvents, NEW v \in Nat, NEW w \in Nat, v <= w
  PROVE  /\ WorthAt(e, v) \in Nat /\ WorthAt(e, w) \in Nat
         /\ WorthAt(e, w) <= WorthAt(e, v)
<1> DEFINE Boost(n) == IF e.project = Karathuru
                         THEN MilestoneBoost(e.value, n) ELSE e.value
<1>1. e.value \in Nat
  OBVIOUS
<1>2. Boost(v) \in Nat /\ Boost(w) \in Nat
  BY <1>1, AtFirstType DEF MilestoneBoost
<1>3. Boost(w) <= Boost(v)
  BY <1>1, MilestoneBoostMonotone
<1>4. /\ WorthAt(e, v) = IF e.name \in Boosted THEN ValueBoost(Boost(v))
                                               ELSE e.value
      /\ WorthAt(e, w) = IF e.name \in Boosted THEN ValueBoost(Boost(w))
                                               ELSE e.value
  BY DEF WorthAt
<1> HIDE DEF Boost
<1>5. ValueBoost(Boost(v)) \in Nat /\ ValueBoost(Boost(w)) \in Nat
  BY <1>2, AtFirstType DEF ValueBoost
<1>6. ValueBoost(Boost(w)) <= ValueBoost(Boost(v))
  BY <1>2, <1>3, ValueBoostMonotone
<1> QED
  BY <1>1, <1>4, <1>5, <1>6

LEMMA WorthShrinks ==
  ASSUME IsFiniteSet(recorded)', recorded \subseteq recorded',
         (recorded \subseteq DomainEvents)'
  PROVE  /\ WorthNow \in [DomainEvents -> Nat]
         /\ WorthNow' \in [DomainEvents -> Nat]
         /\ \A e \in DomainEvents : WorthNow'[e] <= WorthNow[e]
<1>1. \A e \in DomainEvents :
        LET v == MinterValue(e.recordedAt)
        IN /\ WorthAt(e, v) \in Nat /\ WorthAt(e, v') \in Nat
           /\ WorthAt(e, v') <= WorthAt(e, v)
  <2> TAKE e \in DomainEvents
  <2> DEFINE v == MinterValue(e.recordedAt)
  <2>1. v \in Nat /\ v' \in Nat /\ v <= v'
    BY MinterValueGrows
  <2> HIDE DEF v
  <2> SUFFICES /\ WorthAt(e, v) \in Nat /\ WorthAt(e, v') \in Nat
               /\ WorthAt(e, v') <= WorthAt(e, v)
    BY DEF v
  <2> QED
    BY <2>1, WorthMonotone
<1> QED
  BY <1>1 DEF WorthNow

LEMMA WorthSame ==
  ASSUME recorded' = recorded
  PROVE  WorthNow' = WorthNow
<1>1. \A e \in DomainEvents :
        MinterValue(e.recordedAt)' = MinterValue(e.recordedAt)
  BY MinterValueSame
<1> QED
  BY <1>1 DEF WorthNow

(* As long as no query has failed, the amounts funded of the run and of    *)
(* the line are no less than the events are worth now: they are what the   *)
(* events were worth when they were scored.                                *)
NoLess(list, worth) ==
  \A i \in DOMAIN list :
    list[i].rule = "amount_funded" => worth[list[i].event] <= list[i].points
Worth == failed \/ (NoLess(scores, WorthNow) /\ NoLess(line, WorthNow))
ShrinkInv == IInv /\ IsFiniteSet(recorded) /\ Worth /\ PointsOnlyShrink

LEMMA ShrinkInit == Init => ShrinkInv
BY IInvInit, FS_EmptySet DEF Init, ShrinkInv, Worth, NoLess, PointsOnlyShrink

LEMMA ShrinkNext == ShrinkInv /\ [Next]_vars => ShrinkInv'
<1> SUFFICES ASSUME ShrinkInv, [Next]_vars
             PROVE  IsFiniteSet(recorded)' /\ Worth' /\ PointsOnlyShrink'
  BY IInvNext DEF ShrinkInv
<1> USE DEF ShrinkInv
<1>0. IInv' /\ recorded \subseteq DomainEvents
      /\ scores \in Seq(Score) /\ line \in Seq(Score)
  BY IInvNext DEF IInv, TypeOK
<1>1. ASSUME NEW e \in DomainEvents, Record(e)
      PROVE  IsFiniteSet(recorded)' /\ Worth' /\ PointsOnlyShrink'
  <2>1. /\ recorded' = recorded \union {e}
        /\ UNCHANGED <<scores, line, failed>>
    BY <1>1 DEF Record
  <2>2. IsFiniteSet(recorded')
    BY <2>1, FS_AddElement
  <2>3. PointsOnlyShrink'
    BY <2>1 DEF PointsOnlyShrink
  <2>4. /\ WorthNow \in [DomainEvents -> Nat]
        /\ WorthNow' \in [DomainEvents -> Nat]
        /\ \A f \in DomainEvents : WorthNow'[f] <= WorthNow[f]
    BY <1>0, <2>1, <2>2, WorthShrinks DEF IInv, TypeOK
  <2>5. ASSUME NEW list \in Seq(Score), NoLess(list, WorthNow)
        PROVE  NoLess(list, WorthNow')
    <3> SUFFICES ASSUME NEW i \in DOMAIN list, list[i].rule = "amount_funded"
                 PROVE  WorthNow'[list[i].event] <= list[i].points
      BY DEF NoLess
    <3>1. list[i] \in Score
      BY Elements
    <3>2. list[i].event \in DomainEvents /\ list[i].points \in Nat
      BY <3>1 DEF Score
    <3>3. WorthNow[list[i].event] <= list[i].points
      BY <2>5 DEF NoLess
    <3> QED
      BY <2>4, <3>2, <3>3
  <2>6. Worth'
    BY <1>0, <2>1, <2>5 DEF Worth
  <2> QED
    BY <2>2, <2>3, <2>6
<1>2. CASE Load
  <2>1. scores' = <<>> /\ UNCHANGED <<recorded, line, failed>>
    BY <1>2 DEF Load
  <2>2. PointsOnlyShrink'
    BY <2>1 DEF PointsOnlyShrink
  <2>3. Worth'
    BY <2>1, WorthSame DEF Worth, NoLess
  <2> QED
    BY <2>1, <2>2, <2>3
<1>3. ASSUME NEW e \in DomainEvents, ComputeScore(e)
      PROVE  IsFiniteSet(recorded)' /\ Worth' /\ PointsOnlyShrink'
  <2>1. PICK answered \in BOOLEAN :
          /\ scores' = WithScores(scores, e, answered)
          /\ failed' = (failed \/ ~answered)
    BY <1>3 DEF ComputeScore, Answers
  <2>2. UNCHANGED <<recorded, line>>
    BY <1>3 DEF ComputeScore
  <2>3. CASE failed'
    BY <2>2, <2>3 DEF Worth, PointsOnlyShrink
  <2>4. CASE ~failed'
    <3>1. ~failed /\ answered = TRUE
      BY <2>1, <2>4
    <3>2. Extends(scores, e, TRUE, scores')
      BY <1>0, <2>1, <3>1, NewScores
    <3>3. NoLess(scores, WorthNow) /\ NoLess(line, WorthNow)
      BY <3>1 DEF Worth
    <3>4. WorthNow' = WorthNow
      BY <2>2, WorthSame
    <3>5. WorthNow[e] = BoostedPoints(e, TRUE) /\ WorthNow[e] \in Nat
      BY BoostedType, WorthIsBoosted
    <3>6. NoLess(scores', WorthNow) /\ NoLess(line', WorthNow)
      <4>1. ASSUME NEW i \in DOMAIN scores', scores'[i].rule = "amount_funded"
            PROVE  WorthNow[scores'[i].event] <= scores'[i].points
        <5>1. CASE i \in DOMAIN scores /\ scores'[i] = scores[i]
          <6>1. /\ scores[i].rule = "amount_funded"
                /\ scores'[i].event = scores[i].event
                /\ scores'[i].points = scores[i].points
            BY <4>1, <5>1
          <6>2. WorthNow[scores[i].event] <= scores[i].points
            BY <3>3, <5>1, <6>1 DEF NoLess
          <6> QED
            BY <6>1, <6>2
        <5>2. CASE scores'[i] \in About(e, TRUE)
          <6>1. scores'[i].event = e /\ scores'[i].points = WorthNow[e]
            BY <3>5, <4>1, <5>2 DEF About
          <6>2. \A n \in Nat : n <= n
            OBVIOUS
          <6> QED
            BY <3>5, <6>1, <6>2, Zenon
        <5> QED
          BY <3>2, <5>1, <5>2 DEF Extends
      <4> QED
        BY <2>2, <3>3, <4>1 DEF NoLess
    <3>7. PointsOnlyShrink'
      <4>1. SUFFICES ASSUME NEW i \in DOMAIN scores', NEW j \in DOMAIN line,
                            scores'[i].event = line[j].event,
                            scores'[i].rule = "amount_funded",
                            line[j].rule = "amount_funded"
                     PROVE  scores'[i].points <= line[j].points
        BY <2>2 DEF PointsOnlyShrink
      <4>2. CASE i \in DOMAIN scores /\ scores'[i] = scores[i]
        BY <3>1, <4>1, <4>2 DEF PointsOnlyShrink
      <4>3. CASE scores'[i] \in About(e, TRUE)
        <5>1. scores'[i].event = e /\ scores'[i].points = WorthNow[e]
          BY <3>5, <4>1, <4>3 DEF About
        <5>2. WorthNow[line[j].event] <= line[j].points
          BY <3>3, <4>1 DEF NoLess
        <5> QED
          BY <4>1, <5>1, <5>2
      <4> QED
        BY <3>2, <4>2, <4>3 DEF Extends
    <3> QED
      BY <2>2, <3>4, <3>6, <3>7 DEF Worth
  <2> QED
    BY <2>3, <2>4
<1>4. CASE Publish
  <2>1. /\ line' = scores /\ scores' = <<>>
        /\ UNCHANGED <<recorded, failed>>
    BY <1>4 DEF Publish
  <2>2. PointsOnlyShrink'
    BY <2>1 DEF PointsOnlyShrink
  <2>3. Worth'
    BY <2>1, WorthSame DEF Worth, NoLess
  <2> QED
    BY <2>1, <2>2, <2>3
<1>5. CASE UNCHANGED vars
  BY <1>5, WorthSame DEF vars, Worth, PointsOnlyShrink
<1> QED
  BY <1>1, <1>2, <1>3, <1>4, <1>5 DEF Next

(* However runs and recordings interleave, a purchase that is scored again *)
(* is given no more than the line before gave it, unless a query failed.   *)
THEOREM BoostsOnlyShrink == Spec => []PointsOnlyShrink
<1>1. ShrinkInv => PointsOnlyShrink
  BY DEF ShrinkInv
<1> QED
  BY <1>1, ShrinkInit, ShrinkNext, PTL DEF Spec
=============================================================================
