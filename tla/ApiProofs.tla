----------------------------- MODULE ApiProofs -----------------------------
(***************************************************************************)
(* Proofs about module Api on its server: for any rankings, any steps of   *)
(* the boosts, any other values the resolvers' types allow, and resolvers  *)
(* that end in any order or fail.                                          *)
(***************************************************************************)
EXTENDS Api, FiniteSetTheorems, WellFoundedInduction, TLAPS

(* A null that replaces what contains it: an object that is not null has   *)
(* its fields' JSON, and none of its required fields is null.              *)
LEMMA ObjectIsWhole ==
  ASSUME NEW fields, NEW required, Object(fields, required).json # Null
  PROVE  /\ Object(fields, required).json
              = [f \in DOMAIN fields |-> fields[f].json]
         /\ \A f \in required : fields[f].json # Null
BY DEF Object

LEMMA ObjectConforms ==
  ASSUME NEW fields, NEW required, required \subseteq DOMAIN fields,
         Object(fields, required).json # Null
  PROVE  NonNull(Object(fields, required).json, required)
<1> DEFINE j == Object(fields, required).json
<1>1. /\ j = [f \in DOMAIN fields |-> fields[f].json]
      /\ \A f \in required : fields[f].json # Null
  BY ObjectIsWhole
<1>2. \A f \in required : j[f] # Null
  <2> HIDE DEF j
  <2> QED
    BY <1>1
<1> QED
  BY <1>2 DEF NonNull

LEMMA ListIsWhole ==
  ASSUME NEW items, ListOfRequired(items).json # Null
  PROVE  /\ ListOfRequired(items).json
              = [i \in DOMAIN items |-> items[i].json]
         /\ \A i \in DOMAIN items : items[i].json # Null
<1>1. ListOfRequired(items).json
        = IF \E i \in DOMAIN items : items[i].json = Null THEN Null
          ELSE [i \in DOMAIN items |-> items[i].json]
  BY DEF ListOfRequired, List
<1> QED
  BY <1>1

(* The types of the schema, from the inside out.                           *)
LEMMA CategoriesConform ==
  ASSUME NEW c, Categories(c).json # Null
  PROVE  /\ Categories(c).json = [f \in {"fund", "farming", "other"} |-> c[f]]
         /\ NonNull(Categories(c).json, {"fund", "farming", "other"})
<1>1. /\ DOMAIN CategoriesFields(c) = {"fund", "farming", "other"}
      /\ \A f \in {"fund", "farming", "other"} :
            CategoriesFields(c)[f].json = c[f]
  BY DEF CategoriesFields, Value
<1> QED
  BY <1>1, ObjectIsWhole, ObjectConforms DEF Categories

LEMMA LineConforming ==
  ASSUME NEW l, LineData(l).json # Null
  PROVE  /\ LineConforms(LineData(l).json)
         /\ LineData(l).json.wallet_address = l.wallet_address
         /\ LineData(l).json.total_score = l.total_score
         /\ LineData(l).json.points = PointDetailsList(l.points).json
         /\ LineData(l).json.categories = Categories(l.categories).json
<1> DEFINE fields == Joined(LineWallet(l), LineRank(l))
           required == {"id", "wallet_address", "points", "categories",
                        "total_score", "position"}
<1>1. DOMAIN fields = required
  BY DEF LineWallet, LineRank, Joined
<1>2. /\ fields["wallet_address"] = Value(l.wallet_address)
      /\ fields["total_score"] = Value(l.total_score)
      /\ fields["points"] = PointDetailsList(l.points)
      /\ fields["categories"] = Required("categories", l.categories, Categories)
  BY DEF LineWallet, LineRank, Joined
<1>3. LineData(l) = Object(fields, required)
  BY DEF LineData
<1> HIDE DEF fields
<1>4. /\ LineData(l).json = [f \in required |-> fields[f].json]
      /\ \A f \in required : fields[f].json # Null
  BY <1>1, <1>3, ObjectIsWhole
<1>5. /\ fields["categories"] = Categories(l.categories)
      /\ Categories(l.categories).json # Null
  BY <1>2, <1>4 DEF Required, Failure
<1>6. LineData(l).json.categories = Categories(l.categories).json
  BY <1>4, <1>5
<1>7. NonNull(LineData(l).json.categories, {"fund", "farming", "other"})
  BY <1>5, <1>6, CategoriesConform
<1>8. NonNull(LineData(l).json, required)
  BY <1>1, <1>3, ObjectConforms
<1>9. LineConforms(LineData(l).json)
  BY <1>7, <1>8 DEF LineConforms
<1> QED
  BY <1>2, <1>4, <1>6, <1>9 DEF Value

LEMMA PageInfoConforms ==
  ASSUME NEW p, PageInfo(p).json # Null
  PROVE  NonNull(PageInfo(p).json, {"max_page", "page", "limit", "count",
                                    "has_next_page", "has_previous_page"})
<1> DEFINE fields == Joined(PageInfoSize(p), PageInfoEnds(p))
<1>1. DOMAIN fields = {"max_page", "page", "limit", "count",
                       "has_next_page", "has_previous_page"}
  BY DEF PageInfoSize, PageInfoEnds, Joined
<1>2. PageInfo(p) = Object(fields, DOMAIN fields)
  BY DEF PageInfo
<1> HIDE DEF fields
<1> QED
  BY <1>1, <1>2, ObjectConforms

LEMMA LeaderboardConforms ==
  ASSUME NEW b, Leaderboard(b).json # Null
  PROVE  LET j == Leaderboard(b).json
         IN /\ Conforms("leaderboard", j)
            /\ DOMAIN j.data = DOMAIN b.data
            /\ \A i \in DOMAIN j.data :
                  /\ j.data[i] # Null /\ b.data[i] # Nil
                  /\ j.data[i] = LineData(b.data[i]).json
<1> DEFINE j == Leaderboard(b).json
           items == [i \in DOMAIN b.data |-> MarshalNLineData(b.data[i])]
<1>1. /\ DOMAIN LeaderboardFields(b) = {"data", "page_info"}
      /\ LeaderboardFields(b)["data"] = ListOfRequired(items)
      /\ LeaderboardFields(b)["page_info"]
           = Required("page_info", b.page_info, PageInfo)
  BY DEF LeaderboardFields, LineDataList
<1>2. /\ j = [f \in {"data", "page_info"} |-> LeaderboardFields(b)[f].json]
      /\ \A f \in {"data", "page_info"} : LeaderboardFields(b)[f].json # Null
  BY <1>1, ObjectIsWhole DEF Leaderboard
<1> HIDE DEF j
<1>3. /\ j.data = [i \in DOMAIN items |-> items[i].json]
      /\ \A i \in DOMAIN items : items[i].json # Null
  <2> HIDE DEF items
  <2> QED
    BY <1>1, <1>2, ListIsWhole
<1>4. \A i \in DOMAIN items : /\ b.data[i] # Nil
                              /\ items[i].json = LineData(b.data[i]).json
  BY <1>3 DEF MarshalNLineData, Required, Failure
<1>5. DOMAIN items = DOMAIN b.data
  OBVIOUS
<1> HIDE DEF items
<1>6. \A i \in DOMAIN j.data : /\ j.data[i] # Null /\ b.data[i] # Nil
                               /\ j.data[i] = LineData(b.data[i]).json
  BY <1>3, <1>4
<1>7. \A i \in DOMAIN j.data : LineConforms(j.data[i])
  BY <1>6, LineConforming
<1>8. j.page_info = PageInfo(b.page_info).json /\ j.page_info # Null
  BY <1>1, <1>2 DEF Required, Failure
<1>9. NonNull(j, {"data", "page_info"})
  BY <1>1, ObjectConforms DEF Leaderboard, j
<1>10. NonNull(j.page_info, {"max_page", "page", "limit", "count",
                             "has_next_page", "has_previous_page"})
  BY <1>8, PageInfoConforms
<1>11. Conforms("leaderboard", j)
  BY <1>7, <1>9, <1>10 DEF Conforms
<1> QED
  BY <1>3, <1>5, <1>6, <1>11 DEF j

LEMMA BoostConforms ==
  ASSUME NEW b, BoostForValue(b).json # Null
  PROVE  LET j == BoostForValue(b).json
         IN /\ Conforms("boostForWallet", j)
            /\ j.value = b.value /\ j.total_score = b.total_score
            /\ j.boost = b.boost
<1> DEFINE j == BoostForValue(b).json
<1>1. /\ DOMAIN BoostFields(b) = {"value", "total_score", "boost"}
      /\ BoostFields(b)["value"].json = b.value
      /\ BoostFields(b)["total_score"].json = b.total_score
      /\ BoostFields(b)["boost"].json = b.boost
  BY DEF BoostFields, Value
<1>2. /\ NonNull(j, DOMAIN BoostFields(b))
      /\ j = [f \in DOMAIN BoostFields(b) |-> BoostFields(b)[f].json]
  BY ObjectIsWhole, ObjectConforms DEF BoostForValue
<1> HIDE DEF j
<1>3. Conforms("boostForWallet", j)
  BY <1>1, <1>2 DEF Conforms
<1> QED
  BY <1>1, <1>2, <1>3 DEF j

LEMMA NextBoostConforms ==
  ASSUME NEW b, NextBoostForValue(b).json # Null
  PROVE  LET j == NextBoostForValue(b).json
         IN /\ Conforms("nextBoostForWallet", j)
            /\ j.missing = b.missing /\ j.total_score = b.total_score
            /\ j.boost = b.boost
<1> DEFINE j == NextBoostForValue(b).json
<1>1. /\ DOMAIN NextBoostFields(b) = {"missing", "total_score", "boost"}
      /\ NextBoostFields(b)["missing"].json = b.missing
      /\ NextBoostFields(b)["total_score"].json = b.total_score
      /\ NextBoostFields(b)["boost"].json = b.boost
  BY DEF NextBoostFields, Value
<1>2. /\ NonNull(j, DOMAIN NextBoostFields(b))
      /\ j = [f \in DOMAIN NextBoostFields(b) |-> NextBoostFields(b)[f].json]
  BY ObjectIsWhole, ObjectConforms DEF NextBoostForValue
<1> HIDE DEF j
<1>3. Conforms("nextBoostForWallet", j)
  BY <1>1, <1>2 DEF Conforms
<1> QED
  BY <1>1, <1>2, <1>3 DEF j

---------------------------------------------------------------------------
(* The quotes.  The steps of the boost by value:                           *)
USE BoostAssumption, ApiAssumption DEF BoostAssumption, ApiAssumption

LEMMA MinIsMember ==
  ASSUME NEW S, S \subseteq Nat, S # {}
  PROVE  Min(S) \in S /\ \A y \in S : Min(S) <= y
<1>1. \E x \in S : \A y \in S : ~(<<y, x>> \in OpToRel(<, Nat))
  BY NatLessThanWellFounded, WFMin
<1>2. \A x, y \in S : ~(<<y, x>> \in OpToRel(<, Nat)) => x <= y
  BY DEF OpToRel
<1>3. \E x \in S : \A y \in S : x <= y
  BY <1>1, <1>2
<1> QED
  BY <1>3 DEF Min

LEMMA Elements ==
  ASSUME NEW S, NEW q \in Seq(S), NEW i \in DOMAIN q
  PROVE  q[i] \in S
OBVIOUS

LEMMA StepsType ==
  /\ DOMAIN ValueSteps = 1..Len(ValueSteps) /\ Len(ValueSteps) \in Nat \ {0}
  /\ \A i \in DOMAIN ValueSteps :
        ValueSteps[i].step \in Nat /\ ValueSteps[i].coef \in Nat \ {0}
  /\ \A i \in DOMAIN ValueSteps : \A j \in 1..(i - 1) :
        ValueSteps[j].step > ValueSteps[i].step
<1>1. /\ DOMAIN ValueSteps = 1..Len(ValueSteps)
      /\ Len(ValueSteps) \in Nat \ {0}
  BY DEF Steps
<1>2. \A i \in DOMAIN ValueSteps :
        ValueSteps[i] \in [step : Nat, coef : Nat \ {0}]
  <2>1. ValueSteps \in Seq([step : Nat, coef : Nat \ {0}])
    BY DEF Steps
  <2> QED
    BY <2>1, Elements
<1>3. \A i \in DOMAIN ValueSteps :
        ValueSteps[i].step \in Nat /\ ValueSteps[i].coef \in Nat \ {0}
  BY <1>2
<1> QED
  BY <1>1, <1>3, TablesAssumption DEF TablesAssumption

(* The steps a value in dollars hits, and the first of them.               *)
Hit(v) == {i \in DOMAIN ValueSteps : v >= ValueSteps[i].step}

LEMMA FirstHit ==
  ASSUME NEW v \in Nat, Hit(v) # {}
  PROVE  /\ Min(Hit(v)) \in DOMAIN ValueSteps /\ Min(Hit(v)) \in Nat
         /\ v >= ValueSteps[Min(Hit(v))].step
         /\ \A i \in 1..(Min(Hit(v)) - 1) : v < ValueSteps[i].step
<1>1. Hit(v) \subseteq Nat
  BY StepsType DEF Hit
<1>2. Min(Hit(v)) \in Hit(v) /\ \A i \in Hit(v) : Min(Hit(v)) <= i
  BY <1>1, MinIsMember
<1>3. /\ Min(Hit(v)) \in DOMAIN ValueSteps /\ Min(Hit(v)) \in Nat
      /\ v >= ValueSteps[Min(Hit(v))].step
  BY <1>1, <1>2 DEF Hit
<1>4. ASSUME NEW i \in 1..(Min(Hit(v)) - 1)
      PROVE  v < ValueSteps[i].step
  <2>1. i \in DOMAIN ValueSteps
    BY <1>3, StepsType
  <2>2. i \notin Hit(v)
    BY <1>2, <1>3
  <2> QED
    BY <2>1, <2>2, StepsType DEF Hit
<1> QED
  BY <1>3, <1>4

(* In points the same steps are hit, and rounding down to dollars after    *)
(* the boost gives the boosted dollars.                                    *)
LEMMA HitInPoints ==
  ASSUME NEW v \in Nat
  PROVE  {i \in DOMAIN ValueSteps :
            v * Precision >= ValueSteps[i].step * Precision} = Hit(v)
<1>1. \A s \in Nat : v * Precision >= s * Precision <=> v >= s
  OBVIOUS
<1> QED
  BY <1>1, StepsType DEF Hit

(* A multiple of 100 passes through the division.                          *)
LEMMA DivCarries ==
  ASSUME NEW x \in Nat, NEW y \in Nat
  PROVE  (100 * x + y) \div 100 = x + y \div 100
  OBVIOUS

LEMMA DivBelow ==
  ASSUME NEW y \in Nat, NEW p \in Nat, y < 100 * p
  PROVE  y \div 100 \in Nat /\ y \div 100 < p
  OBVIOUS

LEMMA PrecisionCancels ==
  ASSUME NEW v \in Nat, NEW c \in Nat
  PROVE  /\ MulCoeficient(v * Precision, c) \div Precision = MulCoeficient(v, c)
         /\ (v * Precision) \div Precision = v
<1> DEFINE a == v * c
           q == a \div 100
           r == a % 100
<1>0. a \in Nat
  OBVIOUS
<1> HIDE DEF a
<1>1. q \in Nat /\ r \in 0..99 /\ a = 100 * q + r
  BY <1>0
<1> HIDE DEF q, r
<1>2. (v * Precision) * c = a * Precision
  BY DEF a
<1>3. /\ q * Precision \in Nat /\ r * Precision \in Nat
      /\ r * Precision < 100 * Precision
  BY <1>1
<1>4. a * Precision = 100 * (q * Precision) + r * Precision
  BY <1>1
<1>5. (a * Precision) \div 100 = q * Precision + (r * Precision) \div 100
  <2> DEFINE x == q * Precision
             y == r * Precision
  <2>1. x \in Nat /\ y \in Nat
    BY <1>3
  <2> HIDE DEF x, y
  <2>2. (100 * x + y) \div 100 = x + y \div 100
    BY <2>1, DivCarries
  <2> QED
    BY <1>4, <2>2 DEF x, y
<1>6. (r * Precision) \div 100 \in Nat /\ (r * Precision) \div 100 < Precision
  <2> DEFINE y == r * Precision
  <2>1. y \in Nat /\ y < 100 * Precision
    BY <1>3
  <2> HIDE DEF y
  <2>2. y \div 100 \in Nat /\ y \div 100 < Precision
    BY <2>1, DivBelow
  <2> QED
    BY <2>2 DEF y
<1>7. (q * Precision + (r * Precision) \div 100) \div Precision = q
  BY <1>1, <1>6
<1>8. (v * Precision) \div Precision = v
  OBVIOUS
<1> QED
  BY <1>2, <1>5, <1>7, <1>8 DEF MulCoeficient, a, q

(* The loop over points and the loop over dollars agree.                   *)
LEMMA QuotesAgree ==
  ASSUME NEW v \in Nat
  PROVE  LET boost == GetInterval(v).boost
         IN TotalScore(v) = IF boost = 0 THEN v ELSE MulCoeficient(v, boost)
<1> DEFINE boost == GetInterval(v).boost
<1>1. ValueBoost(v * Precision) = AtFirst(v * Precision, ValueSteps, Hit(v))
  BY HitInPoints DEF ValueBoost
<1>2. boost = IF Hit(v) = {} THEN 0 ELSE ValueSteps[Min(Hit(v)) - 1 + 1].coef
  BY DEF GetInterval, Hit
<1> HIDE DEF boost
<1>3. CASE Hit(v) = {}
  BY <1>1, <1>2, <1>3, PrecisionCancels DEF TotalScore, AtFirst, boost
<1>4. CASE Hit(v) # {}
  <2> DEFINE coef == ValueSteps[Min(Hit(v))].coef
  <2>1. /\ Min(Hit(v)) - 1 + 1 = Min(Hit(v))
        /\ coef \in Nat \ {0}
    BY <1>4, FirstHit, StepsType
  <2>2. boost = coef
    BY <1>2, <1>4, <2>1
  <2>3. ValueBoost(v * Precision) = MulCoeficient(v * Precision, coef)
    BY <1>1, <1>4 DEF AtFirst
  <2> HIDE DEF coef
  <2>4. TotalScore(v) = MulCoeficient(v, coef)
    BY <2>1, <2>3, PrecisionCancels DEF TotalScore
  <2> QED
    BY <2>1, <2>2, <2>4 DEF boost
<1> QED
  BY <1>3, <1>4

(* The index of the step above a value.                                    *)
Above(v) == IF Hit(v) = {} THEN Len(ValueSteps) ELSE Min(Hit(v)) - 1

LEMMA StepAbove ==
  ASSUME NEW v \in Nat
  PROVE  /\ Above(v) \in 0..Len(ValueSteps)
         /\ \A i \in 1..Above(v) : v < ValueSteps[i].step
         /\ \A i \in (Above(v) + 1)..Len(ValueSteps) : v >= ValueSteps[i].step
         /\ GetInterval(v).boost = IF Above(v) = Len(ValueSteps) THEN 0
                                   ELSE ValueSteps[Above(v) + 1].coef
<1>1. CASE Hit(v) = {}
  <2>1. Above(v) = Len(ValueSteps)
    BY <1>1 DEF Above
  <2>2. GetInterval(v).boost = 0
    BY <1>1 DEF GetInterval, Hit
  <2>3. \A i \in DOMAIN ValueSteps : v < ValueSteps[i].step
    BY <1>1, StepsType DEF Hit
  <2>4. /\ Len(ValueSteps) \in Nat
        /\ \A i \in 1..Len(ValueSteps) : v < ValueSteps[i].step
        /\ (Len(ValueSteps) + 1)..Len(ValueSteps) = {}
    BY <2>3, StepsType
  <2> HIDE DEF Above
  <2> QED
    BY <2>1, <2>2, <2>4
<1>2. CASE Hit(v) # {}
  <2> DEFINE m == Min(Hit(v))
  <2>1. /\ m \in 1..Len(ValueSteps) /\ m \in Nat
        /\ v >= ValueSteps[m].step
        /\ \A i \in 1..(m - 1) : v < ValueSteps[i].step
    BY <1>2, FirstHit, StepsType
  <2>2. Above(v) = m - 1
    BY <1>2 DEF Above
  <2>3. GetInterval(v).boost = ValueSteps[m - 1 + 1].coef
    BY <1>2 DEF GetInterval, Hit
  <2> HIDE DEF m
  <2>4. ASSUME NEW i \in m..Len(ValueSteps) PROVE v >= ValueSteps[i].step
    <3>1. i \in DOMAIN ValueSteps /\ m \in DOMAIN ValueSteps
      BY <2>1, StepsType
    <3>2. ValueSteps[i].step \in Nat /\ ValueSteps[m].step \in Nat
      BY <3>1, StepsType
    <3>3. i # m => ValueSteps[m].step > ValueSteps[i].step
      <4> SUFFICES ASSUME i # m PROVE ValueSteps[m].step > ValueSteps[i].step
        OBVIOUS
      <4>1. m \in 1..(i - 1)
        BY <2>1, StepsType
      <4> QED
        BY <3>1, <4>1, StepsType
    <3> QED
      BY <2>1, <3>2, <3>3
  <2> QED
    BY <2>1, <2>2, <2>3, <2>4, StepsType
<1> QED
  BY <1>1, <1>2

(* Values with the same step above them have the same boost.               *)
LEMMA AboveIsUnique ==
  ASSUME NEW v \in Nat, NEW a \in 0..Len(ValueSteps),
         \A i \in 1..a : v < ValueSteps[i].step,
         \A i \in (a + 1)..Len(ValueSteps) : v >= ValueSteps[i].step
  PROVE  Above(v) = a
<1>1. /\ Above(v) \in 0..Len(ValueSteps)
      /\ \A i \in 1..Above(v) : v < ValueSteps[i].step
      /\ \A i \in (Above(v) + 1)..Len(ValueSteps) : v >= ValueSteps[i].step
  BY StepAbove
<1>2. Len(ValueSteps) \in Nat /\ \A i \in 1..Len(ValueSteps) :
                                    ValueSteps[i].step \in Nat
  BY StepsType
<1>3. CASE Above(v) < a
  <2>1. Above(v) + 1 \in 1..a /\ Above(v) + 1 \in (Above(v) + 1)..Len(ValueSteps)
    BY <1>1, <1>2, <1>3
  <2> QED
    BY <1>1, <1>2, <2>1
<1>4. CASE a < Above(v)
  <2>1. a + 1 \in 1..Above(v) /\ a + 1 \in (a + 1)..Len(ValueSteps)
    BY <1>1, <1>2, <1>4
  <2> QED
    BY <1>1, <1>2, <2>1
<1> QED
  BY <1>1, <1>3, <1>4

(* What is missing to the step above reaches it, and nothing less changes  *)
(* the boost.                                                              *)
LEMMA MissingReaches ==
  ASSUME NEW v \in 0..MaxValue, GetInterval(v).nextBoost # 0
  PROVE  LET missing == (GetInterval(v).next - v) % Modulus
         IN /\ missing \in 1..MaxValue
            /\ GetInterval(v + missing).boost = GetInterval(v).nextBoost
            /\ \A less \in 0..(missing - 1) :
                  GetInterval(v + less).boost = GetInterval(v).boost
<1> DEFINE a == Above(v)
           step == ValueSteps[a].step
           missing == (GetInterval(v).next - v) % Modulus
<1>0. v \in Nat
  OBVIOUS
<1>1. /\ GetInterval(v).next = IF a = 0 THEN 0 ELSE step
      /\ GetInterval(v).nextBoost = IF a = 0 THEN 0 ELSE ValueSteps[a].coef
  BY DEF GetInterval, Above, Hit
<1>2. a # 0
  BY <1>1
<1>3. /\ a \in 1..Len(ValueSteps) /\ a \in DOMAIN ValueSteps
      /\ \A i \in 1..a : v < ValueSteps[i].step
      /\ \A i \in (a + 1)..Len(ValueSteps) : v >= ValueSteps[i].step
  <2>1. /\ a \in 0..Len(ValueSteps)
        /\ \A i \in 1..a : v < ValueSteps[i].step
        /\ \A i \in (a + 1)..Len(ValueSteps) : v >= ValueSteps[i].step
    BY <1>0, StepAbove
  <2> HIDE DEF a
  <2>2. a \in 1..Len(ValueSteps)
    BY <1>2, <2>1, StepsType
  <2> QED
    BY <2>1, <2>2, StepsType
<1> HIDE DEF a
<1>4. /\ step \in Nat /\ v < step
      /\ \A i \in 1..Len(ValueSteps) : ValueSteps[i].step \in Nat
  <2>1. \A i \in DOMAIN ValueSteps : ValueSteps[i].step \in Nat
    BY StepsType
  <2>2. DOMAIN ValueSteps = 1..Len(ValueSteps)
    BY StepsType
  <2>3. a \in 1..a
    BY <1>3, <2>2
  <2>4. step \in Nat /\ v < step
    BY <1>3, <2>1, <2>3
  <2> HIDE DEF step
  <2> QED
    BY <2>1, <2>2, <2>4
<1>5. step <= MaxValue
  <2>1. 1 \in DOMAIN ValueSteps /\ (a # 1 => 1 \in 1..(a - 1))
    BY <1>3, StepsType
  <2>2. a # 1 => ValueSteps[1].step > step
    BY <1>3, <2>1, StepsType
  <2>3. ValueSteps[1].step \in Nat
    BY <2>1, StepsType
  <2> QED
    BY <1>4, <2>2, <2>3
<1>6. missing = step - v /\ missing \in 1..MaxValue
  <2>1. GetInterval(v).next - v = step - v
    BY <1>1, <1>2
  <2> HIDE DEF step
  <2>2. step - v \in 1..MaxValue
    BY <1>4, <1>5
  <2>3. (step - v) % Modulus = step - v
    BY <2>2
  <2> QED
    BY <2>1, <2>2, <2>3
<1>7. GetInterval(v + missing).boost = GetInterval(v).nextBoost
  <2>1. v + missing = step
    BY <1>4, <1>6
  <2>2. \A i \in 1..(a - 1) : step < ValueSteps[i].step
    BY <1>3, <1>4, StepsType
  <2>3. \A i \in a..Len(ValueSteps) : step >= ValueSteps[i].step
    <3> TAKE i \in a..Len(ValueSteps)
    <3>1. i # a => v >= ValueSteps[i].step
      BY <1>3
    <3>2. i \in 1..Len(ValueSteps)
      BY <1>3
    <3> QED
      BY <1>4, <3>1, <3>2
  <2>4. a - 1 \in 0..Len(ValueSteps) /\ a - 1 + 1 = a
    BY <1>3
  <2>5. Above(step) = a - 1
    <3> HIDE DEF step
    <3> QED
      BY <1>4, <2>2, <2>3, <2>4, AboveIsUnique
  <2>6. a - 1 # Len(ValueSteps)
    BY <1>3, StepsType
  <2>7. GetInterval(step).boost = ValueSteps[a].coef
    <3> HIDE DEF step
    <3> QED
      BY <1>4, <2>4, <2>5, <2>6, StepAbove
  <2> QED
    BY <1>1, <1>2, <2>1, <2>7
<1>8. ASSUME NEW less \in 0..(missing - 1)
      PROVE  GetInterval(v + less).boost = GetInterval(v).boost
  <2>1. v + less \in Nat /\ v + less < step /\ v <= v + less
    BY <1>4, <1>6
  <2>2. \A i \in 1..a : v + less < ValueSteps[i].step
    <3> TAKE i \in 1..a
    <3>1. i # a => ValueSteps[i].step > step
      BY <1>3, StepsType
    <3>2. ValueSteps[i].step \in Nat
      BY <1>3, <1>4
    <3> QED
      BY <1>4, <2>1, <3>1, <3>2
  <2>3. \A i \in (a + 1)..Len(ValueSteps) : v + less >= ValueSteps[i].step
    <3> TAKE i \in (a + 1)..Len(ValueSteps)
    <3>1. v >= ValueSteps[i].step /\ i \in 1..Len(ValueSteps)
      BY <1>3
    <3> QED
      BY <1>4, <2>1, <3>1
  <2>4. Above(v + less) = a
    <3> DEFINE w == v + less
    <3>1. /\ w \in Nat /\ a \in 0..Len(ValueSteps)
          /\ \A i \in 1..a : w < ValueSteps[i].step
          /\ \A i \in (a + 1)..Len(ValueSteps) : w >= ValueSteps[i].step
      BY <1>3, <2>1, <2>2, <2>3, StepsType
    <3> HIDE DEF w
    <3>2. Above(w) = a
      BY <3>1, AboveIsUnique
    <3> QED
      BY <3>2 DEF w
  <2> QED
    BY <1>0, <2>1, <2>4, StepAbove DEF a
<1> QED
  BY <1>6, <1>7, <1>8

---------------------------------------------------------------------------
(* The lines.  A value that is no object and no list, as nil and null are. *)
IsAtom(v) == v # [x \in DOMAIN v |-> v[x]]

MetadataKeys == {"slot", "project_name", "date", "event", "boosts", "rule"}

LEMMA MetadataSurvives ==
  ASSUME NEW m, m = [k \in MetadataKeys |-> m[k]], IsAtom(Nil),
         \A k \in MetadataKeys : m[k] # Nil
  PROVE  MarshalOMetadata(m).json = m
<1> DEFINE fields == Joined(MetadataOrigin(m), MetadataScoring(m))
<1>1. m # Nil
  BY DEF IsAtom
<1>2. /\ DOMAIN fields = MetadataKeys
      /\ \A k \in MetadataKeys : fields[k] = Optional(m[k], Value)
  BY DEF MetadataOrigin, MetadataScoring, Joined, MetadataKeys
<1>3. \A k \in MetadataKeys : fields[k].json = m[k]
  <2> HIDE DEF fields
  <2>1. \A k \in MetadataKeys : Optional(m[k], Value).json = m[k]
    BY DEF Optional, Value
  <2> QED
    BY <1>2, <2>1
<1>4. MarshalOMetadata(m) = Object(fields, {})
  BY <1>1 DEF MarshalOMetadata, Optional, Metadata
<1> HIDE DEF fields
<1>5. Object(fields, {}).json = [k \in DOMAIN fields |-> fields[k].json]
  BY DEF Object
<1>6. Object(fields, {}).json = [k \in MetadataKeys |-> m[k]]
  BY <1>2, <1>3, <1>5
<1> QED
  BY <1>4, <1>6

LEMMA PointSurvives ==
  ASSUME NEW p, IsAtom(Nil), DOMAIN p = {"rule", "value", "metadata"},
         p = [k \in DOMAIN p |-> p[k]], p.value # Nil
  PROVE  /\ MarshalOPointDetails(p).json.value = p.value
         /\ MarshalOPointDetails(p).json.metadata
              = MarshalOMetadata(p.metadata).json
<1>1. p # Nil
  BY DEF IsAtom
<1>2. MarshalOPointDetails(p) = Object(PointDetailsFields(p), {})
  BY <1>1 DEF MarshalOPointDetails, Optional, PointDetails
<1>3. Object(PointDetailsFields(p), {}).json
        = [k \in {"rule", "value", "metadata"} |-> PointDetailsFields(p)[k].json]
  BY DEF Object, PointDetailsFields
<1>4. /\ PointDetailsFields(p)["value"].json = p.value
      /\ PointDetailsFields(p)["metadata"] = MarshalOMetadata(p.metadata)
  BY DEF PointDetailsFields, Optional, Value
<1> QED
  BY <1>2, <1>3, <1>4

LEMMA LineSurvives ==
  ASSUME IsAtom(Nil), NEW wallet, NEW scored \in Scored, NEW position,
         LineData(ItemToGqlModel(LineFromScore(wallet, scored),
                                 position)).json # Null
  PROVE  AsScored(LineData(ItemToGqlModel(LineFromScore(wallet, scored),
                                          position)).json)
<1> DEFINE line == LineFromScore(wallet, scored)
           item == ItemToGqlModel(line, position)
           j    == LineData(item).json
<1>1. /\ item.total_score = scored.total
      /\ item.categories = scored.categories
      /\ item.points = PointsOf(line)
  BY DEF ItemToGqlModel, LineFromScore
<1>2. /\ j.total_score = item.total_score
      /\ j.points = PointDetailsList(item.points).json
      /\ j.categories = Categories(item.categories).json
  BY LineConforming
<1>3. j.categories = scored.categories
  <2>1. Categories(item.categories).json # Null
    BY <1>2, LineConforming DEF LineConforms, NonNull
  <2>2. Categories(item.categories).json
          = [c \in {"fund", "farming", "other"} |-> item.categories[c]]
    BY <2>1, CategoriesConform
  <2> QED
    BY <1>1, <1>2, <2>2, LinesAssumption DEF LinesAssumption
<1>4. /\ DOMAIN item.points = DOMAIN scored.scores
      /\ \A i \in DOMAIN scored.scores :
            LET s == scored.scores[i]
            IN item.points[i] =
                 [rule |-> line.points[Len(line.points)].rule,
                  value |-> ToInt(s.points % Word),
                  metadata |-> PointMetadata(s)]
  <2>1. /\ DOMAIN line.points = DOMAIN scored.scores
        /\ \A i \in DOMAIN scored.scores :
              /\ line.points[i].value = scored.scores[i].points % Word
              /\ line.points[i].metadata = PointMetadata(scored.scores[i])
    BY DEF LineFromScore
  <2> HIDE DEF line
  <2>2. item.points =
          [i \in DOMAIN line.points |->
              [rule     |-> line.points[Len(line.points)].rule,
               value    |-> ToInt(line.points[i].value),
               metadata |-> line.points[i].metadata]]
    BY DEF PointsOf, ItemToGqlModel
  <2> HIDE DEF item
  <2> QED
    BY <2>1, <2>2
<1> HIDE DEF line, item, j
<1>5. /\ DOMAIN j.points = DOMAIN scored.scores
      /\ \A i \in DOMAIN j.points :
            j.points[i] = MarshalOPointDetails(item.points[i]).json
  BY <1>2, <1>4 DEF PointDetailsList, List
<1>6. ASSUME NEW i \in DOMAIN scored.scores
      PROVE  /\ j.points[i].value = scored.scores[i].points
             /\ j.points[i].metadata = PointMetadata(scored.scores[i])
  <2> DEFINE s == scored.scores[i]
             p == item.points[i]
  <2>1. /\ s.points \in Nat /\ s.points < Word \div 2
        /\ Nil \notin {s.slot, s.project, s.date, s.event, s.boosts, s.rule,
                       s.points}
    BY LinesAssumption DEF LinesAssumption
  <2>2. ToInt(s.points % Word) = s.points
    <3> HIDE DEF s
    <3>1. s.points % Word = s.points
      BY <2>1
    <3> QED
      BY <2>1, <3>1 DEF ToInt
  <2>3. p = [rule |-> line.points[Len(line.points)].rule,
             value |-> s.points, metadata |-> PointMetadata(s)]
    BY <1>4, <2>2
  <2> HIDE DEF p
  <2>4. MarshalOMetadata(PointMetadata(s)).json = PointMetadata(s)
    <3> DEFINE m == PointMetadata(s)
    <3>1. /\ m = [k \in MetadataKeys |-> m[k]]
          /\ \A k \in MetadataKeys : m[k] # Nil
      <4> HIDE DEF s
      <4> QED
        BY <2>1 DEF PointMetadata, MetadataKeys
    <3> HIDE DEF m
    <3>2. MarshalOMetadata(m).json = m
      BY <3>1, MetadataSurvives
    <3> QED
      BY <3>2 DEF m
  <2>5. /\ MarshalOPointDetails(p).json.value = s.points
        /\ MarshalOPointDetails(p).json.metadata
             = MarshalOMetadata(PointMetadata(s)).json
    <3> HIDE DEF s
    <3>1. /\ DOMAIN p = {"rule", "value", "metadata"}
          /\ p = [k \in DOMAIN p |-> p[k]]
          /\ p.value = s.points /\ p.metadata = PointMetadata(s)
          /\ p.value # Nil
      BY <2>1, <2>3
    <3> QED
      BY <3>1, PointSurvives
  <2> QED
    BY <1>5, <2>4, <2>5 DEF p
<1> QED
  BY <1>1, <1>2, <1>3, <1>5, <1>6 DEF AsScored, line, item, j

---------------------------------------------------------------------------
(* The inductive invariant: what is stored comes from a scoring, and every *)
(* value that a resolver has left, of this query or in the last response,  *)
(* conforms, ranks lines as they were scored and quotes the value that was *)
(* asked about; a null has been counted.                                   *)
Ranked(l) == l.wallet_address \in Wallets => AsScored(l)
Result(f, j, v) ==
  /\ Conforms(f, j)
  /\ IsAtom(Nil) =>
       /\ f = "leaderboardForWallet" => Ranked(j)
       /\ f = "leaderboard" => \A i \in DOMAIN j.data : Ranked(j.data[i])
  /\ f = "boostForWallet" =>
       /\ j.value = v /\ j.total_score = TotalScore(v)
       /\ j.boost = GetInterval(v).boost
  /\ f = "nextBoostForWallet" =>
       /\ j.missing = (GetInterval(v).next - v) % Modulus
       /\ j.boost = GetInterval(v).nextBoost

StoredInv ==
  /\ IsFiniteSet(DOMAIN stored)
  /\ \A w \in DOMAIN stored :
        /\ w \in Wallets
        /\ \E scored \in Scored : stored[w] = LineFromScore(w, scored)
QueryInv ==
  /\ asked \subseteq RootFields /\ DOMAIN values \subseteq asked
  /\ valueToBuy \in 0..MaxValue /\ invalids \in Nat
  /\ \A f \in DOMAIN values :
        /\ values[f] = Null => invalids # 0
        /\ values[f] # Null => Result(f, values[f], valueToBuy)
ResponseInv ==
  response.data # Null =>
    \A f \in DOMAIN response.data :
      f \in RootFields /\ Result(f, response.data[f], valueToBuy)
ApiInv == StoredInv /\ QueryInv /\ ResponseInv

(* Lines that are as they were scored, if they are a wallet's.             *)
GoodLine(l) ==
  (IsAtom(Nil) /\ LineData(l).json # Null) => Ranked(LineData(l).json)

LEMMA StoredLineIsGood ==
  ASSUME StoredInv, NEW w \in DOMAIN stored, NEW position
  PROVE  GoodLine(ItemToGqlModel(stored[w], position))
BY LineSurvives DEF StoredInv, GoodLine, Ranked

LEMMA OtherLineIsGood ==
  ASSUME NEW l \in OtherLines \union {ItemToGqlModel(NoRow, 0)}, l # Nil
  PROVE  GoodLine(l)
<1>1. l.wallet_address \notin Wallets
  <2>1. CASE l \in OtherLines
    BY <2>1, LinesAssumption DEF LinesAssumption
  <2>2. CASE l = ItemToGqlModel(NoRow, 0)
    <3>1. l.wallet_address = ""
      BY <2>2 DEF ItemToGqlModel, NoRow
    <3> QED
      BY <3>1, LinesAssumption DEF LinesAssumption
  <2> QED
    BY <2>1, <2>2
<1> QED
  BY <1>1, LineConforming DEF GoodLine, Ranked

(* What the four root fields make of good lines and of the quotes.         *)
Root(f, r, v) == f \in RootFields /\ (r.json # Null => Result(f, r.json, v))

LEMMA FailureIsNull ==
  ASSUME NEW f \in RootFields, NEW place, NEW v
  PROVE  Root(f, Failure(place), v)
BY DEF Root, Failure

LEMMA LineResult ==
  ASSUME NEW l, l # Nil => GoodLine(l), NEW v
  PROVE  Root("leaderboardForWallet", QueryLeaderboardForWallet(l), v)
<1> DEFINE r == QueryLeaderboardForWallet(l)
<1>1. SUFFICES ASSUME r.json # Null
               PROVE  Result("leaderboardForWallet", r.json, v)
  BY DEF Root, RootFields
<1>2. l # Nil /\ r = LineData(l)
  BY <1>1 DEF QueryLeaderboardForWallet, Required, Failure
<1>3. LineConforms(r.json)
  BY <1>1, <1>2, LineConforming
<1>4. IsAtom(Nil) => Ranked(r.json)
  BY <1>1, <1>2 DEF GoodLine
<1> HIDE DEF r
<1>5. Conforms("leaderboardForWallet", r.json)
  BY <1>3 DEF Conforms
<1> QED
  BY <1>4, <1>5 DEF Result, r

LEMMA PageResult ==
  ASSUME NEW b, b # Nil =>
           \A i \in DOMAIN b.data : b.data[i] # Nil => GoodLine(b.data[i]),
         NEW v
  PROVE  Root("leaderboard", QueryLeaderboard(b), v)
<1> DEFINE r == QueryLeaderboard(b)
<1>1. SUFFICES ASSUME r.json # Null
               PROVE  Result("leaderboard", r.json, v)
  BY DEF Root, RootFields
<1>2. b # Nil /\ r = Leaderboard(b)
  BY <1>1 DEF QueryLeaderboard, Required, Failure
<1>3. /\ Conforms("leaderboard", r.json)
      /\ DOMAIN r.json.data = DOMAIN b.data
      /\ \A i \in DOMAIN r.json.data :
            /\ r.json.data[i] # Null /\ b.data[i] # Nil
            /\ r.json.data[i] = LineData(b.data[i]).json
  BY <1>1, <1>2, LeaderboardConforms
<1> HIDE DEF r
<1>4. IsAtom(Nil) => \A i \in DOMAIN r.json.data : Ranked(r.json.data[i])
  BY <1>2, <1>3 DEF GoodLine
<1> QED
  BY <1>3, <1>4 DEF Result, r

LEMMA BoostResult ==
  ASSUME NEW v
  PROVE  LET b == [value |-> v, total_score |-> TotalScore(v),
                   boost |-> GetInterval(v).boost]
         IN Root("boostForWallet", QueryBoostForWallet(b), v)
<1> DEFINE b == [value |-> v, total_score |-> TotalScore(v),
                 boost |-> GetInterval(v).boost]
           r == QueryBoostForWallet(b)
<1>1. SUFFICES ASSUME r.json # Null
               PROVE  Result("boostForWallet", r.json, v)
  BY DEF Root, RootFields
<1>2. r = BoostForValue(b)
  BY <1>1 DEF QueryBoostForWallet, Required, Failure
<1>3. /\ b.value = v /\ b.total_score = TotalScore(v)
      /\ b.boost = GetInterval(v).boost
  OBVIOUS
<1> HIDE DEF b, r
<1>4. /\ Conforms("boostForWallet", r.json)
      /\ r.json.value = b.value /\ r.json.total_score = b.total_score
      /\ r.json.boost = b.boost
  BY <1>1, <1>2, BoostConforms
<1> QED
  BY <1>3, <1>4 DEF Result, b, r

LEMMA NextBoostResult ==
  ASSUME NEW v
  PROVE  LET b == [total_score |-> TotalScore(v),
                   missing |-> (GetInterval(v).next - v) % Modulus,
                   boost |-> GetInterval(v).nextBoost]
         IN Root("nextBoostForWallet", QueryNextBoostForWallet(b), v)
<1> DEFINE b == [total_score |-> TotalScore(v),
                 missing |-> (GetInterval(v).next - v) % Modulus,
                 boost |-> GetInterval(v).nextBoost]
           r == QueryNextBoostForWallet(b)
<1>1. SUFFICES ASSUME r.json # Null
               PROVE  Result("nextBoostForWallet", r.json, v)
  BY DEF Root, RootFields
<1>2. r = NextBoostForValue(b)
  BY <1>1 DEF QueryNextBoostForWallet, Required, Failure
<1>3. /\ b.missing = (GetInterval(v).next - v) % Modulus
      /\ b.boost = GetInterval(v).nextBoost
  OBVIOUS
<1> HIDE DEF b, r
<1>4. /\ Conforms("nextBoostForWallet", r.json)
      /\ r.json.missing = b.missing /\ r.json.boost = b.boost
  BY <1>1, <1>2, NextBoostConforms
<1> QED
  BY <1>3, <1>4 DEF Result, b, r

---------------------------------------------------------------------------
(* Every resolver ends with such a result, or with an error.               *)
Resolved == \E f, r : Root(f, r, valueToBuy) /\ Finish(f, r)

LEMMA CompleteIsFinish ==
  ASSUME NEW v
  PROVE  /\ Complete("leaderboard", v)
              <=> Finish("leaderboard", QueryLeaderboard(v))
         /\ Complete("leaderboardForWallet", v)
              <=> Finish("leaderboardForWallet", QueryLeaderboardForWallet(v))
         /\ Complete("boostForWallet", v)
              <=> Finish("boostForWallet", QueryBoostForWallet(v))
         /\ Complete("nextBoostForWallet", v)
              <=> Finish("nextBoostForWallet", QueryNextBoostForWallet(v))
BY DEF Complete

LEMMA KeptRows ==
  ASSUME StoredInv, NEW rows \in Orders, NEW limit \in Nat
  PROVE  LET kept == SubSeq(rows, 1, Min({limit, Len(rows)}))
         IN \A i \in DOMAIN kept : kept[i] \in DOMAIN stored
<1> DEFINE n == Cardinality(DOMAIN stored)
           m == Min({limit, Len(rows)})
           kept == SubSeq(rows, 1, m)
<1>1. n \in Nat /\ rows \in [1..n -> DOMAIN stored]
  BY FS_CardinalityType DEF Orders, StoredInv
<1> HIDE DEF n
<1>2. rows \in Seq(DOMAIN stored) /\ Len(rows) = n
  BY <1>1
<1>3. m \in Nat /\ m <= n
  <2>1. {limit, Len(rows)} \subseteq Nat /\ {limit, Len(rows)} # {}
    BY <1>1, <1>2
  <2>2. m \in {limit, Len(rows)} /\ \A y \in {limit, Len(rows)} : m <= y
    BY <2>1, MinIsMember
  <2> HIDE DEF m
  <2> QED
    BY <1>1, <1>2, <2>2
<1> HIDE DEF m
<1>4. DOMAIN kept = 1..m /\ \A i \in 1..m : kept[i] = rows[i]
  BY <1>1, <1>2, <1>3
<1>5. \A i \in 1..m : rows[i] \in DOMAIN stored
  BY <1>1, <1>3
<1> HIDE DEF kept
<1>6. \A i \in DOMAIN kept : kept[i] \in DOMAIN stored
  BY <1>4, <1>5
<1> QED
  BY <1>6 DEF kept, m

LEMMA ReadLeaderboardResolves ==
  ASSUME StoredInv, NEW limit \in 1..Cardinality(Wallets),
         ReadLeaderboard(limit)
  PROVE  Resolved
<1>1. PICK rows \in Orders, numbers \in Orders,
           counted \in BOOLEAN, read \in BOOLEAN :
        LET kept  == SubSeq(rows, 1, Min({limit, Len(rows)}))
            lines == IF read THEN LinesOf(kept, numbers) ELSE <<>>
        IN Complete("leaderboard",
                    LeaderboardPage(limit, IF counted THEN Len(rows) ELSE 0,
                                    lines))
  BY DEF ReadLeaderboard
<1> DEFINE kept  == SubSeq(rows, 1, Min({limit, Len(rows)}))
           lines == IF read THEN LinesOf(kept, numbers) ELSE <<>>
           b == LeaderboardPage(limit, IF counted THEN Len(rows) ELSE 0, lines)
<1>2. \A i \in DOMAIN kept : kept[i] \in DOMAIN stored
  <2>1. limit \in Nat
    OBVIOUS
  <2> QED
    BY <2>1, KeptRows
<1> HIDE DEF kept
<1>3. \A i \in DOMAIN lines : GoodLine(lines[i])
  <2>1. CASE read
    <3>1. /\ DOMAIN lines = DOMAIN kept
          /\ \A i \in DOMAIN kept : \E position :
                lines[i] = ItemToGqlModel(stored[kept[i]], position)
      BY <2>1 DEF LinesOf
    <3> QED
      BY <1>2, <3>1, StoredLineIsGood
  <2>2. CASE ~read
    BY <2>2
  <2> QED
    BY <2>1, <2>2
<1>4. b.data = lines
  BY DEF LeaderboardPage
<1>5. Finish("leaderboard", QueryLeaderboard(b))
  BY <1>1, CompleteIsFinish DEF kept
<1> HIDE DEF lines, b
<1>6. Root("leaderboard", QueryLeaderboard(b), valueToBuy)
  BY <1>3, <1>4, PageResult
<1> QED
  BY <1>5, <1>6 DEF Resolved

LEMMA LeaderboardForWalletResolves ==
  ASSUME StoredInv, NEW wallet \in Wallets, LeaderboardForWallet(wallet)
  PROVE  Resolved
<1>1. \E l : /\ GoodLine(l)
             /\ Complete("leaderboardForWallet", l)
  <2>1. CASE wallet \in DOMAIN stored
    BY <2>1, StoredLineIsGood DEF LeaderboardForWallet
  <2>2. CASE wallet \notin DOMAIN stored
    <3>1. GoodLine(ItemToGqlModel(NoRow, 0))
      <4>1. CASE ItemToGqlModel(NoRow, 0) # Nil
        BY <4>1, OtherLineIsGood
      <4>2. CASE ItemToGqlModel(NoRow, 0) = Nil
        BY <4>2 DEF GoodLine, IsAtom, ItemToGqlModel
      <4> QED
        BY <4>1, <4>2
    <3> QED
      BY <2>2, <3>1 DEF LeaderboardForWallet
  <2> QED
    BY <2>1, <2>2
<1> QED
  BY <1>1, LineResult, CompleteIsFinish DEF Resolved

LEMMA ReturnOtherResolves ==
  ASSUME NEW line \in OtherLines, ReturnOther(line)
  PROVE  Resolved
<1>0. line # Nil => GoodLine(line)
  BY OtherLineIsGood
<1>1. CASE Complete("leaderboardForWallet", line)
  BY <1>0, <1>1, LineResult, CompleteIsFinish DEF Resolved
<1>2. ASSUME NEW b, b.data = <<line>>, Complete("leaderboard", b)
      PROVE  Resolved
  <2>1. DOMAIN b.data = {1} /\ b.data[1] = line
    BY <1>2
  <2>2. \A i \in DOMAIN b.data : b.data[i] # Nil => GoodLine(b.data[i])
    BY <1>0, <2>1
  <2> QED
    BY <1>2, <2>2, PageResult, CompleteIsFinish DEF Resolved
<1>3. /\ [data |-> <<line>>, page_info |-> Nil].data = <<line>>
      /\ LeaderboardPage(1, 1, <<line>>).data = <<line>>
  BY DEF LeaderboardPage
<1> QED
  BY <1>1, <1>2, <1>3 DEF ReturnOther

(* A resolver that ends keeps the invariant.                               *)
LEMMA ResolvedNext ==
  ASSUME ApiInv, Resolved, UNCHANGED <<stored, valueToBuy>>
  PROVE  ApiInv'
<1>1. PICK f, r : Root(f, r, valueToBuy) /\ Finish(f, r)
  BY DEF Resolved
<1>2. /\ f \in asked \ DOMAIN values
      /\ invalids' = invalids + IF r.json = Null THEN 1 ELSE 0
      /\ UNCHANGED <<asked, response>>
  BY <1>1 DEF Finish
<1>3. /\ DOMAIN values' = DOMAIN values \union {f}
      /\ \A g \in DOMAIN values : values'[g] = values[g]
      /\ values'[f] = r.json
  BY <1>1 DEF Finish, Joined
<1>4. QueryInv'
  <2>1. /\ asked' \subseteq RootFields /\ DOMAIN values' \subseteq asked'
        /\ valueToBuy' \in 0..MaxValue /\ invalids' \in Nat
    BY <1>2, <1>3 DEF ApiInv, QueryInv
  <2>2. \A g \in DOMAIN values' :
          /\ values'[g] = Null => invalids' # 0
          /\ values'[g] # Null => Result(g, values'[g], valueToBuy')
    <3> TAKE g \in DOMAIN values'
    <3>1. CASE g = f
      BY <1>1, <1>2, <1>3, <3>1 DEF Root, ApiInv, QueryInv
    <3>2. CASE g \in DOMAIN values
      BY <1>2, <1>3, <3>2 DEF ApiInv, QueryInv
    <3> QED
      BY <1>3, <3>1, <3>2
  <2> QED
    BY <2>1, <2>2 DEF QueryInv
<1>5. StoredInv' /\ ResponseInv'
  BY <1>2 DEF ApiInv, StoredInv, ResponseInv
<1> QED
  BY <1>4, <1>5 DEF ApiInv

LEMMA ApiInvInit == ApiInit => ApiInv
<1> SUFFICES ASSUME ApiInit PROVE ApiInv
  OBVIOUS
<1>1. StoredInv
  BY FS_EmptySet DEF ApiInit, StoredInv
<1>2. QueryInv
  BY DEF ApiInit, Init, QueryInv
<1>3. ResponseInv
  BY DEF ApiInit, Init, ResponseInv, NoResponse
<1> QED
  BY <1>1, <1>2, <1>3 DEF ApiInv

LEMMA ApiInvNext == ApiInv /\ [ApiNext]_apiVars => ApiInv'
<1> SUFFICES ASSUME ApiInv, [ApiNext]_apiVars PROVE ApiInv'
  OBVIOUS
<1> USE DEF ApiInv
<1>1. ASSUME NEW fields \in SUBSET RootFields, NEW v \in 0..MaxValue,
             Query(fields, v)
      PROVE  ApiInv'
  <2>1. /\ asked = {} /\ asked' = fields /\ response' = NoResponse
        /\ UNCHANGED <<values, errors, invalids, stored>> /\ valueToBuy' = v
    BY <1>1 DEF Query, Ask
  <2>2. DOMAIN values = {}
    BY <2>1 DEF QueryInv
  <2>3. QueryInv'
    BY <2>1, <2>2 DEF QueryInv
  <2>4. ResponseInv'
    BY <2>1 DEF ResponseInv, NoResponse
  <2> QED
    BY <2>1, <2>3, <2>4 DEF StoredInv
<1>2. ASSUME UNCHANGED <<stored, valueToBuy>>,
             NEW f \in RootFields, RefuseArguments(f)
      PROVE  ApiInv'
  BY <1>2, FailureIsNull, ResolvedNext DEF RefuseArguments, Resolved
<1>3. ASSUME UNCHANGED <<stored, valueToBuy>>,
             NEW limit \in 1..Cardinality(Wallets), ReadLeaderboard(limit)
      PROVE  ApiInv'
  BY <1>3, ReadLeaderboardResolves, ResolvedNext
<1>4. ASSUME UNCHANGED <<stored, valueToBuy>>,
             NEW wallet \in Wallets, LeaderboardForWallet(wallet)
      PROVE  ApiInv'
  BY <1>4, LeaderboardForWalletResolves, ResolvedNext
<1>5. ASSUME UNCHANGED <<stored, valueToBuy>>, Fail("leaderboardForWallet")
      PROVE  ApiInv'
  <2>1. "leaderboardForWallet" \in RootFields
    BY DEF RootFields
  <2> QED
    BY <1>5, <2>1, FailureIsNull, ResolvedNext DEF Fail, Resolved
<1>6. ASSUME UNCHANGED <<stored, valueToBuy>>,
             BoostForWallet \/ NextBoostForWallet
      PROVE  ApiInv'
  <2>1. Resolved
    BY <1>6, CompleteIsFinish, BoostResult, NextBoostResult
       DEF BoostForWallet, NextBoostForWallet, Resolved
  <2> QED
    BY <1>6, <2>1, ResolvedNext
<1>7. ASSUME UNCHANGED <<stored, valueToBuy>>,
             NEW line \in OtherLines, ReturnOther(line)
      PROVE  ApiInv'
  BY <1>7, ReturnOtherResolves, ResolvedNext
<1>8. ASSUME UNCHANGED <<stored, valueToBuy>>, Respond
      PROVE  ApiInv'
  <2>1. /\ response'.data = IF invalids > 0 THEN Null ELSE values
        /\ asked' = {} /\ values' = <<>> /\ invalids' = 0
    BY <1>8 DEF Respond
  <2>2. ResponseInv'
    <3>1. CASE invalids > 0
      BY <2>1, <3>1 DEF ResponseInv
    <3>2. CASE invalids = 0
      BY <1>8, <2>1, <3>2 DEF ResponseInv, QueryInv
    <3> QED
      BY <3>1, <3>2 DEF QueryInv
  <2>3. QueryInv'
    BY <1>8, <2>1 DEF QueryInv
  <2> QED
    BY <1>8, <2>2, <2>3 DEF StoredInv
<1>9. ASSUME NEW wallet \in Wallets, Rank(wallet)
      PROVE  ApiInv'
  <2>1. PICK scored \in Scored :
          stored' = Joined([w \in {wallet} |-> LineFromScore(w, scored)], stored)
    BY <1>9 DEF Rank
  <2>2. /\ DOMAIN stored' = DOMAIN stored \union {wallet}
        /\ stored'[wallet] = LineFromScore(wallet, scored)
        /\ \A w \in DOMAIN stored : w # wallet => stored'[w] = stored[w]
    BY <2>1 DEF Joined
  <2>3. IsFiniteSet(DOMAIN stored')
    BY <2>2, FS_AddElement DEF StoredInv
  <2>4. StoredInv'
    BY <2>2, <2>3 DEF StoredInv
  <2>5. UNCHANGED <<vars, valueToBuy>>
    BY <1>9 DEF Rank
  <2>6. QueryInv' /\ ResponseInv'
    BY <2>5 DEF vars, QueryInv, ResponseInv
  <2> QED
    BY <2>4, <2>6
<1>10. CASE RankNobody
  <2>1. StoredInv'
    BY <1>10, FS_EmptySet DEF RankNobody, StoredInv
  <2>2. QueryInv' /\ ResponseInv'
    BY <1>10 DEF RankNobody, vars, QueryInv, ResponseInv
  <2> QED
    BY <2>1, <2>2
<1>11. CASE UNCHANGED apiVars
  BY <1>11 DEF apiVars, vars, StoredInv, QueryInv, ResponseInv
<1> QED
  BY <1>1, <1>2, <1>3, <1>4, <1>5, <1>6, <1>7, <1>8, <1>9, <1>10, <1>11
     DEF ApiNext

LEMMA ApiInvAlways == ApiSpec => []ApiInv
BY ApiInvInit, ApiInvNext, PTL DEF ApiSpec

(* No field that the schema declares non-null is null at any depth of a    *)
(* response that has data: whatever the resolvers return, the nulls of     *)
(* their fields, lists and objects end in Invalids (graph/generated.go).   *)
THEOREM ResponsesConform == ApiSpec => []ResponseConforms
<1>1. ApiInv => ResponseConforms
  BY DEF ApiInv, ResponseInv, Result, ResponseConforms
<1> QED
  BY <1>1, ApiInvAlways, PTL

(* Every step but Respond leaves the response alone or takes it back.      *)
LEMMA OnlyRespondAnswers ==
  ASSUME [ApiNext]_apiVars
  PROVE  Respond \/ response' \in {response, NoResponse}
<1>1. ASSUME NEW f, NEW v, Complete(f, v) PROVE response' = response
  <2>1. PICK result : Finish(f, result)
    BY <1>1 DEF Complete
  <2> QED
    BY <2>1 DEF Finish
<1>2. ASSUME NEW fields, NEW v, Query(fields, v) PROVE response' = NoResponse
  BY <1>2 DEF Query, Ask
<1>3. ASSUME NEW f, RefuseArguments(f) \/ Fail(f) PROVE response' = response
  BY <1>3 DEF RefuseArguments, Fail, Finish
<1>4. ASSUME NEW limit, ReadLeaderboard(limit) PROVE response' = response
  BY <1>4, <1>1 DEF ReadLeaderboard
<1>5. ASSUME NEW wallet, LeaderboardForWallet(wallet)
      PROVE  response' = response
  <2>1. CASE wallet \in DOMAIN stored
    BY <1>5, <2>1, <1>1 DEF LeaderboardForWallet
  <2>2. CASE wallet \notin DOMAIN stored
    BY <1>5, <2>2, <1>1 DEF LeaderboardForWallet
  <2> QED
    BY <2>1, <2>2
<1>6. BoostForWallet \/ NextBoostForWallet => response' = response
  BY <1>1 DEF BoostForWallet, NextBoostForWallet
<1>7. ASSUME NEW line, ReturnOther(line) PROVE response' = response
  BY <1>7, <1>1 DEF ReturnOther
<1>8. ASSUME NEW wallet, Rank(wallet) PROVE response' = response
  BY <1>8 DEF Rank, vars
<1>9. RankNobody \/ UNCHANGED apiVars => response' = response
  BY DEF RankNobody, apiVars, vars
<1> QED
  BY <1>2, <1>3, <1>4, <1>5, <1>6, <1>7, <1>8, <1>9 DEF ApiNext

(* A response with data answers every field of the query, in whatever      *)
(* order the resolvers end.                                                *)
THEOREM ResponsesAreComplete == ApiSpec => ResponseComplete
<1>1. ASSUME [ApiNext]_apiVars
      PROVE  [(response' \notin {response, NoResponse} /\ response'.data # Null)
                => DOMAIN response'.data = asked]_vars
  <2> SUFFICES ASSUME response' \notin {response, NoResponse},
                      response'.data # Null
               PROVE  DOMAIN response'.data = asked
    OBVIOUS
  <2>1. Respond
    BY <1>1, OnlyRespondAnswers
  <2> QED
    BY <2>1 DEF Respond
<1> QED
  BY <1>1, PTL DEF ApiSpec, ResponseComplete

(* The two loops over the steps of the boost, one over points and one over *)
(* dollars (boost.go), quote the same for every value.                     *)
THEOREM QuotesAreConsistent == ApiSpec => []QuoteIsConsistent
<1>1. ApiInv => QuoteIsConsistent
  <2> SUFFICES ASSUME ApiInv, Answers("boostForWallet")
               PROVE  LET q == Answer("boostForWallet")
                      IN /\ q.value = valueToBuy
                         /\ q.total_score = IF q.boost = 0 THEN q.value
                                            ELSE MulCoeficient(q.value, q.boost)
    BY DEF QuoteIsConsistent
  <2>1. Result("boostForWallet", Answer("boostForWallet"), valueToBuy)
    BY DEF ApiInv, ResponseInv, Answers, Answer
  <2>2. valueToBuy \in Nat
    BY DEF ApiInv, QueryInv
  <2> QED
    BY <2>1, <2>2, QuotesAgree DEF Result
<1> QED
  BY <1>1, ApiInvAlways, PTL

(* What NextBoostForWallet (schema.resolvers.go) says is missing to the    *)
(* next boost suffices for it, and nothing less does.                      *)
THEOREM WhatIsMissingSuffices == ApiSpec => []MissingSuffices
<1>1. ApiInv => MissingSuffices
  <2> SUFFICES ASSUME ApiInv, Answers("nextBoostForWallet"),
                      Answer("nextBoostForWallet").boost # 0
               PROVE  LET q == Answer("nextBoostForWallet")
                          BoostAfter(more) ==
                              GetInterval(valueToBuy + more).boost
                      IN /\ q.missing \in 1..MaxValue
                         /\ BoostAfter(q.missing) = q.boost
                         /\ \A less \in 0..(q.missing - 1) :
                               BoostAfter(less) = GetInterval(valueToBuy).boost
    BY DEF MissingSuffices
  <2>1. Result("nextBoostForWallet", Answer("nextBoostForWallet"), valueToBuy)
    BY DEF ApiInv, ResponseInv, Answers, Answer
  <2>2. valueToBuy \in 0..MaxValue
    BY DEF ApiInv, QueryInv
  <2> QED
    BY <2>1, <2>2, MissingReaches DEF Result
<1> QED
  BY <1>1, ApiInvAlways, PTL

(* A wallet's line reaches the reader as one scoring gave it: nothing of   *)
(* it is lost, mixed or truncated between LeaderboardLineFromScore and the *)
(* JSON, nil being neither an object nor a list.                           *)
THEOREM LinesReachTheReader ==
  ASSUME IsAtom(Nil)
  PROVE  ApiSpec => []LinesAsScored
<1>1. ApiInv => LinesAsScored
  <2> SUFFICES ASSUME ApiInv PROVE LinesAsScored
    OBVIOUS
  <2>1. Answers("leaderboardForWallet") => Ranked(Answer("leaderboardForWallet"))
    BY DEF ApiInv, ResponseInv, Answers, Answer, Result
  <2>2. Answers("leaderboard") =>
          \A i \in DOMAIN Answer("leaderboard").data :
            Ranked(Answer("leaderboard").data[i])
    BY DEF ApiInv, ResponseInv, Answers, Answer, Result
  <2> QED
    BY <2>1, <2>2 DEF LinesAsScored, Delivered, Ranked
<1> QED
  BY <1>1, ApiInvAlways, PTL
---------------------------------------------------------------------------
(* Nulls and errors.  What marshalling gives is null exactly if it has     *)
(* recorded an error: for the fields that may be null no error is ever     *)
(* recorded, and a null in one that may not goes up to the root field.     *)
Explained(r) == (r.json = Null) <=> (r.errs # {})

LEMMA FunctionsAreNotNull ==
  ASSUME IsAtom(Null), NEW g, g = [x \in DOMAIN g |-> g[x]]
  PROVE  g # Null
BY DEF IsAtom

LEMMA ObjectExplained ==
  ASSUME IsAtom(Null), NEW fields, NEW required,
         required \subseteq DOMAIN fields,
         \A f \in required : Explained(fields[f]),
         \A f \in DOMAIN fields \ required : fields[f].errs = {}
  PROVE  Explained(Object(fields, required))
<1> DEFINE json == [f \in DOMAIN fields |-> fields[f].json]
           o == Object(fields, required)
<1>1. json # Null
  <2>1. json = [x \in DOMAIN json |-> json[x]]
    OBVIOUS
  <2> HIDE DEF json
  <2> QED
    BY <2>1, FunctionsAreNotNull
<1>2. /\ o.json = IF \E f \in required : fields[f].json = Null THEN Null
                  ELSE json
      /\ o.errs = UNION {fields[f].errs : f \in DOMAIN fields}
  BY DEF Object
<1> HIDE DEF json, o
<1>3. o.errs # {} <=> \E f \in DOMAIN fields : fields[f].errs # {}
  BY <1>2
<1> QED
  BY <1>1, <1>2, <1>3 DEF Explained, o

(* What may be null records no error.                                      *)
LEMMA MetadataIsSilent ==
  ASSUME NEW m PROVE MarshalOMetadata(m).errs = {}
<1> DEFINE fields == Joined(MetadataOrigin(m), MetadataScoring(m))
<1>1. DOMAIN fields = MetadataKeys
      /\ \A k \in MetadataKeys : fields[k].errs = {}
  BY DEF MetadataOrigin, MetadataScoring, Joined, MetadataKeys, Optional, Value
<1>2. Metadata(m).errs = UNION {fields[f].errs : f \in DOMAIN fields}
  BY DEF Metadata, Object
<1> HIDE DEF fields
<1>3. Metadata(m).errs = {}
  BY <1>1, <1>2
<1> QED
  BY <1>3 DEF MarshalOMetadata, Optional, Value

LEMMA PointIsSilent ==
  ASSUME NEW p PROVE MarshalOPointDetails(p).errs = {}
<1> DEFINE fields == PointDetailsFields(p)
<1>1. \A k \in DOMAIN fields : fields[k].errs = {}
  BY MetadataIsSilent DEF PointDetailsFields, Optional, Value
<1>2. PointDetails(p).errs = UNION {fields[f].errs : f \in DOMAIN fields}
  BY DEF PointDetails, Object
<1> HIDE DEF fields
<1>3. PointDetails(p).errs = {}
  BY <1>1, <1>2
<1> QED
  BY <1>3 DEF MarshalOPointDetails, Optional, Value

LEMMA PointsExplained ==
  ASSUME IsAtom(Null), NEW ps PROVE Explained(PointDetailsList(ps))
<1> DEFINE items == [i \in DOMAIN ps |-> MarshalOPointDetails(ps[i])]
           json  == [i \in DOMAIN items |-> items[i].json]
<1>1. /\ PointDetailsList(ps).json = json
      /\ PointDetailsList(ps).errs = UNION {items[i].errs : i \in DOMAIN items}
  BY DEF PointDetailsList, List
<1>2. \A i \in DOMAIN items : items[i].errs = {}
  BY PointIsSilent
<1>3. json = [x \in DOMAIN json |-> json[x]]
  OBVIOUS
<1> HIDE DEF items, json
<1> QED
  BY <1>1, <1>2, <1>3, FunctionsAreNotNull DEF Explained

(* A line whose texts and numbers are none of them null.                   *)
HasValues(l) ==
  /\ Null \notin {l.id, l.wallet_address, l.total_score, l.position}
  /\ l.categories # Nil =>
        \A c \in {"fund", "farming", "other"} : l.categories[c] # Null

LEMMA CategoriesExplained ==
  ASSUME IsAtom(Null), NEW c,
         c # Nil => \A f \in {"fund", "farming", "other"} : c[f] # Null
  PROVE  Explained(Required("categories", c, Categories))
<1>1. CASE c = Nil
  BY <1>1 DEF Required, Failure, Explained
<1>2. CASE c # Nil
  <2>1. /\ DOMAIN CategoriesFields(c) = {"fund", "farming", "other"}
        /\ \A f \in {"fund", "farming", "other"} :
              Explained(CategoriesFields(c)[f])
    BY <1>2 DEF CategoriesFields, Value, Explained
  <2>2. Explained(Categories(c))
    BY <2>1, ObjectExplained DEF Categories
  <2> QED
    BY <1>2, <2>2 DEF Required
<1> QED
  BY <1>1, <1>2

LEMMA LineExplained ==
  ASSUME IsAtom(Null), NEW l, l # Nil => HasValues(l), NEW place
  PROVE  Explained(Required(place, l, LineData))
<1>1. CASE l = Nil
  BY <1>1 DEF Required, Failure, Explained
<1>2. CASE l # Nil
  <2> DEFINE fields == Joined(LineWallet(l), LineRank(l))
             required == {"id", "wallet_address", "points", "categories",
                          "total_score", "position"}
  <2>1. /\ DOMAIN fields = required
        /\ fields["id"] = Value(l.id)
        /\ fields["wallet_address"] = Value(l.wallet_address)
        /\ fields["points"] = PointDetailsList(l.points)
        /\ fields["categories"]
              = Required("categories", l.categories, Categories)
        /\ fields["total_score"] = Value(l.total_score)
        /\ fields["position"] = Value(l.position)
    BY DEF LineWallet, LineRank, Joined
  <2>2. /\ Explained(Value(l.id)) /\ Explained(Value(l.wallet_address))
        /\ Explained(Value(l.total_score)) /\ Explained(Value(l.position))
    BY <1>2 DEF HasValues, Value, Explained
  <2>3. Explained(Required("categories", l.categories, Categories))
    BY <1>2, CategoriesExplained DEF HasValues
  <2>4. Explained(PointDetailsList(l.points))
    BY PointsExplained
  <2>5. LineData(l) = Object(fields, required)
    BY DEF LineData
  <2> HIDE DEF fields
  <2>6. \A f \in required : Explained(fields[f])
    BY <2>1, <2>2, <2>3, <2>4
  <2> HIDE DEF required
  <2>7. Explained(LineData(l))
    BY <2>1, <2>5, <2>6, ObjectExplained
  <2> QED
    BY <1>2, <2>7 DEF Required
<1> QED
  BY <1>1, <1>2

LEMMA LinesExplained ==
  ASSUME IsAtom(Null), NEW ls,
         \A i \in DOMAIN ls : ls[i] # Nil => HasValues(ls[i])
  PROVE  Explained(LineDataList(ls))
<1> DEFINE items == [i \in DOMAIN ls |-> MarshalNLineData(ls[i])]
           json  == [i \in DOMAIN items |-> items[i].json]
           list  == LineDataList(ls)
<1>1. \A i \in DOMAIN items : Explained(items[i])
  BY LineExplained DEF MarshalNLineData
<1>2. /\ list.json = IF \E i \in DOMAIN items : items[i].json = Null
                     THEN Null ELSE json
      /\ list.errs = UNION {items[i].errs : i \in DOMAIN items}
  BY DEF LineDataList, ListOfRequired, List
<1>3. json = [x \in DOMAIN json |-> json[x]]
  OBVIOUS
<1> HIDE DEF items, json, list
<1>4. json # Null
  BY <1>3, FunctionsAreNotNull
<1>5. list.errs # {} <=> \E i \in DOMAIN items : items[i].errs # {}
  BY <1>2
<1> QED
  BY <1>1, <1>2, <1>4, <1>5 DEF Explained, list

(* The four root fields.                                                   *)
NumbersOfPage(p) ==
  /\ p.max_page \in Int /\ p.page \in Int /\ p.limit \in Int
  /\ p.count \in Int
  /\ p.has_next_page \in BOOLEAN /\ p.has_previous_page \in BOOLEAN

LEMMA PageInfoExplained ==
  ASSUME IsAtom(Null), NEW p, p # Nil => NumbersOfPage(p)
  PROVE  Explained(Required("page_info", p, PageInfo))
<1>1. CASE p = Nil
  BY <1>1 DEF Required, Failure, Explained
<1>2. CASE p # Nil
  <2> DEFINE fields == Joined(PageInfoSize(p), PageInfoEnds(p))
  <2>1. /\ Null \notin {p.max_page, p.page, p.limit, p.count}
        /\ Null \notin {p.has_next_page, p.has_previous_page}
    BY <1>2, NullAssumption DEF NullAssumption, NumbersOfPage
  <2>2. \A f \in DOMAIN fields : Explained(fields[f])
    BY <2>1 DEF PageInfoSize, PageInfoEnds, Joined, Value, Explained
  <2>3. PageInfo(p) = Object(fields, DOMAIN fields)
    BY DEF PageInfo
  <2> HIDE DEF fields
  <2>4. Explained(PageInfo(p))
    BY <2>2, <2>3, ObjectExplained
  <2> QED
    BY <1>2, <2>4 DEF Required
<1> QED
  BY <1>1, <1>2

LEMMA PageExplained ==
  ASSUME IsAtom(Null), NEW b, b.page_info # Nil => NumbersOfPage(b.page_info),
         \A i \in DOMAIN b.data : b.data[i] # Nil => HasValues(b.data[i])
  PROVE  Explained(QueryLeaderboard(b))
<1>1. CASE b = Nil
  BY <1>1 DEF QueryLeaderboard, Required, Failure, Explained
<1>2. CASE b # Nil
  <2>1. /\ Explained(LineDataList(b.data))
        /\ Explained(Required("page_info", b.page_info, PageInfo))
    BY LinesExplained, PageInfoExplained
  <2>2. /\ DOMAIN LeaderboardFields(b) = {"data", "page_info"}
        /\ LeaderboardFields(b)["data"] = LineDataList(b.data)
        /\ LeaderboardFields(b)["page_info"]
             = Required("page_info", b.page_info, PageInfo)
    BY DEF LeaderboardFields
  <2>3. Explained(Leaderboard(b))
    BY <2>1, <2>2, ObjectExplained DEF Leaderboard
  <2> QED
    BY <1>2, <2>3 DEF QueryLeaderboard, Required
<1> QED
  BY <1>1, <1>2

LEMMA QuotesExplained ==
  ASSUME IsAtom(Null), NEW v \in Int, NEW t \in Int, NEW b \in Int
  PROVE  /\ Explained(QueryBoostForWallet(
                [value |-> v, total_score |-> t, boost |-> b]))
         /\ Explained(QueryNextBoostForWallet(
                [total_score |-> t, missing |-> v, boost |-> b]))
<1> DEFINE own  == [value |-> v, total_score |-> t, boost |-> b]
           next == [total_score |-> t, missing |-> v, boost |-> b]
<1>1. Null \notin {v, t, b}
  BY NullAssumption DEF NullAssumption
<1>2. /\ \A f \in DOMAIN BoostFields(own) : Explained(BoostFields(own)[f])
      /\ \A f \in DOMAIN NextBoostFields(next) :
            Explained(NextBoostFields(next)[f])
  BY <1>1 DEF BoostFields, NextBoostFields, Value, Explained
<1>3. Explained(BoostForValue(own)) /\ Explained(NextBoostForValue(next))
  BY <1>2, ObjectExplained DEF BoostForValue, NextBoostForValue
<1>4. own # Nil => QueryBoostForWallet(own) = BoostForValue(own)
  BY DEF QueryBoostForWallet, Required
<1>5. next # Nil => QueryNextBoostForWallet(next) = NextBoostForValue(next)
  BY DEF QueryNextBoostForWallet, Required
<1>6. /\ own = Nil => Explained(QueryBoostForWallet(own))
      /\ next = Nil => Explained(QueryNextBoostForWallet(next))
  BY DEF QueryBoostForWallet, QueryNextBoostForWallet, Required, Failure,
     Explained
<1> QED
  BY <1>3, <1>4, <1>5, <1>6

(* Every wallet has a position: an order of as many rows as there are      *)
(* wallets, none of them twice, leaves none out.                           *)
LEMMA PositionIsNumber ==
  ASSUME StoredInv, NEW order \in Orders, NEW w \in DOMAIN stored
  PROVE  Position(order, w) \in Int
<1> DEFINE S == DOMAIN stored
           n == Cardinality(S)
<1>1. IsFiniteSet(S) /\ n \in Nat
  BY FS_CardinalityType DEF StoredInv
<1>2. /\ order \in [1..n -> S]
      /\ \A i, j \in DOMAIN order : i < j => order[i] # order[j]
  BY DEF Orders
<1>3. \E i \in DOMAIN order : order[i] = w
  <2> SUFFICES ASSUME \A i \in DOMAIN order : order[i] # w PROVE FALSE
    OBVIOUS
  <2>1. IsFiniteSet(S \ {w}) /\ Cardinality(S \ {w}) = n - 1
    BY <1>1, FS_RemoveElement
  <2> HIDE DEF n
  <2>2. IsFiniteSet(1..n) /\ Cardinality(1..n) = n
    BY <1>1, FS_Interval
  <2>3. order \in [1..n -> S \ {w}]
    BY <1>2
  <2>4. PICK i, j \in 1..n : i # j /\ order[i] = order[j]
    BY <1>1, <2>1, <2>2, <2>3, FS_PigeonHole
  <2>5. i < j \/ j < i
    BY <1>1, <2>4
  <2> QED
    BY <1>2, <2>4, <2>5
<1>4. Position(order, w) \in DOMAIN order
  BY <1>3 DEF Position
<1> QED
  BY <1>1, <1>2, <1>4

LEMMA StoredLineHasValues ==
  ASSUME StoredInv, NEW w \in DOMAIN stored, NEW position \in Int
  PROVE  HasValues(ItemToGqlModel(stored[w], position))
<1>1. w \in Wallets /\ \E scored \in Scored :
                            stored[w] = LineFromScore(w, scored)
  BY DEF StoredInv
<1>2. PICK scored \in Scored : stored[w] = LineFromScore(w, scored)
  BY <1>1
<1> DEFINE item == ItemToGqlModel(stored[w], position)
<1>3. /\ item.id = w /\ item.wallet_address = w /\ item.position = position
      /\ item.total_score = scored.total
      /\ item.categories = scored.categories
  BY <1>2 DEF ItemToGqlModel, LineFromScore
<1> HIDE DEF item
<1>4. /\ Null # w /\ Null # position /\ Null # scored.total
      /\ \A c \in {"fund", "farming", "other"} : scored.categories[c] # Null
  BY <1>1, NullAssumption DEF NullAssumption
<1>5. HasValues(item)
  BY <1>3, <1>4 DEF HasValues
<1> QED
  BY <1>5 DEF item

LEMMA NoRowHasValues == HasValues(ItemToGqlModel(NoRow, 0))
<1> DEFINE item == ItemToGqlModel(NoRow, 0)
<1>1. /\ item.id = "" /\ item.wallet_address = "" /\ item.total_score = ""
      /\ item.position = 0
  BY DEF ItemToGqlModel, NoRow
<1> HIDE DEF item
<1>2. Null # ""
  BY NullAssumption DEF NullAssumption
<1>3. Null # 0
  <2>1. 0 \in Int
    OBVIOUS
  <2> QED
    BY <2>1, NullAssumption, Zenon DEF NullAssumption
<1>4. \A c \in {"fund", "farming", "other"} : item.categories[c] = ""
  <2>1. item.categories = NoRow.categories
    BY DEF item, ItemToGqlModel
  <2>2. /\ NoRow.categories["fund"] = "" /\ NoRow.categories["farming"] = ""
        /\ NoRow.categories["other"] = ""
    BY DEF NoRow
  <2> QED
    BY <2>1, <2>2, Zenon
<1>5. HasValues(item)
  BY <1>1, <1>2, <1>3, <1>4 DEF HasValues
<1> QED
  BY <1>5 DEF item

LEMMA OtherLineHasValues ==
  ASSUME NEW line \in OtherLines, line # Nil PROVE HasValues(line)
BY NullAssumption DEF NullAssumption, HasValues

LEMMA PageHasNumbers ==
  ASSUME NEW limit \in Nat \ {0}, NEW count \in Nat, NEW lines
  PROVE  NumbersOfPage(LeaderboardPage(limit, count, lines).page_info)
<1>1. (count + limit - 1) \div limit \in Int
  OBVIOUS
<1> DEFINE p == LeaderboardPage(limit, count, lines).page_info
<1>2. /\ p.max_page = (count + limit - 1) \div limit /\ p.page = 1
      /\ p.limit = limit /\ p.count = count
      /\ p.has_next_page = (limit < count)
      /\ p.has_previous_page = FALSE
  BY DEF LeaderboardPage
<1> HIDE DEF p
<1>3. NumbersOfPage(p)
  <2>1. p.has_next_page \in BOOLEAN /\ p.has_previous_page \in BOOLEAN
    <3>1. (limit < count) = TRUE \/ (limit < count) = FALSE
      OBVIOUS
    <3> QED
      BY <1>2, <3>1, Zenon
  <2>2. p.page \in Int /\ p.limit \in Int /\ p.count \in Int
    BY <1>2
  <2> QED
    BY <1>1, <1>2, <2>1, <2>2, Zenon DEF NumbersOfPage
<1> QED
  BY <1>3 DEF p

(* Every resolver ends with a result of which this holds.                  *)
Accounted == \E f, r : Explained(r) /\ Finish(f, r)

LEMMA FailureExplained == ASSUME NEW place PROVE Explained(Failure(place))
BY DEF Failure, Explained

LEMMA ReadLeaderboardAccounted ==
  ASSUME IsAtom(Null), StoredInv, NEW limit \in 1..Cardinality(Wallets),
         ReadLeaderboard(limit)
  PROVE  Accounted
<1>1. PICK rows \in Orders, numbers \in Orders,
           counted \in BOOLEAN, read \in BOOLEAN :
        LET kept  == SubSeq(rows, 1, Min({limit, Len(rows)}))
            lines == IF read THEN LinesOf(kept, numbers) ELSE <<>>
        IN Complete("leaderboard",
                    LeaderboardPage(limit, IF counted THEN Len(rows) ELSE 0,
                                    lines))
  BY DEF ReadLeaderboard
<1> DEFINE kept  == SubSeq(rows, 1, Min({limit, Len(rows)}))
           lines == IF read THEN LinesOf(kept, numbers) ELSE <<>>
           count == IF counted THEN Len(rows) ELSE 0
           b == LeaderboardPage(limit, count, lines)
<1>2. limit \in Nat \ {0}
  OBVIOUS
<1>3. \A i \in DOMAIN kept : kept[i] \in DOMAIN stored
  BY <1>2, KeptRows
<1>4. count \in Nat
  <2>1. Cardinality(DOMAIN stored) \in Nat
    BY FS_CardinalityType DEF StoredInv
  <2>2. rows \in [1..Cardinality(DOMAIN stored) -> DOMAIN stored]
    BY DEF Orders
  <2>3. Len(rows) \in Nat
    BY <2>1, <2>2
  <2> QED
    BY <2>3
<1>5. Finish("leaderboard", QueryLeaderboard(b))
  BY <1>1, CompleteIsFinish
<1> HIDE DEF kept, count
<1>6. \A i \in DOMAIN lines : HasValues(lines[i])
  <2>1. CASE read
    <3>1. /\ DOMAIN lines = DOMAIN kept
          /\ \A i \in DOMAIN kept :
                lines[i] = ItemToGqlModel(stored[kept[i]],
                                          Position(numbers, kept[i]))
      BY <2>1 DEF LinesOf
    <3>2. \A i \in DOMAIN kept : Position(numbers, kept[i]) \in Int
      BY <1>3, PositionIsNumber
    <3> QED
      BY <1>3, <3>1, <3>2, StoredLineHasValues
  <2>2. CASE ~read
    BY <2>2
  <2> QED
    BY <2>1, <2>2
<1>7. b.data = lines /\ NumbersOfPage(b.page_info)
  BY <1>2, <1>4, PageHasNumbers DEF LeaderboardPage
<1> HIDE DEF lines, b
<1>8. Explained(QueryLeaderboard(b))
  BY <1>6, <1>7, PageExplained
<1> QED
  BY <1>5, <1>8 DEF Accounted

LEMMA LineAccounted ==
  ASSUME IsAtom(Null), NEW l, l # Nil => HasValues(l),
         Complete("leaderboardForWallet", l)
  PROVE  Accounted
<1>1. Explained(QueryLeaderboardForWallet(l))
  BY LineExplained DEF QueryLeaderboardForWallet
<1> QED
  BY <1>1, CompleteIsFinish DEF Accounted

LEMMA LeaderboardForWalletAccounted ==
  ASSUME IsAtom(Null), StoredInv, NEW wallet, LeaderboardForWallet(wallet)
  PROVE  Accounted
<1>1. CASE wallet \in DOMAIN stored
  <2>1. PICK numbers \in Orders :
          Complete("leaderboardForWallet",
                   ItemToGqlModel(stored[wallet], Position(numbers, wallet)))
    BY <1>1 DEF LeaderboardForWallet
  <2>2. HasValues(ItemToGqlModel(stored[wallet], Position(numbers, wallet)))
    BY <1>1, PositionIsNumber, StoredLineHasValues
  <2> QED
    BY <2>1, <2>2, LineAccounted
<1>2. CASE wallet \notin DOMAIN stored
  BY <1>2, NoRowHasValues, LineAccounted DEF LeaderboardForWallet
<1> QED
  BY <1>1, <1>2

LEMMA ReturnOtherAccounted ==
  ASSUME IsAtom(Null), NEW line \in OtherLines, ReturnOther(line)
  PROVE  Accounted
<1>0. line # Nil => HasValues(line)
  BY OtherLineHasValues
<1>1. CASE Complete("leaderboardForWallet", line)
  BY <1>0, <1>1, LineAccounted
<1>2. ASSUME NEW b, b.data = <<line>>, Complete("leaderboard", b),
             b.page_info # Nil => NumbersOfPage(b.page_info)
      PROVE  Accounted
  <2>1. DOMAIN b.data = {1} /\ b.data[1] = line
    BY <1>2
  <2>2. \A i \in DOMAIN b.data : b.data[i] # Nil => HasValues(b.data[i])
    BY <1>0, <2>1
  <2>3. Explained(QueryLeaderboard(b))
    BY <1>2, <2>2, PageExplained
  <2> QED
    BY <1>2, <2>3, CompleteIsFinish DEF Accounted
<1>3. /\ [data |-> <<line>>, page_info |-> Nil].data = <<line>>
      /\ [data |-> <<line>>, page_info |-> Nil].page_info = Nil
      /\ LeaderboardPage(1, 1, <<line>>).data = <<line>>
      /\ NumbersOfPage(LeaderboardPage(1, 1, <<line>>).page_info)
  BY PageHasNumbers DEF LeaderboardPage
<1> QED
  BY <1>1, <1>2, <1>3 DEF ReturnOther

LEMMA QuotesAreNumbers ==
  ASSUME NEW v \in Nat
  PROVE  /\ TotalScore(v) \in Int /\ GetInterval(v).boost \in Int
         /\ GetInterval(v).nextBoost \in Int
         /\ (GetInterval(v).next - v) % Modulus \in Int
<1> DEFINE a == Above(v)
           i == GetInterval(v)
<1>1. /\ a \in 0..Len(ValueSteps)
      /\ i.boost = IF a = Len(ValueSteps) THEN 0 ELSE ValueSteps[a + 1].coef
  BY StepAbove
<1>2. /\ i.next = IF a = 0 THEN 0 ELSE ValueSteps[a].step
      /\ i.nextBoost = IF a = 0 THEN 0 ELSE ValueSteps[a].coef
  BY DEF GetInterval, Above, Hit
<1> HIDE DEF a, i
<1>3. /\ i.boost \in Nat /\ i.nextBoost \in Nat /\ i.next \in Nat
  <2> DEFINE n == Len(ValueSteps)
  <2>0. n \in Nat /\ DOMAIN ValueSteps = 1..n
    BY StepsType
  <2>1. /\ a # 0 => a \in DOMAIN ValueSteps
        /\ a # n => a + 1 \in DOMAIN ValueSteps
    <3>1. a \in 0..n
      BY <1>1
    <3> HIDE DEF n
    <3> QED
      BY <2>0, <3>1
  <2>3. \A k \in DOMAIN ValueSteps :
          ValueSteps[k].step \in Nat /\ ValueSteps[k].coef \in Nat
    BY StepsType
  <2> QED
    BY <1>1, <1>2, <2>1, <2>3
<1>4. (i.next - v) % Modulus \in Int
  <2>1. Modulus \in Nat \ {0} /\ i.next - v \in Int
    BY <1>3, ApiAssumption DEF ApiAssumption
  <2> QED
    BY <2>1
<1>5. TotalScore(v) \in Int
  <2>1. TotalScore(v) = IF i.boost = 0 THEN v ELSE MulCoeficient(v, i.boost)
    BY QuotesAgree DEF i
  <2> QED
    BY <1>3, <2>1 DEF MulCoeficient
<1> QED
  BY <1>3, <1>4, <1>5 DEF i

LEMMA QuotesAccounted ==
  ASSUME IsAtom(Null), QueryInv, BoostForWallet \/ NextBoostForWallet
  PROVE  Accounted
<1> DEFINE v == valueToBuy
           own == [value |-> v, total_score |-> TotalScore(v),
                   boost |-> GetInterval(v).boost]
           next == [total_score |-> TotalScore(v),
                    missing |-> (GetInterval(v).next - v) % Modulus,
                    boost |-> GetInterval(v).nextBoost]
<1>1. v \in Nat /\ v \in Int
  BY DEF QueryInv
<1>2. /\ TotalScore(v) \in Int /\ GetInterval(v).boost \in Int
      /\ GetInterval(v).nextBoost \in Int
      /\ (GetInterval(v).next - v) % Modulus \in Int
  BY <1>1, QuotesAreNumbers
<1>3. Explained(QueryBoostForWallet(own))
  BY <1>1, <1>2, QuotesExplained
<1>4. Explained(QueryNextBoostForWallet(next))
  BY <1>2, QuotesExplained
<1>5. \/ Finish("boostForWallet", QueryBoostForWallet(own))
      \/ Finish("nextBoostForWallet", QueryNextBoostForWallet(next))
  BY CompleteIsFinish DEF BoostForWallet, NextBoostForWallet
<1> QED
  BY <1>3, <1>4, <1>5 DEF Accounted

(* The inductive invariant: as many nulls as there are errors, none or     *)
(* some, in the query under way and in the last response.                  *)
NullInv ==
  /\ values = [f \in DOMAIN values |-> values[f]]
  /\ invalids # 0 <=> errors # {}
  /\ NullsExplained

LEMMA NullInit == IsAtom(Null) /\ ApiInit => NullInv
<1> SUFFICES ASSUME IsAtom(Null), ApiInit PROVE NullInv
  OBVIOUS
<1>1. <<>> = [x \in DOMAIN <<>> |-> <<>>[x]]
  OBVIOUS
<1>2. <<>> # Null
  BY <1>1, FunctionsAreNotNull
<1> QED
  BY <1>1, <1>2 DEF ApiInit, Init, NullInv, NullsExplained, NoResponse

LEMMA AccountedNext ==
  ASSUME QueryInv, NullInv, Accounted
  PROVE  NullInv'
<1>1. PICK f, r : Explained(r) /\ Finish(f, r)
  BY DEF Accounted
<1>2. /\ values' = Joined(values, [g \in {f} |-> r.json])
      /\ errors' = errors \cup r.errs
      /\ invalids' = invalids + IF r.json = Null THEN 1 ELSE 0
      /\ response' = response
  BY <1>1 DEF Finish
<1>3. values' = [g \in DOMAIN values' |-> values'[g]]
  BY <1>2 DEF Joined
<1>4. invalids' # 0 <=> errors' # {}
  <2>1. invalids \in Nat
    BY DEF QueryInv
  <2> QED
    BY <1>1, <1>2, <2>1 DEF NullInv, Explained
<1> QED
  BY <1>2, <1>3, <1>4 DEF NullInv, NullsExplained

LEMMA NullNext == IsAtom(Null) /\ ApiInv /\ NullInv /\ [ApiNext]_apiVars
                    => NullInv'
<1> SUFFICES ASSUME IsAtom(Null), ApiInv, NullInv, [ApiNext]_apiVars
             PROVE  NullInv'
  OBVIOUS
<1>0. StoredInv /\ QueryInv
  BY DEF ApiInv
<1>1. ASSUME NEW fields, NEW v, Query(fields, v) PROVE NullInv'
  <2>1. response' = NoResponse /\ UNCHANGED <<values, errors, invalids>>
    BY <1>1 DEF Query, Ask
  <2>2. <<>> = [x \in DOMAIN <<>> |-> <<>>[x]]
    OBVIOUS
  <2>3. <<>> # Null
    BY <2>2, FunctionsAreNotNull
  <2> QED
    BY <2>1, <2>3 DEF NullInv, NullsExplained, NoResponse
<1>2. ASSUME NEW f, RefuseArguments(f) \/ Fail(f) PROVE NullInv'
  BY <1>0, <1>2, FailureExplained, AccountedNext
     DEF RefuseArguments, Fail, Accounted
<1>3. ASSUME NEW limit \in 1..Cardinality(Wallets), ReadLeaderboard(limit)
      PROVE  NullInv'
  BY <1>0, <1>3, ReadLeaderboardAccounted, AccountedNext
<1>4. ASSUME NEW wallet, LeaderboardForWallet(wallet) PROVE NullInv'
  BY <1>0, <1>4, LeaderboardForWalletAccounted, AccountedNext
<1>5. CASE BoostForWallet \/ NextBoostForWallet
  BY <1>0, <1>5, QuotesAccounted, AccountedNext
<1>6. ASSUME NEW line \in OtherLines, ReturnOther(line) PROVE NullInv'
  BY <1>0, <1>6, ReturnOtherAccounted, AccountedNext
<1>7. CASE Respond
  <2>1. /\ response' = [data |-> IF invalids > 0 THEN Null ELSE values,
                        errors |-> errors]
        /\ values' = <<>> /\ errors' = {} /\ invalids' = 0
    BY <1>7 DEF Respond
  <2>2. values # Null
    BY FunctionsAreNotNull DEF NullInv
  <2>3. invalids > 0 <=> invalids # 0
    BY <1>0 DEF QueryInv
  <2>4. (response'.data = Null) <=> (response'.errors # {})
    BY <2>1, <2>2, <2>3 DEF NullInv
  <2>5. values' = [f \in DOMAIN values' |-> values'[f]]
    BY <2>1
  <2> QED
    BY <2>1, <2>4, <2>5 DEF NullInv, NullsExplained
<1>8. CASE UNCHANGED vars
  BY <1>8 DEF vars, NullInv, NullsExplained
<1>9. \/ UNCHANGED vars
      \/ \E fields, v : Query(fields, v)
      \/ \E f : RefuseArguments(f) \/ Fail(f)
      \/ \E limit \in 1..Cardinality(Wallets) : ReadLeaderboard(limit)
      \/ \E wallet : LeaderboardForWallet(wallet)
      \/ BoostForWallet \/ NextBoostForWallet
      \/ \E line \in OtherLines : ReturnOther(line)
      \/ Respond
  BY DEF ApiNext, Rank, RankNobody, apiVars
<1> QED
  BY <1>1, <1>2, <1>3, <1>4, <1>5, <1>6, <1>7, <1>8, <1>9

(* A response has data or errors, never both and never neither.  That Null *)
(* is no object and no list is what a model value cannot say of itself.    *)
THEOREM NullsAreExplained ==
  ASSUME IsAtom(Null)
  PROVE  ApiSpec => []NullsExplained
<1>1. ApiInit => NullInv
  BY NullInit
<1>2. ApiInv /\ NullInv /\ [ApiNext]_apiVars => NullInv'
  BY NullNext
<1>3. NullInv => NullsExplained
  BY DEF NullInv
<1> QED
  BY <1>1, <1>2, <1>3, ApiInvAlways, PTL DEF ApiSpec
=============================================================================
