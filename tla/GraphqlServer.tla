--------------------------- MODULE GraphqlServer ---------------------------
(***************************************************************************)
(* The generated GraphQL server (graph/generated.go, model/models_gen.go): *)
(* it runs the resolvers of the root fields of a query concurrently, turns *)
(* what they return into JSON field by field, and lets a null that the     *)
(* schema does not allow take the place of what contains it.  A query here *)
(* selects every field of the types it reaches; it may ask for any root    *)
(* fields.                                                                 *)
(***************************************************************************)
EXTENDS Integers, Sequences

CONSTANTS
    Nil,             (* a Go pointer to nothing                            *)
    Null             (* JSON null                                          *)

VARIABLES
    asked,           (* the root fields of the query under way             *)
    values,          (* the JSON of those whose resolver has returned      *)
    errors,          (* where the errors recorded so far arose             *)
    invalids,        (* FieldSet.Invalids: how many of them are null       *)
    response         (* the answer to the last query                       *)

vars == <<asked, values, errors, invalids, response>>

RootFields == {"leaderboard", "leaderboardForWallet",
               "boostForWallet", "nextBoostForWallet"}
(* One function and, where it says nothing, another: f @@ g of module TLC,  *)
(* of which the provers do not have the definition.                        *)
Joined(f, g) == [x \in DOMAIN f \union DOMAIN g |->
                    IF x \in DOMAIN f THEN f[x] ELSE g[x]]

NoResponse == [data |-> <<>>, errors |-> {}]

Init == /\ asked = {} /\ values = <<>> /\ errors = {} /\ invalids = 0
        /\ response = NoResponse

---------------------------------------------------------------------------
(* Marshalling gives JSON and the places where errors were recorded.       *)
Value(v)        == [json |-> v, errs |-> {}]
Failure(place)  == [json |-> Null, errs |-> {place}]

(* marshalO...: a pointer that may be nil.                                 *)
Optional(v, Marshal(_)) == IF v = Nil THEN Value(Null) ELSE Marshal(v)

(* marshalN...: nil is an error.                                           *)
Required(place, v, Marshal(_)) ==
    IF v = Nil THEN Failure(place) ELSE Marshal(v)

(* A type's function: null if one of its required fields is null.          *)
Object(fields, required) ==
    [json |-> IF \E f \in required : fields[f].json = Null THEN Null
              ELSE [f \in DOMAIN fields |-> fields[f].json],
     errs |-> UNION {fields[f].errs : f \in DOMAIN fields}]

(* A list, whose elements may be null...                                   *)
List(items) == [json |-> [i \in DOMAIN items |-> items[i].json],
                errs |-> UNION {items[i].errs : i \in DOMAIN items}]
(* ... or, [LeaderboardLineData!]!, may not.                               *)
BadListOfRequired(items) == List(items)
ListOfRequired(items) ==
    [List(items) EXCEPT !.json =
        IF \E i \in DOMAIN items : items[i].json = Null THEN Null ELSE @]

---------------------------------------------------------------------------
(* The types of the schema: for each, its fields and the object.           *)
MetadataOrigin(m) ==
    [slot         |-> Optional(m.slot, Value),
     project_name |-> Optional(m.project_name, Value),
     date         |-> Optional(m.date, Value)]
MetadataScoring(m) ==
    [event  |-> Optional(m.event, Value),
     boosts |-> Optional(m.boosts, Value),
     rule   |-> Optional(m.rule, Value)]
Metadata(m) == Object(Joined(MetadataOrigin(m), MetadataScoring(m)), {})
MarshalOMetadata(m) == Optional(m, Metadata)

PointDetailsFields(p) ==
    [rule     |-> Optional(p.rule, Value),
     value    |-> Optional(p.value, Value),
     metadata |-> MarshalOMetadata(p.metadata)]
PointDetails(p) == Object(PointDetailsFields(p), {})
MarshalOPointDetails(p) == Optional(p, PointDetails)
PointDetailsList(ps) == List([i \in DOMAIN ps |-> MarshalOPointDetails(ps[i])])

CategoriesFields(c) == [fund    |-> Value(c.fund),
                        farming |-> Value(c.farming),
                        other   |-> Value(c.other)]
Categories(c) == Object(CategoriesFields(c), {"fund", "farming", "other"})

LineWallet(l) == [id             |-> Value(l.id),
                  wallet_address |-> Value(l.wallet_address),
                  points         |-> PointDetailsList(l.points)]
LineRank(l) ==
    [categories  |-> Required("categories", l.categories, Categories),
     total_score |-> Value(l.total_score),
     position    |-> Value(l.position)]
LineData(l) ==
    Object(Joined(LineWallet(l), LineRank(l)),
           {"id", "wallet_address", "points", "categories", "total_score",
            "position"})
MarshalNLineData(l) == Required("line", l, LineData)
LineDataList(ls) ==
    ListOfRequired([i \in DOMAIN ls |-> MarshalNLineData(ls[i])])

PageInfoSize(p) == [max_page |-> Value(p.max_page), page |-> Value(p.page),
                    limit    |-> Value(p.limit)]
PageInfoEnds(p) == [count             |-> Value(p.count),
                    has_next_page     |-> Value(p.has_next_page),
                    has_previous_page |-> Value(p.has_previous_page)]
PageInfo(p) ==
    LET fields == Joined(PageInfoSize(p), PageInfoEnds(p))
    IN Object(fields, DOMAIN fields)

LeaderboardFields(b) ==
    [data      |-> LineDataList(b.data),
     page_info |-> Required("page_info", b.page_info, PageInfo)]
Leaderboard(b) == Object(LeaderboardFields(b), {"data", "page_info"})

BoostFields(b) == [value       |-> Value(b.value),
                   total_score |-> Value(b.total_score),
                   boost       |-> Value(b.boost)]
BoostForValue(b) == Object(BoostFields(b), DOMAIN BoostFields(b))

NextBoostFields(b) == [missing     |-> Value(b.missing),
                       total_score |-> Value(b.total_score),
                       boost       |-> Value(b.boost)]
NextBoostForValue(b) == Object(NextBoostFields(b), DOMAIN NextBoostFields(b))

---------------------------------------------------------------------------
(* The root fields, given what the resolver returned.                      *)
QueryLeaderboard(b)          == Required("leaderboard", b, Leaderboard)
QueryLeaderboardForWallet(l) == Required("leaderboardForWallet", l, LineData)
QueryBoostForWallet(b)       == Required("boostForWallet", b, BoostForValue)
QueryNextBoostForWallet(b) ==
    Required("nextBoostForWallet", b, NextBoostForValue)

(* Exec, for a query that asks for some root fields.                       *)
Ask(fields) ==
    /\ asked = {} /\ fields # {}
    /\ asked' = fields
    /\ response' = NoResponse
    /\ UNCHANGED <<values, errors, invalids>>

(* The goroutine of a root field ends with this result.                    *)
BadFinish(f, result) ==
    /\ f \in asked \ DOMAIN values
    /\ values' = Joined(values, [g \in {f} |-> result.json])
    /\ errors' = errors \cup result.errs
    /\ UNCHANGED <<asked, invalids, response>>
Finish(f, result) ==
    /\ f \in asked \ DOMAIN values
    /\ values' = Joined(values, [g \in {f} |-> result.json])
    /\ errors' = errors \cup result.errs
    /\ invalids' = invalids + IF result.json = Null THEN 1 ELSE 0
    /\ UNCHANGED <<asked, response>>

(* Arguments that do not have their types, a resolver's error, a panic.    *)
RefuseArguments(f) == Finish(f, Failure(f))
Fail(f)            == Finish(f, Failure(f))

(* A resolver that returned a value.                                       *)
Complete(f, v) ==
    Finish(f, CASE f = "leaderboard"          -> QueryLeaderboard(v)
                [] f = "leaderboardForWallet" -> QueryLeaderboardForWallet(v)
                [] f = "boostForWallet"       -> QueryBoostForWallet(v)
                [] f = "nextBoostForWallet"   -> QueryNextBoostForWallet(v))

(* Dispatch has waited for every field.                                    *)
BadRespond ==
    /\ asked # {} /\ values # <<>>
    /\ response' = [data |-> IF invalids > 0 THEN Null ELSE values,
                    errors |-> errors]
    /\ asked' = {} /\ values' = <<>> /\ errors' = {} /\ invalids' = 0
Respond ==
    /\ asked # {} /\ asked = DOMAIN values
    /\ response' = [data |-> IF invalids > 0 THEN Null ELSE values,
                    errors |-> errors]
    /\ asked' = {} /\ values' = <<>> /\ errors' = {} /\ invalids' = 0
---------------------------------------------------------------------------
(* What the schema (graph/schema.graphqls) promises of a response.         *)
NonNull(j, fields) == j # Null /\ \A f \in fields : j[f] # Null
LineConforms(l) ==
    /\ NonNull(l, {"id", "wallet_address", "points", "categories",
                   "total_score", "position"})
    /\ NonNull(l.categories, {"fund", "farming", "other"})
Conforms(f, j) ==
    CASE f = "leaderboard" ->
            /\ NonNull(j, {"data", "page_info"})
            /\ NonNull(j.page_info, {"max_page", "page", "limit", "count",
                                     "has_next_page", "has_previous_page"})
            /\ \A i \in DOMAIN j.data : LineConforms(j.data[i])
      [] f = "leaderboardForWallet" -> LineConforms(j)
      [] f = "boostForWallet" -> NonNull(j, {"value", "total_score", "boost"})
      [] f = "nextBoostForWallet" ->
            NonNull(j, {"missing", "total_score", "boost"})

(* A response that has data has all of it: no field the schema declares    *)
(* non-null is null at any depth, whatever the resolvers returned and in   *)
(* whatever order they ended.                                              *)
ResponseConforms ==
    response.data # Null =>
        \A f \in DOMAIN response.data : Conforms(f, response.data[f])

(* The fields end in any order and at any time, and the response that has  *)
(* data has every field that was asked for.                                *)
ResponseComplete ==
    [][(response' \notin {response, NoResponse} /\ response'.data # Null) =>
          DOMAIN response'.data = asked]_vars

(* There is no half-failed response: an error anywhere, and nothing but an *)
(* error, leaves the response without data.                                *)
NullsExplained == (response.data = Null) <=> (response.errors # {})
=============================================================================
