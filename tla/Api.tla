-------------------------------- MODULE Api --------------------------------
(***************************************************************************)
(* The GraphQL API (graph/schema.resolvers.go) on its server: what the     *)
(* resolvers return for the ranking's lines, from the stored line to the   *)
(* details of its points, and for the quotes of a purchase that a buyer    *)
(* has in mind.  The queries behind the pages of the ranking, and the      *)
(* table that is swapped under them, are in LeaderboardApi.                *)
(***************************************************************************)
EXTENDS GraphqlServer, Boost

CONSTANTS
    Wallets,         (* the wallets asked about                            *)
    Scored,          (* what scoring may give for a wallet:                *)
                     (* [scores, total, categories]                        *)
    Word,            (* 2^64 in the code                                   *)
    MaxValue,        (* bound: the largest value asked about, in dollars   *)
    Modulus,         (* 2^256 in the code: unsigned numbers wrap around    *)
    MaxFields,       (* bound: the root fields of a query                  *)
    OtherLines       (* what else the server's Go types allow as a line    *)

ASSUME ApiAssumption ==
    /\ Word \in Nat
    /\ MaxValue \in Nat /\ ValueSteps[1].step <= MaxValue
    /\ Modulus \in Nat /\ Modulus > MaxValue
(* No wallet is the empty text, points fit into 63 bits (9 * 10^12         *)
(* dollars), and a value of a Go type that is no pointer is not nil.       *)
ASSUME LinesAssumption ==
    /\ "" \notin Wallets
    /\ \A line \in OtherLines : line # Nil => line.wallet_address \notin Wallets
    /\ \A scored \in Scored :
          /\ scored.categories = [c \in {"fund", "farming", "other"} |->
                                     scored.categories[c]]
          /\ \A i \in DOMAIN scored.scores :
                LET s == scored.scores[i]
                IN /\ s.points \in Nat /\ s.points < Word \div 2
                   /\ Nil \notin {s.slot, s.project, s.date, s.event,
                                  s.boosts, s.rule, s.points}
(* Only a pointer marshals to null: no text, number or truth value does.   *)
ASSUME NullAssumption ==
    /\ Null \notin Int /\ Null \notin BOOLEAN
    /\ Null \notin Wallets /\ Null # ""
    /\ \A scored \in Scored :
          /\ scored.total # Null
          /\ \A c \in {"fund", "farming", "other"} :
                scored.categories[c] # Null
    /\ \A line \in OtherLines \ {Nil} :
          /\ Null \notin {line.id, line.wallet_address, line.total_score,
                          line.position}
          /\ line.categories # Nil =>
                \A c \in {"fund", "farming", "other"} :
                   line.categories[c] # Null

VARIABLES
    stored,          (* the line of each wallet in leaderboard_lines       *)
    valueToBuy       (* the argument of the quotes in the last query       *)

apiVars == <<vars, stored, valueToBuy>>

ApiInit == Init /\ stored = <<>> /\ valueToBuy = 0

---------------------------------------------------------------------------
(* buildPointMetadata; a key that is missing reads as "".                  *)
PointMetadata(s) ==
    [slot |-> s.slot, project_name |-> s.project, date |-> s.date,
     event |-> s.event, boosts |-> s.boosts, rule |-> s.rule]

(* LeaderboardLineFromScore: the points keep the low 64 bits.              *)
LineFromScore(wallet, scored) ==
    [wallet |-> wallet, total |-> scored.total,
     categories |-> scored.categories,
     points |-> [i \in DOMAIN scored.scores |->
                    [metadata |-> PointMetadata(scored.scores[i]),
                     rule     |-> scored.scores[i].rule,
                     value    |-> scored.scores[i].points % Word]]]

(* The aggregator swaps in a ranking with another line for a wallet, or    *)
(* with no lines.                                                          *)
Rank(wallet) ==
    /\ \E scored \in Scored :
          stored' = Joined([w \in {wallet} |-> LineFromScore(w, scored)], stored)
    /\ UNCHANGED <<vars, valueToBuy>>
RankNobody == stored' = <<>> /\ UNCHANGED <<vars, valueToBuy>>

---------------------------------------------------------------------------
(* int(point.Value): the high half of the 64 bit words are negative.       *)
ToInt(n) == IF n < Word \div 2 THEN n ELSE n - Word

(* itemToGqlModel.  What the loop declares is new for every point; the     *)
(* pointer to the rule points into the loop's own variable, which go 1.21  *)
(* shares between the iterations: by the time the rules are marshalled,    *)
(* all of them read what the last iteration left there.                    *)
BadPointsOf(line) ==
    LET last == line.points[Len(line.points)]
    IN [i \in DOMAIN line.points |->
           [rule     |-> last.rule,
            value    |-> ToInt(line.points[i].value),
            metadata |-> last.metadata]]
PointsOf(line) ==
    [i \in DOMAIN line.points |->
        [rule     |-> line.points[Len(line.points)].rule,
         value    |-> ToInt(line.points[i].value),
         metadata |-> line.points[i].metadata]]
ItemToGqlModel(line, position) ==
    [id |-> line.wallet, wallet_address |-> line.wallet,
     points |-> PointsOf(line), categories |-> line.categories,
     total_score |-> line.total, position |-> position]

(* By descending score, lines of equal score in any order: both the        *)
(* positions (ROW_NUMBER) and the rows, which need not agree on ties.      *)
Orders ==
    {o \in [1..Cardinality(DOMAIN stored) -> DOMAIN stored] :
        \A i, j \in DOMAIN o :
            i < j => o[i] # o[j] /\ stored[o[i]].total >= stored[o[j]].total}
Position(order, wallet) == CHOOSE i \in DOMAIN order : order[i] = wallet

(* dbModelToGqlModel over the first rows; the numbers of the pages are     *)
(* LeaderboardApi's matter.  An error of either query is dropped.          *)
LinesOf(rows, numbers) ==
    [i \in DOMAIN rows |->
        ItemToGqlModel(stored[rows[i]], Position(numbers, rows[i]))]
LeaderboardPage(limit, count, lines) ==
    [data |-> lines,
     page_info |-> [max_page |-> (count + limit - 1) \div limit, page |-> 1,
                    limit |-> limit, count |-> count,
                    has_next_page |-> limit < count,
                    has_previous_page |-> FALSE]]
ReadLeaderboard(limit) ==
    \E rows, numbers \in Orders, counted, read \in BOOLEAN :
        LET kept  == SubSeq(rows, 1, Min({limit, Len(rows)}))
            lines == IF read THEN LinesOf(kept, numbers) ELSE <<>>
        IN Complete("leaderboard",
                    LeaderboardPage(limit, IF counted THEN Len(rows) ELSE 0,
                                    lines))

(* A wallet that is no felt, or an error of the query, is an error; for a  *)
(* wallet without a row the item keeps Go's zero values.                   *)
NoRow == [wallet |-> "", total |-> "", points |-> <<>>,
          categories |-> [fund |-> "", farming |-> "", other |-> ""]]
LeaderboardForWallet(wallet) ==
    IF wallet \in DOMAIN stored
    THEN \E numbers \in Orders :
            Complete("leaderboardForWallet",
                     ItemToGqlModel(stored[wallet], Position(numbers, wallet)))
    ELSE Complete("leaderboardForWallet", ItemToGqlModel(NoRow, 0))

---------------------------------------------------------------------------
(* A query, whose quotes are about the same value.                         *)
Query(fields, v) ==
    /\ Cardinality(fields) <= MaxFields
    /\ v = 0 \/ fields \cap {"boostForWallet", "nextBoostForWallet"} # {}
    /\ valueToBuy' = v
    /\ Ask(fields)
    /\ UNCHANGED stored

(* MintPageCalculatorManager over one purchase, which names no project:    *)
(* the amount funded with its value boost, and the total of that.          *)
TotalScore(v) == ValueBoost(v * Precision) \div Precision

BoostForWallet ==
    Complete("boostForWallet",
             [value |-> valueToBuy, total_score |-> TotalScore(valueToBuy),
              boost |-> GetInterval(valueToBuy).boost])

NextBoostForWallet ==
    Complete("nextBoostForWallet",
             [total_score |-> TotalScore(valueToBuy),
              missing |->
                  (GetInterval(valueToBuy).next - valueToBuy) % Modulus,
              boost |-> GetInterval(valueToBuy).nextBoost])

---------------------------------------------------------------------------
(* What else a resolver may return: the server does not know its           *)
(* resolvers, and these are values of their result types too.              *)
ReturnOther(line) ==
    \/ Complete("leaderboardForWallet", line)
    \/ Complete("leaderboard", [data |-> <<line>>, page_info |-> Nil])
    \/ Complete("leaderboard", LeaderboardPage(1, 1, <<line>>))

ApiNext ==
    \/ \E fields \in SUBSET RootFields, v \in 0..MaxValue : Query(fields, v)
    \/ UNCHANGED <<stored, valueToBuy>> /\
       \/ \E f \in RootFields : RefuseArguments(f)
       \/ \E limit \in 1..Cardinality(Wallets) : ReadLeaderboard(limit)
       \/ \E wallet \in Wallets : LeaderboardForWallet(wallet)
       \/ Fail("leaderboardForWallet")
       \/ BoostForWallet \/ NextBoostForWallet
       \/ \E line \in OtherLines : ReturnOther(line)
       \/ Respond
    \/ \E wallet \in Wallets : Rank(wallet)
    \/ RankNobody

ApiSpec == ApiInit /\ [][ApiNext]_apiVars

---------------------------------------------------------------------------
(* What the response says for a field, if it answers it.                   *)
Answers(f) == response.data # Null /\ f \in DOMAIN response.data
Answer(f)  == response.data[f]

(* Whether the lines of the ranking in the response are all like this.     *)
Delivered(LikeThis(_)) ==
    LET Ranked(l) == l.wallet_address \in Wallets => LikeThis(l)
    IN /\ Answers("leaderboardForWallet") =>
             Ranked(Answer("leaderboardForWallet"))
       /\ Answers("leaderboard") =>
             \A i \in DOMAIN Answer("leaderboard").data :
                 Ranked(Answer("leaderboard").data[i])

(* A line reaches the reader as one scoring of the wallet gave it: as many *)
(* points, in order, each with its own value, event, project and boosts,   *)
(* and the total and the categories of that same scoring.                  *)
AsScored(l) ==
    \E scored \in Scored :
        /\ l.total_score = scored.total /\ l.categories = scored.categories
        /\ DOMAIN l.points = DOMAIN scored.scores
        /\ \A i \in DOMAIN l.points :
              /\ l.points[i].value = scored.scores[i].points
              /\ l.points[i].metadata = PointMetadata(scored.scores[i])
LinesAsScored == Delivered(AsScored)

(* Every point comes with the rule that gave it, which is also the rule in *)
(* its metadata.                                                           *)
KeepsRules(l) ==
    \A i \in DOMAIN l.points : l.points[i].rule = l.points[i].metadata.rule
PointsKeepTheirRule == Delivered(KeepsRules)

(* The points quoted for a purchase are the ones its quoted boost gives:   *)
(* the loop over points in ValueBoost and the one over dollars in          *)
(* GetInterval take the same step at every boundary.                       *)
QuoteIsConsistent ==
    Answers("boostForWallet") =>
        LET q == Answer("boostForWallet")
        IN /\ q.value = valueToBuy
           /\ q.total_score = IF q.boost = 0 THEN q.value
                              ELSE MulCoeficient(q.value, q.boost)

(* Whoever is below the highest step and buys what is missing, but nothing *)
(* less, gets the boost named as the next one.  (Above it the code answers *)
(* the difference from 0, wrapped around; boost 0 tells the two apart.)    *)
MissingSuffices ==
    Answers("nextBoostForWallet") =>
        LET q == Answer("nextBoostForWallet")
            BoostAfter(more) == GetInterval(valueToBuy + more).boost
        IN q.boost # 0 =>
             /\ q.missing \in 1..MaxValue
             /\ BoostAfter(q.missing) = q.boost
             /\ \A less \in 0..(q.missing - 1) :
                   BoostAfter(less) = GetInterval(valueToBuy).boost
=============================================================================
