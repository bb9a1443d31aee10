--------------------------- MODULE LeaderboardApi ---------------------------
(***************************************************************************)
(* The ranking as its readers get it: the leaderboard query of the API     *)
(* process (Leaderboard in graph/schema.resolvers.go, PaginateRaw in       *)
(* internal/db/db.go) against the aggregator process, which swaps the      *)
(* table underneath.  The resolver counts the lines in one statement and   *)
(* reads a page of them in another, and drops the errors of both.          *)
(***************************************************************************)
EXTENDS Aggregator, FiniteSets

CONSTANTS
    ScoreOf,      (* total_score of each wallet's line                     *)
    MaxInt,       (* the largest INT of the database, 2^31-1               *)
    Pages,        (* pagination.Page: what clients ask for                 *)
    Limits        (* pagination.Limit                                      *)

ASSUME ScoreAssumption ==
    IsFiniteSet(Wallets) /\ ScoreOf \in [Wallets -> Nat] /\ MaxInt \in Nat
ASSUME RequestAssumption == Pages \subseteq Int /\ Limits \subseteq Int

VARIABLES
    counted,      (* the count in hand, or NoCount before the first read   *)
    same          (* history: it is that of the table as it is now         *)

apiVars == <<counted, same>>
allVars == <<live, tmp, old, participants, stage, todo, ranked, crashes,
             overlaps, faults, counted, same>>
NoCount == -1

(* Rows of a table: each is a wallet and which of its rows it is.          *)
RowsOf(t) == {row \in Wallets \X (1..MaxRows) : Exists(t) /\ row[2] <= t[row[1]]}

(* ORDER BY total_score::INT: fails for a score that is no INT.            *)
CanOrder(t) == Exists(t) /\ \A w \in WalletsOf(t) : ScoreOf[w] <= MaxInt

(* The positions that OFFSET and LIMIT select of n lines: the database     *)
(* refuses either if it is negative.  Ties of the score are in any order.  *)
Offset(page, limit) == (page - 1) * limit
LinesOf(n, page, limit) ==
    {k \in 1..n : /\ limit >= 0 /\ Offset(page, limit) >= 0
                  /\ Offset(page, limit) < k
                  /\ k <= Offset(page, limit) + limit}

(* int(math.Ceil(count / limit)); dividing by 0 yields an infinity or NaN, *)
(* whose conversion depends on the machine.                                *)
MinusInfinity == -1000
PlusInfinity  == 1000
Ceiling(n, d) == IF d > 0 THEN (n + d - 1) \div d ELSE -(n \div (-d))
BadMaxPages(n, limit) ==
    IF limit = 0 THEN {MinusInfinity, 0, PlusInfinity}
                 ELSE {Ceiling(n + 1, limit)}
MaxPages(n, limit) ==
    IF limit = 0 THEN {MinusInfinity, 0, PlusInfinity}
                 ELSE {Ceiling(n, limit)}

ApiInit == Init /\ counted = NoCount /\ same = FALSE

---------------------------------------------------------------------------
(* The first statement: Count.  A missing table or a failing database      *)
(* leaves 0.                                                               *)
CountLines(ok) ==
    /\ counted = NoCount
    /\ same' = (ok /\ Exists(live))
    /\ counted' = IF same' THEN Cardinality(RowsOf(live)) ELSE 0
    /\ UNCHANGED vars

(* The second: Scan of one page, and the answer [lines, page info].        *)
ReadLines(page, limit, ok) ==
    IF ok /\ CanOrder(live)
      THEN LinesOf(Cardinality(RowsOf(live)), page, limit) ELSE {}
Leaderboard(page, limit, ok, maxPage) ==
    [data |-> ReadLines(page, limit, ok), max_page |-> maxPage, count |-> counted,
     has_next_page |-> page < maxPage, has_previous_page |-> page > 1]

AnswerPage(page, limit, maxPage) ==
    /\ counted # NoCount
    /\ maxPage \in MaxPages(counted, limit)
    /\ counted' = NoCount
    /\ same' = FALSE
    /\ UNCHANGED vars

(* A step of the aggregator, or of the indexer (Join).                     *)
Ranking ==
    /\ Next
    /\ same' = (same /\ live' = live)
    /\ UNCHANGED counted

ApiNext ==
    \/ Ranking
    \/ \E ok \in BOOLEAN : CountLines(ok)
    \/ \E page \in Pages, limit \in Limits :
          \E maxPage \in MaxPages(counted, limit) :
             AnswerPage(page, limit, maxPage)

(* Fairness is the aggregator's alone: nobody has to ask for the ranking.  *)
ApiSpec     == ApiInit /\ [][ApiNext]_allVars
FairApiSpec == ApiSpec /\ Fairness

---------------------------------------------------------------------------
(* Properties.                                                             *)

(* A count is a number of rows, and `same` tells when it is the number of  *)
(* rows of the table the next statement will find.                         *)
ApiTypeOK ==
    /\ counted \in {NoCount} \union 0..(MaxRows * Cardinality(Wallets))
    /\ same => Exists(live) /\ counted = Cardinality(RowsOf(live))

(* If both statements found the same table and could order it, the answer  *)
(* adds up for a page and a limit of at least 1: has_next_page and         *)
(* has_previous_page tell whether positions come after and before the      *)
(* page, and a page that another one follows is full.  Any other request   *)
(* is answered without lines, whatever its page info says: page 0 claims a *)
(* next page where there is a line at all, and a limit of 0 may claim one. *)
(* Nothing is said of two answers: equal scores may change places between  *)
(* them.                                                                   *)
AddsUp(answer, page, limit) ==
    LET lines == answer.data
        rest  == answer.count - Offset(page, limit)
    IN /\ answer.has_next_page => Cardinality(lines) = limit
       /\ answer.has_next_page = (rest > limit)
       /\ answer.has_previous_page = (page > 1)
       /\ ~answer.has_next_page /\ rest > 0 => Cardinality(lines) = rest
       /\ rest <= 0 => lines = {}
PageAddsUp ==
    [][\A page \in Pages, limit \in Limits :
         \A maxPage \in MaxPages(counted, limit) :
            (same /\ CanOrder(live) /\ AnswerPage(page, limit, maxPage)) =>
              LET answer == Leaderboard(page, limit, TRUE, maxPage)
              IN IF page >= 1 /\ limit >= 1 THEN AddsUp(answer, page, limit)
                                             ELSE answer.data = {}]_allVars

(* While no run dies or overlaps another and the database does not fail, a *)
(* reader is told that the ranking is empty only before there is one, or   *)
(* between the two renames of hotSwapTables.                               *)
EmptyOnlyInSwap ==
    [][(CountLines(TRUE) /\ counted' = 0 /\ ranked # {} /\ Calm)
         => \E r \in Runs : stage[r] = "renameTmp"]_allVars
=============================================================================
