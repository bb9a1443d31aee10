------------------------------ MODULE Scoring ------------------------------
(***************************************************************************)
(* The ranking of one wallet (internal/leaderboard): each run of the       *)
(* aggregator loads the wallet's domain events, orders them, gives each to *)
(* the five score builders in turn, and publishes the line.  Two builders  *)
(* look at the scores before, and the boost of a purchase of Karathuru at  *)
(* the purchases of every wallet on record at that moment, while the       *)
(* subscribers go on recording events.                                     *)
(***************************************************************************)
EXTENDS Boost, Functions

CONSTANTS
    DomainEvents,      (* what the chain has for the subscribers to record *)
    Wallet,            (* the wallet of this ranking                       *)
    NoProject,         (* stands for a missing project_name                *)
    Karathuru,         (* the project with the milestone boost             *)
    ProjectPoints,     (* 200 in the code, for one more project            *)
    PointsPerProject,  (* the early projects with their points             *)
    QueryFaults        (* whether the query of the minter value may fail   *)

Purchases == {"minter:buy", "minter:airdrop", "migrator:migration"}
Boosted   == {"minter:buy", "minter:airdrop"}
Priority  == << "project:transfer", "project:transfer-value",
                "project:slot-changed" >>
Names == Purchases \union Range(Priority)
           \union {"yielder:claim", "offseter:claim", "other"}

(* The field `value` is data["value"] of a purchase, data["amount"] of a   *)
(* claim; id tells apart events that are alike.                            *)
ASSUME EventsAssumption ==
    \A e \in DomainEvents :
        e.name \in Names /\ e.value \in Nat /\ e.recordedAt \in Nat
ASSUME PointsAssumption ==
    /\ ProjectPoints \in Nat
    /\ NoProject \notin DOMAIN PointsPerProject
    /\ \A p \in DOMAIN PointsPerProject : PointsPerProject[p] \in Nat
    /\ QueryFaults \in BOOLEAN

VARIABLES
    recorded,    (* domain_events                                          *)
    running,     (* a run computes the ranking                             *)
    loaded,      (* its PersonnalRanking: Events                           *)
    pending,     (* ... those not yet in HandledEvents                     *)
    scores,      (* the scores so far, in order                            *)
    line,        (* the scores of the line last published                  *)
    failed       (* history: whether a query of the minter value failed    *)

vars == <<recorded, running, loaded, pending, scores, line, failed>>

Rules == {"amount_funded", "number_of_projects", "resaler", "offseter",
          "early_adopter"}
Score == [rule : Rules, event : DomainEvents, points : Nat]

(* Definitions named Bad... are never used: each one is a plausible bug in *)
(* the definition after it, and some property rejects it.                  *)

(* AggregateCategories.                                                    *)
BadFund == {"amount_funded", "number_of_projects"}
Fund    == {"amount_funded", "number_of_projects", "early_adopter"}
Farming == {"resaler", "offseter"}

(* TotalScore of the scores of some rules: one division at the end.        *)
TotalScore(list, rules) ==
    LET points == [i \in DOMAIN list |-> list[i].points]
        counted == {i \in DOMAIN list : list[i].rule \in rules}
    IN FoldFunctionOnSet(+, 0, points, counted) \div Precision

(* ByRecordedAtAndEventName.Less; indexOf gives every other name 99999.    *)
PriorityOf(e) == IF e.name \in Range(Priority)
                   THEN CHOOSE i \in DOMAIN Priority : Priority[i] = e.name
                   ELSE 99999
Less(e1, e2) == IF e1.recordedAt = e2.recordedAt
                  THEN PriorityOf(e1) < PriorityOf(e2)
                  ELSE e1.recordedAt < e2.recordedAt

---------------------------------------------------------------------------
(* The builders: each gives the scores it adds, one or none.               *)
Scored(e, rule, points) == << [rule |-> rule, event |-> e, points |-> points] >>

(* GetMinterCurrentValue, in dollars, from all purchases on record.        *)
MinterValue(recordedAt) ==
    LET bought == {e \in recorded : /\ e.name \in Boosted
                                    /\ e.project = Karathuru
                                    /\ e.recordedAt <= recordedAt}
        value == [e \in bought |-> e.value]
    IN FoldFunction(+, 0, value) \div Precision

(* The boosters one after the other, Karathuru's first; a failed query     *)
(* only skips it.  They change nothing but the amount funded.              *)
Answers(e) == IF QueryFaults /\ e.name \in Boosted /\ e.project = Karathuru
                THEN BOOLEAN ELSE {TRUE}
BoostedPoints(e, answered) ==
    LET milestone == IF e.project = Karathuru /\ answered
                       THEN MilestoneBoost(e.value, MinterValue(e.recordedAt))
                       ELSE e.value
    IN IF e.name \in Boosted THEN ValueBoost(milestone) ELSE e.value

AmountFunded(e, answered) ==
    IF e.name \in Purchases
      THEN Scored(e, "amount_funded", BoostedPoints(e, answered)) ELSE <<>>

(* Of the scores before, one of a project suffices for another project to  *)
(* count; without any score yet a buy gives its value, and nothing else.   *)
BadRuleWasApplied(rule, project, before) ==
    \E i \in DOMAIN before : /\ i = Len(before)
                             /\ before[i].rule = rule
                             /\ before[i].event.project = project
RuleWasApplied(rule, project, before) ==
    \E i \in DOMAIN before : /\ before[i].rule = rule
                             /\ before[i].event.project = project
NumberOfProjects(e, before) ==
    IF e.project = NoProject
         \/ RuleWasApplied("number_of_projects", e.project, before)
      THEN <<>>
    ELSE IF \E i \in DOMAIN before : before[i].event.project # NoProject
      THEN Scored(e, "number_of_projects", ProjectPoints * Precision)
    ELSE IF before = <<>> /\ e.name = "minter:buy"
      THEN Scored(e, "number_of_projects", e.value)
    ELSE <<>>

Resaler(e)  == IF e.name = "yielder:claim"
                 THEN Scored(e, "resaler", e.value) ELSE <<>>
Offseter(e) == IF e.name = "offseter:claim"
                 THEN Scored(e, "offseter", e.value * 100) ELSE <<>>

(* The loop over the scores before also gives up at one without a project. *)
BadEarlyAdopter(e, before) ==
    IF /\ e.project \in DOMAIN PointsPerProject
       /\ ~\E i \in DOMAIN before : before[i].rule = "early_adopter"
      THEN Scored(e, "early_adopter", PointsPerProject[e.project] * Precision)
      ELSE <<>>
EarlyAdopter(e, before) ==
    IF /\ e.project \in DOMAIN PointsPerProject
       /\ ~\E i \in DOMAIN before : before[i].event.project = NoProject
       /\ ~RuleWasApplied("early_adopter", e.project, before)
      THEN Scored(e, "early_adopter", PointsPerProject[e.project] * Precision)
      ELSE <<>>

(* ScoreCalculatorManager.ComputeScore with the builders in the order of   *)
(* FullScoreCalculatorManager: each sees the scores of those before it.    *)
BadWithScores(before, e, answered) ==
    LET s1 == before \o NumberOfProjects(e, before)
        s2 == s1 \o AmountFunded(e, answered) \o Resaler(e) \o Offseter(e)
    IN s2 \o EarlyAdopter(e, s2)
WithScores(before, e, answered) ==
    LET s1 == before \o AmountFunded(e, answered)
        s2 == s1 \o NumberOfProjects(e, s1)
        s3 == s2 \o Resaler(e) \o Offseter(e)
    IN s3 \o EarlyAdopter(e, s3)

---------------------------------------------------------------------------
Init ==
    /\ recorded = {}
    /\ running = FALSE
    /\ loaded = {} /\ pending = {} /\ scores = <<>>
    /\ line = <<>>
    /\ failed = FALSE

(* A subscriber records an event, whenever it gets to it.                  *)
Record(e) ==
    /\ e \notin recorded
    /\ recorded' = recorded \union {e}
    /\ UNCHANGED <<running, loaded, pending, scores, line, failed>>

(* GetParticipantEvents and NewPersonnalRanking, for a wallet that has any *)
(* events: the sort is the order in which ComputeScore takes them.         *)
BadLoad ==
    /\ ~running /\ recorded # {}
    /\ running' = TRUE
    /\ loaded' = recorded /\ pending' = recorded
    /\ scores' = <<>>
    /\ UNCHANGED <<recorded, line, failed>>
Load ==
    LET events == {e \in recorded : e.wallet = Wallet}
    IN /\ ~running /\ events # {}
       /\ running' = TRUE
       /\ loaded' = events /\ pending' = events
       /\ scores' = <<>>
       /\ UNCHANGED <<recorded, line, failed>>

(* PersonnalRanking.ComputeScore: one more event.  Rows come from the      *)
(* database in no particular order, and sort.Sort may put events that are  *)
(* not Less than each other in any order too.                              *)
ComputeScore(e) ==
    /\ running
    /\ e \in pending
    /\ \A f \in pending : ~Less(f, e)
    /\ \E answered \in Answers(e) :
         /\ scores' = WithScores(scores, e, answered)
         /\ failed' = (failed \/ ~answered)
    /\ pending' = pending \ {e}
    /\ UNCHANGED <<recorded, running, loaded, line>>

(* computeParticipantEvents: the line replaces the one before.             *)
Publish ==
    /\ running /\ pending = {}
    /\ running' = FALSE
    /\ line' = scores
    /\ loaded' = {} /\ scores' = <<>>
    /\ UNCHANGED <<recorded, pending, failed>>

Next ==
    \/ \E e \in DomainEvents : Record(e) \/ ComputeScore(e)
    \/ Load
    \/ Publish

Spec == Init /\ [][Next]_vars

---------------------------------------------------------------------------
(* Properties.                                                             *)

(* Every variable keeps its shape, and a run holds only recorded events of *)
(* its wallet.                                                             *)
TypeOK ==
    /\ recorded \subseteq DomainEvents
    /\ running \in BOOLEAN
    /\ loaded \subseteq recorded
    /\ failed \in BOOLEAN
    /\ \A e \in loaded : e.wallet = Wallet
    /\ pending \subseteq loaded
    /\ scores \in Seq(Score) /\ line \in Seq(Score)
    /\ ~running => loaded = {} /\ scores = <<>>

(* Whatever the order, a wallet is given the points for another project    *)
(* and those of an early adopter at most once per project.                 *)
OncePerProject ==
    \A i, j \in DOMAIN scores :
        (/\ scores[i].rule = scores[j].rule
         /\ scores[i].rule \in {"number_of_projects", "early_adopter"}
         /\ scores[i].event.project = scores[j].event.project) => i = j

(* Who has bought from a project has the points for that project, and they *)
(* are the fixed ones, never the value of the purchase: the first purchase *)
(* counts because its own amount funded is already among the scores.       *)
PurchasesRewarded ==
    \A e \in loaded \ pending :
        (e.name \in Purchases /\ e.project # NoProject) =>
            \E i \in DOMAIN scores :
                /\ scores[i].rule = "number_of_projects"
                /\ scores[i].event.project = e.project
                /\ scores[i].points = ProjectPoints * Precision

(* The categories are rounded down one by one, and there are only two that *)
(* any rule maps to, so all they can lack of the total is one point.       *)
CategoriesAddUp ==
    TotalScore(line, Rules) - (TotalScore(line, Fund) + TotalScore(line, Farming))
        \in {0, 1}

(* Purchases that are recorded later, or by another wallet, move the       *)
(* milestone under a published purchase only one way: computed again, its  *)
(* points may shrink but never grow, unless a query failed.                *)
PointsOnlyShrink ==
    failed \/ \A i \in DOMAIN scores, j \in DOMAIN line :
        (/\ scores[i].event = line[j].event
         /\ scores[i].rule = "amount_funded" /\ line[j].rule = "amount_funded")
            => scores[i].points <= line[j].points

(* Points for different early projects are all given, not only the first.  *)
EarlyAdopterGiven ==
    \A e \in loaded \ pending :
        e.project \in DOMAIN PointsPerProject =>
            RuleWasApplied("early_adopter", e.project, scores)

(* They are for a wallet whose events all have their project.              *)
NamedAdopterGiven ==
    (\A e \in loaded : e.project # NoProject) => EarlyAdopterGiven
=============================================================================
