------------------------------- MODULE Books -------------------------------
(***************************************************************************)
(* What the company's services read out of its books - the clients, their  *)
(* projects and opportunities, the runs of a project, the approvals that   *)
(* are pending - and what each of them concludes: client intelligence, the *)
(* project health review, the portfolio of the business reports, the root  *)
(* memory with the morning brief, the growth review and the qualification  *)
(* of an opportunity.  Each service has a computation of its own; all are  *)
(* functions of one snapshot b of the books.                               *)
(***************************************************************************)
EXTENDS Integers, Sequences, FiniteSets, FiniteSetsExt

CONSTANTS Client, Project, Deal

ASSUME BooksAssumption ==
  IsFiniteSet(Client) /\ IsFiniteSet(Project) /\ IsFiniteSet(Deal)

DealStatus == {"intake", "qualified", "proposal_draft", "proposal_sent",
               "stalled", "won", "lost"}
ProjectStatus == {"intake", "proposal", "approved", "in_progress", "blocked",
                  "delivered", "cancelled"}
ClientStatus == {"lead", "active", "paused", "churned", "archived"}

(* A request counts for whatever its target or scope names; `exact' if its *)
(* target is the project's id or its scope has the name as it is written.  *)
Asked == [names : SUBSET (Client \cup Project), exact : BOOLEAN, high : BOOLEAN]

(* The runs of a project that are not over, at most one of a kind; the     *)
(* days since its record changed; the counts of its latest signal report.  *)
Book == [client : [Client -> [status : ClientStatus, due : BOOLEAN]],
         project : [Project -> [of : Client, status : ProjectStatus,
                                repository : BOOLEAN, idle : {0, 7, 14},
                                runs : SUBSET {"working", "needs_human", "blocked"},
                                failing : Nat, stale : Nat]],
         deal : [Deal -> [of : Client, status : DealStatus, value : Nat, margin : Nat]],
         pending : SUBSET Asked]

(* The first verdict of a chain of early returns whose condition holds.    *)
FirstOf(chain) ==
  chain[CHOOSE i \in DOMAIN chain :
          chain[i][1] /\ \A j \in 1 .. (i - 1) : ~chain[j][1]][2]

Clamp(n) == Max({0, Min({100, n})})

IsOpen(status) == status \notin {"won", "lost"}
OpenDeals(b) == {d \in Deal : IsOpen(b.deal[d].status)}
DealsOf(b, c) == {d \in Deal : b.deal[d].of = c}
ProjectsOf(b, c) == {p \in Project : b.project[p].of = c}
Total(amount) == MapThenSumSet(LAMBDA i : amount[i], DOMAIN amount)
Worth(b, deals) == Total([d \in deals |-> b.deal[d].value])
Margins(b, deals) == Total([d \in deals |-> b.deal[d].margin])
InStatus(b, projects, statuses) == {p \in projects : b.project[p].status \in statuses}

-----------------------------------------------------------------------------
(* Client intelligence.                                                    *)
InDelivery == {"proposal", "approved", "in_progress"}

Account(b, c) ==
  LET deals == DealsOf(b, c)
      projects == ProjectsOf(b, c)
      Having(status) == {d \in deals : b.deal[d].status = status}
  IN [deals |-> Cardinality(deals), open |-> Cardinality(deals \cap OpenDeals(b)),
      pipeline |-> Worth(b, deals \cap OpenDeals(b)), won |-> Worth(b, Having("won")),
      lost |-> Worth(b, Having("lost")), margins |-> Margins(b, deals),
      proposals |-> Cardinality(Having("proposal_draft") \cup Having("proposal_sent")),
      stalled |-> Cardinality(Having("stalled")),
      active |-> Cardinality(InStatus(b, projects, InDelivery)),
      blocked |-> Cardinality(InStatus(b, projects, {"blocked"})),
      delivered |-> Cardinality(InStatus(b, projects, {"delivered"})),
      linked |-> \E p \in projects : b.project[p].repository,
      due |-> b.client[c].due]

RiskForClient(a) ==
  FirstOf(<< <<a.blocked > 0, "blocked">>, <<a.due, "follow_up_due">>,
             <<a.proposals > 0, "proposal">>,
             <<a.active > 0 \/ a.open > 0, "active">>, <<TRUE, "cold">> >>)

(* Points for revenue, pipeline and margin are fractions: won/300,         *)
(* pipeline/400 and 0.15 of the average margin, in 1200ths of an average.  *)
ValueScore(a) ==
  LET n == Max({1, a.deals})
      unit == 1200 * n
      points == Min({30 * unit, 4 * n * a.won}) + Min({25 * unit, 3 * n * a.pipeline})
                + Min({15 * unit, 180 * a.margins})
      whole == Min({10, 5 * a.active}) + Min({10, 5 * a.delivered})
               + (IF a.linked THEN 5 ELSE 0) - Min({20, 10 * a.blocked})
               - Min({10, 5 * a.stalled}) - (IF a.due THEN 8 ELSE 0)
  IN Clamp((2 * (points + unit * whole) + unit) \div (2 * unit))

RelationshipHealth(a) ==
  FirstOf(<< <<a.blocked > 0 \/ a.due \/ a.stalled > 0, "at_risk">>,
             <<a.delivered > 0, "strong">>, <<TRUE, "neutral">> >>)

ClassifyRevenue(a) ==
  LET value == Max({a.won, a.pipeline}) IN
  FirstOf(<< <<value = 0, "unknown">>, <<value >= 10000, "high">>,
             <<value >= 3000, "medium">>, <<TRUE, "low">> >>)

ClassifyClient(a) ==
  LET score == ValueScore(a)
      health == RelationshipHealth(a)
      value == a.won + a.pipeline
  IN [revenue_tier |-> ClassifyRevenue(a),
      relationship |-> health,
      strategic |-> FirstOf(<< <<value >= 10000 \/ score >= 70, "high">>,
                               <<value >= 3000 \/ a.active > 0 \/ a.open > 0, "medium">>,
                               <<TRUE, "low">> >>),
      payment |-> FirstOf(<< <<a.won > 0 /\ a.lost = 0, "good">>,
                             <<a.stalled > 0 /\ a.won = 0, "risky">>,
                             <<TRUE, "unknown">> >>),
      upsell |-> FirstOf(<< <<a.open > 0 /\ a.delivered > 0, "high">>,
                            <<a.open > 0 \/ a.active > 0, "medium">>,
                            <<score >= 70, "high">>, <<score >= 35, "medium">>,
                            <<TRUE, "low">> >>),
      referral |-> FirstOf(<< <<a.delivered > 0 /\ health # "at_risk", "high">>,
                              <<a.won > 0, "medium">>, <<TRUE, "low">> >>)]

-----------------------------------------------------------------------------
(* The project health review.                                              *)
Underway == {"intake", "proposal", "approved", "in_progress"}
Naming(b, p) == {r \in b.pending : p \in r.names}

RiskFor(b, p) ==
  LET x == b.project[p] IN
  FirstOf(<< <<x.status = "blocked", "blocked">>,
             <<"needs_human" \in x.runs, "needs_human">>,
             <<Naming(b, p) # {}, "approval">>,
             <<x.failing > 0 \/ x.stale > 0, "watch">>,
             <<x.status \in Underway /\ (x.runs = {} \/ x.idle >= 7), "watch">>,
             <<TRUE, "clear">> >>)

ScoreFor(b, p) ==
  LET x == b.project[p]
      risk == [blocked |-> 45, needs_human |-> 35, approval |-> 20, watch |-> 15,
               clear |-> 0]
      human == IF "needs_human" \in x.runs THEN 1 ELSE 0
  IN Clamp(100 - risk[RiskFor(b, p)] - Min({15, 5 * Cardinality(Naming(b, p))})
           - Min({20, 10 * human}) - Min({25, 10 * x.failing}) - Min({15, 5 * x.stale})
           - (IF x.runs = {} THEN 8 ELSE 0) - (IF x.idle >= 14 THEN 10 ELSE 0)
           + (IF Worth(b, DealsOf(b, x.of) \cap OpenDeals(b)) > 0 THEN 5 ELSE 0))

(* The portfolio of the business reports: requests by target or exact      *)
(* name, and a pipeline that has every opportunity there ever was.         *)
RiskForProject(b, p) ==
  LET x == b.project[p] IN
  FirstOf(<< <<x.status = "blocked", "blocked">>,
             <<"needs_human" \in x.runs, "needs_human">>,
             <<\E r \in Naming(b, p) : r.exact, "approval">>,
             <<x.runs = {} /\ x.status \notin {"delivered", "cancelled"}, "watch">>,
             <<Worth(b, DealsOf(b, x.of)) > 0 /\ x.status = "intake", "watch">>,
             <<TRUE, "clear">> >>)

(* The repository verification of a project, whose sync may be unable to   *)
(* run; a link is to GitHub or to something else.                          *)
VerifyRepository(x, supported, canSync) ==
  FirstOf(<< <<~x.repository, "missing">>, <<~supported, "unsupported">>,
             <<~canSync, "unverified">>,
             <<x.failing > 0 \/ x.stale > 0, "attention">>, <<TRUE, "verified">> >>)

-----------------------------------------------------------------------------
(* The root memory, whose lists are cut off, and the brief made of it.     *)
SectionLimit == 12

RootView(b) ==
  LET blocked == InStatus(b, Project, {"blocked"})
      runs == {p \in Project : "blocked" \in b.project[p].runs}
      atRisk == {r \in b.pending : r.high}
      stalled == {d \in Deal : b.deal[d].status = "stalled"}
      lost == {c \in Client : b.client[c].status \in {"paused", "churned"}}
  IN [clients |-> {c \in Client : b.client[c].status \notin {"archived", "churned"}},
      projects |-> InStatus(b, Project, {"in_progress", "approved"}),
      priorities |-> Min({SectionLimit, Cardinality(OpenDeals(b))}),
      blockers |-> Min({SectionLimit, Cardinality(blocked) + Cardinality(runs)}),
      risks |-> Min({SectionLimit, Cardinality(atRisk) + Cardinality(stalled)
                                   + Cardinality(lost)})]

BriefSignals(b) ==
  [pipeline |-> Worth(b, OpenDeals(b)), open |-> Cardinality(OpenDeals(b)),
   approvals |-> Cardinality(b.pending)]

IsClean(b) == RootView(b).blockers = 0 /\ BriefSignals(b).approvals = 0

(* What the brief connects and what it says to look at, of either list as  *)
(* much as there is room for.                                              *)
Connections(b) ==
  LET view == RootView(b)
      open == BriefSignals(b).open
      patterns == {x \in {"pipeline", "gap", "funnel"} :
                     CASE x = "pipeline" -> open > 0
                       [] x = "gap" -> view.clients # {} /\ view.projects = {}
                       [] x = "funnel" -> view.projects # {} /\ open = 0}
      room == 4 - Cardinality(patterns)
  IN patterns \cup (IF view.blockers > 0 THEN {"blockers"} ELSE {})
              \cup (IF view.risks > 0 /\ view.blockers < room THEN {"risks"} ELSE {})

LookToday(b) ==
  LET view == RootView(b)
      asked == IF b.pending # {} THEN {"approvals"} ELSE {}
      room == 3 - Cardinality(asked)
      urgent == asked \cup (IF view.blockers > 0 THEN {"blockers"} ELSE {})
                \cup (IF view.priorities > 0 /\ view.blockers < room THEN {"priorities"}
                      ELSE {})
  IN IF urgent = {} THEN {"nothing"} ELSE urgent

(* What the growth review recommends.                                      *)
Recommendations(b, ready, recent) ==
  {x \in {"complete_memory", "draft", "create_opportunity", "prioritize",
          "review_stalled", "follow_up"} :
     CASE x = "complete_memory" -> ~ready
       [] x = "draft" -> ~recent
       [] x = "create_opportunity" -> Worth(b, OpenDeals(b)) = 0
       [] x = "prioritize" -> Worth(b, OpenDeals(b)) # 0
       [] x = "review_stalled" -> \E d \in Deal : b.deal[d].status = "stalled"
       [] x = "follow_up" -> \E c \in Client : b.client[c].due}

-----------------------------------------------------------------------------
(* The qualification of an opportunity of b, with the account's summary    *)
(* made of a reading of its own.                                           *)
StatusPoints == [proposal_sent |-> 20, proposal_draft |-> 18, qualified |-> 15,
                 intake |-> 8, stalled |-> -10, won |-> 0, lost |-> 0]

EvaluateOpportunity(b, summary, d) ==
  LET x == b.deal[d]
      value == FirstOf(<< <<x.value >= 10000, 25>>, <<x.value >= 3000, 18>>,
                          <<x.value > 0, 10>>, <<TRUE, 0>> >>)
      margin == FirstOf(<< <<x.margin >= 50, 20>>, <<x.margin >= 30, 15>>,
                           <<x.margin > 0, 8>>, <<TRUE, 0>> >>)
      client == FirstOf(<< <<b.client[x.of].status = "active", 15>>,
                           <<b.client[x.of].status = "lead", 8>>, <<TRUE, 0>> >>)
      account == Min({20, (2 * ValueScore(Account(summary, x.of)) + 5) \div 10})
  IN Clamp(value + margin + client + account + StatusPoints[x.status])

Stage(score) ==
  FirstOf(<< <<score >= 65, "proposal_ready">>, <<score >= 45, "qualified">>,
             <<TRUE, "needs_qualification">> >>)

(* Seeded fault: a qualified opportunity that is evaluated again as it was *)
(* goes back to the intake.                                                *)
PatchedStatusSwings(status, stage) ==
  FirstOf(<< <<stage = "proposal_ready", "proposal_draft">>,
             <<stage = "qualified" /\ status = "qualified", "intake">>,
             <<stage = "qualified", "qualified">>, <<status = "stalled", "stalled">>,
             <<TRUE, "intake">> >>)

PatchedStatus(status, stage) ==
  FirstOf(<< <<stage = "proposal_ready", "proposal_draft">>,
             <<stage = "qualified", "qualified">>, <<status = "stalled", "stalled">>,
             <<TRUE, "intake">> >>)
=============================================================================
