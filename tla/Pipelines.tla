----------------------------- MODULE Pipelines -----------------------------
(***************************************************************************)
(* The services that work from the company's books: the revenue pass over  *)
(* the open opportunities, the growth pass over its memory, and the        *)
(* reviews, reports and plans that only read.  A pass reads everything at  *)
(* its start and writes for long after; two may overlap, the owner edits   *)
(* the Markdown files meanwhile, and a write may fail at any of them.      *)
(***************************************************************************)
EXTENDS Books

CONSTANTS
  Pass,          \* who generates: the daemon, the api, the command line
  Services,      \* what each generates
  Companies,     \* the books the company may begin with
  MaxSelected,   \* opportunities of a revenue pass, drafts of a growth pass
  Verdicts,      \* statuses the owner may give an opportunity
  Rewritten,     \* sections of the growth memory the owner may rewrite
  MaxEdits       \* bound on edits by the owner

(* What the services that only read write: artifacts in this order, or one *)
(* for each client.                                                        *)
Reports ==
  [business |-> <<"executive-report", "cross-project-executive-report",
                  "business-operating-report">>,
   health |-> <<"project-health-report">>,
   repositories |-> <<"repository-verification-report">>,
   growth_review |-> <<"growth-review">>,
   brief |-> <<"morning-brief">>,
   revenue |-> <<"revenue-pipeline-report">>,
   growth |-> <<"content-pipeline-report">>]
PerClient == [account_plans |-> "client-account-plan",
              success_status |-> "client-success-status-report"]
ServiceKind == DOMAIN Reports \cup DOMAIN PerClient

ASSUME PipelinesAssumption ==
  /\ Services \in [Pass -> SUBSET ServiceKind]
  /\ Companies # {} /\ Companies \subseteq Book
  /\ MaxSelected \in Nat \ {0}
  /\ Verdicts \subseteq DealStatus
  /\ MaxEdits \in Nat

VARIABLES
  books,
  configured,    \* sections of the growth memory that have text
  pass,          \* with the artifacts it wrote and the requests it filed
  edits,
  moves,         \* history: statuses a deal was given since the last disturbance
  reopened       \* history: closed deals opened by a pass nothing disturbed

pipelineVars == <<books, configured, pass, edits, moves, reopened>>

Section == {"brand", "offers", "channels"}
Briefs == {"pricing-brief", "proposal-brief"}
GrowthDrafts == <<"social-post-brief", "campaign-brief", "creative-brief",
                  "ad-campaign-brief">>
Commitments == <<"change_pricing", "send_final_proposals", "send_client_messages">>

Nobody == "nobody"
Off == [at |-> "off"]
UnderWay(p) == pass[p].at # "off"

PipelinesTypeOK ==
  /\ books \in Book
  /\ configured \subseteq Section
  /\ \A p \in Pass : UnderWay(p) => pass[p].kind \in Services[p]
  /\ edits \in 0 .. MaxEdits
  /\ moves \in [Deal -> Nat] /\ reopened \subseteq Deal

PipelinesInit ==
  /\ books \in Companies
  /\ configured = Section
  /\ reopened = {} /\ edits = 0
  /\ pass = [p \in Pass |-> Off]
  /\ moves = [d \in Deal |-> 0]

-----------------------------------------------------------------------------
(* A pass with some of its fields set.                                     *)
With(x, changes) ==
  [f \in DOMAIN x \cup DOMAIN changes |-> IF f \in DOMAIN changes THEN changes[f] ELSE x[f]]

(* A step of a pass, with the artifact it wrote.                           *)
Forth(p, changes) ==
  /\ pass' = [pass EXCEPT ![p] = With(@, changes)]
  /\ UNCHANGED <<books, configured, edits, moves, reopened>>
Produce(p, type, of, changes) ==
  Forth(p, With(changes, [made |-> pass[p].made \cup {<<type, of>>}]))

(* What the other passes under way have read is no longer so.              *)
Disturbed(local, others) ==
  [p \in Pass |-> IF p \in others /\ local[p].at # "off"
                  THEN [local[p] EXCEPT !.fresh = FALSE] ELSE local[p]]

(* generate(), of any service, begins by reading everything, in any order; *)
(* the revenue pass reads the opportunities a second time, through the     *)
(* summary of the accounts.                                                *)
BeginPass(p) ==
  /\ ~UnderWay(p)
  /\ \E kind \in Services[p] :
       Forth(p, [kind |-> kind, at |-> "reading", fresh |-> TRUE, made |-> {}, filed |-> {},
                 left |-> IF kind = "revenue" THEN {"deals", "accounts"} ELSE {"deals"}])

(* The open opportunities, by value and then by margin; equal ones by what *)
(* is left out here, in any order.                                         *)
Before(b, d, e) ==
  \/ b.deal[d].value > b.deal[e].value
  \/ b.deal[d].value = b.deal[e].value /\ b.deal[d].margin > b.deal[e].margin

Orders(b) ==
  {order \in [1 .. Cardinality(OpenDeals(b)) -> OpenDeals(b)] :
     /\ \A i, j \in DOMAIN order : i # j => order[i] # order[j]
     /\ \A i, j \in DOMAIN order : i < j => ~Before(b, order[j], order[i])}

Firsts(seq, n) == SubSeq(seq, 1, Min({n, Len(seq)}))

Selected(order, focus) ==
  IF focus = Nobody THEN Firsts(order, MaxSelected)
  ELSE IF focus \in Range(order) THEN <<focus>> ELSE <<>>

Reporting(kind) == [at |-> "report", todo |-> Reports[kind]]

(* A pass has a reading of the books until it needs it no more.            *)
Forgotten == [seen |-> {}, accounts |-> {}]
Reading(taken) == CHOOSE b \in taken : TRUE

(* What a pass has to go through, when it has read what it needs; it may   *)
(* be about one opportunity.                                               *)
Agenda(kind, order, focus) ==
  CASE kind = "revenue" ->
         LET todo == Selected(order, focus) IN
         IF todo = <<>> THEN With(Forgotten, [todo |-> todo, at |-> "audit"])
         ELSE [todo |-> todo, at |-> "qualify"]
    [] kind = "growth" /\ configured = Section /\ order # <<>> ->
         With(Forgotten, [todo |-> Firsts(GrowthDrafts, MaxSelected), at |-> "draft",
                          of |-> order[1]])
    [] kind \in DOMAIN PerClient -> With(Forgotten, [left |-> Client, at |-> "plan"])
    [] OTHER -> With(Forgotten, Reporting(kind))

ReadBooks(p, what) ==
  LET x == pass[p]
      rest == x.left \ {what}
      read == With(x, IF what = "deals" THEN [left |-> rest, seen |-> {books}]
                      ELSE [left |-> rest, accounts |-> {books}]) IN
  /\ UnderWay(p) /\ x.at = "reading" /\ what \in x.left
  /\ IF rest # {} THEN pass' = [pass EXCEPT ![p] = read]
     ELSE \E focus \in Deal \cup {Nobody}, order \in Orders(Reading(read.seen)) :
            pass' = [pass EXCEPT ![p] = With(read, Agenda(x.kind, order, focus))]
  /\ UNCHANGED <<books, configured, edits, moves, reopened>>

-----------------------------------------------------------------------------
(* The revenue pass, one opportunity after the other.                      *)
Qualify(p) ==
  LET x == pass[p]
      d == Head(x.todo)
      was == books.deal[d].status
      stage == Stage(EvaluateOpportunity(Reading(x.seen), Reading(x.accounts), d))
      new == PatchedStatus(Reading(x.seen).deal[d].status, stage) IN
  /\ x.at = "qualify"
  /\ books' = [books EXCEPT !.deal[d].status = new]
  /\ pass' = Disturbed([pass EXCEPT ![p] =
                With(IF Len(x.todo) = 1 THEN With(@, Forgotten) ELSE @,
                     [at |-> "lead", of |-> d, ready |-> stage = "proposal_ready"])],
                IF new = was THEN {} ELSE Pass \ {p})
  /\ moves' = [e \in Deal |-> IF ~x.fresh THEN 0
                              ELSE IF e = d /\ new # was THEN moves[d] + 1 ELSE moves[e]]
  /\ reopened' = IF x.fresh /\ ~IsOpen(was) THEN reopened \cup {d} ELSE reopened
  /\ UNCHANGED <<configured, edits>>

WriteLead(p) ==
  LET x == pass[p] IN
  /\ x.at = "lead"
  /\ Produce(p, "lead-qualification-report", x.of,
           IF x.ready THEN [at |-> "briefs", left |-> Briefs] ELSE [at |-> "audit"])

(* The two briefs are written at the same time.                            *)
WriteBrief(p, type) ==
  LET x == pass[p]
      rest == x.left \ {type} IN
  /\ x.at = "briefs" /\ type \in x.left
  /\ Produce(p, type, x.of, [left |-> rest, at |-> IF rest = {} THEN "review" ELSE "briefs"])

NextDeal(todo) ==
  IF todo = <<>> THEN Reporting("revenue") ELSE [todo |-> todo, at |-> "qualify"]

WriteAudit(p) ==
  LET x == pass[p] IN
  /\ x.at = "audit"
  /\ IF x.todo = <<>> THEN Produce(p, "conversion-audit", Nobody, Reporting("revenue"))
     ELSE Produce(p, "conversion-audit", x.of, NextDeal(Tail(x.todo)))

-----------------------------------------------------------------------------
(* The growth pass, and the gate in which both passes end.                 *)
WriteDraft(p) ==
  LET x == pass[p]
      rest == Tail(x.todo) IN
  /\ x.at = "draft"
  /\ Produce(p, Head(x.todo), x.of,
           [todo |-> rest, at |-> IF rest = <<>> THEN "review" ELSE "draft"])

(* The commitments the drafts of a pass would be, each to be asked for     *)
(* once.                                                                   *)
ActionsFor(x) ==
  LET If(drafted, actions) == IF <<drafted, x.of>> \in x.made THEN actions ELSE <<>> IN
  IF x.kind = "revenue" THEN Commitments
  ELSE If("social-post-brief", <<"publish_social_posts">>) \o <<"publish_public_content">>
       \o If("ad-campaign-brief", <<"run_paid_ads", "launch_ad_campaigns">>)

WriteReview(p) ==
  /\ pass[p].at = "review"
  /\ Produce(p, "compliance-review", pass[p].of,
           [at |-> "asking", asks |-> ActionsFor(pass[p])])

AskOwner(p) ==
  LET x == pass[p]
      rest == Tail(x.asks) IN
  /\ x.at = "asking"
  /\ Forth(p, With(IF rest # <<>> THEN [at |-> "asking"]
                   ELSE IF x.kind = "growth" THEN Reporting("growth")
                   ELSE NextDeal(Tail(x.todo)),
                   [asks |-> rest, filed |-> x.filed \cup {<<Head(x.asks), x.of>>}]))

-----------------------------------------------------------------------------
(* The plans and status reports, one for each client, and the reports.     *)
WritePlan(p, c) ==
  LET x == pass[p]
      rest == x.left \ {c} IN
  /\ x.at = "plan" /\ c \in x.left
  /\ Produce(p, PerClient[x.kind], c,
             [left |-> rest, at |-> IF rest = {} THEN "end" ELSE "plan"])

WriteReport(p) ==
  LET x == pass[p]
      rest == Tail(x.todo) IN
  /\ x.at = "report"
  /\ Produce(p, Head(x.todo), Nobody,
           [todo |-> rest, at |-> IF rest = <<>> THEN "end" ELSE "report"])

(* The service returns, or a read or a write threw: what was written stays.*)
EndPass(p) ==
  /\ UnderWay(p)
  /\ pass' = [pass EXCEPT ![p] = Off]
  /\ UNCHANGED <<books, configured, edits, moves, reopened>>

PassStep(p) ==
  \/ BeginPass(p) \/ (\E what \in {"deals", "accounts"} : ReadBooks(p, what))
  \/ Qualify(p) \/ WriteLead(p) \/ (\E type \in Briefs : WriteBrief(p, type)) \/ WriteAudit(p)
  \/ WriteDraft(p) \/ WriteReview(p) \/ AskOwner(p)
  \/ (\E c \in Client : WritePlan(p, c)) \/ WriteReport(p) \/ EndPass(p)

(* The owner edits the file of an opportunity.                             *)
SetStatus(d, status) ==
  /\ edits < MaxEdits /\ books.deal[d].status # status
  /\ books' = [books EXCEPT !.deal[d].status = status]
  /\ pass' = Disturbed(pass, Pass)
  /\ moves' = [e \in Deal |-> 0]
  /\ edits' = edits + 1
  /\ UNCHANGED <<configured, reopened>>

(* GrowthMemoryService.update() writes a section, with text or without.    *)
Configure(section) ==
  /\ edits < MaxEdits
  /\ \/ configured' = configured \cup {section}
     \/ configured' = configured \ {section}
  /\ edits' = edits + 1
  /\ UNCHANGED <<books, pass, moves, reopened>>

PipelinesNext ==
  \/ \E p \in Pass : PassStep(p)
  \/ \E d \in Deal, status \in Verdicts : SetStatus(d, status)
  \/ \E section \in Section \cap Rewritten : Configure(section)

-----------------------------------------------------------------------------
(* A request is backed by the review and by the drafts of the same pass,   *)
(* and a pass that gets to its report has asked for everything its drafts  *)
(* would commit the company to.                                            *)
DraftsAreGated ==
  \A p \in {q \in Pass : UnderWay(q)} :
    LET made == pass[p].made
        filed == pass[p].filed
        Drafts == Briefs \cup Range(GrowthDrafts)
        Commits(type) == CASE type \in Briefs -> Range(Commitments)
                           [] type = "social-post-brief" ->
                                {"publish_social_posts", "publish_public_content"}
                           [] type = "ad-campaign-brief" ->
                                {"run_paid_ads", "launch_ad_campaigns", "publish_public_content"}
                           [] OTHER -> {"publish_public_content"} IN
    /\ \A r \in filed :
         /\ <<"compliance-review", r[2]>> \in made
         /\ \E y \in made : y[1] \in Drafts /\ y[2] = r[2] /\ r[1] \in Commits(y[1])
    /\ pass[p].at \in {"report", "end"} =>
         \A y \in made : y[1] \in Drafts =>
           \A action \in Commits(y[1]) : <<action, y[2]>> \in filed

(* Passes that find the books as they were left come to rest: a third      *)
(* moves nothing.  A deal that is closed is opened again only by a pass    *)
(* that was under way when it was closed.                                  *)
PassesSettle == (\A d \in Deal : moves[d] <= 2) /\ reopened = {}

(* The digests agree about what asks for attention.  The health review     *)
(* and the portfolio of the business reports see the same blocked and      *)
(* waiting projects, and the review every approval the portfolio sees;     *)
(* whoever needs the owner scores below who does not.  A blocked project   *)
(* is on the root memory's list, in what the brief says to look at and in  *)
(* its client's risk.                                                      *)
AttentionAgrees ==
  \A q \in Project :
    LET health == RiskFor(books, q)
        portfolio == RiskForProject(books, q) IN
    /\ \A r \in {"blocked", "needs_human"} : (health = r) <=> (portfolio = r)
    /\ portfolio = "approval" => health = "approval"
    /\ VerifyRepository(books.project[q], TRUE, TRUE) = "attention" => health # "clear"
    /\ health \in {"blocked", "needs_human", "approval"} =>
         \A w \in Project : RiskFor(books, w) = "clear"
           => ScoreFor(books, q) < ScoreFor(books, w)
    /\ health \in {"blocked", "approval"} => ~IsClean(books)
    /\ health = "approval" => "approvals" \in LookToday(books)
    /\ health = "blocked" =>
         /\ {"blockers"} \subseteq LookToday(books) \cap Connections(books)
         /\ RiskForClient(Account(books, books.project[q].of)) = "blocked"

(* The digests agree about the money: the brief's pipeline is that of the  *)
(* accounts together, no client is worth less to the company than its      *)
(* revenue, and what the growth review recommends is what the brief        *)
(* connects and what puts an account at risk.                              *)
MoneyAgrees ==
  LET account == [c \in Client |-> Account(books, c)]
      class == [c \in Client |-> ClassifyClient(account[c])]
      advice == Recommendations(books, configured = Section, TRUE)
      Level(x) == CASE x = "high" -> 3 [] x = "medium" -> 2 [] OTHER -> 1 IN
  /\ BriefSignals(books).pipeline = Total([c \in Client |-> account[c].pipeline])
  /\ \A c \in Client : Level(class[c].revenue_tier) <= Level(class[c].strategic)
  /\ "prioritize" \in advice => "pipeline" \in Connections(books)
  /\ advice \cap {"review_stalled", "follow_up"} # {} =>
       \E c \in Client : class[c].relationship = "at_risk"
=============================================================================
