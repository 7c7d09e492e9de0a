-------------------------- MODULE ProjectDispatch --------------------------
(***************************************************************************)
(* ProjectDispatchService.dispatch(): a run of a project from its stubbed  *)
(* start through the agents' pipeline in an isolated working tree to the   *)
(* commit, the run's status and, behind two gates, the push and the draft  *)
(* pull request.  Dispatches of one project run side by side: the command  *)
(* line, the server and the retry scan each start them.                    *)
(*                                                                         *)
(* Approvals are reduced to permits, one-off and per action; how they are  *)
(* requested, matched and burned is ApprovalRegistry and PolicyGate.  How  *)
(* start() writes a run's document is RunEngine.                           *)
(***************************************************************************)
EXTENDS Worktrees, Pipeline

CONSTANTS
  Enabled,     \* the delivery actions the configuration allows by itself
  HasToken,    \* there is a GITHUB_TOKEN
  HasOwner,    \* there is a GITHUB_OWNER
  Requests,    \* run -> what may be asked of it
  MaxFaults,   \* bound on the failures outside the agents' own verdicts
  MaxGrants    \* bound on the approvals the owner grants

Action == {"create_repositories", "push_commits", "open_pull_requests"}

(* What a run is tracked by: a Linear issue, the record of the owner's own *)
(* request, or nothing.                                                    *)
Item == {"none", "linear", "owner_build"}

(* With it, the runtime the configuration gives the development agent.     *)
Work == [type : RunType, item : Item, runtime : Runner \cup {"none"}]

ASSUME DispatchAssumption ==
  /\ Enabled \subseteq Action
  /\ HasToken \in BOOLEAN /\ HasOwner \in BOOLEAN
  /\ Requests \in [Run -> SUBSET Work]
  /\ MaxFaults \in Nat /\ MaxGrants \in Nat

VARIABLES
  file,      \* the status in the run's document
  old,       \* the runs in progress last written more than an hour ago
  held,      \* the runs a retry scan listed as such and is yet to write
  work,      \* what was asked of the run
  d,         \* the local state of its dispatch
  linked,    \* the project names a repository
  hosted,    \* that repository exists on GitHub
  permits,   \* the unspent one-off approvals
  proposed,  \* the runs with a draft pull request
  told,      \* what the dispatch reports of the delivery
  tested,    \* history: the tree the project's tests did not object to
  refused,   \* history: the runs whose diff the runtime refused
  unsaved,   \* history: the runs whose commit failed
  overtaken, \* history: the runs completed before a scan wrote what it had listed
  faults, grants

vars == <<gitVars, file, old, held, work, d, linked, hosted, permits, proposed,
          told, tested, refused, unsaved, overtaken, faults, grants>>

(* The steps of a dispatch.  Up to "add" an exception leaves the document  *)
(* as it is; from "work" on the tree is committed and released first.      *)
Before == {"idle", "started"}
Setup == {"packet", "look", "init", "first_commit", "add"}
Inside == {"work", "commit", "release", "settle"}
Delivery == {"deliver", "provision", "link", "push", "publish", "report"}
Over == {"done", "thrown", "dead", "lost"}

Local == [pc : Before \cup Setup \cup Inside \cup Delivery \cup Over,
          at : 1 .. 7, failed : BOOLEAN, thrown : BOOLEAN,
          committed : BOOLEAN, knows : BOOLEAN,
          qa : QaVerdictValue, review : ReviewVerdictValue,
          security : SecurityVerdictValue]

Request(r) == Requests[r]
Unasked == [type |-> "planning", item |-> "none", runtime |-> "none"]

Init ==
  /\ GitInit
  /\ file = [r \in Run |-> "absent"]
  /\ work = [r \in Run |-> Unasked]
  /\ d = [r \in Run |-> [pc |-> "idle", at |-> 1, failed |-> FALSE,
                         thrown |-> FALSE, committed |-> FALSE, knows |-> FALSE,
                         qa |-> "none", review |-> "none", security |-> "none"]]
  /\ linked \in BOOLEAN /\ hosted \in BOOLEAN /\ (linked => hosted)
  /\ permits = {} /\ proposed = {}
  /\ told = [r \in Run |-> "nothing"]
  /\ tested = [r \in Run |-> {}]
  /\ old = {} /\ held = {} /\ overtaken = {}
  /\ refused = {} /\ unsaved = {}
  /\ faults = 0 /\ grants = 0

Goto(r, pc) == d' = [d EXCEPT ![r].pc = pc]

(* A write of the document dates it anew.                                  *)
SetFile(r, status) == file' = [file EXCEPT ![r] = status] /\ old' = old \ {r}
Fault == faults < MaxFaults /\ faults' = faults + 1

documentVars == <<file, old, held>>
runVars == <<documentVars, work, linked, hosted, permits, proposed, told, grants>>
historyVars == <<tested, refused, unsaved, overtaken>>

-----------------------------------------------------------------------------
(* RunEngine.start() without a dispatcher: the stub reports the run as     *)
(* completed before anything ran, and a run the policy does not allow is   *)
(* parked for the owner.                                                   *)
Start(r) ==
  /\ d[r].pc = "idle"
  /\ \E asked \in Request(r) : work' = [work EXCEPT ![r] = asked]
  /\ \E status \in {"completed", "needs_human"} : SetFile(r, status)
  /\ d' = [d EXCEPT ![r].pc = "started", ![r].knows = linked]
  /\ UNCHANGED <<gitVars, historyVars, held, linked, hosted, permits, proposed,
                 told, faults, grants>>

(* Parked or not, the run is then marked in progress.                      *)
MarkRunning(r) ==
  /\ d[r].pc = "started"
  /\ SetFile(r, "in_progress")
  /\ Goto(r, "packet")
  /\ UNCHANGED <<gitVars, historyVars, held, work, linked, hosted, permits,
                 proposed, told, faults, grants>>

(* The packet and one handoff per role are written; a tree is made only    *)
(* for a real runtime and a pipeline that develops.                        *)
NeedsTree(r) == work[r].runtime # "none" /\ "development" \in Roles(work[r].type)

WritePacket(r) ==
  /\ d[r].pc = "packet"
  /\ Goto(r, IF NeedsTree(r) THEN "look" ELSE "work")
  /\ UNCHANGED <<gitVars, runVars, historyVars, faults>>

LookForRepo(r) ==
  /\ d[r].pc = "look"
  /\ Goto(r, IF IsGitRepo THEN "add" ELSE "init")
  /\ UNCHANGED <<gitVars, runVars, historyVars, faults>>

InitialiseRepo(r) ==
  /\ d[r].pc = "init"
  /\ InitRepo
  /\ Goto(r, "first_commit")
  /\ UNCHANGED <<runVars, historyVars, faults>>

CommitFirst(r) ==
  /\ d[r].pc = "first_commit"
  /\ CommitBase
  /\ Goto(r, "add")
  /\ UNCHANGED <<runVars, historyVars, faults>>

AddWorktree(r) ==
  /\ d[r].pc = "add"
  /\ AddTree(r)
  /\ Goto(r, "work")
  /\ UNCHANGED <<runVars, historyVars, faults>>

(* git refuses to cut a branch from a base that has no commit yet.         *)
NoBase(r) ==
  /\ d[r].pc = "add" /\ ~CanAdd(r)
  /\ Goto(r, "thrown")
  /\ UNCHANGED <<gitVars, runVars, historyVars, faults>>

(* Anything else that fails here fails the dispatch.                       *)
SetupFails(r) ==
  /\ d[r].pc \in Setup
  /\ Fault
  /\ Goto(r, "thrown")
  /\ UNCHANGED <<gitVars, runVars, historyVars>>

-----------------------------------------------------------------------------
(* dispatchRun(): the roles in order; one that is not ok does not stop the *)
(* ones after it.                                                          *)
Stages(r) == PipelineForRunType(work[r].type)

AtRole(r, roles) ==
  /\ d[r].pc = "work" /\ ~d[r].thrown
  /\ d[r].at <= Len(Stages(r)) /\ Stages(r)[d[r].at] \in roles

Step(r, ok) == [d[r] EXCEPT !.at = @ + 1, !.failed = @ \/ ~ok]

(* A handoff that is not valid, or a gate of the development agent that is *)
(* not open, ends an agent before it does anything.                        *)
Judging == {"development", "qa", "security", "reviewer"}

Refuse(r) ==
  /\ AtRole(r, Judging)
  /\ d' = [d EXCEPT ![r] = Step(r, FALSE)]
  /\ UNCHANGED <<gitVars, runVars, historyVars, faults>>

(* The agents that only draft.                                             *)
Draft(r) ==
  /\ AtRole(r, {"product", "ux", "release", "project_manager"})
  /\ \E ok \in BOOLEAN : d' = [d EXCEPT ![r] = Step(r, ok)]
  /\ UNCHANGED <<gitVars, runVars, historyVars, faults>>

(* Development without a runtime only writes its plan.                     *)
Plan(r) ==
  /\ AtRole(r, {"development"}) /\ work[r].runtime = "none"
  /\ d' = [d EXCEPT ![r] = Step(r, TRUE)]
  /\ UNCHANGED <<gitVars, runVars, historyVars, faults>>

(* With one, the edit gate wants a tracked work item; what the runtime     *)
(* wrote stays in the tree whatever became of it.                          *)
MayEdit(r) == work[r].runtime # "none" /\ work[r].item # "none"

Develop(r) ==
  /\ AtRole(r, {"development"}) /\ MayEdit(r)
  /\ \E result \in RuntimeResults(work[r].runtime) :
       /\ EditTree(r, result.changed)
       /\ refused' = IF result.refused THEN refused \cup {r} ELSE refused
       /\ d' = [d EXCEPT ![r] = Step(r, result.ok)]
  /\ UNCHANGED <<runVars, tested, unsaved, overtaken, faults>>

(* QA runs the project's tests in the tree, which may leave files there,   *)
(* and weighs the acceptance criteria.                                     *)
Verify(r) ==
  /\ AtRole(r, {"qa"})
  /\ \E criteria \in Criteria, tests \in Tests, left \in SUBSET {"leftover"} :
       /\ (tests = "none") <=> r \notin trees
       /\ left # {} => tests \in {"passed", "failed"}
       /\ EditTree(r, left)
       /\ tested' = [tested EXCEPT ![r] =
                       IF tests # "none" /\ ~TestsBlocked(tests)
                       THEN content[r] ELSE @]
       /\ LET verdict == QaVerdict(criteria, tests)
          IN d' = [d EXCEPT ![r] = [Step(r, QaOk(verdict)) EXCEPT !.qa = verdict]]
  /\ UNCHANGED <<runVars, refused, unsaved, overtaken, faults>>

Review(r) ==
  /\ AtRole(r, {"reviewer"})
  /\ \E findings \in Findings :
       LET verdict == ReviewVerdict(findings)
       IN d' = [d EXCEPT ![r] = [Step(r, ReviewOk(verdict)) EXCEPT !.review = verdict]]
  /\ UNCHANGED <<gitVars, runVars, historyVars, faults>>

Secure(r) ==
  /\ AtRole(r, {"security"})
  /\ \E high \in BOOLEAN :
       LET verdict == SecurityVerdict(high)
       IN d' = [d EXCEPT ![r] = [Step(r, SecurityOk(verdict)) EXCEPT !.security = verdict]]
  /\ UNCHANGED <<gitVars, runVars, historyVars, faults>>

(* An agent, or a write around it, throws: the pipeline ends there.        *)
AgentThrows(r) ==
  /\ d[r].pc = "work" /\ ~d[r].thrown
  /\ Fault
  /\ d' = [d EXCEPT ![r].thrown = TRUE, ![r].pc = "commit"]
  /\ UNCHANGED <<gitVars, runVars, historyVars>>

EndPipeline(r) ==
  /\ d[r].pc = "work" /\ d[r].at > Len(Stages(r))
  /\ Goto(r, "commit")
  /\ UNCHANGED <<gitVars, runVars, historyVars, faults>>

-----------------------------------------------------------------------------
(* The finally block: commit what is in the tree, then remove it.          *)
(* Seeded fault: the commit is left to the runs that did not throw.        *)
CommitWhenDone(r) ==
  /\ d[r].pc = "commit"
  /\ IF r \in trees /\ ~d[r].thrown
     THEN CommitTree(r) /\ d' = [d EXCEPT ![r].pc = "release", ![r].committed = Staged(r)]
     ELSE Goto(r, "release") /\ UNCHANGED gitVars
  /\ UNCHANGED <<runVars, historyVars, faults>>

CommitWork(r) ==
  /\ d[r].pc = "commit"
  /\ IF r \in trees
     THEN CommitTree(r) /\ d' = [d EXCEPT ![r].pc = "release", ![r].committed = Staged(r)]
     ELSE Goto(r, "release") /\ UNCHANGED gitVars
  /\ UNCHANGED <<runVars, historyVars, faults>>

(* A failing commit is audited, and the tree still goes.                   *)
CommitFails(r) ==
  /\ d[r].pc = "commit" /\ r \in trees
  /\ Fault
  /\ unsaved' = unsaved \cup {r}
  /\ Goto(r, "release")
  /\ UNCHANGED <<gitVars, runVars, tested, refused, overtaken>>

Release(r) ==
  /\ d[r].pc = "release"
  /\ RemoveTree(r)
  /\ Goto(r, IF d[r].thrown THEN "thrown" ELSE "settle")
  /\ UNCHANGED <<runVars, historyVars, faults>>

(* git worktree remove fails, which is swallowed.                          *)
ReleaseFails(r) ==
  /\ d[r].pc = "release" /\ r \in trees
  /\ Fault
  /\ Goto(r, IF d[r].thrown THEN "thrown" ELSE "settle")
  /\ UNCHANGED <<gitVars, runVars, historyVars>>

(* Seeded fault: a role that was not ok does not block the run.            *)
SettledAnyway(r) == IF d[r].thrown THEN "blocked" ELSE "completed"

(* Seeded fault: the run is failed, as the engine's own dispatch does it.  *)
SettledFailed(r) == IF d[r].failed THEN "failed" ELSE "completed"

SettledStatus(r) == IF d[r].failed THEN "blocked" ELSE "completed"

Settle(r) ==
  /\ d[r].pc = "settle"
  /\ SetFile(r, SettledStatus(r))
  /\ Goto(r, IF ~d[r].failed /\ d[r].committed THEN "deliver" ELSE "done")
  /\ UNCHANGED <<gitVars, historyVars, held, work, linked, hosted, permits,
                 proposed, told, faults, grants>>

(* The artifacts are attached before the status is written; when one of    *)
(* the two fails the status is not, though the first may have dated the    *)
(* document anew.                                                          *)
SettleFails(r) ==
  /\ d[r].pc = "settle"
  /\ Fault
  /\ old' \in {old, old \ {r}}
  /\ Goto(r, "thrown")
  /\ UNCHANGED <<gitVars, historyVars, file, held, work, linked, hosted, permits,
                 proposed, told, grants>>

-----------------------------------------------------------------------------
(* deliverDispatchedRun().  What a gate or GitHub refuses is told to the   *)
(* owner; the run stays completed.                                         *)
Allowed(action) == action \in Enabled \cup permits
Spent(action) == permits' = IF action \in Enabled THEN permits ELSE permits \ {action}

Tell(r, what) ==
  /\ told' = [told EXCEPT ![r] = what]
  /\ Goto(r, "done")

(* A project without a repository, as the dispatch read it when it began,  *)
(* gets one first; then a GitHub client is needed.                         *)
Deliver(r) ==
  /\ d[r].pc = "deliver"
  /\ \/ /\ ~d[r].knows /\ HasToken /\ HasOwner
        /\ Goto(r, "provision") /\ UNCHANGED told
     \/ /\ d[r].knows /\ HasToken
        /\ Goto(r, "push") /\ UNCHANGED told
     \/ /\ ~HasToken \/ (~d[r].knows /\ ~HasOwner)
        /\ Tell(r, "blocked")
  /\ UNCHANGED <<gitVars, historyVars, documentVars, work, linked, hosted, permits,
                 proposed, faults, grants>>

(* provision(): the gate is only previewed before GitHub is called; a      *)
(* repository of that name that is already there fails the call.           *)
Provision(r) ==
  /\ d[r].pc = "provision"
  /\ \/ /\ Allowed("create_repositories") /\ ~hosted
        /\ hosted' = TRUE
        /\ Goto(r, "link") /\ UNCHANGED told
     \/ /\ ~Allowed("create_repositories") \/ hosted
        /\ Tell(r, "blocked") /\ UNCHANGED hosted
  /\ UNCHANGED <<gitVars, historyVars, documentVars, work, linked, permits, proposed,
                 faults, grants>>

(* The project names the new repository, and the approval is burned.       *)
LinkRepository(r) ==
  /\ d[r].pc = "link"
  /\ linked' = TRUE
  /\ Spent("create_repositories")
  /\ Goto(r, "push")
  /\ UNCHANGED <<gitVars, historyVars, documentVars, work, hosted, proposed, told,
                 faults, grants>>

(* The report of the new repository or the update of the project fails:    *)
(* it exists, and the project does not know it.                            *)
LinkFails(r) ==
  /\ d[r].pc = "link"
  /\ Fault
  /\ Tell(r, "blocked")
  /\ UNCHANGED <<gitVars, historyVars, documentVars, work, linked, hosted, permits,
                 proposed, grants>>

(* The push gate burns its approval, then git pushes.                      *)
Push(r) ==
  /\ d[r].pc = "push"
  /\ \/ /\ Allowed("push_commits")
        /\ Spent("push_commits")
        /\ PushBranch(r)
        /\ Goto(r, "publish") /\ UNCHANGED told
     \/ /\ ~Allowed("push_commits")
        /\ Tell(r, "blocked") /\ UNCHANGED <<gitVars, permits>>
  /\ UNCHANGED <<historyVars, documentVars, work, linked, hosted, proposed, faults, grants>>

PushFails(r) ==
  /\ d[r].pc = "push" /\ Allowed("push_commits")
  /\ Fault
  /\ Spent("push_commits")
  /\ Tell(r, "blocked")
  /\ UNCHANGED <<gitVars, historyVars, documentVars, work, linked, hosted, proposed, grants>>

(* publish(): the gate first, which burns an approval; an approval asks    *)
(* for no linked issue, an enabled action does, and only a Linear issue    *)
(* is handed over as one.                                                  *)
GatesMet(r) == "open_pull_requests" \in Enabled => work[r].item = "linear"

Publishable(r) ==
  /\ GatesMet(r)
  /\ EvidenceSuffices(d[r].qa, d[r].review, d[r].security)

Publish(r) ==
  /\ d[r].pc = "publish"
  /\ \/ /\ Allowed("open_pull_requests") /\ Publishable(r)
        /\ proposed' = proposed \cup {r}
        /\ Goto(r, "report") /\ UNCHANGED told
     \/ /\ ~Allowed("open_pull_requests") \/ ~Publishable(r)
        /\ Tell(r, "blocked") /\ UNCHANGED proposed
  /\ Spent("open_pull_requests")
  /\ UNCHANGED <<gitVars, historyVars, documentVars, work, linked, hosted, faults, grants>>

(* createPullRequest() fails, the approval gone.                           *)
PublishFails(r) ==
  /\ d[r].pc = "publish" /\ Allowed("open_pull_requests") /\ Publishable(r)
  /\ Fault
  /\ Spent("open_pull_requests")
  /\ Tell(r, "blocked")
  /\ UNCHANGED <<gitVars, historyVars, documentVars, work, linked, hosted, proposed, grants>>

Report(r) ==
  /\ d[r].pc = "report"
  /\ Tell(r, "delivered")
  /\ UNCHANGED <<gitVars, historyVars, documentVars, work, linked, hosted, permits,
                 proposed, faults, grants>>

(* The pull request is there and is reported as blocked.                   *)
ReportFails(r) ==
  /\ d[r].pc = "report"
  /\ Fault
  /\ Tell(r, "blocked")
  /\ UNCHANGED <<gitVars, historyVars, documentVars, work, linked, hosted, permits,
                 proposed, grants>>

-----------------------------------------------------------------------------
(* The process of a dispatch dies.                                         *)
Crash(r) ==
  /\ d[r].pc \notin {"idle"} \cup Over
  /\ Fault
  /\ Goto(r, IF d[r].pc = "started" THEN "lost" ELSE "dead")
  /\ UNCHANGED <<gitVars, runVars, historyVars>>

(* An hour passes over a document left in progress.                        *)
Age(r) ==
  /\ file[r] = "in_progress" /\ r \notin old
  /\ old' = old \cup {r}
  /\ UNCHANGED <<gitVars, historyVars, file, held, work, d, linked, hosted,
                 permits, proposed, told, faults, grants>>

(* reconcileStaleRuns(), which the retry scan calls, lists the documents   *)
(* first.  Those in progress for too long it holds, whether their dispatch *)
(* lives or not,                                                           *)
ListStale(r) ==
  /\ file[r] = "in_progress" /\ r \in old /\ r \notin held
  /\ held' = held \cup {r}
  /\ UNCHANGED <<gitVars, historyVars, file, old, work, d, linked, hosted,
                 permits, proposed, told, faults, grants>>

(* and writes back blocked one by one, whatever they say by then; a second *)
(* scan may have listed the run too.                                       *)
PersistStale(r) ==
  /\ r \in held
  /\ SetFile(r, "blocked")
  /\ held' \in {held, held \ {r}}
  /\ overtaken' = IF file[r] = "completed" THEN overtaken \cup {r} ELSE overtaken
  /\ UNCHANGED <<gitVars, tested, refused, unsaved, work, d, linked, hosted,
                 permits, proposed, told, faults, grants>>

(* The owner approves an action once.                                      *)
Grant(action) ==
  /\ grants < MaxGrants /\ action \notin Enabled \cup permits
  /\ permits' = permits \cup {action}
  /\ grants' = grants + 1
  /\ UNCHANGED <<gitVars, historyVars, documentVars, work, d, linked, hosted, proposed,
                 told, faults>>

-----------------------------------------------------------------------------
SettingUp(r) ==
  \/ Start(r) \/ MarkRunning(r) \/ WritePacket(r) \/ LookForRepo(r)
  \/ InitialiseRepo(r) \/ CommitFirst(r) \/ AddWorktree(r) \/ NoBase(r)

Working(r) ==
  \/ Refuse(r) \/ Draft(r) \/ Plan(r) \/ Develop(r) \/ Verify(r)
  \/ Review(r) \/ Secure(r) \/ EndPipeline(r)

Finishing(r) == CommitWork(r) \/ Release(r) \/ Settle(r)

Delivering(r) ==
  \/ Deliver(r) \/ Provision(r) \/ LinkRepository(r) \/ Push(r)
  \/ Publish(r) \/ Report(r)

Failing(r) ==
  \/ SetupFails(r) \/ AgentThrows(r) \/ CommitFails(r) \/ ReleaseFails(r) \/ SettleFails(r)
  \/ LinkFails(r) \/ PushFails(r) \/ PublishFails(r) \/ ReportFails(r)
  \/ Crash(r)

Reconciling(r) == Age(r) \/ ListStale(r) \/ PersistStale(r)

Next ==
  \/ \E r \in Run : SettingUp(r) \/ Working(r) \/ Finishing(r)
                      \/ Delivering(r) \/ Failing(r) \/ Reconciling(r)
  \/ \E action \in Action : Grant(action)

Spec == Init /\ [][Next]_vars

-----------------------------------------------------------------------------
TypeOK ==
  /\ GitTypeOK
  /\ file \in [Run -> {"absent", "completed", "needs_human", "in_progress", "blocked"}]
  /\ work \in [Run -> Work]
  /\ d \in [Run -> Local]
  /\ linked \in BOOLEAN /\ hosted \in BOOLEAN
  /\ permits \subseteq Action /\ proposed \subseteq Run
  /\ told \in [Run -> {"nothing", "blocked", "delivered"}]
  /\ tested \in [Run -> SUBSET File]
  /\ refused \subseteq Run /\ unsaved \subseteq Run
  /\ old \subseteq Run /\ held \subseteq Run /\ overtaken \subseteq Run
  /\ faults \in 0 .. MaxFaults /\ grants \in 0 .. MaxGrants

(* A diff the runtime refused - it looks like it holds a secret, or is too *)
(* large - is committed on the run's branch like any other, and must not   *)
(* leave the machine (CodexRuntimeAdapter.execute(), deliverRun()).        *)
RefusedStaysHome == refused \cap pushed = {}

(* A pull request is proposed for work every agent of the pipeline passed, *)
(* with the verdicts its body claims, of a run told as completed, and its  *)
(* branch is what the run committed.  The verdicts were reached several    *)
(* steps, and two gates, earlier.  (The run is told as blocked when a scan *)
(* listed it, in progress for over an hour, before it completed, and wrote *)
(* its copy after.)                                                        *)
ProposedMeansReviewed ==
  \A r \in proposed :
    /\ ~d[r].failed /\ d[r].committed
    /\ file[r] = "completed" \/ r \in overtaken
    /\ d[r].qa = "ready" /\ d[r].review = "approve" /\ d[r].security # "open"
    /\ r \in pushed /\ remote[r] = saved[r]

(* What a feature run pushes is the tree its tests did not object to,      *)
(* apart from what the tests themselves left there.  (A bug run tests      *)
(* before it develops, and promises nothing of the kind.)                  *)
FeatureShipsWhatWasTested ==
  \A r \in pushed :
    work[r].type = "feature" => remote[r] \ {"leftover"} = tested[r]

(* A working tree is removed by force only after its edits are on the      *)
(* run's branch - also when the pipeline threw - or their commit failed.   *)
WorkIsKept ==
  [][\A r \in trees \ trees' : saved[r] = content[r] \/ r \in unsaved]_vars

(* From the moment the pipeline is under way, a document that says         *)
(* completed tells of a pipeline that ended with every role ok.            *)
StatusTellsOutcome ==
  \A r \in Run :
    file[r] = "completed" /\ d[r].pc \notin Before \cup {"lost"} =>
      /\ ~d[r].failed /\ ~d[r].thrown
      /\ d[r].at > Len(Stages(r))
=============================================================================
