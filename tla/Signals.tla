------------------------------ MODULE Signals ------------------------------
(***************************************************************************)
(* How BureauOS reacts to what nobody asked it for: a project or a run     *)
(* that stays blocked, a client without an answer, a follow-up that is     *)
(* due, an empty content pipeline, and GitHub's checks, stale work and new *)
(* issues.  Scans of the daemon, requests to the server and commands of    *)
(* the owner look at the documents, start a run for what they find and     *)
(* recognise what was already started by the run's trigger source, which   *)
(* names the subject and, for most kinds, the time of its last change.     *)
(*                                                                         *)
(* A call is the services it makes one after the other; calls of different *)
(* actors interleave at every await between a read and a write.  What runs *)
(* do is ProjectDispatch and RunEngine; here a run is its source and how   *)
(* far the call that started it has brought it.                            *)
(***************************************************************************)
EXTENDS Integers, Sequences

CONSTANTS
  Daemon,      \* the actor that runs the scheduler's jobs, one at a time
  Requester,   \* requests to the server and commands of the owner
  MayCall,     \* what each actor calls
  Subject,     \* what signals are about
  Worlds,      \* the subjects there may be, and their kinds
  Policies,    \* the sets of actions the policy may allow
  Threshold,   \* how long most conditions must last
  MaxStamp,    \* bound on the changes of a subject, by its kind
  MaxResends,  \* bound on the deliveries GitHub repeats
  MaxFaults    \* bound on the calls that throw or whose process dies

Kind == {"project", "synced_project", "run", "client", "content",
         "followup", "check", "pr_check", "stale", "issue"}

(* The policy action that a run for a signal of a kind is gated by.        *)
PolicyAction(k) ==
  CASE k \in {"client", "followup"} -> "draft_replies"
    [] k = "content" -> "draft_content"
    [] OTHER -> "start_triage_runs"

Actor == {Daemon} \cup Requester
Call == {"operational", "memory", "sync", "webhook"}

ASSUME SignalAssumption ==
  /\ Daemon \notin Requester
  /\ MayCall \in [Actor -> SUBSET Call]
  /\ \A a \in Requester : "operational" \notin MayCall[a]
  /\ Worlds \subseteq UNION {[S -> Kind] : S \in SUBSET Subject}
  /\ Threshold \in Nat
  /\ MaxStamp \in [Kind -> Nat]
  /\ MaxResends \in Nat /\ MaxFaults \in Nat

VARIABLES
  what,      \* the subjects there are, and the kind of each
  permitted, \* the actions the policy allows
  raised,    \* its condition holds
  age,       \* since its last change
  stamp,     \* the time of its last change, in the order of the changes
  runs,      \* the runs started for signals
  opps,      \* the opportunities imported from issues
  sent,      \* the webhook deliveries GitHub has sent
  reported,  \* the deliveries a report has been written of
  me,        \* the local state of each actor's call
  lost,      \* history: what an interrupted call was about
  resends, faults

worldVars == <<what, permitted, raised, age, stamp>>
storeVars == <<runs, opps, reported>>
vars == <<worldVars, storeVars, sent, me, lost, resends, faults>>

Subjects == DOMAIN what
Stamps == UNION {0 .. MaxStamp[k] : k \in Kind}
Sources == Subject \X Stamps

(* triggerSource: the stale-work sources have no time in them.             *)
Source(s) == <<s, IF what[s] = "stale" THEN 0 ELSE stamp[s]>>

(* The source of an opportunity only names the issue.                      *)
OpportunitySource(s) == <<s, 0>>

Pc == {"idle", "dedupe", "look_up", "import", "report", "remember", "snapshot",
       "triage", "fulfil", "dispatch"}

Idle == [pc |-> "idle", call |-> "sync", seen |-> {}, known |-> {}, from |-> 0,
         todo |-> {}, run |-> 0]

(* From is how many entries the store had when the call looked.            *)
Entry == [source : Sources, by : Actor, from : Nat]
RunEntry == [source : Sources, by : Actor, from : Nat,
             state : {"started", "parked", "dispatched"}]

Init ==
  /\ what \in Worlds /\ permitted \in Policies
  /\ raised = [s \in Subject |-> s \in Subjects /\ what[s] = "content"]
  /\ age = [s \in Subject |-> 0]
  /\ stamp = [s \in Subject |-> 0]
  /\ runs = <<>> /\ opps = <<>>
  /\ sent = {} /\ reported = {}
  /\ me = [a \in Actor |-> Idle]
  /\ lost = {}
  /\ resends = 0 /\ faults = 0

-----------------------------------------------------------------------------
(* The world.                                                              *)

Changes(s) == stamp[s] < MaxStamp[what[s]]
Later(s) == IF Changes(s) THEN stamp[s] + 1 ELSE stamp[s]

(* Something is written to the subject.                                    *)
Change(S) ==
  /\ stamp' = [s \in Subject |-> IF s \in S THEN Later(s) ELSE stamp[s]]
  /\ age' = [s \in Subject |-> IF s \in S THEN 0 ELSE age[s]]

(* The condition comes up, or changes while it lasts: the client writes    *)
(* again, the blocked project is edited, the check fails on a new head.    *)
Raise(s) ==
  /\ what[s] # "content"
  /\ Changes(s)
  /\ raised' = [raised EXCEPT ![s] = TRUE]
  /\ Change({s})
  /\ UNCHANGED <<what, permitted, storeVars, sent, me, lost, resends, faults>>

Clear(s) ==
  /\ what[s] # "content" /\ raised[s]
  /\ raised' = [raised EXCEPT ![s] = FALSE]
  /\ UNCHANGED <<what, permitted, age, stamp, storeVars, sent, me, lost, resends, faults>>

TimePasses ==
  /\ \E s \in Subjects : age[s] < Threshold
  /\ age' = [s \in Subject |-> IF s \in Subjects /\ age[s] < Threshold THEN age[s] + 1 ELSE age[s]]
  /\ UNCHANGED <<what, permitted, raised, stamp, storeVars, sent, me, lost, resends, faults>>

-----------------------------------------------------------------------------
(* What a call looks at.                                                   *)

Waits == {"project", "synced_project", "run", "client", "content", "stale"}
Due(s) == raised[s] /\ (what[s] \in Waits => age[s] >= Threshold)

Watched(call) ==
  CASE call = "operational" -> {"project", "synced_project", "run", "client", "content"}
    [] call = "memory" -> {"followup"}
    [] call = "sync" -> {"pr_check", "stale", "issue"}
    [] call = "webhook" -> {"check", "pr_check", "issue"}

Candidates(call) == {Source(s) : s \in {x \in Subjects : what[x] \in Watched(call) /\ Due(x)}}
Issues(seen) == {x \in seen : what[x[1]] = "issue"}

SourcesOf(list) == {list[i].source : i \in DOMAIN list}

(* Seeded fault: only what is not finished is recognised.                  *)
KnownUnfinished == {runs[i].source : i \in {j \in DOMAIN runs : runs[j].state # "dispatched"}}

(* Seeded fault: a subject is triaged once, whenever it changes again.     *)
KnownSubjects == {x \in Sources : \E i \in DOMAIN runs : runs[i].source[1] = x[1]}

KnownSources == SourcesOf(runs)

Become(a, new) == me' = [me EXCEPT ![a] = new]
Goto(a, pc) == me' = [me EXCEPT ![a].pc = pc]

(* OperationalSignalTriggerService.scan() and MemoryTriggerService.scan(): *)
(* the runs and the documents are read together.                           *)
ScanBegins(a, call) ==
  /\ me[a].pc = "idle"
  /\ call \in MayCall[a]
  /\ Become(a, [Idle EXCEPT !.pc = "triage", !.call = call, !.known = KnownSources,
                            !.from = Len(runs), !.todo = Candidates(call)])
  /\ UNCHANGED <<worldVars, storeVars, sent, lost, resends, faults>>

(* ProjectRepositoryVerificationService.verify(): GitHub is asked for      *)
(* every linked repository (here in one step).                             *)
SyncBegins(a) ==
  /\ me[a].pc = "idle" /\ "sync" \in MayCall[a]
  /\ Become(a, [Idle EXCEPT !.pc = "look_up", !.seen = Candidates("sync")])
  /\ UNCHANGED <<worldVars, storeVars, sent, lost, resends, faults>>

(* POST /github/webhook: GitHub tells of a check or an issue, and may tell *)
(* again, with the same delivery id.                                       *)
DeliveryArrives(a, x) ==
  /\ me[a].pc = "idle" /\ "webhook" \in MayCall[a]
  /\ x[1] \in Subjects /\ what[x[1]] \in Watched("webhook")
  /\ x[2] > 0 /\ x[2] <= stamp[x[1]]
  /\ sent' = sent \cup {x}
  /\ x \in sent => resends < MaxResends
  /\ resends' = IF x \in sent THEN resends + 1 ELSE resends
  /\ Become(a, [Idle EXCEPT !.pc = "dedupe", !.call = "webhook", !.seen = {x}])
  /\ UNCHANGED <<worldVars, storeVars, lost, faults>>

(* ingest(): a delivery a report names is a duplicate, and triggers        *)
(* nothing.                                                                *)
SkipDuplicate(a) ==
  /\ me[a].pc = "dedupe" /\ me[a].seen \subseteq reported
  /\ Become(a, Idle)
  /\ UNCHANGED <<worldVars, storeVars, sent, lost, resends, faults>>

AcceptDelivery(a) ==
  /\ me[a].pc = "dedupe" /\ ~(me[a].seen \subseteq reported)
  /\ Goto(a, IF Issues(me[a].seen) # {} THEN "look_up" ELSE "report")
  /\ UNCHANGED <<worldVars, storeVars, sent, lost, resends, faults>>

-----------------------------------------------------------------------------
(* createGitHubIssueOpportunities(): opportunities are listed once, then   *)
(* created for the issues none names.                                      *)
(* Seeded fault: a delivery that is new brings only new issues.            *)
LookUpNothing(a) ==
  /\ me[a].pc = "look_up"
  /\ Become(a, [me[a] EXCEPT !.pc = "import", !.known = {}, !.from = Len(opps)])
  /\ UNCHANGED <<worldVars, storeVars, sent, lost, resends, faults>>

LookUp(a) ==
  /\ me[a].pc = "look_up"
  /\ Become(a, [me[a] EXCEPT !.pc = "import", !.known = SourcesOf(opps), !.from = Len(opps)])
  /\ UNCHANGED <<worldVars, storeVars, sent, lost, resends, faults>>

Unknown(a) == {x \in Issues(me[a].seen) : OpportunitySource(x[1]) \notin me[a].known}

Import(a) ==
  /\ me[a].pc = "import"
  /\ \E x \in Unknown(a) :
       LET source == OpportunitySource(x[1])
       IN /\ opps' = Append(opps, [source |-> source, by |-> a, from |-> me[a].from])
          /\ Become(a, [me[a] EXCEPT !.known = @ \cup {source}])
  /\ UNCHANGED <<worldVars, runs, reported, sent, lost, resends, faults>>

Imported(a) ==
  /\ me[a].pc = "import" /\ Unknown(a) = {}
  /\ Goto(a, "report")
  /\ UNCHANGED <<worldVars, storeVars, sent, lost, resends, faults>>

(* The report, with the delivery it is of.                                 *)
WriteReport(a) ==
  /\ me[a].pc = "report"
  /\ reported' = IF me[a].call = "webhook" THEN reported \cup me[a].seen ELSE reported
  /\ Goto(a, IF me[a].call = "sync" THEN "remember" ELSE "snapshot")
  /\ UNCHANGED <<worldVars, runs, opps, sent, lost, resends, faults>>

(* appendProjectMemory(): RUNS.md of the project gets a section, and the   *)
(* project an empty update, which renews its time.                         *)
Remember(a) ==
  /\ me[a].pc = "remember"
  /\ Change({s \in Subjects : what[s] = "synced_project"})
  /\ Goto(a, "snapshot")
  /\ UNCHANGED <<what, permitted, raised, storeVars, sent, lost, resends, faults>>

(* GitHubSignalTriggerService.trigger().                                   *)
TriggerBegins(a) ==
  /\ me[a].pc = "snapshot"
  /\ Become(a, [me[a] EXCEPT !.pc = "triage", !.known = KnownSources, !.from = Len(runs),
                             !.todo = me[a].seen \ Issues(me[a].seen)])
  /\ UNCHANGED <<worldVars, storeVars, sent, lost, resends, faults>>

-----------------------------------------------------------------------------
(* The loop over the candidates, the same in the three services.           *)

Done(a, x) == [me[a] EXCEPT !.todo = @ \ {x}]

SkipKnown(a) ==
  /\ me[a].pc = "triage"
  /\ \E x \in me[a].todo \cap me[a].known : Become(a, Done(a, x))
  /\ UNCHANGED <<worldVars, storeVars, sent, lost, resends, faults>>

Allowed(x) == PolicyAction(what[x[1]]) \in permitted

SkipBlocked(a) ==
  /\ me[a].pc = "triage"
  /\ \E x \in me[a].todo \ me[a].known : ~Allowed(x) /\ Become(a, Done(a, x))
  /\ UNCHANGED <<worldVars, storeVars, sent, lost, resends, faults>>

(* runs.start(): the stub completes the run, or the policy parks it for    *)
(* the owner.                                                              *)
StartRun(a) ==
  /\ me[a].pc = "triage"
  /\ \E x \in me[a].todo \ me[a].known, state \in {"started", "parked"} :
       /\ Allowed(x)
       /\ runs' = Append(runs, [source |-> x, by |-> a, from |-> me[a].from, state |-> state])
       /\ Become(a, [Done(a, x) EXCEPT
            !.known = @ \cup {x}, !.run = Len(runs) + 1,
            !.pc = IF me[a].call \in {"operational", "memory"} THEN "fulfil" ELSE "dispatch"])
  /\ UNCHANGED <<worldVars, opps, reported, sent, lost, resends, faults>>

RunSubject(a) == runs[me[a].run].source[1]
Drafted(a) == {s \in Subjects : s = RunSubject(a) /\ what[s] = "content"}

(* fulfillCandidate(): growth drafts, an account plan or a health review.  *)
(* A failure is caught.                                                    *)
Fulfil(a) ==
  /\ me[a].pc = "fulfil"
  /\ Change(Drafted(a))
  /\ Goto(a, "dispatch")
  /\ UNCHANGED <<what, permitted, raised, storeVars, sent, lost, resends, faults>>

(* Seeded fault: the next candidate, when one cannot be fulfilled.         *)
FulfilFailsOver(a) ==
  /\ me[a].pc = "fulfil"
  /\ Goto(a, "triage")
  /\ UNCHANGED <<worldVars, storeVars, sent, lost, resends, faults>>

FulfilFails(a) ==
  /\ me[a].pc = "fulfil"
  /\ Goto(a, "dispatch")
  /\ UNCHANGED <<worldVars, storeVars, sent, lost, resends, faults>>

(* Seeded fault: the run ends in a state no one reads.                     *)
DispatchClosed(a) ==
  /\ me[a].pc = "dispatch" /\ runs[me[a].run].state = "started"
  /\ runs' = [runs EXCEPT ![me[a].run].state = "closed"]
  /\ Change(Drafted(a))
  /\ Goto(a, "triage")
  /\ UNCHANGED <<what, permitted, raised, opps, reported, sent, lost, resends, faults>>

(* dispatchRun(), for a run that is not parked.                            *)
Dispatch(a) ==
  /\ me[a].pc = "dispatch" /\ runs[me[a].run].state = "started"
  /\ runs' = [runs EXCEPT ![me[a].run].state = "dispatched"]
  /\ Change(Drafted(a))
  /\ Goto(a, "triage")
  /\ UNCHANGED <<what, permitted, raised, opps, reported, sent, lost, resends, faults>>

LeaveParked(a) ==
  /\ me[a].pc = "dispatch" /\ runs[me[a].run].state = "parked"
  /\ Goto(a, "triage")
  /\ UNCHANGED <<worldVars, storeVars, sent, lost, resends, faults>>

EndCall(a) ==
  /\ me[a].pc = "triage" /\ me[a].todo = {}
  /\ Become(a, Idle)
  /\ UNCHANGED <<worldVars, storeVars, sent, lost, resends, faults>>

(* A step throws, or the process dies.  Nobody takes up the call again.    *)
Interrupt(a) ==
  /\ me[a].pc # "idle"
  /\ faults < MaxFaults
  /\ faults' = faults + 1
  /\ lost' = lost \cup (IF me[a].call = "webhook" THEN me[a].seen ELSE {})
                  \cup (IF me[a].pc \in {"fulfil", "dispatch"}
                        THEN {runs[me[a].run].source} ELSE {})
  /\ Become(a, Idle)
  /\ UNCHANGED <<worldVars, storeVars, sent, resends>>

-----------------------------------------------------------------------------
Steps(a) ==
  \/ SkipDuplicate(a) \/ AcceptDelivery(a) \/ LookUp(a) \/ Import(a) \/ Imported(a)
  \/ WriteReport(a) \/ Remember(a) \/ TriggerBegins(a)
  \/ SkipKnown(a) \/ SkipBlocked(a) \/ StartRun(a)
  \/ Fulfil(a) \/ FulfilFails(a) \/ Dispatch(a) \/ LeaveParked(a) \/ EndCall(a)

Next ==
  \/ \E s \in Subjects : Raise(s) \/ Clear(s)
  \/ TimePasses
  \/ \E a \in Actor :
       \/ \E call \in {"operational", "memory"} : ScanBegins(a, call)
       \/ SyncBegins(a)
       \/ \E x \in Sources : DeliveryArrives(a, x)
       \/ Steps(a)
       \/ Interrupt(a)

Spec == Init /\ [][Next]_vars

(* Time passes, a call goes on, GitHub delivers each event once, and the   *)
(* daemon begins each of its jobs again and again, which is                *)
(* Scheduler!JobsKeepRunning.                                              *)
FairSpec ==
  /\ Spec
  /\ WF_vars(TimePasses)
  /\ \A a \in Actor : WF_vars(Steps(a))
  /\ SF_vars(\E a \in Requester, x \in Sources \ sent : DeliveryArrives(a, x))
  /\ SF_vars(ScanBegins(Daemon, "operational"))
  /\ SF_vars(ScanBegins(Daemon, "memory"))
  /\ SF_vars(SyncBegins(Daemon))

-----------------------------------------------------------------------------
Local == [pc : Pc, call : Call, seen : SUBSET Sources, known : SUBSET Sources,
          from : Nat, todo : SUBSET Sources, run : Nat]

TypeOK ==
  /\ what \in Worlds /\ permitted \in Policies
  /\ raised \in [Subject -> BOOLEAN]
  /\ age \in [Subject -> 0 .. Threshold]
  /\ stamp \in [Subject -> Stamps]
  /\ runs \in Seq(RunEntry) /\ opps \in Seq(Entry)
  /\ sent \subseteq Sources /\ reported \subseteq Sources /\ lost \subseteq Sources
  /\ me \in [Actor -> Local]
  /\ \A a \in Actor : me[a].pc \in {"fulfil", "dispatch"} => me[a].run \in DOMAIN runs
  /\ resends \in 0 .. MaxResends /\ faults \in 0 .. MaxFaults

(* The same thing is entered twice only by two calls that overlapped: the  *)
(* second had looked before the first entered it.                          *)
OnceUnlessOverlapping(list) ==
  \A i, j \in DOMAIN list :
    i < j /\ list[i].source = list[j].source =>
      list[i].by # list[j].by /\ list[j].from < i

(* A signal gets one run, whoever scans, retries, fails or is repeated;    *)
(* there is no lock, so two scans at a time can start two.                 *)
OneRunPerSignal == OnceUnlessOverlapping(runs)

(* An issue becomes one opportunity, although the import and the report    *)
(* that recognises a repeated delivery are two steps, and the sync imports *)
(* it too.                                                                 *)
OneOpportunityPerIssue == OnceUnlessOverlapping(opps)

(* A run that was started and neither parked nor dispatched - it is shown  *)
(* as completed - is in the hands of a call, or that call was interrupted: *)
(* a failing fulfilment or an earlier candidate never leaves one behind.   *)
NoRunIsForgotten ==
  \A i \in DOMAIN runs :
    runs[i].state = "started" =>
      \/ runs[i].source \in lost
      \/ \E a \in Actor : me[a].pc \in {"fulfil", "dispatch"} /\ me[a].run = i

Handled(s) ==
  \/ Source(s) \in lost
  \/ \E i \in DOMAIN runs : runs[i].source = Source(s) /\ runs[i].state # "started"
  \/ what[s] = "issue" /\ OpportunitySource(s) \in SourcesOf(opps)

(* A condition that lasts is answered by a run (an issue by an             *)
(* opportunity), through repeated deliveries, renewals and failing calls;  *)
(* what is lost is what an interrupted call had in hand.  A blocked        *)
(* project whose repository is synced is the exception: every sync renews  *)
(* the time its age is measured from.                                      *)
EverySignalIsTriaged ==
  \A s \in Subject :
    s \in Subjects /\ raised[s] /\ what[s] # "synced_project" /\ PolicyAction(what[s]) \in permitted
      ~> ~raised[s] \/ Handled(s)
=============================================================================
