-------------------------- MODULE AutonomousRetry --------------------------
(***************************************************************************)
(* AutonomousRetryService.scan over the runs: reconcile the stale ones,    *)
(* list, and for each failed run start another attempt or ask the owner.   *)
(* Scans are started by the daemon, the http api and the command line;     *)
(* each runs alone in its caller, so a scan that throws or whose process   *)
(* dies simply ends, and a later one starts over from the documents.       *)
(***************************************************************************)
EXTENDS RunEngine, FiniteSets

CONSTANTS
  Scan,          \* the callers that scan
  MaxAttempts,   \* limits.max_retries_per_task
  MaxFaults      \* bound on crashes and thrown calls

ASSUME RetryAssumption ==
  /\ MaxAttempts \in Nat
  /\ MaxFaults \in Nat

VARIABLES
  at,        \* where each scan is
  stale,     \* the stale runs its first list() saw, as it saw them
  todo,      \* the candidates its second list() gave
  doing,     \* the candidate it is working on
  child,     \* the run it started for it
  blockers,  \* resolve_retry_blocker approvals requested, per run
  triage,    \* autonomy.start_triage_runs
  faults,    \* crashes and thrown calls so far
  overtaken, \* history: runs reconciled while their call was still running
  erased     \* history: runs whose own decision was linked over their settlement

scanVars == <<at, stale, todo, doing, child>>
vars == <<engineVars, scanVars, blockers, triage, faults, overtaken, erased>>

Candidate == [run: Run, attempts: Nat, escalate: BOOLEAN]
NoCandidate == [run |-> NoRun, attempts |-> 0, escalate |-> FALSE]

At == {"idle", "reconcile", "list", "work", "request", "await"}

Init ==
  /\ EngineInit
  /\ at = [s \in Scan |-> "idle"]
  /\ stale = [s \in Scan |-> {}]
  /\ todo = [s \in Scan |-> {}]
  /\ doing = [s \in Scan |-> NoCandidate]
  /\ child = [s \in Scan |-> NoRun]
  /\ blockers = [r \in Run |-> 0]
  /\ triage \in BOOLEAN
  /\ faults = 0
  /\ overtaken = {}
  /\ erased = {}

-----------------------------------------------------------------------------
(* The runs that fail in the first place. *)

IsChild(r) == file[r].parent # NoRun
Originals == {r \in Created : ~IsChild(r)}

StartOriginal(r) ==
  /\ Cardinality(Originals) < MaxOriginals
  /\ \E how \in {"dispatcher", "project"} : StartRun(r, how, NoRun, 0)
  /\ UNCHANGED <<scanVars, blockers, triage, faults, overtaken, erased>>

(* An original runs in a caller of its own; a child dies with its scan. *)
FailOriginal(r) ==
  /\ faults < MaxFaults
  /\ faults' = faults + 1
  /\ r \in Originals
  /\ Live(r)
  /\ Goto(r, "dead")
  /\ UNCHANGED <<file, age, mem, mode, scanVars, blockers, triage, overtaken,
                 erased>>

(* The document does not say any more what the scan had said of the run. *)
Erases(r) ==
  \/ file[r].recovered /\ ~file'[r].recovered
  \/ file[r].escalated /\ ~file'[r].escalated

RunStep(r) ==
  /\ EngineStep(r)
  /\ erased' = IF call[r] \in Linking /\ Erases(r) THEN erased \cup {r} ELSE erased
  /\ UNCHANGED <<scanVars, blockers, triage, faults, overtaken>>

-----------------------------------------------------------------------------
(* reconcileStaleRuns(): what list() saw is written back as blocked.       *)

BeginScan(s) ==
  /\ at[s] = "idle"
  /\ stale' = [stale EXCEPT ![s] = {<<r, file[r]>> : r \in {q \in Run : IsStale(q)}}]
  /\ overtaken' = overtaken \cup {r \in Run : IsStale(r) /\ Live(r)}
  /\ at' = [at EXCEPT ![s] = "reconcile"]
  /\ UNCHANGED <<engineVars, todo, doing, child, blockers, triage, faults,
                 erased>>

(* classifyRetry() reads the scope and the older errors of the run, too.   *)
Reconciled(rec, retryable) ==
  [rec EXCEPT !.status = "blocked", !.retryable = retryable]

Reconcile(s) ==
  /\ at[s] = "reconcile"
  /\ \E p \in stale[s], retryable \in BOOLEAN :
       /\ Write(p[1], Reconciled(p[2], retryable))
       /\ stale' = [stale EXCEPT ![s] = @ \ {p}]
  /\ UNCHANGED <<mem, call, mode, at, todo, doing, child, blockers, triage,
                 faults, overtaken, erased>>

-----------------------------------------------------------------------------
(* The second list(): which failed runs to try again, which to escalate.   *)

(* Some run was already started as this attempt of r. *)
KnownSource(r, attempt) == \E c \in Children(r) : file[c].attempt = attempt

(* Seeded faults: attempts that were started are not looked up, and a run  *)
(* in progress counts as one that failed.                                  *)
EligibleAgain(r) ==
  /\ file[r].status \in {"blocked", "failed"}
  /\ ~IsChild(r)
  /\ ~file[r].escalated
  /\ ~file[r].recovered

EligibleRunning(r) ==
  /\ file[r].status \in {"blocked", "failed", "in_progress"}
  /\ ~IsChild(r)
  /\ ~file[r].escalated
  /\ ~file[r].recovered
  /\ ~KnownSource(r, file[r].attempts + 1)

Eligible(r) ==
  /\ file[r].status \in {"blocked", "failed"}
  /\ ~IsChild(r)
  /\ ~file[r].escalated
  /\ ~file[r].recovered
  /\ ~KnownSource(r, file[r].attempts + 1)

(* Seeded fault: one attempt too many. *)
CandidateOfMore(r) ==
  [run |-> r, attempts |-> file[r].attempts,
   escalate |-> ~file[r].retryable \/ file[r].attempts > MaxAttempts]

CandidateOf(r) ==
  [run |-> r, attempts |-> file[r].attempts,
   escalate |-> ~file[r].retryable \/ file[r].attempts + 1 > MaxAttempts]

ListCandidates(s) ==
  /\ at[s] = "reconcile"
  /\ stale[s] = {}
  /\ todo' = [todo EXCEPT ![s] = {CandidateOf(r) : r \in {q \in Run : Eligible(q)}}]
  /\ at' = [at EXCEPT ![s] = "work"]
  /\ UNCHANGED <<engineVars, stale, doing, child, blockers, triage, faults,
                 overtaken, erased>>

-----------------------------------------------------------------------------
(* Escalation: the approval is requested, then the run says so.            *)

RequestApproval(s) ==
  /\ at[s] = "work"
  /\ \E k \in todo[s] :
       /\ k.escalate
       /\ todo' = [todo EXCEPT ![s] = @ \ {k}]
       /\ doing' = [doing EXCEPT ![s] = k]
       /\ blockers' = [blockers EXCEPT ![k.run] = @ + 1]
  /\ at' = [at EXCEPT ![s] = "request"]
  /\ UNCHANGED <<engineVars, stale, child, triage, faults, overtaken, erased>>

PatchEscalated(s) ==
  /\ at[s] = "request"
  /\ LET k == doing[s]
     IN  Write(k.run, [file[k.run] EXCEPT !.attempts = k.attempts, !.escalated = TRUE])
  /\ doing' = [doing EXCEPT ![s] = NoCandidate]
  /\ at' = [at EXCEPT ![s] = "work"]
  /\ UNCHANGED <<mem, call, mode, stale, todo, child, blockers, triage, faults,
                 overtaken, erased>>

-----------------------------------------------------------------------------
(* Another attempt: a run of its own, executed before the parent is told.  *)

SkipCandidate(s) ==
  /\ at[s] = "work"
  /\ ~triage
  /\ \E k \in todo[s] :
       /\ ~k.escalate
       /\ todo' = [todo EXCEPT ![s] = @ \ {k}]
  /\ UNCHANGED <<engineVars, at, stale, doing, child, blockers, triage, faults,
                 overtaken, erased>>

StartChild(s, c) ==
  /\ at[s] = "work"
  /\ triage
  /\ \E k \in todo[s], how \in {"project", "coordinator"} :
       /\ ~k.escalate
       /\ StartRun(c, how, k.run, k.attempts + 1)
       /\ todo' = [todo EXCEPT ![s] = @ \ {k}]
       /\ doing' = [doing EXCEPT ![s] = k]
  /\ child' = [child EXCEPT ![s] = c]
  /\ at' = [at EXCEPT ![s] = "await"]
  /\ UNCHANGED <<stale, blockers, triage, faults, overtaken, erased>>

(* Seeded fault: the status the child started with is taken for its result.*)
PatchParentHopeful(s) ==
  /\ at[s] = "await"
  /\ call[child[s]] \in {"good", "bad"}
  /\ LET k == doing[s]
     IN  Write(k.run, [file[k.run] EXCEPT !.attempts = k.attempts + 1,
                                          !.recovered = TRUE])
  /\ doing' = [doing EXCEPT ![s] = NoCandidate]
  /\ child' = [child EXCEPT ![s] = NoRun]
  /\ at' = [at EXCEPT ![s] = "work"]
  /\ UNCHANGED <<mem, call, mode, stale, todo, blockers, triage, faults,
                 overtaken, erased>>

(* The attempt counts, and the run has recovered if every step was ok; the *)
(* child's own patch adds nothing the scan reads.                          *)
PatchParent(s) ==
  /\ at[s] = "await"
  /\ call[child[s]] \in {"good", "bad"}
  /\ LET k == doing[s]
         good == call[child[s]] = "good"
     IN  Write(k.run, [file[k.run] EXCEPT !.attempts = k.attempts + 1,
                                          !.recovered = @ \/ good])
  /\ doing' = [doing EXCEPT ![s] = NoCandidate]
  /\ child' = [child EXCEPT ![s] = NoRun]
  /\ at' = [at EXCEPT ![s] = "work"]
  /\ UNCHANGED <<mem, call, mode, stale, todo, blockers, triage, faults,
                 overtaken, erased>>

EndScan(s) ==
  /\ at[s] = "work"
  /\ todo[s] = {}
  /\ at' = [at EXCEPT ![s] = "idle"]
  /\ UNCHANGED <<engineVars, stale, todo, doing, child, blockers, triage,
                 faults, overtaken, erased>>

Abandon(s) ==
  /\ at' = [at EXCEPT ![s] = "idle"]
  /\ stale' = [stale EXCEPT ![s] = {}]
  /\ todo' = [todo EXCEPT ![s] = {}]
  /\ doing' = [doing EXCEPT ![s] = NoCandidate]
  /\ child' = [child EXCEPT ![s] = NoRun]

(* The attempt throws, and the scan with it ... *)
ChildThrows(s) ==
  /\ faults < MaxFaults
  /\ faults' = faults + 1
  /\ at[s] = "await"
  /\ Throw(child[s])
  /\ Abandon(s)
  /\ UNCHANGED <<blockers, triage, overtaken, erased>>

(* ... or the process of the scan dies, at any point. *)
ScanDies(s) ==
  /\ faults < MaxFaults
  /\ faults' = faults + 1
  /\ at[s] # "idle"
  /\ IF at[s] = "await" /\ Live(child[s]) THEN Goto(child[s], "dead") ELSE UNCHANGED call
  /\ Abandon(s)
  /\ UNCHANGED <<file, age, mem, mode, blockers, triage, overtaken, erased>>

-----------------------------------------------------------------------------
ScanStep(s) ==
  \/ BeginScan(s) \/ Reconcile(s) \/ ListCandidates(s)
  \/ RequestApproval(s) \/ PatchEscalated(s)
  \/ SkipCandidate(s) \/ (\E c \in Run : StartChild(s, c)) \/ PatchParent(s)
  \/ EndScan(s)

Next ==
  \/ \E r \in Run : StartOriginal(r) \/ RunStep(r) \/ FailOriginal(r)
  \/ \E s \in Scan : ScanStep(s) \/ ChildThrows(s) \/ ScanDies(s)
  \/ Tick /\ UNCHANGED <<scanVars, blockers, triage, faults, overtaken, erased>>

Spec == Init /\ [][Next]_vars

(* Pipelines end (their commands have timeouts), the daemon keeps scanning *)
(* and time passes; nothing has to be started, and nothing has to fail.    *)
FairSpec ==
  /\ Spec
  /\ \A r \in Run : WF_vars(RunStep(r))
  /\ \A s \in Scan : WF_vars(ScanStep(s))
  /\ WF_vars(Tick /\ UNCHANGED <<scanVars, blockers, triage, faults, overtaken,
                                 erased>>)

-----------------------------------------------------------------------------
(* Properties.                                                             *)

TypeOK ==
  /\ file \in [Run -> Record]
  /\ age \in [Run -> 0 .. StaleAfter]
  /\ mem \in [Run -> Record]
  /\ call \in [Run -> Call]
  /\ mode \in [Run -> {"dispatcher", "project", "coordinator"}]
  /\ at \in [Scan -> At]
  /\ stale \in [Scan -> SUBSET (Run \X Record)]
  /\ todo \in [Scan -> SUBSET Candidate]
  /\ doing \in [Scan -> Candidate \cup {NoCandidate}]
  /\ child \in [Scan -> Run \cup {NoRun}]
  /\ blockers \in [Run -> Nat]
  /\ triage \in BOOLEAN
  /\ faults \in Nat
  /\ overtaken \subseteq Run
  /\ erased \subseteq Run

OneScanner == \A s, t \in Scan : s = t

(* "Retry runs are deduplicated by trigger source" and "Retry child runs   *)
(* are not recursively retried": while one caller scans, no attempt is     *)
(* started twice or beyond the limit and no child has children, whatever   *)
(* crashes, throws, or writes stale records over the attempts count.       *)
AttemptsDistinct ==
  OneScanner =>
    /\ \A c, d \in Created :
         /\ IsChild(c) /\ IsChild(d)
         /\ file[c].parent = file[d].parent
         /\ file[c].attempt = file[d].attempt
         => c = d
    /\ \A c \in Created :
         IsChild(c) => file[c].attempt <= MaxAttempts /\ ~IsChild(file[c].parent)

(* The scan implements BoundedRetry as long as it is alone and no run was  *)
(* reconciled under its running call - except for the step in which the    *)
(* link of a run's own decision takes back what the scan had said of it.   *)
triesOf == [r \in Run |-> Cardinality(Children(r))]
outcomeOf ==
  [r \in Run |-> IF file[r].recovered THEN "recovered"
                 ELSE IF file[r].escalated THEN "escalated" ELSE "open"]

Contract == INSTANCE BoundedRetry WITH tries <- triesOf, outcome <- outcomeOf

ImplementsBoundedRetry ==
  /\ Contract!Init
  /\ [][OneScanner /\ overtaken' = {} /\ erased' = erased
           => [Contract!Next]_<<triesOf, outcomeOf>>]_vars

(* A run is marked recovered only when a child of it did all its work, and *)
(* escalated only when the owner was asked, which happens once unless the  *)
(* scan died in between, and once more if the link of the run's own        *)
(* decision took the escalation back.                                      *)
SettledForAReason ==
  \A r \in Run :
    /\ file[r].recovered => \E c \in Children(r) : call[c] = "good"
    /\ file[r].escalated => blockers[r] > 0
    /\ OneScanner /\ overtaken = {} =>
         blockers[r] <= 1 + faults + (IF r \in erased THEN 1 ELSE 0)

(* A run is retried only when its own call is over, or has only a decision *)
(* to record, so two pipelines never work on the same failure - except     *)
(* after an hour without a sign of life.                                   *)
RetriedWhenOver ==
  \A r \in Run : AtWork(r) /\ Children(r) # {} => r \in overtaken

(* "No autonomous run should silently fail": a failed run, and one whose   *)
(* call is gone, recovers or reaches the owner.                            *)
Failing(r) ==
  /\ r \in Originals
  /\ \/ file[r].status \in {"blocked", "failed"}
     \/ call[r] = "dead" /\ file[r].status \in NonTerminal

Settled(r) == file[r].recovered \/ file[r].escalated

(* An attempt was started and then lost: the scan skips the run as a       *)
(* duplicate from now on.                                                  *)
Lost(r) ==
  /\ KnownSource(r, file[r].attempts + 1)
  /\ \A s \in Scan : doing[s].run # r

SettledInTheEnd(r) ==
  Failing(r) /\ triage ~> Settled(r) \/ Lost(r) \/ file[r].status = "completed"
=============================================================================
