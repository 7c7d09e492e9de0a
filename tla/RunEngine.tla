----------------------------- MODULE RunEngine -----------------------------
(***************************************************************************)
(* Runs and the calls that execute them.  runs/<id>.md holds a run's front *)
(* matter.  start() keeps a record in memory and persists it, unlocked, at *)
(* every transition; patch() and attachArtifacts() re-read the document    *)
(* under its file lock and change some fields; reconcileStaleRuns() writes *)
(* back what an earlier list() saw, and recordDecision(), at the end of    *)
(* start(), what it read before it wrote the logs - unlocked, both.        *)
(*                                                                         *)
(* A run is executed in one of three ways: by an engine with a dispatcher  *)
(* ("dispatcher", the command line), by ProjectDispatchService on an       *)
(* engine that stubs the dispatch ("project"), or by the retry scan, which *)
(* runs the coordinator after such an engine ("coordinator").  The last    *)
(* two show the run as completed before its pipeline has run.              *)
(***************************************************************************)
EXTENDS Integers

CONSTANTS
  MaxRuns,       \* bound on the runs that are created
  MaxOriginals,  \* bound on those that no retry scan created
  StaleAfter     \* clock ticks after which a run that is not settled is stale

ASSUME EngineAssumption ==
  /\ MaxRuns \in Nat
  /\ MaxOriginals \in Nat
  /\ StaleAfter \in Nat \ {0}

Run == 1 .. MaxRuns
NoRun == 0

VARIABLES
  file,   \* the run documents, Unwritten where there is none
  age,    \* ticks since the document's `updated` stamp, up to StaleAfter
  mem,    \* the record the engine call of a run holds and will write
  call,   \* where the call that executes a run is
  mode    \* how the run is executed

engineVars == <<file, age, mem, call, mode>>

NonTerminal == {"created", "in_progress"}

Status == NonTerminal \cup {"unwritten", "completed", "blocked", "failed", "needs_human"}

(* What the retry scan reads of a run: its trigger source, which names the *)
(* parent and the attempt of a retry child; the attempts and outcomes the  *)
(* scan recorded; whether the failure is one classifyRetry() lets retry.   *)
Record ==
  [status: Status, parent: Run \cup {NoRun}, attempt: Nat, attempts: Nat,
   recovered: BOOLEAN, escalated: BOOLEAN, retryable: BOOLEAN]

NewRecord(parent, attempt) ==
  [status |-> "created", parent |-> parent, attempt |-> attempt, attempts |-> 0,
   recovered |-> FALSE, escalated |-> FALSE, retryable |-> TRUE]

Unwritten == [NewRecord(NoRun, 0) EXCEPT !.status = "unwritten"]

Exists(r) == file[r].status # "unwritten"
Created == {r \in Run : Exists(r)}
Children(r) == {c \in Created : file[c].parent = r}

(* A call ends with its verdict on the work (good, bad), by throwing, or   *)
(* with its process.                                                       *)
Over == {"good", "bad", "thrown", "dead"}

(* The decision on the end of a run, with what start() is to return: its   *)
(* document is to be read, or was read and is to be linked.                *)
RecordAt(verdict) == IF verdict = "good" THEN "recordGood" ELSE "recordBad"
LinkAt(verdict) == IF verdict = "good" THEN "linkGood" ELSE "linkBad"
Linking == {"linkGood", "linkBad"}
Recording == {"recordGood", "recordBad"} \cup Linking

Call == {"none", "advance", "park", "dispatch", "settle", "complete",
         "mark", "pipeline"} \cup Recording \cup Over

Live(r) == call[r] \notin Over \cup {"none"}

(* The dispatcher has done the work and the run has its end; only the      *)
(* decision on it is still being recorded.                                 *)
AtWork(r) == Live(r) /\ ~(mode[r] = "dispatcher" /\ call[r] \in Recording)

EngineInit ==
  /\ file = [r \in Run |-> Unwritten]
  /\ age = [r \in Run |-> 0]
  /\ mem = [r \in Run |-> Unwritten]
  /\ call = [r \in Run |-> "none"]
  /\ mode = [r \in Run |-> "dispatcher"]

-----------------------------------------------------------------------------
(* The three ways to write a document.                                     *)

Write(r, rec) ==
  /\ file' = [file EXCEPT ![r] = rec]
  /\ age' = [age EXCEPT ![r] = 0]

(* persist(): the call's own record, whatever the document says by now. *)
Persist(r, rec) ==
  /\ mem' = [mem EXCEPT ![r] = rec]
  /\ Write(r, rec)

(* The last one: what the call held is gone. *)
PersistLast(r, rec) ==
  /\ mem' = [mem EXCEPT ![r] = Unwritten]
  /\ Write(r, rec)

Goto(r, at) == call' = [call EXCEPT ![r] = at]

(* What patch(r, status) makes of the document. *)
PatchedStatus(r, status) == [file[r] EXCEPT !.status = status]

-----------------------------------------------------------------------------
(* start(): policy first, then one persisted transition after the other.   *)

(* Ids are unique; they are numbered in the order of creation. *)
IsNewId(r) == ~Exists(r) /\ \A q \in Run : q < r => Exists(q)

StartRun(r, how, parent, attempt) ==
  /\ IsNewId(r)
  /\ mode' = [mode EXCEPT ![r] = how]
  /\ Persist(r, NewRecord(parent, attempt))
  /\ \E allowed \in BOOLEAN : Goto(r, IF allowed THEN "advance" ELSE "park")

(* Where start() leaves a run: with the caller of a stubbed engine. *)
AfterStart(r, verdict) ==
  CASE mode[r] = "dispatcher" -> verdict
    [] mode[r] = "project" -> "mark"
    [] mode[r] = "coordinator" -> IF verdict = "good" THEN "pipeline" ELSE verdict

(* The end is persisted: its decision is recorded, if the configuration    *)
(* says so, and start() returns.                                           *)
End(r, verdict) == Goto(r, AfterStart(r, verdict)) \/ Goto(r, RecordAt(verdict))

(* The policy does not allow the run: it waits for the owner. *)
Park(r) ==
  /\ call[r] = "park"
  /\ PersistLast(r, [mem[r] EXCEPT !.status = "needs_human"])
  /\ End(r, "bad")
  /\ UNCHANGED mode

(* The transitions up to in_progress differ only in the name of a status   *)
(* that is not terminal, and are one step; so are verifying and completed. *)
Advance(r) ==
  /\ call[r] = "advance"
  /\ Persist(r, [mem[r] EXCEPT !.status = "in_progress"])
  /\ Goto(r, IF mode[r] = "dispatcher" THEN "dispatch" ELSE "complete")
  /\ UNCHANGED mode

(* The dispatcher returns, or throws and counts as failed; its status and  *)
(* blockers are persisted before the run's own status changes.             *)
Dispatch(r) ==
  /\ call[r] = "dispatch"
  /\ \E retryable \in BOOLEAN :
       \/ /\ Persist(r, mem[r])
          /\ Goto(r, "complete")
       \/ /\ Persist(r, [mem[r] EXCEPT !.retryable = retryable])
          /\ Goto(r, "settle")
  /\ UNCHANGED mode

Settle(r) ==
  /\ call[r] = "settle"
  /\ \E status \in {"blocked", "failed"} :
       PersistLast(r, [mem[r] EXCEPT !.status = status])
  /\ End(r, "bad")
  /\ UNCHANGED mode

(* completeRun(): the stub's report and the completion stamp repeat the    *)
(* record and are one step with it.                                        *)
Complete(r) ==
  /\ call[r] = "complete"
  /\ PersistLast(r, [mem[r] EXCEPT !.status = "completed"])
  /\ End(r, "good")
  /\ UNCHANGED mode

(* recordDecision() reads the document, writes the logs and puts what it   *)
(* read back with the decision's id, whatever was patched in between.      *)
ReadDecided(r) ==
  /\ \E verdict \in {"good", "bad"} :
       call[r] = RecordAt(verdict) /\ Goto(r, LinkAt(verdict))
  /\ mem' = [mem EXCEPT ![r] = file[r]]
  /\ UNCHANGED <<file, age, mode>>

(* A failure to record does not fail the run. *)
LinkDecision(r) ==
  /\ \E verdict \in {"good", "bad"} :
       call[r] = LinkAt(verdict) /\ Goto(r, AfterStart(r, verdict))
  /\ \/ PersistLast(r, mem[r])
     \/ mem' = [mem EXCEPT ![r] = Unwritten] /\ UNCHANGED <<file, age>>
  /\ UNCHANGED mode

-----------------------------------------------------------------------------
(* ProjectDispatchService.dispatch after start(), and the retry scan's own *)
(* dispatchRun(): the pipeline runs on a document others may change.       *)

(* The run is shown as running again, even one that was parked. *)
MarkRunning(r) ==
  /\ call[r] = "mark"
  /\ Write(r, PatchedStatus(r, "in_progress"))
  /\ Goto(r, "pipeline")
  /\ UNCHANGED <<mem, mode>>

(* Every step ok, or some step blocked: the outcome is patched in, except  *)
(* that a coordinator run already says completed.                          *)
FinishPipeline(r) ==
  /\ call[r] = "pipeline"
  /\ \E retryable \in BOOLEAN :
       \/ /\ Write(r, IF mode[r] = "project"
                      THEN PatchedStatus(r, "completed") ELSE file[r])
          /\ Goto(r, "good")
       \/ /\ Write(r, [PatchedStatus(r, "blocked") EXCEPT !.retryable = retryable])
          /\ Goto(r, "bad")
  /\ UNCHANGED <<mem, mode>>

(* A worktree cannot be prepared or released, a write fails: the call      *)
(* throws and leaves the document as it is.                                *)
Throw(r) ==
  /\ call[r] \in {"mark", "pipeline"}
  /\ Goto(r, "thrown")
  /\ UNCHANGED <<file, age, mem, mode>>

EngineStep(r) ==
  \/ Park(r) \/ Advance(r) \/ Dispatch(r) \/ Settle(r)
  \/ Complete(r) \/ ReadDecided(r) \/ LinkDecision(r)
  \/ MarkRunning(r) \/ FinishPipeline(r)

(* Time passes while pipelines work or nothing does: the writes of one     *)
(* transition take no tick.  A document is stale when it is StaleAfter old.*)
Tick ==
  /\ \A r \in Run : Live(r) => call[r] \in {"dispatch", "pipeline"}
  /\ age' = [r \in Run |-> IF Exists(r) /\ age[r] < StaleAfter THEN age[r] + 1 ELSE age[r]]
  /\ UNCHANGED <<file, mem, call, mode>>

(* Seeded fault: only a run that never got started is stale. *)
IsStaleCreated(r) == file[r].status = "created" /\ age[r] >= StaleAfter

IsStale(r) == file[r].status \in NonTerminal /\ age[r] >= StaleAfter
=============================================================================
