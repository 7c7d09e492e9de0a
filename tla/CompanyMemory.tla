--------------------------- MODULE CompanyMemory ---------------------------
(***************************************************************************)
(* What one run leaves in the company's memory.  The engine call that      *)
(* executes the run persists it and, once it is over, writes its outcome   *)
(* to RUNS.md and its decision to the ledger, to the logs of its client    *)
(* and project, back into the run, and to the daily note, each file under  *)
(* its own lock or none.  The owner's recorders (the API, the command      *)
(* line, an intake) do the last four for decisions that name the run, at   *)
(* any time, and the retry scan settles a run that is in progress for too  *)
(* long.                                                                   *)
(*                                                                         *)
(* A writer - the engine or a recorder - makes one decision, and the       *)
(* decision is known by its writer.  How the run is executed is RunEngine. *)
(***************************************************************************)
EXTENDS Naturals

CONSTANTS
  Recorder,
  Scanner,     \* the processes that reconcile stale runs
  Engine,      \* the engine call and the dispatch that follows it
  MaxPatches,  \* bound on the patches that follow the engine call
  RecordsRuns, \* the values of write_decision_records
  Memories     \* the logs that take a decision: the ledger, the scoped ones, both, none

Writer == Recorder \cup {Engine}
Holder == Writer \cup Scanner

ASSUME MemoryAssumption ==
  /\ Engine \notin Recorder /\ Scanner \cap Writer = {}
  /\ MaxPatches \in Nat /\ RecordsRuns \subseteq BOOLEAN
  /\ Memories \subseteq SUBSET {"ledger", "scoped"}

VARIABLES
  doc,      \* the run's document: status and linked decisions
  aged,     \* it was last written more than an hour ago
  ledger,   \* the decisions of DECISIONS.md
  scoped,   \* those of the client's and the project's log
  daily,    \* those of the daily note
  outcomes, \* the statuses RUNS.md has for the run
  engine,   \* the engine's local state
  rec,      \* holder -> where its call is, the run as read, what it is to write
  last,     \* history: the status written last, and whether nobody held a copy then
  undercut  \* history: the writers that linked their decision while another held one

memoryVars == <<doc, aged, ledger, scoped, daily, outcomes, engine, rec, last, undercut>>
documentVars == <<doc, aged, last>>
logs == <<ledger, scoped, daily, outcomes>>

RunStatus == {"absent", "in_progress", "completed", "blocked", "needs_human"}
RunDoc == [status : RunStatus, links : SUBSET Writer]
NoRun == [status |-> "absent", links |-> {}]

(* Where a decision goes: the ledger, with the daily note, unless the call *)
(* keeps it to a memory scope; the logs of the client and the project, if  *)
(* there are any; the run it names, if there is one.                       *)
Destination == {"ledger", "scoped", "run"}

MemoryTypeOK ==
  /\ doc \in RunDoc /\ aged \in BOOLEAN
  /\ \A log \in {ledger, scoped, daily} : log \subseteq Writer
  /\ outcomes \subseteq RunStatus
  /\ engine \in [pc : {"idle", "working", "outcome", "record", "recording", "patch",
                       "patching", "dead"},
                 copy : RunDoc, patches : 0 .. MaxPatches]
  /\ rec \in [Holder -> [pc : {"idle", "ledger", "scoped", "link", "daily", "done", "failed",
                              "listed", "outcome"},
                         copy : RunDoc, to : SUBSET Destination]]
  /\ last \in [status : RunStatus, alone : BOOLEAN]
  /\ undercut \subseteq Writer

MemoryInit ==
  /\ doc = NoRun /\ aged = FALSE
  /\ ledger = {} /\ scoped = {} /\ daily = {} /\ outcomes = {}
  /\ engine = [pc |-> "idle", copy |-> NoRun, patches |-> 0]
  /\ rec = [h \in Holder |-> [pc |-> "idle", copy |-> NoRun, to |-> {}]]
  /\ last = [status |-> "absent", alone |-> TRUE]
  /\ undercut = {}

-----------------------------------------------------------------------------
(* Who holds a copy of the run that it will write back: a recorder between *)
(* its read and its link, a scan between its list and its write, the       *)
(* engine until it has persisted the end of the run, while it records, and *)
(* within a patch.                                                         *)
Carries(h) ==
  \/ rec[h].pc \in {"ledger", "scoped", "link"} /\ "run" \in rec[h].to
  \/ rec[h].pc = "listed"

Holds(h) == Carries(h) \/ (h = Engine /\ engine.pc \in {"working", "patching"})
Alone(h) == \A o \in Holder \ {h} : ~Holds(o)

WriteRun(run) == doc' = run /\ aged' = FALSE

(* With a status of the writer's own, not the one it had read.             *)
WriteStatus(h, run, status) ==
  /\ WriteRun([run EXCEPT !.status = status])
  /\ last' = [status |-> status, alone |-> Alone(h)]

-----------------------------------------------------------------------------
(* recordDecision(): the run is read first, the block goes to the ledger,  *)
(* then to the scoped logs, and the run as it was read is written back,    *)
(* with the decision, without a lock; the daily note comes last.  A run    *)
(* that is not there is skipped.                                           *)
ReadRun(w, goes) ==
  rec' = [rec EXCEPT ![w] =
    [pc |-> "ledger", copy |-> doc,
     to |-> goes \cup (IF doc = NoRun THEN {} ELSE {"run"})]]

RecGoto(w, pc) == rec' = [rec EXCEPT ![w].pc = pc]
Leave(w, pc) == rec' = [rec EXCEPT ![w].pc = pc, ![w].copy = NoRun]

(* A call that keeps the decision to a memory scope leaves the ledger out; *)
(* that the scope is denied is one of its failures.                        *)
StartRecording(r) ==
  /\ r \in Recorder /\ rec[r].pc = "idle"
  /\ \E goes \in Memories : ReadRun(r, goes)
  /\ UNCHANGED <<documentVars, logs, engine, undercut>>

Where(w, destination, log) == IF destination \in rec[w].to THEN log \cup {w} ELSE log

AppendLedger(w) ==
  /\ rec[w].pc = "ledger"
  /\ ledger' = Where(w, "ledger", ledger)
  /\ RecGoto(w, "scoped")
  /\ UNCHANGED <<documentVars, scoped, daily, outcomes, engine, undercut>>

AppendScoped(w) ==
  /\ rec[w].pc = "scoped"
  /\ scoped' = Where(w, "scoped", scoped)
  /\ RecGoto(w, "link")
  /\ UNCHANGED <<documentVars, ledger, daily, outcomes, engine, undercut>>

LinkRun(w) ==
  /\ rec[w].pc = "link" /\ "run" \in rec[w].to
  /\ WriteRun([rec[w].copy EXCEPT !.links = @ \cup {w}])
  /\ Leave(w, "daily")
  /\ undercut' = IF Alone(w) THEN undercut ELSE undercut \cup {w}
  /\ UNCHANGED <<logs, engine, last>>

LinkNothing(w) ==
  /\ rec[w].pc = "link" /\ "run" \notin rec[w].to
  /\ Leave(w, "daily")
  /\ UNCHANGED <<documentVars, logs, engine, undercut>>

AppendDaily(w) ==
  /\ rec[w].pc = "daily"
  /\ daily' = Where(w, "ledger", daily)
  /\ RecGoto(w, "done")
  /\ UNCHANGED <<documentVars, ledger, scoped, outcomes, engine, undercut>>

(* A write fails, or the recorder's process ends.                          *)
RecordFails(w) ==
  /\ rec[w].pc \in {"ledger", "scoped", "link", "daily"}
  /\ w = Engine => engine.pc = "recording"
  /\ Leave(w, "failed")
  /\ UNCHANGED <<documentVars, logs, engine, undercut>>

-----------------------------------------------------------------------------
(* The engine's persist() writes the record it holds, links and all.       *)
Persist(status, pc) ==
  /\ WriteStatus(Engine, engine.copy, status)
  /\ engine' = [engine EXCEPT !.pc = pc,
                             !.copy = IF pc = "patch" THEN NoRun ELSE doc']

StartRun ==
  /\ engine.pc = "idle"
  /\ Persist("in_progress", "working")
  /\ UNCHANGED <<logs, rec, undercut>>

FinishRun ==
  /\ engine.pc = "working"
  /\ \E status \in {"completed", "blocked", "needs_human"} : Persist(status, "outcome")
  /\ UNCHANGED <<logs, rec, undercut>>

(* writeRunOutcomeMemory(), with the status that was persisted.            *)
WriteOutcome ==
  /\ engine.pc = "outcome"
  /\ outcomes' = outcomes \cup {engine.copy.status}
  /\ \E records \in RecordsRuns :
       engine' = [engine EXCEPT !.pc = IF records THEN "record" ELSE "patch", !.copy = NoRun]
  /\ UNCHANGED <<documentVars, ledger, scoped, daily, rec, undercut>>

(* The engine's own decision is kept to no scope.                          *)
RecordRun ==
  /\ engine.pc = "record"
  /\ \E goes \in Memories : "ledger" \in goes /\ ReadRun(Engine, goes)
  /\ engine' = [engine EXCEPT !.pc = "recording"]
  /\ UNCHANGED <<documentVars, logs, undercut>>

(* Seeded fault: start() does not wait for the decision.                   *)
RecordLeft == engine.pc = "recording"

(* A failure to record does not fail the run.                              *)
RecordOver == engine.pc = "recording" /\ rec[Engine].pc \in {"done", "failed"}

EndRecord ==
  /\ RecordOver
  /\ engine' = [engine EXCEPT !.pc = "patch"]
  /\ UNCHANGED <<documentVars, logs, rec, undercut>>

(* patch(), by the dispatch that follows: read and written under the       *)
(* document's lock, which recordDecision() does not take.                  *)
BeginPatch ==
  /\ engine.pc = "patch" /\ engine.patches < MaxPatches
  /\ engine' = [engine EXCEPT !.pc = "patching", !.copy = doc, !.patches = @ + 1]
  /\ UNCHANGED <<documentVars, logs, rec, undercut>>

EndPatch ==
  /\ engine.pc = "patching"
  /\ \E status \in {"in_progress", "completed", "blocked"} : Persist(status, "patch")
  /\ UNCHANGED <<logs, rec, undercut>>

(* The engine's process ends.                                              *)
CrashRun ==
  /\ engine.pc \notin {"idle", "dead"}
  /\ engine' = [engine EXCEPT !.pc = "dead", !.copy = NoRun]
  /\ IF engine.pc = "recording" /\ rec[Engine].pc # "done"
     THEN Leave(Engine, "failed") ELSE UNCHANGED rec
  /\ UNCHANGED <<documentVars, logs, undercut>>

-----------------------------------------------------------------------------
(* An hour passes over a run in progress, whether its engine lives or not. *)
Age ==
  /\ doc.status = "in_progress" /\ ~aged
  /\ aged' = TRUE
  /\ UNCHANGED <<doc, last, logs, engine, rec, undercut>>

(* reconcileStaleRuns(): what was listed is persisted as it was listed but *)
(* for its status, after the runs that come before it in the list; then    *)
(* its outcome is written.                                                 *)
ListStale(s) ==
  /\ s \in Scanner /\ rec[s].pc = "idle"
  /\ doc.status = "in_progress" /\ aged
  /\ rec' = [rec EXCEPT ![s] = [pc |-> "listed", copy |-> doc, to |-> {}]]
  /\ UNCHANGED <<documentVars, logs, engine, undercut>>

PersistStale(s) ==
  /\ rec[s].pc = "listed"
  /\ WriteStatus(s, rec[s].copy, "blocked")
  /\ Leave(s, "outcome")
  /\ UNCHANGED <<logs, engine, undercut>>

OutcomeOfStale(s) ==
  /\ rec[s].pc = "outcome"
  /\ outcomes' = outcomes \cup {"blocked"}
  /\ Leave(s, "idle")
  /\ UNCHANGED <<documentVars, ledger, scoped, daily, engine, undercut>>

-----------------------------------------------------------------------------
MemoryNext ==
  \/ StartRun \/ FinishRun \/ WriteOutcome \/ RecordRun \/ EndRecord
  \/ BeginPatch \/ EndPatch \/ CrashRun \/ Age
  \/ \E w \in Writer :
       \/ StartRecording(w) \/ AppendLedger(w) \/ AppendScoped(w) \/ LinkRun(w)
       \/ LinkNothing(w) \/ AppendDaily(w) \/ RecordFails(w)
  \/ \E s \in Scanner : ListStale(s) \/ PersistStale(s) \/ OutcomeOfStale(s)

-----------------------------------------------------------------------------
(* A decision a run names is in every log it was to go to - all of them,   *)
(* or none when it was kept to a scope that has no log - and a decision on *)
(* how a run ended is not there before RUNS.md has the end, whatever       *)
(* crashes or overlaps.                                                    *)
NoDanglingLink ==
  \A w \in doc.links :
    /\ "ledger" \in rec[w].to => w \in ledger
    /\ "scoped" \in rec[w].to => w \in scoped

OutcomeFirst == Engine \in ledger => outcomes # {}

(* A recorded decision is wherever it was to go, and the run has the       *)
(* status that was written last: a link, or a status, is only lost to one  *)
(* who held a copy of the run when it was written.                         *)
Recorded(w) ==
  /\ "ledger" \in rec[w].to => w \in ledger /\ w \in daily
  /\ "scoped" \in rec[w].to => w \in scoped
  /\ "run" \in rec[w].to => w \in doc.links \cup undercut

NothingUndone ==
  /\ \A w \in Writer : rec[w].pc = "done" => Recorded(w)
  /\ last.alone => doc.status = last.status

LedgerAndRunAgree == NoDanglingLink /\ OutcomeFirst /\ NothingUndone
=============================================================================
