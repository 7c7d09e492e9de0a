-------------------------- MODULE OwnerViewProofs --------------------------
(***************************************************************************)
(* What the owner gets to see, for any number of approvals, documents,     *)
(* searches, recorders and passes.                                         *)
(***************************************************************************)
EXTENDS OwnerView, SequenceTheorems, FiniteSetTheorems, WellFoundedInduction, TLAPS

-----------------------------------------------------------------------------
(* What a run leaves in the memory.                                        *)

(* The engine records its decision once, after the outcome; what remains   *)
(* of a recording is under way only while the engine waits for it.  Who    *)
(* scans does not record.                                                  *)
EngineInPlace ==
  /\ rec[Engine].pc # "idle" => engine.pc \in {"recording", "patch", "patching", "dead"}
  /\ rec[Engine].pc \in {"ledger", "scoped", "link", "daily"} => engine.pc = "recording"
  /\ engine.pc \in {"record", "recording", "patch", "patching"} => outcomes # {}
  /\ rec[Engine].pc # "idle" => outcomes # {}
  /\ \A w \in Writer : rec[w].pc \notin {"listed", "outcome"}
  /\ \A s \in Scanner : rec[s].pc \in {"idle", "listed", "outcome"}

(* What a decision that is linked has behind it.                           *)
Logged(w) ==
  /\ rec[w].pc \in {"daily", "done", "failed"}
  /\ "ledger" \in rec[w].to => w \in ledger
  /\ "scoped" \in rec[w].to => w \in scoped

(* A decision is in the logs before anything names it, and in the daily    *)
(* note at the end.                                                        *)
LogsBeforeLinks ==
  /\ \A w \in doc.links \cup engine.copy.links : Logged(w)
  /\ \A h \in Holder : \A w \in rec[h].copy.links : Logged(w)
  /\ \A w \in Writer :
       /\ rec[w].pc = "idle" => w \notin ledger
       /\ "ledger" \in rec[w].to =>
            /\ rec[w].pc \in {"scoped", "link", "daily", "done"} => w \in ledger
            /\ rec[w].pc = "done" => w \in daily
       /\ "scoped" \in rec[w].to /\ rec[w].pc \in {"link", "daily", "done"} => w \in scoped

(* Until the engine starts the run there is nothing to link to.            *)
BeforeTheRun ==
  engine.pc = "idle" =>
    /\ doc = NoRun /\ engine.copy = NoRun
    /\ \A h \in Holder : rec[h].copy = NoRun /\ "run" \notin rec[h].to /\ rec[h].pc # "listed"

RecordsPlaced == MemoryTypeOK /\ EngineInPlace /\ LogsBeforeLinks /\ BeforeTheRun

(* A status that was written while nobody held a copy is in the run, and   *)
(* in every copy that will be written back with the status it has.         *)
StatusKept ==
  last.alone =>
    /\ doc.status = last.status
    /\ \A h \in Holder : Carries(h) => rec[h].copy.status = last.status

(* A link that was made while nobody held a copy is in the run, and in     *)
(* every copy.                                                             *)
LinksKept ==
  \A w \in Writer \ undercut :
    rec[w].pc \in {"daily", "done"} /\ "run" \in rec[w].to =>
      /\ w \in doc.links
      /\ \A h \in Holder : Carries(h) => w \in rec[h].copy.links
      /\ engine.pc \in {"working", "patching"} => w \in engine.copy.links

RecordsInv == RecordsPlaced /\ StatusKept /\ LinksKept

-----------------------------------------------------------------------------
Recording(w) ==
  \/ StartRecording(w) \/ AppendLedger(w) \/ AppendScoped(w) \/ LinkRun(w)
  \/ LinkNothing(w) \/ AppendDaily(w) \/ RecordFails(w)

Scanning(s) == ListStale(s) \/ PersistStale(s) \/ OutcomeOfStale(s)

EngineMoves ==
  \/ StartRun \/ FinishRun \/ WriteOutcome \/ RecordRun \/ EndRecord
  \/ BeginPatch \/ EndPatch \/ CrashRun

LEMMA MemorySteps ==
  MemoryNext <=> \/ EngineMoves \/ Age
                 \/ \E w \in Writer : Recording(w)
                 \/ \E s \in Scanner : Scanning(s)
BY DEF MemoryNext, EngineMoves, Recording, Scanning

LEMMA RecordsBegin == MemoryInit => RecordsInv
<1> USE MemoryAssumption
    DEF MemoryAssumption, MemoryInit, Writer, Holder, NoRun, RunDoc, RunStatus
<1>1. MemoryInit => MemoryTypeOK
  <2> SUFFICES ASSUME MemoryInit PROVE MemoryTypeOK
    OBVIOUS
  <2>1. doc \in RunDoc /\ aged \in BOOLEAN
    OBVIOUS
  <2>2. /\ \A log \in {ledger, scoped, daily} : log \subseteq Writer
        /\ outcomes \subseteq RunStatus /\ undercut \subseteq Writer
    OBVIOUS
  <2>3. last \in [status : RunStatus, alone : BOOLEAN]
    OBVIOUS
  <2> QED BY <2>1, <2>2, <2>3 DEF MemoryTypeOK
<1>2. MemoryInit => EngineInPlace /\ LogsBeforeLinks /\ BeforeTheRun
  BY DEF EngineInPlace, LogsBeforeLinks, BeforeTheRun
<1>3. MemoryInit => StatusKept /\ LinksKept
  BY DEF StatusKept, LinksKept, Carries
<1> QED BY <1>1, <1>2, <1>3 DEF RecordsInv, RecordsPlaced

(* What the steps write. *)
LEMMA ReadDoes ==
  ASSUME MemoryTypeOK, NEW w \in Writer, NEW goes \in Memories, ReadRun(w, goes)
  PROVE  /\ rec' \in [Holder -> [pc : {"idle", "ledger", "scoped", "link", "daily", "done",
                                      "failed", "listed", "outcome"},
                                copy : RunDoc, to : SUBSET Destination]]
         /\ rec'[w].pc = "ledger" /\ rec'[w].copy = doc
         /\ "run" \in rec'[w].to <=> doc # NoRun
         /\ \A h \in Holder \ {w} : rec'[h] = rec[h]
<1>1. goes \subseteq {"ledger", "scoped"}
  BY MemoryAssumption DEF MemoryAssumption
<1>2. w \in Holder
  BY DEF Holder
<1> QED BY <1>1, <1>2 DEF MemoryTypeOK, ReadRun, Destination

LEMMA GotoDoes ==
  ASSUME MemoryTypeOK, NEW h \in Holder,
         NEW pc \in {"idle", "ledger", "scoped", "link", "daily", "done", "failed", "listed",
                     "outcome"},
         RecGoto(h, pc) \/ Leave(h, pc)
  PROVE  /\ rec' \in [Holder -> [pc : {"idle", "ledger", "scoped", "link", "daily", "done",
                                      "failed", "listed", "outcome"},
                                copy : RunDoc, to : SUBSET Destination]]
         /\ rec'[h].pc = pc /\ rec'[h].to = rec[h].to
         /\ rec'[h].copy \in {rec[h].copy, NoRun}
         /\ RecGoto(h, pc) => rec'[h].copy = rec[h].copy
         /\ \A o \in Holder \ {h} : rec'[o] = rec[o]
<1>1. NoRun \in RunDoc
  BY DEF NoRun, RunDoc, RunStatus
<1> QED BY <1>1 DEF MemoryTypeOK, RecGoto, Leave

LEMMA StatusWritten ==
  ASSUME NEW h, NEW run, NEW status \in RunStatus, WriteStatus(h, run, status)
  PROVE  /\ last' \in [status : RunStatus, alone : BOOLEAN]
         /\ last'.status = status
         /\ last'.alone <=> Alone(h)
<1> DEFINE all == Alone(h)
<1>1. all \in BOOLEAN
  BY DEF Alone
<1>2. last' = [status |-> status, alone |-> all]
  BY DEF WriteStatus
<1> HIDE DEF all
<1>3. last' \in [status : RunStatus, alone : BOOLEAN]
  BY <1>1, <1>2
<1>4. last'.status = status
  BY <1>2
<1>5. last'.alone = all
  BY <1>2, Zenon
<1>6. last'.alone <=> all
  BY <1>5, Zenon
<1> QED BY <1>3, <1>4, <1>6 DEF all

LEMMA PersistDoes ==
  ASSUME MemoryTypeOK, NEW status \in RunStatus,
         NEW pc \in {"working", "outcome", "patch"}, Persist(status, pc)
  PROVE  /\ doc'.status = status /\ doc'.links = engine.copy.links
         /\ doc' \in RunDoc /\ aged' \in BOOLEAN
         /\ engine' \in [pc : {"idle", "working", "outcome", "record", "recording", "patch",
                               "patching", "dead"},
                         copy : RunDoc, patches : 0 .. MaxPatches]
         /\ engine'.pc = pc /\ engine'.copy \in {doc', NoRun}
         /\ pc = "working" => engine'.copy = doc'
         /\ WriteStatus(Engine, engine.copy, status)
<1>1. doc' = [status |-> status, links |-> engine.copy.links] /\ doc' \in RunDoc
  BY DEF MemoryTypeOK, Persist, WriteStatus, WriteRun, RunDoc
<1>2. NoRun \in RunDoc
  BY DEF NoRun, RunDoc, RunStatus
<1> QED BY <1>1, <1>2 DEF MemoryTypeOK, Persist, WriteStatus, WriteRun

(* The three ways the engine writes the run. *)
LEMMA EnginePersists ==
  ASSUME MemoryTypeOK, StartRun \/ FinishRun \/ EndPatch
  PROVE  \E status \in RunStatus, pc \in {"working", "outcome", "patch"} :
           /\ Persist(status, pc)
           /\ pc = "working" <=> engine.pc = "idle"
           /\ engine.pc \in {"idle", "working", "patching"}
           /\ engine.pc = "patching" <=> pc = "patch"
           /\ UNCHANGED <<logs, rec, undercut>>
<1> USE DEF RunStatus
<1>1. CASE StartRun
  BY <1>1 DEF StartRun
<1>2. CASE FinishRun
  BY <1>2 DEF FinishRun
<1>3. CASE EndPatch
  BY <1>3 DEF EndPatch
<1> QED BY <1>1, <1>2, <1>3

LEMMA ScannerWrites ==
  ASSUME MemoryTypeOK, NEW s \in Scanner, PersistStale(s)
  PROVE  /\ doc'.status = "blocked" /\ doc'.links = rec[s].copy.links
         /\ doc' \in RunDoc /\ aged' \in BOOLEAN
         /\ WriteStatus(s, rec[s].copy, "blocked")
         /\ rec[s].pc = "listed" /\ Leave(s, "outcome")
         /\ UNCHANGED <<logs, engine, undercut>>
<1>1. rec[s].copy \in RunDoc
  BY DEF MemoryTypeOK, Holder
<1> QED BY <1>1 DEF PersistStale, WriteStatus, WriteRun, RunDoc, RunStatus

LEMMA LinkWrites ==
  ASSUME MemoryTypeOK, NEW w \in Writer, LinkRun(w)
  PROVE  /\ doc'.status = rec[w].copy.status /\ doc'.links = rec[w].copy.links \cup {w}
         /\ doc' \in RunDoc /\ aged' \in BOOLEAN
         /\ rec[w].pc = "link" /\ "run" \in rec[w].to /\ Leave(w, "daily")
         /\ undercut' = IF Alone(w) THEN undercut ELSE undercut \cup {w}
         /\ UNCHANGED <<logs, engine, last>>
<1>1. rec[w].copy \in RunDoc
  BY DEF MemoryTypeOK, Holder
<1> QED BY <1>1 DEF LinkRun, WriteRun, RunDoc

(* A recording of which nothing is written back yet. *)
LEMMA RecordingReads ==
  ASSUME NEW w, StartRecording(w)
  PROVE  \E goes \in Memories : ReadRun(w, goes)
BY DEF StartRecording

LEMMA EngineReads ==
  ASSUME RecordRun
  PROVE  \E goes \in Memories : ReadRun(Engine, goes)
BY DEF RecordRun

LEMMA RecordsTyped ==
  ASSUME MemoryTypeOK, [MemoryNext]_memoryVars
  PROVE  MemoryTypeOK'
<1> USE MemoryAssumption DEF MemoryAssumption
<1>1. CASE StartRun \/ FinishRun \/ EndPatch
  <2>1. PICK status \in RunStatus, pc \in {"working", "outcome", "patch"} :
          Persist(status, pc) /\ UNCHANGED <<logs, rec, undercut>>
    BY <1>1, EnginePersists
  <2>2. last' \in [status : RunStatus, alone : BOOLEAN]
    BY <2>1, PersistDoes, StatusWritten
  <2> QED BY <2>1, <2>2, PersistDoes DEF MemoryTypeOK, logs
<1>2. CASE WriteOutcome
  <2>1. NoRun \in RunDoc /\ engine.copy.status \in RunStatus
    BY DEF NoRun, RunDoc, RunStatus, MemoryTypeOK
  <2> QED BY <1>2, <2>1 DEF WriteOutcome, MemoryTypeOK, documentVars
<1>3. CASE RecordRun
  <2>1. Engine \in Writer
    BY DEF Writer
  <2>2. PICK goes \in Memories : ReadRun(Engine, goes)
    BY <1>3, EngineReads
  <2> QED BY <1>3, <2>1, <2>2, ReadDoes DEF RecordRun, MemoryTypeOK, documentVars, logs
<1>4. CASE EndRecord
  BY <1>4 DEF EndRecord, MemoryTypeOK, documentVars, logs
<1>5. CASE BeginPatch
  <2>1. engine.patches + 1 \in 0 .. MaxPatches
    BY <1>5 DEF BeginPatch, MemoryTypeOK
  <2> QED BY <1>5, <2>1 DEF BeginPatch, MemoryTypeOK, documentVars, logs
<1>6. CASE CrashRun
  <2>1. NoRun \in RunDoc /\ Engine \in Holder
    BY DEF NoRun, RunDoc, RunStatus, Holder, Writer
  <2>2. rec' = rec \/ Leave(Engine, "failed")
    BY <1>6 DEF CrashRun
  <2> QED BY <1>6, <2>1, <2>2, GotoDoes DEF CrashRun, MemoryTypeOK, documentVars, logs
<1>7. CASE Age
  BY <1>7 DEF Age, MemoryTypeOK, logs
<1>8. ASSUME NEW w \in Writer, Recording(w) PROVE MemoryTypeOK'
  <2>1. w \in Holder
    BY DEF Holder
  <2>2. CASE StartRecording(w)
    BY <2>2, RecordingReads, ReadDoes DEF StartRecording, MemoryTypeOK, documentVars, logs
  <2>3. CASE AppendLedger(w) \/ AppendScoped(w) \/ AppendDaily(w)
    BY <2>1, <2>3, GotoDoes
    DEF AppendLedger, AppendScoped, AppendDaily, Where, MemoryTypeOK, documentVars
  <2>4. CASE LinkRun(w)
    BY <2>1, <2>4, LinkWrites, GotoDoes DEF MemoryTypeOK, logs
  <2>5. CASE LinkNothing(w) \/ RecordFails(w)
    BY <2>1, <2>5, GotoDoes DEF LinkNothing, RecordFails, MemoryTypeOK, documentVars, logs
  <2> QED BY <1>8, <2>2, <2>3, <2>4, <2>5 DEF Recording
<1>9. ASSUME NEW s \in Scanner, Scanning(s) PROVE MemoryTypeOK'
  <2>1. s \in Holder
    BY DEF Holder
  <2>2. CASE ListStale(s)
    BY <2>1, <2>2 DEF ListStale, MemoryTypeOK, documentVars, logs
  <2>3. CASE PersistStale(s)
    <3>1. last' \in [status : RunStatus, alone : BOOLEAN]
      BY <2>3, ScannerWrites, StatusWritten DEF RunStatus
    <3> QED BY <2>1, <2>3, <3>1, ScannerWrites, GotoDoes DEF MemoryTypeOK, logs
  <2>4. CASE OutcomeOfStale(s)
    BY <2>1, <2>4, GotoDoes DEF OutcomeOfStale, MemoryTypeOK, RunStatus, documentVars
  <2> QED BY <1>9, <2>2, <2>3, <2>4 DEF Scanning
<1>10. CASE UNCHANGED memoryVars
  BY <1>10 DEF memoryVars, MemoryTypeOK
<1> QED
  BY <1>1, <1>2, <1>3, <1>4, <1>5, <1>6, <1>7, <1>8, <1>9, <1>10, MemorySteps DEF EngineMoves

LEMMA EngineStaysInPlace ==
  ASSUME RecordsPlaced, [MemoryNext]_memoryVars
  PROVE  EngineInPlace'
<1> USE DEF RecordsPlaced, EngineInPlace
<1>a. Engine \in Writer /\ Writer \subseteq Holder /\ Scanner \subseteq Holder
  BY DEF Writer, Holder
<1>b. Scanner \cap Writer = {}
  BY MemoryAssumption DEF MemoryAssumption
<1>1. CASE StartRun \/ FinishRun \/ EndPatch
  <2>1. PICK status \in RunStatus, pc \in {"working", "outcome", "patch"} :
          /\ Persist(status, pc)
          /\ pc = "working" <=> engine.pc = "idle"
          /\ engine.pc \in {"idle", "working", "patching"}
          /\ engine.pc = "patching" <=> pc = "patch"
          /\ UNCHANGED <<logs, rec, undercut>>
    BY <1>1, EnginePersists
  <2> QED BY <2>1, PersistDoes DEF logs
<1>2. CASE WriteOutcome \/ EndRecord \/ BeginPatch
  BY <1>2 DEF WriteOutcome, EndRecord, RecordOver, BeginPatch, MemoryTypeOK, logs
<1>3. CASE RecordRun
  <2>1. PICK goes \in Memories : ReadRun(Engine, goes)
    BY <1>3, EngineReads
  <2>2. engine'.pc = "recording" /\ outcomes' = outcomes /\ outcomes # {}
    BY <1>3 DEF RecordRun, MemoryTypeOK, logs
  <2> QED BY <1>a, <1>b, <2>1, <2>2, ReadDoes
<1>4. CASE CrashRun
  <2>1. engine'.pc = "dead" /\ outcomes' = outcomes
    BY <1>4 DEF CrashRun, MemoryTypeOK, logs
  <2>2. CASE engine.pc = "recording" /\ rec[Engine].pc # "done"
    <3>1. Leave(Engine, "failed") /\ outcomes # {}
      BY <1>4, <2>2 DEF CrashRun
    <3> QED BY <1>a, <1>b, <2>1, <3>1, GotoDoes
  <2>3. CASE ~(engine.pc = "recording" /\ rec[Engine].pc # "done")
    BY <1>4, <2>1, <2>3 DEF CrashRun
  <2> QED BY <2>2, <2>3
<1>5. CASE Age
  BY <1>5 DEF Age, logs
<1>6. ASSUME NEW w \in Writer, Recording(w) PROVE EngineInPlace'
  <2>1. CASE StartRecording(w)
    <3>1. PICK goes \in Memories : ReadRun(w, goes)
      BY <2>1, RecordingReads
    <3>2. w # Engine /\ UNCHANGED <<engine, outcomes>>
      BY <2>1, MemoryAssumption DEF MemoryAssumption, StartRecording, logs
    <3> QED BY <1>a, <1>b, <3>1, <3>2, ReadDoes
  <2>2. ASSUME NEW pc \in {"scoped", "link", "daily", "done", "failed"},
               RecGoto(w, pc) \/ Leave(w, pc), UNCHANGED <<engine, outcomes>>,
               rec[w].pc # "idle", w = Engine => engine.pc = "recording"
        PROVE  EngineInPlace'
    BY <1>a, <1>b, <2>2, GotoDoes
  <2>3. CASE AppendLedger(w) \/ AppendScoped(w) \/ AppendDaily(w)
    BY <2>2, <2>3 DEF AppendLedger, AppendScoped, AppendDaily
  <2>4. CASE LinkRun(w) \/ LinkNothing(w) \/ RecordFails(w)
    BY <2>2, <2>4 DEF LinkRun, LinkNothing, RecordFails, logs
  <2> QED BY <1>6, <2>1, <2>3, <2>4 DEF Recording
<1>7. ASSUME NEW s \in Scanner, Scanning(s) PROVE EngineInPlace'
  <2>1. /\ UNCHANGED engine /\ outcomes \subseteq outcomes'
        /\ rec'[s].pc \in {"idle", "listed", "outcome"}
        /\ \A h \in Holder \ {s} : rec'[h] = rec[h]
    <3>1. CASE ListStale(s)
      BY <1>a, <3>1 DEF ListStale, MemoryTypeOK, logs
    <3>2. CASE PersistStale(s) \/ OutcomeOfStale(s)
      BY <1>a, <3>2, GotoDoes DEF PersistStale, OutcomeOfStale, logs
    <3> QED BY <1>7, <3>1, <3>2 DEF Scanning
  <2> QED BY <1>a, <1>b, <2>1
<1>8. CASE UNCHANGED memoryVars
  BY <1>8 DEF memoryVars
<1> QED
  BY <1>1, <1>2, <1>3, <1>4, <1>5, <1>6, <1>7, <1>8, MemorySteps DEF EngineMoves

(* A step that takes nothing from a log and moves no decision back keeps   *)
(* what is behind a link.                                                  *)
LEMMA LoggedStays ==
  ASSUME NEW w \in Writer, Logged(w), ledger \subseteq ledger', scoped \subseteq scoped',
         rec'[w] = rec[w] \/ (rec'[w].pc \in {"daily", "done", "failed"} /\ rec'[w].to = rec[w].to)
  PROVE  Logged(w)'
BY DEF Logged

LEMMA LogsStayFirst ==
  ASSUME RecordsPlaced, [MemoryNext]_memoryVars
  PROVE  LogsBeforeLinks'
<1> USE DEF RecordsPlaced
<1>a. Engine \in Writer /\ Writer \subseteq Holder /\ Scanner \subseteq Holder
  BY DEF Writer, Holder
<1>b. Scanner \cap Writer = {}
  BY MemoryAssumption DEF MemoryAssumption
<1>c. /\ doc.links \subseteq Writer /\ engine.copy.links \subseteq Writer
      /\ \A h \in Holder : rec[h].copy.links \subseteq Writer
  BY DEF MemoryTypeOK, RunDoc
<1>d. NoRun.links = {}
  BY DEF NoRun
(* The run and the copies come from the run and the copies. *)
<1>e. ASSUME UNCHANGED <<ledger, scoped, daily>>,
             \A w \in Writer : rec'[w].pc = rec[w].pc /\ rec'[w].to = rec[w].to,
             doc'.links \subseteq doc.links \cup engine.copy.links
                           \cup UNION {rec[h].copy.links : h \in Holder},
             engine'.copy.links \subseteq doc.links \cup engine.copy.links
                           \cup UNION {rec[h].copy.links : h \in Holder},
             \A h \in Holder : rec'[h].copy.links \subseteq doc.links \cup rec[h].copy.links
      PROVE  LogsBeforeLinks'
  <2>1. ASSUME NEW w \in Writer, Logged(w) PROVE Logged(w)'
    BY <1>e, <2>1 DEF Logged
  <2>2. \A w \in doc.links \cup engine.copy.links
                  \cup UNION {rec[h].copy.links : h \in Holder} : Logged(w)'
    BY <1>c, <2>1 DEF LogsBeforeLinks
  <2> QED BY <1>e, <2>2 DEF LogsBeforeLinks
(* One writer goes on, and is not linked anywhere before it linked. *)
<1>f. ASSUME NEW w \in Writer, UNCHANGED engine,
             \A o \in Writer \ {w} : rec'[o] = rec[o],
             \A h \in Holder : rec'[h].copy.links \subseteq doc.links \cup rec[h].copy.links,
             Logged(w) => Logged(w)',
             ledger \subseteq ledger', scoped \subseteq scoped', daily \subseteq daily',
             ledger' \subseteq ledger \cup {w},
             \A v \in doc'.links : v \in doc.links \cup rec[w].copy.links \/ Logged(v)',
             rec'[w].pc # "idle",
             "ledger" \in rec'[w].to =>
               /\ rec'[w].pc \in {"scoped", "link", "daily", "done"} => w \in ledger'
               /\ rec'[w].pc = "done" => w \in daily',
             "scoped" \in rec'[w].to /\ rec'[w].pc \in {"link", "daily", "done"} => w \in scoped'
      PROVE  LogsBeforeLinks'
  <2>1. ASSUME NEW v \in Writer, Logged(v) PROVE Logged(v)'
    BY <1>f, <2>1 DEF Logged
  <2>2. /\ \A v \in doc'.links \cup engine'.copy.links : Logged(v)'
        /\ \A h \in Holder : \A v \in rec'[h].copy.links : Logged(v)'
    BY <1>a, <1>c, <1>f, <2>1 DEF LogsBeforeLinks
  <2> QED BY <1>f, <2>2 DEF LogsBeforeLinks
<1>1. CASE StartRun \/ FinishRun \/ EndPatch
  <2>1. PICK status \in RunStatus, pc \in {"working", "outcome", "patch"} :
          Persist(status, pc) /\ UNCHANGED <<logs, rec, undercut>>
    BY <1>1, EnginePersists
  <2>2. doc'.links = engine.copy.links /\ engine'.copy.links \subseteq engine.copy.links
    BY <1>d, <2>1, PersistDoes
  <2> QED BY <1>e, <2>1, <2>2 DEF logs
<1>2. CASE WriteOutcome \/ EndRecord \/ BeginPatch
  <2>1. UNCHANGED <<doc, rec, ledger, scoped, daily>>
    BY <1>2 DEF WriteOutcome, EndRecord, BeginPatch, documentVars, logs
  <2>2. engine'.copy \in {engine.copy, NoRun, doc}
    BY <1>2 DEF WriteOutcome, EndRecord, BeginPatch, MemoryTypeOK
  <2> QED BY <1>d, <1>e, <2>1, <2>2
<1>3. CASE RecordRun
  <2>1. PICK goes \in Memories : ReadRun(Engine, goes)
    BY <1>3, EngineReads
  <2>2. rec[Engine].pc = "idle" /\ Engine \notin ledger
    BY <1>3, <1>a DEF RecordRun, EngineInPlace, LogsBeforeLinks
  <2>3. ~Logged(Engine)
    BY <2>2 DEF Logged
  <2>4. UNCHANGED <<doc, ledger, scoped, daily>> /\ engine'.copy = engine.copy
    BY <1>3 DEF RecordRun, documentVars, logs, MemoryTypeOK
  <2>5. ASSUME NEW v \in Writer, Logged(v) PROVE Logged(v)'
    BY <1>a, <2>1, <2>3, <2>4, <2>5, ReadDoes DEF Logged
  <2>6. /\ \A v \in doc'.links \cup engine'.copy.links : Logged(v)'
        /\ \A h \in Holder : \A v \in rec'[h].copy.links : Logged(v)'
    BY <1>a, <1>c, <2>1, <2>4, <2>5, ReadDoes DEF LogsBeforeLinks
  <2> QED BY <1>a, <2>1, <2>4, <2>6, ReadDoes DEF LogsBeforeLinks
<1>4. CASE CrashRun
  <2>1. UNCHANGED <<doc, ledger, scoped, daily>> /\ engine'.copy = NoRun
    BY <1>4 DEF CrashRun, documentVars, logs, MemoryTypeOK
  <2>2. CASE UNCHANGED rec
    BY <1>d, <1>e, <2>1, <2>2
  <2>3. CASE Leave(Engine, "failed") /\ rec[Engine].pc # "idle"
    <3>1. ASSUME NEW v \in Writer, Logged(v) PROVE Logged(v)'
      BY <1>a, <2>1, <2>3, <3>1, GotoDoes DEF Logged
    <3>2. /\ \A v \in doc'.links \cup engine'.copy.links : Logged(v)'
          /\ \A h \in Holder : \A v \in rec'[h].copy.links : Logged(v)'
      BY <1>a, <1>c, <1>d, <2>1, <2>3, <3>1, GotoDoes DEF LogsBeforeLinks
    <3> QED BY <1>a, <2>1, <2>3, <3>2, GotoDoes DEF LogsBeforeLinks
  <2>4. CASE Leave(Engine, "failed") /\ rec[Engine].pc = "idle"
    <3>1. ASSUME NEW v \in Writer, Logged(v) PROVE Logged(v)'
      BY <1>a, <2>1, <2>4, <3>1, GotoDoes DEF Logged
    <3>2. /\ \A v \in doc'.links \cup engine'.copy.links : Logged(v)'
          /\ \A h \in Holder : \A v \in rec'[h].copy.links : Logged(v)'
      BY <1>a, <1>c, <1>d, <2>1, <2>4, <3>1, GotoDoes DEF LogsBeforeLinks
    <3> QED BY <1>a, <2>1, <2>4, <3>2, GotoDoes DEF LogsBeforeLinks
  <2> QED BY <1>4, <2>2, <2>3, <2>4 DEF CrashRun
<1>5. CASE Age
  BY <1>5, <1>e DEF Age, logs
<1>6. ASSUME NEW w \in Writer, StartRecording(w) PROVE LogsBeforeLinks'
  <2>1. PICK goes \in Memories : ReadRun(w, goes)
    BY <1>6, RecordingReads
  <2>2. ~Logged(w) /\ UNCHANGED <<doc, engine, ledger, scoped, daily>>
    BY <1>6 DEF StartRecording, Logged, documentVars, logs
  <2> QED BY <1>a, <1>f, <2>1, <2>2, ReadDoes
<1>7. ASSUME NEW w \in Writer, AppendLedger(w) \/ AppendScoped(w) \/ AppendDaily(w)
      PROVE  LogsBeforeLinks'
  <2>1. PICK pc \in {"scoped", "link", "done"} : RecGoto(w, pc)
    BY <1>7 DEF AppendLedger, AppendScoped, AppendDaily
  <2>2. UNCHANGED <<doc, engine>>
    BY <1>7 DEF AppendLedger, AppendScoped, AppendDaily, documentVars
  <2>3. /\ rec'[w].to = rec[w].to /\ rec'[w].pc = pc
        /\ \A h \in Holder : rec'[h].copy = rec[h].copy
        /\ \A o \in Writer \ {w} : rec'[o] = rec[o]
    BY <1>a, <2>1, GotoDoes
  <2>4. CASE AppendLedger(w)
    <3>1. ~Logged(w) /\ rec'[w].pc = "scoped"
      BY <1>a, <2>4, GotoDoes DEF AppendLedger, Logged
    <3> QED
      BY <1>f, <2>2, <2>3, <2>4, <3>1 DEF AppendLedger, Where, LogsBeforeLinks
  <2>5. CASE AppendScoped(w)
    <3>1. ~Logged(w) /\ rec'[w].pc = "link"
      BY <1>a, <2>5, GotoDoes DEF AppendScoped, Logged
    <3> QED
      BY <1>f, <2>2, <2>3, <2>5, <3>1 DEF AppendScoped, Where, LogsBeforeLinks
  <2>6. CASE AppendDaily(w)
    <3>1. (Logged(w) => Logged(w)') /\ rec'[w].pc = "done"
      BY <1>a, <2>3, <2>6, GotoDoes DEF AppendDaily, Logged
    <3> QED
      BY <1>f, <2>2, <2>3, <2>6, <3>1 DEF AppendDaily, Where, LogsBeforeLinks
  <2> QED BY <1>7, <2>4, <2>5, <2>6
<1>8. ASSUME NEW w \in Writer, LinkRun(w) \/ LinkNothing(w) \/ RecordFails(w)
      PROVE  LogsBeforeLinks'
  <2>1. PICK pc \in {"daily", "failed"} : Leave(w, pc)
    BY <1>8 DEF LinkRun, LinkNothing, RecordFails
  <2>2. UNCHANGED <<engine, ledger, scoped, daily>>
    BY <1>8 DEF LinkRun, LinkNothing, RecordFails, logs
  <2>3. /\ rec'[w].to = rec[w].to /\ rec'[w].pc = pc
        /\ \A h \in Holder : rec'[h].copy.links \subseteq rec[h].copy.links
        /\ \A o \in Writer \ {w} : rec'[o] = rec[o]
    BY <1>a, <1>d, <2>1, GotoDoes
  <2>4. Logged(w) => Logged(w)'
    BY <2>2, <2>3 DEF Logged
  <2>5. CASE LinkRun(w)
    <3>1. rec[w].pc = "link" /\ pc = "daily"
      BY <1>a, <2>5, <2>3, GotoDoes DEF LinkRun
    <3>2. Logged(w)'
      BY <2>2, <2>3, <3>1 DEF Logged, LogsBeforeLinks
    <3>3. doc'.links = rec[w].copy.links \cup {w}
      BY <2>5, LinkWrites
    <3> QED BY <1>f, <2>2, <2>3, <2>4, <3>1, <3>2, <3>3 DEF LogsBeforeLinks
  <2>6. CASE LinkNothing(w)
    <3>1. rec[w].pc = "link" /\ doc' = doc
      BY <2>6 DEF LinkNothing, documentVars
    <3> QED BY <1>f, <2>2, <2>3, <2>4, <3>1 DEF LogsBeforeLinks
  <2>7. CASE RecordFails(w)
    <3>1. rec'[w].pc = "failed" /\ doc' = doc
      BY <1>a, <2>7, GotoDoes DEF RecordFails, documentVars
    <3> QED BY <1>f, <2>2, <2>3, <2>4, <3>1 DEF LogsBeforeLinks
  <2> QED BY <1>8, <2>5, <2>6, <2>7
<1>9. ASSUME NEW s \in Scanner, Scanning(s) PROVE LogsBeforeLinks'
  <2>1. UNCHANGED <<engine, ledger, scoped, daily>>
    BY <1>9 DEF Scanning, ListStale, PersistStale, OutcomeOfStale, logs
  <2>2. CASE ListStale(s)
    <3>1. UNCHANGED doc /\ rec'[s].copy = doc /\ \A h \in Holder \ {s} : rec'[h] = rec[h]
      BY <1>a, <2>2 DEF ListStale, documentVars, MemoryTypeOK
    <3> QED BY <1>a, <1>b, <1>e, <2>1, <3>1
  <2>3. CASE PersistStale(s)
    <3>1. doc'.links = rec[s].copy.links
      BY <2>3, ScannerWrites
    <3>2. \A h \in Holder : rec'[h].copy.links \subseteq rec[h].copy.links
      BY <1>a, <1>d, <2>3, GotoDoes DEF PersistStale
    <3>3. \A h \in Holder \ {s} : rec'[h] = rec[h]
      BY <1>a, <2>3, GotoDoes DEF PersistStale
    <3> QED BY <1>a, <1>b, <1>e, <2>1, <3>1, <3>2, <3>3
  <2>4. CASE OutcomeOfStale(s)
    <3>1. UNCHANGED doc /\ \A h \in Holder : rec'[h].copy.links \subseteq rec[h].copy.links
      BY <1>a, <1>d, <2>4, GotoDoes DEF OutcomeOfStale, documentVars
    <3>2. \A h \in Holder \ {s} : rec'[h] = rec[h]
      BY <1>a, <2>4, GotoDoes DEF OutcomeOfStale
    <3> QED BY <1>a, <1>b, <1>e, <2>1, <3>1, <3>2
  <2> QED BY <1>9, <2>2, <2>3, <2>4 DEF Scanning
<1>10. CASE UNCHANGED memoryVars
  BY <1>10, <1>e DEF memoryVars
<1> QED
  BY <1>1, <1>2, <1>3, <1>4, <1>5, <1>6, <1>7, <1>8, <1>9, <1>10, MemorySteps
  DEF EngineMoves, Recording

LEMMA StillBeforeTheRun ==
  ASSUME RecordsPlaced, [MemoryNext]_memoryVars
  PROVE  BeforeTheRun'
<1> SUFFICES ASSUME engine'.pc = "idle" PROVE BeforeTheRun'
  BY DEF BeforeTheRun
<1> USE DEF RecordsPlaced
<1>a. Writer \subseteq Holder /\ Scanner \subseteq Holder
  BY DEF Writer, Holder
<1>1. CASE EngineMoves
  <2>1. engine'.pc # "idle"
    <3>1. CASE StartRun \/ FinishRun \/ EndPatch
      BY <3>1, EnginePersists, PersistDoes
    <3>2. CASE WriteOutcome \/ RecordRun \/ EndRecord \/ BeginPatch \/ CrashRun
      BY <3>2 DEF WriteOutcome, RecordRun, EndRecord, BeginPatch, CrashRun, MemoryTypeOK
    <3> QED BY <1>1, <3>1, <3>2 DEF EngineMoves
  <2> QED BY <2>1
<1>2. ASSUME UNCHANGED engine
      PROVE  /\ engine.pc = "idle" /\ doc = NoRun /\ engine.copy = NoRun
             /\ \A h \in Holder : rec[h].copy = NoRun /\ "run" \notin rec[h].to
                                    /\ rec[h].pc # "listed"
  BY <1>2 DEF BeforeTheRun
<1>3. CASE Age
  BY <1>2, <1>3 DEF Age, BeforeTheRun
<1>4. ASSUME NEW w \in Writer, StartRecording(w) PROVE BeforeTheRun'
  <2>1. UNCHANGED <<engine, doc>> /\ \E goes \in Memories : ReadRun(w, goes)
    BY <1>4, RecordingReads DEF StartRecording, documentVars
  <2> QED BY <1>2, <1>a, <2>1, ReadDoes DEF BeforeTheRun
<1>5. ASSUME NEW w \in Writer, AppendLedger(w) \/ AppendScoped(w) \/ AppendDaily(w)
                \/ LinkNothing(w) \/ RecordFails(w)
      PROVE  BeforeTheRun'
  <2>1. UNCHANGED <<engine, doc>>
    BY <1>5 DEF AppendLedger, AppendScoped, AppendDaily, LinkNothing, RecordFails, documentVars
  <2>2. \E pc \in {"scoped", "link", "daily", "done", "failed"} : RecGoto(w, pc) \/ Leave(w, pc)
    BY <1>5 DEF AppendLedger, AppendScoped, AppendDaily, LinkNothing, RecordFails
  <2> QED BY <1>2, <1>a, <2>1, <2>2, GotoDoes DEF BeforeTheRun
<1>6. ASSUME NEW w \in Writer, LinkRun(w) PROVE FALSE
  BY <1>2, <1>6, <1>a DEF LinkRun
<1>7. ASSUME NEW s \in Scanner, ListStale(s) \/ PersistStale(s) PROVE FALSE
  BY <1>2, <1>7, <1>a DEF ListStale, PersistStale, NoRun
<1>8. ASSUME NEW s \in Scanner, OutcomeOfStale(s) PROVE BeforeTheRun'
  BY <1>2, <1>8, <1>a, GotoDoes DEF OutcomeOfStale, documentVars, BeforeTheRun
<1>9. CASE UNCHANGED memoryVars
  BY <1>2, <1>9 DEF memoryVars, BeforeTheRun
<1> QED
  BY <1>1, <1>3, <1>4, <1>5, <1>6, <1>7, <1>8, <1>9, MemorySteps DEF Recording, Scanning

LEMMA RecordsStayPlaced ==
  ASSUME RecordsPlaced, [MemoryNext]_memoryVars
  PROVE  RecordsPlaced'
BY RecordsTyped, EngineStaysInPlace, LogsStayFirst, StillBeforeTheRun DEF RecordsPlaced

-----------------------------------------------------------------------------
(* The engine writes the run when it has nothing to link itself.           *)
LEMMA EngineLinksNothing ==
  ASSUME RecordsPlaced, engine.pc \in {"idle", "working", "patching"}
  PROVE  ~Carries(Engine) /\ rec[Engine].pc # "link"
BY DEF RecordsPlaced, EngineInPlace, Carries, Writer

LEMMA StatusStays ==
  ASSUME RecordsInv, [MemoryNext]_memoryVars
  PROVE  StatusKept'
<1> USE DEF RecordsInv, RecordsPlaced
<1>a. Engine \in Writer /\ Writer \subseteq Holder /\ Scanner \subseteq Holder
  BY DEF Writer, Holder
(* Whoever wrote a status alone was the only one with a copy. *)
<1>b. ASSUME NEW x \in Holder, last'.alone => Alone(x), doc'.status = last'.status,
             ~Carries(x)', \A h \in Holder \ {x} : rec'[h] = rec[h]
      PROVE  StatusKept'
  BY <1>b DEF StatusKept, Alone, Holds, Carries
(* Who takes a copy takes it of the run. *)
<1>c. ASSUME UNCHANGED <<doc, last>>,
             \A h \in Holder : Carries(h)' =>
               (Carries(h) /\ rec'[h].copy = rec[h].copy) \/ rec'[h].copy = doc
      PROVE  StatusKept'
  BY <1>c DEF StatusKept
<1>1. CASE StartRun \/ FinishRun \/ EndPatch
  <2>1. PICK status \in RunStatus, pc \in {"working", "outcome", "patch"} :
          /\ Persist(status, pc) /\ engine.pc \in {"idle", "working", "patching"}
          /\ UNCHANGED rec
    BY <1>1, EnginePersists
  <2>2. ~Carries(Engine)'
    BY <2>1, EngineLinksNothing DEF Carries
  <2>3. doc'.status = last'.status /\ (last'.alone => Alone(Engine))
    BY <2>1, PersistDoes, StatusWritten
  <2> QED BY <1>a, <1>b, <2>1, <2>2, <2>3
<1>2. CASE WriteOutcome \/ EndRecord \/ BeginPatch
  <2>1. UNCHANGED <<doc, last, rec>>
    BY <1>2 DEF WriteOutcome, EndRecord, BeginPatch, documentVars
  <2> QED BY <1>c, <2>1 DEF Carries
<1>3. CASE RecordRun
  <2>1. UNCHANGED <<doc, last>> /\ \E goes \in Memories : ReadRun(Engine, goes)
    BY <1>3, EngineReads DEF RecordRun, documentVars
  <2> QED BY <1>a, <1>c, <2>1, ReadDoes DEF Carries
<1>4. CASE CrashRun
  <2>1. UNCHANGED <<doc, last>> /\ (rec' = rec \/ Leave(Engine, "failed"))
    BY <1>4 DEF CrashRun, documentVars
  <2> QED BY <1>a, <1>c, <2>1, GotoDoes DEF Carries
<1>5. CASE Age
  BY <1>5, <1>c DEF Age, Carries
<1>6. ASSUME NEW w \in Writer, StartRecording(w) PROVE StatusKept'
  <2>1. UNCHANGED <<doc, last>> /\ \E goes \in Memories : ReadRun(w, goes)
    BY <1>6, RecordingReads DEF StartRecording, documentVars
  <2> QED BY <1>a, <1>c, <2>1, ReadDoes DEF Carries
<1>7. ASSUME NEW w \in Writer, AppendLedger(w) \/ AppendScoped(w) \/ AppendDaily(w)
      PROVE  StatusKept'
  <2>1. UNCHANGED <<doc, last>> /\ \E pc \in {"scoped", "link", "done"} : RecGoto(w, pc)
    BY <1>7 DEF AppendLedger, AppendScoped, AppendDaily, documentVars
  <2>2. rec[w].pc = "daily" => rec'[w].pc = "done"
    BY <1>7, <1>a, GotoDoes DEF AppendLedger, AppendScoped, AppendDaily
  <2>3. rec[w].pc \in {"ledger", "scoped", "daily"}
    BY <1>7 DEF AppendLedger, AppendScoped, AppendDaily
  <2> QED BY <1>a, <1>c, <2>1, <2>2, <2>3, GotoDoes DEF Carries
<1>8. ASSUME NEW w \in Writer, LinkNothing(w) \/ RecordFails(w) PROVE StatusKept'
  <2>1. UNCHANGED <<doc, last>> /\ \E pc \in {"daily", "failed"} : Leave(w, pc)
    BY <1>8 DEF LinkNothing, RecordFails, documentVars
  <2> QED BY <1>a, <1>c, <2>1, GotoDoes DEF Carries
<1>9. ASSUME NEW w \in Writer, LinkRun(w) PROVE StatusKept'
  <2>1. Carries(w) /\ UNCHANGED last /\ doc'.status = rec[w].copy.status /\ Leave(w, "daily")
    BY <1>9, LinkWrites DEF Carries
  <2> QED BY <1>a, <2>1, GotoDoes DEF StatusKept, Carries
<1>10. ASSUME NEW s \in Scanner, ListStale(s) PROVE StatusKept'
  <2>1. UNCHANGED <<doc, last>> /\ rec'[s].copy = doc /\ \A h \in Holder \ {s} : rec'[h] = rec[h]
    BY <1>10, <1>a DEF ListStale, documentVars, MemoryTypeOK
  <2> QED BY <1>c, <2>1 DEF Carries
<1>11. ASSUME NEW s \in Scanner, PersistStale(s) PROVE StatusKept'
  <2>1. ~Carries(s)' /\ \A h \in Holder \ {s} : rec'[h] = rec[h]
    BY <1>11, <1>a, ScannerWrites, GotoDoes DEF Carries
  <2>2. doc'.status = last'.status /\ (last'.alone => Alone(s))
    BY <1>11, ScannerWrites, StatusWritten DEF RunStatus
  <2> QED BY <1>a, <1>b, <2>1, <2>2
<1>12. ASSUME NEW s \in Scanner, OutcomeOfStale(s) PROVE StatusKept'
  BY <1>12, <1>a, <1>c, GotoDoes DEF OutcomeOfStale, documentVars, Carries
<1>13. CASE UNCHANGED memoryVars
  BY <1>13, <1>c DEF memoryVars, Carries
<1> QED
  BY <1>1, <1>2, <1>3, <1>4, <1>5, <1>6, <1>7, <1>8, <1>9, <1>10, <1>11, <1>12, <1>13,
     MemorySteps DEF EngineMoves, Recording, Scanning

LEMMA LinksStay ==
  ASSUME RecordsInv, [MemoryNext]_memoryVars
  PROVE  LinksKept'
<1> USE DEF RecordsInv, RecordsPlaced
<1>a. Engine \in Writer /\ Writer \subseteq Holder /\ Scanner \subseteq Holder
  BY DEF Writer, Holder
<1>b. Scanner \cap Writer = {}
  BY MemoryAssumption DEF MemoryAssumption
<1> DEFINE Made(w) == rec[w].pc \in {"daily", "done"} /\ "run" \in rec[w].to
           Everywhere(w) ==
             /\ w \in doc.links
             /\ \A h \in Holder : Carries(h) => w \in rec[h].copy.links
             /\ engine.pc \in {"working", "patching"} => w \in engine.copy.links
<1>c. LinksKept <=> \A w \in Writer \ undercut : Made(w) => Everywhere(w)
  BY DEF LinksKept
<1>d. LinksKept' <=> \A w \in Writer \ undercut' : Made(w)' => Everywhere(w)'
  BY DEF LinksKept
(* No link is made, and what is written was held. *)
<1>e. ASSUME undercut' = undercut, \A w \in Writer : Made(w)' => Made(w),
             ASSUME NEW w \in Writer, Made(w), Everywhere(w) PROVE Everywhere(w)'
      PROVE  LinksKept'
  BY <1>c, <1>d, <1>e
<1>1. CASE StartRun \/ FinishRun \/ EndPatch
  <2>1. PICK status \in RunStatus, pc \in {"working", "outcome", "patch"} :
          /\ Persist(status, pc)
          /\ pc = "working" <=> engine.pc = "idle"
          /\ engine.pc \in {"idle", "working", "patching"}
          /\ UNCHANGED <<rec, undercut>>
    BY <1>1, EnginePersists
  <2>2. ASSUME NEW w \in Writer, Made(w), Everywhere(w) PROVE Everywhere(w)'
    <3>1. engine.pc # "idle"
      BY <1>a, <2>2 DEF BeforeTheRun
    <3>2. w \in engine.copy.links
      BY <2>1, <2>2, <3>1
    <3>3. doc'.links = engine.copy.links /\ engine'.pc = pc /\ pc # "working"
      BY <2>1, <3>1, PersistDoes
    <3>4. \A h \in Holder : Carries(h)' <=> Carries(h)
      BY <2>1 DEF Carries
    <3> QED BY <2>1, <2>2, <3>2, <3>3, <3>4
  <2>3. \A w \in Writer : Made(w)' => Made(w)
    BY <2>1
  <2> HIDE DEF Made, Everywhere
  <2> QED BY <1>e, <2>1, <2>2, <2>3
<1>2. CASE WriteOutcome \/ EndRecord \/ BeginPatch
  <2>1. UNCHANGED <<doc, rec, undercut>>
    BY <1>2 DEF WriteOutcome, EndRecord, BeginPatch, documentVars
  <2>2. engine'.pc \in {"working", "patching"} => engine'.copy = doc
    BY <1>2 DEF WriteOutcome, EndRecord, BeginPatch, MemoryTypeOK
  <2>3. ASSUME NEW w \in Writer, Made(w), Everywhere(w) PROVE Everywhere(w)'
    BY <2>1, <2>2, <2>3 DEF Carries
  <2>4. \A w \in Writer : Made(w)' => Made(w)
    BY <2>1
  <2> HIDE DEF Made, Everywhere
  <2> QED BY <1>e, <2>1, <2>3, <2>4
<1>3. ASSUME NEW v \in Writer, NEW goes \in Memories, ReadRun(v, goes), UNCHANGED <<doc, undercut>>,
             engine'.pc \in {"working", "patching"} => engine' = engine
      PROVE  LinksKept'
  <2>1. ASSUME NEW w \in Writer, Made(w), Everywhere(w) PROVE Everywhere(w)'
    BY <1>3, <1>a, <2>1, ReadDoes DEF Carries
  <2>2. \A w \in Writer : Made(w)' => Made(w)
    BY <1>3, <1>a, ReadDoes
  <2> HIDE DEF Made, Everywhere
  <2> QED BY <1>3, <1>e, <2>1, <2>2
<1>4. CASE RecordRun
  <2>1. UNCHANGED <<doc, undercut>> /\ engine'.pc = "recording"
    BY <1>4 DEF RecordRun, documentVars, MemoryTypeOK
  <2> QED BY <1>3, <1>4, <1>a, <2>1, EngineReads
<1>5. ASSUME NEW w \in Writer, StartRecording(w) PROVE LinksKept'
  BY <1>3, <1>5, RecordingReads DEF StartRecording, documentVars
(* A holder goes on with the copy it has, or without one. *)
<1>6. ASSUME NEW h \in Holder, NEW pc \in {"idle", "scoped", "link", "daily", "done", "failed",
                                            "outcome"},
             RecGoto(h, pc) \/ Leave(h, pc), UNCHANGED <<doc, undercut>>,
             engine'.pc \in {"working", "patching"} => engine' = engine,
             Carries(h)' => Carries(h) /\ RecGoto(h, pc),
             h \in Writer /\ Made(h)' => Made(h)
      PROVE  LinksKept'
  <2>1. ASSUME NEW w \in Writer, Made(w), Everywhere(w) PROVE Everywhere(w)'
    <3>1. \A o \in Holder : Carries(o)' => Carries(o) /\ rec'[o].copy = rec[o].copy
      BY <1>6, GotoDoes DEF Carries
    <3> QED BY <1>6, <2>1, <3>1
  <2>2. \A w \in Writer : Made(w)' => Made(w)
    BY <1>6, <1>a, GotoDoes
  <2> HIDE DEF Made, Everywhere
  <2> QED BY <1>6, <1>e, <2>1, <2>2
<1>7. CASE CrashRun
  <2>1. UNCHANGED <<doc, undercut>> /\ engine'.pc = "dead"
    BY <1>7 DEF CrashRun, documentVars, MemoryTypeOK
  <2>2. CASE Leave(Engine, "failed")
    <3>1. ~Carries(Engine)' /\ ~Made(Engine)'
      BY <1>a, <2>2, GotoDoes DEF Carries
    <3> HIDE DEF Made
    <3> QED BY <1>6, <1>a, <2>1, <2>2, <3>1
  <2>3. CASE UNCHANGED rec
    <3>1. ASSUME NEW w \in Writer, Made(w), Everywhere(w) PROVE Everywhere(w)'
      BY <2>1, <2>3, <3>1 DEF Carries
    <3>2. \A w \in Writer : Made(w)' => Made(w)
      BY <2>3
    <3> HIDE DEF Made, Everywhere
    <3> QED BY <1>e, <2>1, <3>1, <3>2
  <2> QED BY <1>7, <2>2, <2>3 DEF CrashRun
<1>8. ASSUME NEW w \in Writer, AppendLedger(w) \/ AppendScoped(w) \/ AppendDaily(w)
      PROVE  LinksKept'
  <2>1. PICK pc \in {"scoped", "link", "done"} :
          /\ RecGoto(w, pc)
          /\ rec[w].pc \in {"ledger", "scoped", "daily"}
          /\ rec[w].pc = "daily" <=> pc = "done"
    BY <1>8 DEF AppendLedger, AppendScoped, AppendDaily
  <2>2. UNCHANGED <<doc, undercut, engine>>
    BY <1>8 DEF AppendLedger, AppendScoped, AppendDaily, documentVars
  <2>3. (Carries(w)' => Carries(w)) /\ (Made(w)' => Made(w))
    BY <1>a, <2>1, GotoDoes DEF Carries
  <2> HIDE DEF Made, Everywhere
  <2> QED BY <1>6, <1>a, <2>1, <2>2, <2>3
<1>9. ASSUME NEW w \in Writer, LinkNothing(w) \/ RecordFails(w) PROVE LinksKept'
  <2>1. PICK pc \in {"daily", "failed"} :
          Leave(w, pc) /\ (pc = "daily" => "run" \notin rec[w].to)
    BY <1>9 DEF LinkNothing, RecordFails
  <2>2. UNCHANGED <<doc, undercut, engine>>
    BY <1>9 DEF LinkNothing, RecordFails, documentVars
  <2>3. ~Carries(w)' /\ ~Made(w)'
    BY <1>a, <2>1, GotoDoes DEF Carries
  <2> HIDE DEF Made, Everywhere
  <2> QED BY <1>6, <1>a, <2>1, <2>2, <2>3
<1>10. ASSUME NEW w \in Writer, LinkRun(w) PROVE LinksKept'
  <2>1. /\ doc'.links = rec[w].copy.links \cup {w} /\ UNCHANGED engine
        /\ undercut' = IF Alone(w) THEN undercut ELSE undercut \cup {w}
        /\ Leave(w, "daily") /\ rec[w].pc = "link" /\ Carries(w)
    BY <1>10, LinkWrites DEF Carries
  <2>2. /\ rec'[w].pc = "daily" /\ ~Carries(w)'
        /\ \A h \in Holder \ {w} : rec'[h] = rec[h] /\ (Carries(h)' <=> Carries(h))
    BY <1>a, <2>1, GotoDoes DEF Carries
  <2>3. ASSUME NEW v \in Writer \ undercut', v # w, Made(v)' PROVE Everywhere(v)'
    <3>1. Made(v) /\ v \in Writer \ undercut
      BY <1>a, <2>1, <2>2, <2>3
    <3>2. Everywhere(v)
      BY <1>c, <3>1
    <3> QED BY <1>a, <2>1, <2>2, <3>2
  <2>4. ASSUME w \notin undercut' PROVE Everywhere(w)'
    <3>1. Alone(w)
      BY <2>1, <2>4
    <3>2. \A h \in Holder : ~Carries(h)'
      BY <2>2, <3>1 DEF Alone, Holds
    <3>3. engine.pc \notin {"working", "patching"}
      BY <1>a, <2>1, <3>1, EngineLinksNothing DEF Alone, Holds
    <3> QED BY <2>1, <3>2, <3>3
  <2> HIDE DEF Made, Everywhere
  <2> QED BY <1>d, <2>3, <2>4
<1>11. ASSUME NEW s \in Scanner, ListStale(s) PROVE LinksKept'
  <2>1. /\ UNCHANGED <<doc, undercut, engine>> /\ rec'[s].copy = doc
        /\ \A h \in Holder \ {s} : rec'[h] = rec[h]
    BY <1>11, <1>a DEF ListStale, documentVars, MemoryTypeOK
  <2>2. ASSUME NEW w \in Writer, Made(w), Everywhere(w) PROVE Everywhere(w)'
    BY <2>1, <2>2 DEF Carries
  <2>3. \A w \in Writer : Made(w)' => Made(w)
    BY <1>a, <1>b, <2>1
  <2> HIDE DEF Made, Everywhere
  <2> QED BY <1>e, <2>1, <2>2, <2>3
<1>12. ASSUME NEW s \in Scanner, PersistStale(s) PROVE LinksKept'
  <2>1. /\ doc'.links = rec[s].copy.links /\ UNCHANGED <<engine, undercut>>
        /\ Leave(s, "outcome") /\ Carries(s)
    BY <1>12, ScannerWrites DEF Carries
  <2>2. ~Carries(s)' /\ \A h \in Holder \ {s} : rec'[h] = rec[h] /\ (Carries(h)' <=> Carries(h))
    BY <1>a, <2>1, GotoDoes DEF Carries
  <2>3. ASSUME NEW w \in Writer, Made(w), Everywhere(w) PROVE Everywhere(w)'
    BY <1>a, <2>1, <2>2, <2>3
  <2>4. \A w \in Writer : Made(w)' => Made(w)
    BY <1>a, <1>b, <2>2
  <2> HIDE DEF Made, Everywhere
  <2> QED BY <1>e, <2>1, <2>3, <2>4
<1>13. ASSUME NEW s \in Scanner, OutcomeOfStale(s) PROVE LinksKept'
  <2>1. Leave(s, "idle") /\ UNCHANGED <<doc, undercut, engine>> /\ s \notin Writer
    BY <1>13, <1>b DEF OutcomeOfStale, documentVars
  <2>2. ~Carries(s)'
    BY <1>a, <2>1, GotoDoes DEF Carries
  <2> HIDE DEF Made, Everywhere
  <2> QED BY <1>6, <1>a, <2>1, <2>2
<1>14. CASE Age \/ UNCHANGED memoryVars
  <2>1. UNCHANGED <<doc, undercut, engine, rec>>
    BY <1>14 DEF Age, memoryVars
  <2>2. ASSUME NEW w \in Writer, Made(w), Everywhere(w) PROVE Everywhere(w)'
    BY <2>1, <2>2 DEF Carries
  <2>3. \A w \in Writer : Made(w)' => Made(w)
    BY <2>1
  <2> HIDE DEF Made, Everywhere
  <2> QED BY <1>e, <2>1, <2>2, <2>3
<1> QED
  BY <1>1, <1>2, <1>4, <1>5, <1>7, <1>8, <1>9, <1>10, <1>11, <1>12, <1>13, <1>14,
     MemorySteps DEF EngineMoves, Recording, Scanning

LEMMA RecordsKept == RecordsInv /\ [MemoryNext]_memoryVars => RecordsInv'
BY RecordsStayPlaced, StatusStays, LinksStay DEF RecordsInv

LEMMA RecordsAgree == RecordsInv => LedgerAndRunAgree
<1> SUFFICES ASSUME RecordsInv PROVE LedgerAndRunAgree
  OBVIOUS
<1> USE DEF RecordsInv, RecordsPlaced, LogsBeforeLinks, Writer
<1>1. NoDanglingLink
  BY DEF NoDanglingLink, Logged
<1>2. OutcomeFirst
  BY DEF OutcomeFirst, EngineInPlace
<1>3. NothingUndone
  BY DEF NothingUndone, Recorded, StatusKept, LinksKept
<1> QED BY <1>1, <1>2, <1>3 DEF LedgerAndRunAgree
-----------------------------------------------------------------------------
(* The search over the memory.                                             *)

(* What the disk tells: a document that was ever written is there unless   *)
(* it was removed, and the stamp of one that is there is its last write,   *)
(* unless a rewrite did not show.                                          *)
StampsTell ==
  \A d \in Doc :
    /\ disk[d].there => disk[d].stamp # 0
    /\ disk[d].stamp <= disk[d].n
    /\ disk[d].there /\ d \notin twins => disk[d].stamp = disk[d].n
    /\ disk[d].n # 0 /\ d \notin gone => disk[d].there

(* What a search has listed is behind the disk, like its floor.            *)
ListsBehind ==
  \A s \in Search, d \in Doc : floor[s][d] <= disk[d].n /\ find[s].files[d] <= disk[d].n

(* Search t listed the files after the floor of s.                         *)
ListsAbove(t, s) ==
  \A d \in Doc :
    /\ d \notin twins /\ find[t].files[d] # 0 => find[t].files[d] >= floor[s][d]
    /\ d \notin gone /\ floor[s][d] # 0 => find[t].files[d] # 0

(* Those under way listed them after each other's floors, and so did the   *)
(* builder of the index that a search is about to query.                   *)
FloorsBelow ==
  /\ \A s, t \in Busy : ListsAbove(t, s)
  /\ \A s \in Search : find[s].pc = "query" => path # NoFile /\ ListsAbove(path, s)

(* A row has the stamp its builder listed and what was read after that.    *)
RowsRight ==
  \A t \in Search, d \in Doc :
    LET row == content[t][d] IN
    /\ row.stamp \in {0, find[t].files[d]}
    /\ row.body # Nothing => row.stamp # 0 /\ row.body >= row.stamp
    /\ row.stamp # 0 /\ d \notin gone => row.body # Nothing

(* The file at a temporary name is still being filled; the file at the     *)
(* index path was begun.                                                   *)
FilesInPlace ==
  /\ \A n \in Search : temp[n] # NoFile => find[temp[n]].pc = "fill" /\ find[temp[n]].name = n
  /\ path # NoFile => find[path].pc \notin {"idle", "check", "create"}
  /\ \A s \in Search :
       /\ find[s].pc = "idle" => content[s] = NoRows
       /\ find[s].pc \in {"idle", "check", "create"} => find[s].name = s
       /\ find[s].pc \in {"idle", "check", "create", "fill", "query"} => find[s].hits = Empty
       /\ find[s].pc = "fill" => \A d \in find[s].left : find[s].files[d] # 0

(* Unless names are shared, a search installs what it built, all of it.    *)
Filled(t, d) == find[t].files[d] # 0 => content[t][d].stamp # 0
FilesWhole ==
  ~clashed =>
    /\ \A t \in Search : find[t].name = t
    /\ \A t \in Search, d \in Doc : find[t].pc = "fill" /\ d \notin find[t].left => Filled(t, d)
    /\ path # NoFile => \A d \in Doc : Filled(path, d)

HitsFresh ==
  \A s \in Search, d \in Doc \ twins :
    find[s].hits[d] # Nothing => find[s].hits[d] >= floor[s][d]

(* What was kept is hit, but for what is still to be read.                 *)
HitsThere ==
  ~clashed =>
    \A s \in Search, d \in Doc :
      Kept(s, d) /\ find[s].hits[d] = Nothing =>
        /\ find[s].pc = "scan" => d \in find[s].left
        /\ find[s].pc # "browse"
        /\ find[s].pc = "done" => find[s].for = "rebuild"

IndexPlaced == IndexTypeOK /\ StampsTell /\ ListsBehind /\ FilesInPlace /\ RowsRight
IndexInv == IndexPlaced /\ FloorsBelow /\ FilesWhole /\ HitsFresh /\ HitsThere

-----------------------------------------------------------------------------
LEMMA LeastOf ==
  ASSUME NEW writes \in SUBSET Nat, writes # {}
  PROVE  Oldest(writes) \in writes /\ \A w \in writes : Oldest(writes) <= w
<1>1. PICK o \in writes : \A w \in writes : ~ (<<w, o>> \in OpToRel(<, Nat))
  BY NatLessThanWellFounded, WFMin
<1>2. \A w \in writes : ~(w < o)
  BY <1>1 DEF OpToRel
<1>3. \A w \in writes : o <= w
  BY <1>2
<1> QED BY <1>3 DEF Oldest

LEMMA WritesCount ==
  /\ Writes \subseteq Nat
  /\ \A d \in Doc : 0 .. MaxWrites[d] \subseteq Writes /\ 0 \in Writes
BY IndexAssumption DEF IndexAssumption, Writes

LEMMA NothingWritten == Empty \in Listing /\ NoRows \in Rows
BY WritesCount, IndexAssumption DEF IndexAssumption, Empty, NoRows, Nothing, Listing, Rows

LEMMA IndexBegins == IndexInit => IndexInv
<1> USE IndexAssumption, WritesCount, NothingWritten
    DEF IndexAssumption, IndexInit, NewFind, Empty, NoRows, Nothing, Working
<1>1. IndexInit => IndexTypeOK
  <2> SUFFICES ASSUME IndexInit PROVE IndexTypeOK
    OBVIOUS
  <2>1. disk \in [Doc -> [n : Writes, there : BOOLEAN, stamp : Writes]]
    BY ZenonT(30)
  <2>2. find \in [Search -> [pc : {"idle", "done"} \cup Working,
                             for : {"search", "browse", "rebuild"}, name : Search,
                             files : Listing, left : SUBSET Doc, hits : Listing]]
    OBVIOUS
  <2> QED BY <2>1, <2>2 DEF IndexTypeOK
<1>2. IndexInit => StampsTell /\ ListsBehind /\ FilesInPlace /\ RowsRight
  BY DEF StampsTell, ListsBehind, FilesInPlace, RowsRight
<1>3. IndexInit => FloorsBelow /\ FilesWhole /\ HitsFresh /\ HitsThere
  BY DEF FloorsBelow, Busy, FilesWhole, Filled, HitsFresh, HitsThere, Kept
<1> QED BY <1>1, <1>2, <1>3 DEF IndexInv, IndexPlaced

(* What a floor is set to.                                                 *)
LEMMA FloorBegins ==
  ASSUME IndexPlaced, NEW s \in Search, Begin(s)
  PROVE  /\ floor' \in [Search -> Listing]
         /\ \A t \in Search \ {s} : floor'[t] = floor[t]
         /\ \A d \in Doc : /\ floor'[s][d] <= disk[d].n
                           /\ \A e \in Busy : floor'[s][d] <= floor[e][d]
<1> USE WritesCount DEF IndexPlaced, IndexTypeOK
<1> DEFINE past(d) == {disk[d].n} \cup {floor[e][d] : e \in Busy}
<1>1. ASSUME NEW d \in Doc
      PROVE  Oldest(past(d)) \in Writes /\ \A w \in past(d) : Oldest(past(d)) <= w
  <2>1. disk[d].n \in Writes /\ \A e \in Busy : floor[e][d] \in Writes
    BY DEF Busy, Listing
  <2>2. past(d) \in SUBSET Writes /\ past(d) # {}
    <3>1. disk[d].n \in past(d)
      OBVIOUS
    <3>2. \A w \in past(d) : w \in Writes
      BY <2>1
    <3> HIDE DEF past
    <3> QED BY <3>1, <3>2
  <2> HIDE DEF past
  <2> QED BY <2>2, LeastOf
<1>2. floor' = [floor EXCEPT ![s] = [d \in Doc |-> Oldest(past(d))]]
  BY DEF Begin
<1> HIDE DEF past
<1>3. [d \in Doc |-> Oldest(past(d))] \in Listing
  BY <1>1 DEF Listing
<1>4. \A d \in Doc : disk[d].n \in past(d) /\ \A e \in Busy : floor[e][d] \in past(d)
  BY DEF past
<1> QED BY <1>1, <1>2, <1>3, <1>4

(* What can be read and listed.                                            *)
LEMMA ReadsTyped ==
  ASSUME IndexTypeOK
  PROVE  /\ Present \in Listing /\ \A d \in Doc : Readable(d) \in Writes
         /\ \A s \in Search : Matching(content[s]) \in Listing
<1> USE WritesCount DEF IndexTypeOK, Listing, Rows, Nothing
<1>1. \A d \in Doc : Readable(d) \in Writes
  BY DEF Readable
<1>2. Present \in Listing
  BY DEF Present
<1>3. \A s \in Search : Matching(content[s]) \in Listing
  BY DEF Matching
<1> QED BY <1>1, <1>2, <1>3

(* A step of a search moves that search only, and leaves its files as they *)
(* were listed.                                                            *)
Finds == [pc : {"idle", "done"} \cup Working, for : {"search", "browse", "rebuild"},
          name : Search, files : Listing, left : SUBSET Doc, hits : Listing]

LEMMA FindsSet ==
  ASSUME NEW f \in Finds, NEW pc \in {"idle", "done"} \cup Working,
         NEW left \in SUBSET Doc, NEW hits \in Listing
  PROVE  /\ [f EXCEPT !.hits = hits, !.left = left, !.pc = pc] \in Finds
         /\ [f EXCEPT !.left = left, !.pc = pc] \in Finds
BY ZenonT(60) DEF Finds

LEMMA HitsMove ==
  ASSUME IndexTypeOK, NEW s \in Search, NEW hits \in Listing, HitsFound(s, hits)
  PROVE  /\ find' \in [Search -> Finds]
         /\ \A t \in Search \ {s} : find'[t] = find[t]
         /\ find'[s].hits = hits
         /\ find'[s].for = find[s].for /\ find'[s].name = find[s].name
         /\ find'[s].files = find[s].files
         /\ \/ hits = Empty /\ find'[s].pc = "scan" /\ find'[s].left = Doc
            \/ hits # Empty /\ find'[s].pc \in {"browse", "done"}
<1> DEFINE left == IF hits = Empty THEN Doc ELSE {d \in Doc : hits[d] # Nothing}
           pc == CASE hits = Empty -> "scan"
                   [] hits # Empty /\ find[s].for = "browse" -> "browse"
                   [] OTHER -> "done"
<1>1. left \in SUBSET Doc /\ pc \in {"scan", "browse", "done"}
  OBVIOUS
<1>2. \/ hits = Empty /\ pc = "scan" /\ left = Doc
      \/ hits # Empty /\ pc \in {"browse", "done"}
  OBVIOUS
<1>3. find' = [find EXCEPT ![s] = [find[s] EXCEPT !.hits = hits, !.left = left, !.pc = pc]]
  BY DEF HitsFound, IndexTypeOK
<1> HIDE DEF left, pc
<1>4. find \in [Search -> Finds] /\ pc \in {"idle", "done"} \cup Working
  BY <1>1 DEF IndexTypeOK, Finds, Working
<1>5. [find[s] EXCEPT !.hits = hits, !.left = left, !.pc = pc] \in Finds
  BY <1>1, <1>4, FindsSet
<1> QED BY <1>2, <1>3, <1>4, <1>5 DEF Finds

LEMMA ThrownMoves ==
  ASSUME IndexTypeOK, NEW s \in Search, Thrown(s)
  PROVE  /\ find' \in [Search -> Finds]
         /\ \A t \in Search \ {s} : find'[t] = find[t]
         /\ find'[s].hits = find[s].hits
         /\ find'[s].for = find[s].for /\ find'[s].name = find[s].name
         /\ find'[s].files = find[s].files
         /\ \/ find[s].for = "rebuild" /\ find'[s].pc = "done"
            \/ find[s].for # "rebuild" /\ find'[s].pc = "scan" /\ find'[s].left = Doc
<1> DEFINE pc == IF find[s].for = "rebuild" THEN "done" ELSE "scan"
<1>1. find \in [Search -> Finds] /\ pc \in {"idle", "done"} \cup Working
  BY DEF IndexTypeOK, Finds, Working
<1>2. find' = [find EXCEPT ![s] = [find[s] EXCEPT !.left = Doc, !.pc = pc]]
  BY <1>1 DEF Thrown
<1>3. [find[s] EXCEPT !.left = Doc, !.pc = pc] \in Finds
  <2> HIDE DEF pc
  <2>1. find[s].hits \in Listing /\ find[s] \in Finds
    BY <1>1 DEF Finds
  <2> QED BY <1>1, <2>1, FindsSet
<1> QED BY <1>1, <1>2, <1>3 DEF Finds

(* What each step of a search does to it.                                  *)
Still(s) ==
  /\ \A t \in Search \ {s} : find'[t] = find[t]
  /\ find'[s].files = find[s].files /\ find'[s].for = find[s].for

LEMMA BeginMoves ==
  ASSUME IndexTypeOK, NEW s \in Search, Begin(s)
  PROVE  /\ find' \in [Search -> Finds]
         /\ \A t \in Search \ {s} : find'[t] = find[t]
         /\ find'[s].files = Present /\ find'[s].left = Doc /\ find'[s].name = find[s].name
         /\ find'[s].hits = find[s].hits
         /\ find'[s].pc \in {"create", "check", "scan", "done"}
         /\ find'[s].pc = "done" => find'[s].for = "rebuild"
<1>1. PICK for \in Kinds[s], sqlite \in HasSqlite :
        find' = [find EXCEPT ![s].for = for, ![s].files = Present, ![s].left = Doc,
          ![s].pc = CASE sqlite /\ for = "rebuild" -> "create"
                      [] sqlite /\ for # "rebuild" -> "check"
                      [] ~sqlite /\ for = "rebuild" -> "done"
                      [] ~sqlite /\ for # "rebuild" -> "scan"]
  BY DEF Begin
<1> DEFINE pc == CASE sqlite /\ for = "rebuild" -> "create"
                   [] sqlite /\ for # "rebuild" -> "check"
                   [] ~sqlite /\ for = "rebuild" -> "done"
                   [] ~sqlite /\ for # "rebuild" -> "scan"
<1>2. for \in {"search", "browse", "rebuild"} /\ sqlite \in BOOLEAN
  BY IndexAssumption DEF IndexAssumption
<1>3. /\ pc \in {"create", "check", "scan", "done"}
      /\ pc = "done" => for = "rebuild"
  BY <1>2
<1>4. find \in [Search -> Finds] /\ Present \in Listing
  BY ReadsTyped DEF IndexTypeOK, Finds
<1>5. find' = [find EXCEPT ![s] =
                 [find[s] EXCEPT !.for = for, !.files = Present, !.left = Doc, !.pc = pc]]
  BY <1>1, <1>4
<1> HIDE DEF pc
<1>6. [find[s] EXCEPT !.for = for, !.files = Present, !.left = Doc, !.pc = pc] \in Finds
  <2>1. /\ find[s] \in Finds /\ pc \in {"idle", "done"} \cup Working
        /\ for \in {"search", "browse", "rebuild"} /\ Doc \in SUBSET Doc
    BY <1>2, <1>3, <1>4 DEF Working
  <2> QED BY <1>4, <2>1, ZenonT(60) DEF Finds
<1> QED BY <1>3, <1>4, <1>5, <1>6 DEF Finds

LEMMA CheckMoves ==
  ASSUME IndexTypeOK, NEW s \in Search, Check(s)
  PROVE  /\ find' \in [Search -> Finds] /\ Still(s)
         /\ find'[s].name = find[s].name
         /\ \/ find'[s].pc = "create" /\ find'[s].hits = find[s].hits
            \/ /\ path # NoFile /\ Fresh(content[path], find[s].files)
               /\ find'[s].hits = Matching(content[path])
               /\ \/ find'[s].hits = Empty /\ find'[s].pc = "scan" /\ find'[s].left = Doc
                  \/ find'[s].hits # Empty /\ find'[s].pc \in {"browse", "done"}
<1>1. CASE path # NoFile /\ Fresh(content[path], find[s].files)
  <2>1. HitsFound(s, Matching(content[path])) /\ Matching(content[path]) \in Listing
    BY <1>1, ReadsTyped DEF Check, IndexTypeOK
  <2> QED BY <1>1, <2>1, HitsMove DEF Still
<1>2. CASE ~(path # NoFile /\ Fresh(content[path], find[s].files))
  BY <1>2 DEF Check, Goto, IndexTypeOK, Finds, Working, Still
<1> QED BY <1>1, <1>2

LEMMA CreateMoves ==
  ASSUME IndexTypeOK, NEW s \in Search, Create(s)
  PROVE  /\ find' \in [Search -> Finds] /\ Still(s)
         /\ find'[s].name = find[s].name /\ find'[s].hits = find[s].hits
         /\ find'[s].pc = "fill" /\ find'[s].left = {d \in Doc : find[s].files[d] # 0}
<1> DEFINE left == {d \in Doc : find[s].files[d] # 0}
<1>1. find \in [Search -> Finds] /\ left \in SUBSET Doc
      /\ "fill" \in {"idle", "done"} \cup Working
  BY DEF IndexTypeOK, Finds, Working
<1>2. find' = [find EXCEPT ![s] = [find[s] EXCEPT !.pc = "fill", !.left = left]]
  BY <1>1 DEF Create
<1> HIDE DEF left
<1>3. [find[s] EXCEPT !.pc = "fill", !.left = left] \in Finds
  <2>1. find[s] \in Finds
    BY <1>1
  <2> QED BY <1>1, <2>1, ZenonT(60) DEF Finds
<1>4. /\ find' \in [Search -> Finds] /\ \A t \in Search \ {s} : find'[t] = find[t]
      /\ find'[s] = [find[s] EXCEPT !.pc = "fill", !.left = left]
  BY <1>1, <1>2, <1>3
<1>5. /\ find'[s].hits = find[s].hits /\ find'[s].files = find[s].files
      /\ find'[s].for = find[s].for /\ find'[s].name = find[s].name
      /\ find'[s].pc = "fill" /\ find'[s].left = left
  BY <1>1, <1>4 DEF Finds
<1> QED BY <1>4, <1>5 DEF Still, left

LEMMA ClashMoves ==
  ASSUME IndexTypeOK, NEW s \in Search, NEW e \in Search, CreateClashes(s, e)
  PROVE  /\ find' \in [Search -> Finds] /\ Still(s) /\ find'[s].hits = find[s].hits
         /\ \/ /\ find'[s].pc = "fill" /\ find'[s].name = find[e].name
               /\ find'[s].left = {d \in Doc : find[s].files[d] # 0}
               /\ temp' = [temp EXCEPT ![find[e].name] = s]
               /\ content' = [content EXCEPT ![s] = NoRows]
            \/ /\ UNCHANGED <<content, temp>>
               /\ \/ find'[s].for = "rebuild" /\ find'[s].pc = "done"
                  \/ find'[s].pc = "scan" /\ find'[s].left = Doc
<1>1. CASE Thrown(s) /\ UNCHANGED <<content, temp>>
  BY <1>1, ThrownMoves DEF Still
<1>2. CASE /\ content' = [content EXCEPT ![s] = NoRows]
           /\ temp' = [temp EXCEPT ![find[e].name] = s]
           /\ find' = [find EXCEPT ![s].pc = "fill", ![s].name = find[e].name,
                                   ![s].left = {d \in Doc : find[s].files[d] # 0}]
  <2> DEFINE left == {d \in Doc : find[s].files[d] # 0}
  <2>1. find \in [Search -> Finds] /\ left \in SUBSET Doc
        /\ "fill" \in {"idle", "done"} \cup Working /\ find[e].name \in Search
    BY DEF IndexTypeOK, Finds, Working
  <2>2. find' = [find EXCEPT ![s] =
                   [find[s] EXCEPT !.pc = "fill", !.name = find[e].name, !.left = left]]
    BY <1>2, <2>1
  <2> HIDE DEF left
  <2>3. [find[s] EXCEPT !.pc = "fill", !.name = find[e].name, !.left = left] \in Finds
    <3>1. find[s] \in Finds
      BY <2>1
    <3> QED BY <2>1, <3>1, ZenonT(60) DEF Finds
  <2>4. /\ find' \in [Search -> Finds] /\ \A t \in Search \ {s} : find'[t] = find[t]
        /\ find'[s] = [find[s] EXCEPT !.pc = "fill", !.name = find[e].name, !.left = left]
    BY <2>1, <2>2, <2>3
  <2>5. /\ find'[s].hits = find[s].hits /\ find'[s].files = find[s].files
        /\ find'[s].for = find[s].for
        /\ find'[s].pc = "fill" /\ find'[s].name = find[e].name /\ find'[s].left = left
    BY <2>1, <2>4 DEF Finds
  <2> QED BY <1>2, <2>4, <2>5 DEF Still, left
<1> QED BY <1>1, <1>2 DEF CreateClashes

LEMMA FillMoves ==
  ASSUME IndexTypeOK, NEW s \in Search, Fill(s)
  PROVE  /\ find' \in [Search -> Finds] /\ Still(s)
         /\ find'[s].name = find[s].name /\ find'[s].hits = find[s].hits
         /\ find'[s].pc = "fill"
         /\ \E d \in find[s].left :
              /\ find'[s].left = find[s].left \ {d}
              /\ content' = [content EXCEPT ![s][d] =
                               [stamp |-> find[s].files[d], body |-> Readable(d)]]
<1>1. PICK d \in find[s].left :
        /\ content' = [content EXCEPT ![s][d] = [stamp |-> find[s].files[d], body |-> Readable(d)]]
        /\ find' = [find EXCEPT ![s].left = @ \ {d}]
  BY DEF Fill
<1>2. find \in [Search -> Finds]
  BY DEF IndexTypeOK, Finds
<1> DEFINE left == find[s].left \ {d}
<1>3. left \in SUBSET Doc /\ find' = [find EXCEPT ![s] = [find[s] EXCEPT !.left = left]]
  BY <1>1, <1>2 DEF Finds
<1> HIDE DEF left
<1>4. [find[s] EXCEPT !.left = left] \in Finds
  <2>1. find[s] \in Finds
    BY <1>2
  <2> QED BY <1>3, <2>1, ZenonT(60) DEF Finds
<1>5. /\ find' \in [Search -> Finds] /\ \A t \in Search \ {s} : find'[t] = find[t]
      /\ find'[s] = [find[s] EXCEPT !.left = left]
  BY <1>2, <1>3, <1>4
<1>6. /\ find'[s].hits = find[s].hits /\ find'[s].files = find[s].files
      /\ find'[s].for = find[s].for /\ find'[s].pc = find[s].pc
      /\ find'[s].name = find[s].name /\ find'[s].left = left
  BY <1>2, <1>5 DEF Finds
<1> QED BY <1>1, <1>5, <1>6 DEF Still, left, Fill

LEMMA InstallMoves ==
  ASSUME IndexTypeOK, NEW s \in Search, Install(s) \/ InstallFails(s)
  PROVE  /\ find' \in [Search -> Finds] /\ Still(s)
         /\ find'[s].name = find[s].name /\ find'[s].hits = find[s].hits
         /\ \/ find'[s].for = "rebuild" /\ find'[s].pc = "done"
            \/ Install(s) /\ find'[s].pc = "query"
            \/ InstallFails(s) /\ find'[s].pc = "scan" /\ find'[s].left = Doc
<1>1. CASE Install(s)
  BY <1>1 DEF Install, Goto, IndexTypeOK, Finds, Working, Still
<1>2. CASE InstallFails(s)
  BY <1>2, ThrownMoves DEF InstallFails, Still
<1> QED BY <1>1, <1>2

LEMMA QueryMoves ==
  ASSUME IndexTypeOK, NEW s \in Search, Query(s), path # NoFile
  PROVE  /\ find' \in [Search -> Finds] /\ Still(s)
         /\ find'[s].name = find[s].name
         /\ find'[s].hits = Matching(content[path])
         /\ \/ find'[s].hits = Empty /\ find'[s].pc = "scan" /\ find'[s].left = Doc
            \/ find'[s].hits # Empty /\ find'[s].pc \in {"browse", "done"}
<1>1. HitsFound(s, Matching(content[path])) /\ Matching(content[path]) \in Listing
  BY ReadsTyped DEF Query, IndexTypeOK
<1> QED BY <1>1, HitsMove DEF Still

LEMMA ReadMoves ==
  ASSUME IndexTypeOK, NEW s \in Search, ReadFile(s)
  PROVE  /\ find' \in [Search -> Finds] /\ Still(s)
         /\ find'[s].name = find[s].name /\ find'[s].pc = find[s].pc
         /\ \E d \in find[s].left :
              /\ find'[s].left = find[s].left \ {d}
              /\ find'[s].hits = [find[s].hits EXCEPT ![d] = Readable(d)]
<1>1. PICK d \in find[s].left :
        find' = [find EXCEPT ![s].left = @ \ {d}, ![s].hits[d] = Readable(d)]
  BY DEF ReadFile
<1>2. find \in [Search -> Finds]
  BY DEF IndexTypeOK, Finds
<1>3. find' = [find EXCEPT ![s] = [find[s] EXCEPT !.left = find[s].left \ {d},
                                                  !.hits = [find[s].hits EXCEPT ![d] = Readable(d)]]]
  BY <1>1, <1>2
<1>4. /\ find[s].left \ {d} \in SUBSET Doc
      /\ [find[s].hits EXCEPT ![d] = Readable(d)] \in Listing
  BY <1>2, ReadsTyped DEF Finds, Listing
<1> DEFINE left == find[s].left \ {d}
           hits == [find[s].hits EXCEPT ![d] = Readable(d)]
<1>5. left \in SUBSET Doc /\ hits \in Listing
  BY <1>4
<1> HIDE DEF left, hits
<1>6. [find[s] EXCEPT !.left = left, !.hits = hits] \in Finds
  <2>1. find[s] \in Finds
    BY <1>2
  <2> QED BY <1>5, <2>1, ZenonT(60) DEF Finds
<1>7. /\ find' \in [Search -> Finds] /\ \A t \in Search \ {s} : find'[t] = find[t]
      /\ find'[s] = [find[s] EXCEPT !.left = left, !.hits = hits]
  BY <1>2, <1>3, <1>6 DEF left, hits
<1>8. /\ find'[s].hits = hits /\ find'[s].files = find[s].files
      /\ find'[s].for = find[s].for /\ find'[s].pc = find[s].pc
      /\ find'[s].name = find[s].name /\ find'[s].left = left
  BY <1>2, <1>7 DEF Finds
<1> QED BY <1>7, <1>8 DEF Still, left, hits

LEMMA EndReadMoves ==
  ASSUME IndexTypeOK, NEW s \in Search, EndRead(s)
  PROVE  /\ find' \in [Search -> Finds] /\ Still(s)
         /\ find'[s].name = find[s].name /\ find'[s].hits = find[s].hits
         /\ \/ find'[s].pc = "done"
            \/ find[s].pc = "scan" /\ find'[s].pc = "browse"
<1>1. CASE find[s].pc = "scan" /\ find[s].for = "browse" /\ find[s].hits # Empty
  <2>1. HitsFound(s, find[s].hits) /\ find[s].hits \in Listing
    BY <1>1 DEF EndRead, IndexTypeOK
  <2> QED BY <1>1, <2>1, HitsMove DEF Still
<1>2. CASE Goto(s, "done")
  <2>1. find \in [Search -> Finds] /\ find' = [find EXCEPT ![s] = [find[s] EXCEPT !.pc = "done"]]
    BY <1>2 DEF Goto, IndexTypeOK, Finds
  <2>2. [find[s] EXCEPT !.pc = "done"] \in Finds
    <3>1. find[s] \in Finds /\ "done" \in {"idle", "done"} \cup Working
      BY <2>1
    <3> QED BY <3>1, ZenonT(60) DEF Finds
  <2>3. /\ find' \in [Search -> Finds] /\ \A t \in Search \ {s} : find'[t] = find[t]
        /\ find'[s] = [find[s] EXCEPT !.pc = "done"]
    BY <2>1, <2>2
  <2>4. /\ find'[s].hits = find[s].hits /\ find'[s].files = find[s].files
        /\ find'[s].for = find[s].for /\ find'[s].pc = "done" /\ find'[s].name = find[s].name
    BY <2>1, <2>3 DEF Finds
  <2> QED BY <2>3, <2>4 DEF Still
<1> QED BY <1>1, <1>2 DEF EndRead

-----------------------------------------------------------------------------
(* The documents: their counts grow, and so do twins and gone.             *)
LEMMA WriteMoves ==
  ASSUME IndexTypeOK, NEW d \in Doc, Write(d) \/ Remove(d)
  PROVE  /\ disk' \in [Doc -> [n : Writes, there : BOOLEAN, stamp : Writes]]
         /\ \A e \in Doc \ {d} : disk'[e] = disk[e]
         /\ disk'[d].n = disk[d].n + 1
         /\ \/ disk'[d].there /\ disk'[d].stamp = disk'[d].n
            \/ d \in twins' /\ disk[d].there /\ disk'[d].there /\ disk'[d].stamp = disk[d].stamp
            \/ d \in gone' /\ ~disk'[d].there /\ disk'[d].stamp = 0
         /\ twins \subseteq twins' /\ gone \subseteq gone'
         /\ twins' \subseteq Doc /\ gone' \subseteq Doc
         /\ UNCHANGED <<path, temp, content, find, floor, clashed>>
<1> DEFINE Docs == [n : Writes, there : BOOLEAN, stamp : Writes]
           n == disk[d].n + 1
<1>1. disk \in [Doc -> Docs] /\ disk[d] \in Docs /\ disk[d].n \in Nat
  BY WritesCount DEF IndexTypeOK
<1>2. n <= MaxWrites[d] /\ n \in Writes /\ 0 \in Writes
  <2>1. n <= MaxWrites[d] /\ n \in Nat /\ MaxWrites[d] \in Nat
    BY <1>1, IndexAssumption DEF Write, Remove, IndexAssumption
  <2> QED BY <2>1, WritesCount
<1>3. CASE disk' = [disk EXCEPT ![d] = [n |-> n, there |-> TRUE, stamp |-> n]] /\ UNCHANGED <<twins, gone>>
  <2>1. [n |-> n, there |-> TRUE, stamp |-> n] \in Docs
    BY <1>2
  <2> QED BY <1>1, <1>3, <2>1 DEF Write, Remove, IndexTypeOK
<1>4. CASE disk[d].there /\ disk' = [disk EXCEPT ![d].n = n] /\ twins' = twins \cup {d} /\ UNCHANGED gone
  <2>1. disk' = [disk EXCEPT ![d] = [disk[d] EXCEPT !.n = n]]
    BY <1>1, <1>4
  <2>2. [disk[d] EXCEPT !.n = n] \in Docs
    BY <1>1, <1>2
  <2>3. /\ disk' \in [Doc -> Docs] /\ \A e \in Doc \ {d} : disk'[e] = disk[e]
        /\ disk'[d] = [disk[d] EXCEPT !.n = n]
    BY <1>1, <2>1, <2>2
  <2>4. disk'[d].n = n /\ disk'[d].there = disk[d].there /\ disk'[d].stamp = disk[d].stamp
    BY <1>1, <2>3
  <2> QED BY <1>4, <2>3, <2>4 DEF Write, Remove, IndexTypeOK
<1>5. CASE disk' = [disk EXCEPT ![d] = [n |-> n, there |-> FALSE, stamp |-> 0]]
           /\ gone' = gone \cup {d} /\ UNCHANGED twins
  <2>1. [n |-> n, there |-> FALSE, stamp |-> 0] \in Docs
    BY <1>2
  <2> QED BY <1>1, <1>5, <2>1 DEF Write, Remove, IndexTypeOK
<1> QED BY <1>3, <1>4, <1>5 DEF Write, Remove

(* What the steps of the searches leave alone.                             *)
LEMMA SearchesKeep ==
  ASSUME NEW s \in Search, SearchStep(s) \/ \E e \in Search : CreateClashes(s, e)
  PROVE  /\ UNCHANGED <<disk, twins, gone>> /\ (clashed => clashed')
         /\ UNCHANGED clashed \/ clashed' = TRUE
         /\ ~Begin(s) => UNCHANGED floor
         /\ \/ UNCHANGED content
            \/ Fill(s)
            \/ content' = [content EXCEPT ![s] = NoRows]
         /\ \/ UNCHANGED <<path, temp>>
            \/ Create(s) \/ Install(s) \/ \E e \in Search : CreateClashes(s, e)
<1>1. CASE Begin(s)
  <2>1. UNCHANGED <<disk, path, temp, content, twins, gone, clashed>>
    BY <1>1, Zenon DEF Begin, history
  <2> QED BY <1>1, <2>1
<1>2. CASE Check(s)
  BY <1>2 DEF Check, history
<1>3. CASE Create(s)
  BY <1>3 DEF Create, history
<1>4. CASE Fill(s)
  BY <1>4 DEF Fill, history
<1>5. CASE Install(s)
  BY <1>5 DEF Install, history
<1>6. CASE InstallFails(s)
  BY <1>6 DEF InstallFails, history
<1>7. CASE Query(s)
  BY <1>7 DEF Query, history
<1>8. CASE ReadFile(s)
  BY <1>8 DEF ReadFile, history
<1>9. CASE EndRead(s)
  BY <1>9 DEF EndRead, history
<1>10. CASE \E e \in Search : CreateClashes(s, e)
  <2>1. UNCHANGED <<disk, twins, gone, floor>> /\ clashed' = TRUE
    BY <1>10, Zenon DEF CreateClashes
  <2>2. UNCHANGED content \/ content' = [content EXCEPT ![s] = NoRows]
    BY <1>10, Zenon DEF CreateClashes
  <2> QED BY <1>10, <2>1, <2>2
<1> QED BY <1>1, <1>2, <1>3, <1>4, <1>5, <1>6, <1>7, <1>8, <1>9, <1>10 DEF SearchStep

LEMMA IndexTyped == IndexInv /\ IndexNext => IndexTypeOK'
<1> SUFFICES ASSUME IndexInv, IndexNext PROVE IndexTypeOK'
  OBVIOUS
<1>1. IndexTypeOK /\ IndexPlaced
  BY DEF IndexInv, IndexPlaced
<1>2. CASE \E d \in Doc : Write(d) \/ Remove(d)
  BY <1>1, <1>2, WriteMoves DEF IndexTypeOK
<1>3. ASSUME NEW s \in Search, SearchStep(s) \/ \E e \in Search : CreateClashes(s, e)
      PROVE  IndexTypeOK'
  <2> USE WritesCount, NothingWritten
  <2>1. UNCHANGED <<disk, twins, gone>> /\ (~Begin(s) => UNCHANGED floor)
    BY <1>3, SearchesKeep
  <2>2. floor' \in [Search -> Listing]
    BY <1>1, <2>1, FloorBegins DEF IndexTypeOK
  <2>3. find' \in [Search -> Finds]
    <3>1. Query(s) => path # NoFile
      BY DEF IndexInv, FloorsBelow, Query
    <3> QED BY <1>1, <1>3, <3>1, BeginMoves, CheckMoves, CreateMoves, ClashMoves, FillMoves,
               InstallMoves, QueryMoves, ReadMoves, EndReadMoves DEF SearchStep
  <2>4. content' \in [Search -> Rows]
    <3>1. CASE UNCHANGED content
      BY <1>1, <3>1 DEF IndexTypeOK
    <3>2. CASE content' = [content EXCEPT ![s] = NoRows]
      BY <1>1, <3>2 DEF IndexTypeOK
    <3>3. CASE Fill(s)
      <4>1. PICK d \in find[s].left :
              content' = [content EXCEPT ![s][d] = [stamp |-> find[s].files[d], body |-> Readable(d)]]
        BY <3>3 DEF Fill
      <4>2. d \in Doc /\ find[s].files[d] \in Writes /\ Readable(d) \in Writes
        BY <1>1, ReadsTyped DEF IndexTypeOK, Listing
      <4> DEFINE row == [stamp |-> find[s].files[d], body |-> Readable(d)]
      <4>3. row \in [stamp : Writes, body : Writes]
        BY <4>2
      <4>4. content' = [content EXCEPT ![s] = [content[s] EXCEPT ![d] = row]]
        BY <1>1, <4>1 DEF IndexTypeOK
      <4> HIDE DEF row
      <4>5. [content[s] EXCEPT ![d] = row] \in Rows
        BY <1>1, <4>2, <4>3 DEF IndexTypeOK, Rows
      <4> QED BY <1>1, <4>4, <4>5 DEF IndexTypeOK
    <3> QED BY <1>3, <3>1, <3>2, <3>3, SearchesKeep
  <2>5. path' \in Search \cup {NoFile} /\ temp' \in [Search -> Search \cup {NoFile}]
    <3>1. \A t \in Search : find[t].name \in Search
      BY <1>1 DEF IndexTypeOK
    <3>2. CASE UNCHANGED <<path, temp>>
      BY <1>1, <3>2 DEF IndexTypeOK
    <3>3. CASE Create(s)
      BY <1>1, <3>3 DEF IndexTypeOK, Create
    <3>4. CASE Install(s)
      BY <1>1, <3>1, <3>4 DEF IndexTypeOK, Install
    <3>5. ASSUME NEW e \in Search, CreateClashes(s, e)
          PROVE  path' \in Search \cup {NoFile} /\ temp' \in [Search -> Search \cup {NoFile}]
      BY <1>1, <3>1, <3>5 DEF IndexTypeOK, CreateClashes
    <3> QED BY <1>3, <3>2, <3>3, <3>4, <3>5, SearchesKeep
  <2>6. clashed' \in BOOLEAN
    BY <1>1, <1>3, SearchesKeep DEF IndexTypeOK
  <2> QED BY <1>1, <2>1, <2>2, <2>3, <2>4, <2>5, <2>6 DEF IndexTypeOK, Finds
<1> QED BY <1>2, <1>3 DEF IndexNext

LEMMA ListsCount ==
  ASSUME IndexTypeOK
  PROVE  /\ \A d \in Doc : disk[d].n \in Nat /\ disk[d].stamp \in Nat
         /\ \A s \in Search, d \in Doc :
              floor[s][d] \in Nat /\ find[s].files[d] \in Nat /\ find[s].hits[d] \in Nat
         /\ \A s \in Search, d \in Doc :
              content[s][d].stamp \in Nat /\ content[s][d].body \in Nat
<1> USE WritesCount
<1>1. \A d \in Doc : disk[d].n \in Nat /\ disk[d].stamp \in Nat
  BY DEF IndexTypeOK
<1>2. find \in [Search -> Finds] /\ floor \in [Search -> Listing] /\ content \in [Search -> Rows]
  BY DEF IndexTypeOK, Finds
<1>3. \A s \in Search : floor[s] \in Listing /\ find[s].files \in Listing /\ find[s].hits \in Listing
  BY <1>2 DEF Finds
<1>4. \A s \in Search : content[s] \in Rows
  BY <1>2
<1> QED BY <1>1, <1>3, <1>4 DEF Listing, Rows

(* Writing and removing documents: what was listed, read or hit is further *)
(* behind, and nothing else changes.                                       *)
LEMMA DocumentsKeep ==
  ASSUME IndexInv, NEW d \in Doc, Write(d) \/ Remove(d)
  PROVE  IndexInv'
<1>1. /\ IndexTypeOK /\ StampsTell /\ ListsBehind /\ FilesInPlace /\ RowsRight
      /\ FloorsBelow /\ FilesWhole /\ HitsFresh /\ HitsThere
  BY DEF IndexInv, IndexPlaced
<1>2. /\ \A e \in Doc \ {d} : disk'[e] = disk[e]
      /\ disk'[d].n = disk[d].n + 1
      /\ \/ disk'[d].there /\ disk'[d].stamp = disk'[d].n
         \/ d \in twins' /\ disk[d].there /\ disk'[d].there /\ disk'[d].stamp = disk[d].stamp
         \/ d \in gone' /\ ~disk'[d].there /\ disk'[d].stamp = 0
      /\ twins \subseteq twins' /\ gone \subseteq gone'
      /\ UNCHANGED <<path, temp, content, find, floor, clashed>>
  BY <1>1, WriteMoves
<1>3. /\ \A e \in Doc : disk[e].n \in Nat /\ disk[e].stamp \in Nat
      /\ \A s \in Search, e \in Doc : floor[s][e] \in Nat /\ find[s].files[e] \in Nat
  BY <1>1, ListsCount
<1>4. IndexTypeOK'
  BY IndexTyped DEF IndexNext
<1>5. StampsTell'
  BY <1>1, <1>2, <1>3 DEF StampsTell
<1>6. ListsBehind'
  BY <1>1, <1>2, <1>3 DEF ListsBehind
<1>7. FilesInPlace'
  BY <1>1, <1>2 DEF FilesInPlace
<1>8. RowsRight'
  BY <1>1, <1>2 DEF RowsRight
<1>9. FloorsBelow'
  BY <1>1, <1>2 DEF FloorsBelow, ListsAbove, Busy
<1>10. FilesWhole'
  BY <1>1, <1>2 DEF FilesWhole, Filled
<1>11. HitsFresh'
  BY <1>1, <1>2 DEF HitsFresh
<1>12. HitsThere'
  BY <1>1, <1>2 DEF HitsThere, Kept
<1> QED BY <1>4, <1>5, <1>6, <1>7, <1>8, <1>9, <1>10, <1>11, <1>12 DEF IndexInv, IndexPlaced

(* What a document that is listed or read is worth.                        *)
LEMMA Listed ==
  ASSUME IndexInv, NEW d \in Doc
  PROVE  /\ Present[d] <= disk[d].n
         /\ d \notin twins /\ Present[d] # 0 => Present[d] = disk[d].n
         /\ d \notin gone /\ disk[d].n # 0 => Present[d] # 0 /\ Readable(d) # Nothing
         /\ Readable(d) # Nothing => Readable(d) = disk[d].n
<1>1. disk[d].n \in Nat /\ disk[d].stamp \in Nat /\ StampsTell
  BY WritesCount DEF IndexInv, IndexPlaced, IndexTypeOK
<1> QED BY <1>1 DEF StampsTell, Present, Readable, Nothing

LEMMA StaysStill ==
  ASSUME IndexInv, NEW s \in Search, SearchStep(s) \/ \E e \in Search : CreateClashes(s, e),
         ~Begin(s)
  PROVE  Still(s) /\ find[s].pc \in Working
<1>1. IndexTypeOK
  BY DEF IndexInv, IndexPlaced
<1>2. Query(s) => path # NoFile
  BY DEF IndexInv, FloorsBelow, Query
<1>3. Still(s)
  BY <1>1, <1>2, CheckMoves, CreateMoves, ClashMoves, FillMoves, InstallMoves, QueryMoves,
     ReadMoves, EndReadMoves DEF SearchStep
<1>4. find[s].pc \in Working
  BY Zenon DEF SearchStep, Check, Create, CreateClashes, Fill, Install, InstallFails, Query, ReadFile,
         EndRead, Working
<1> QED BY <1>3, <1>4

LEMMA ListsStayBehind ==
  ASSUME IndexInv, NEW s \in Search, SearchStep(s) \/ \E e \in Search : CreateClashes(s, e)
  PROVE  StampsTell' /\ ListsBehind'
<1>1. IndexPlaced /\ IndexTypeOK /\ StampsTell /\ ListsBehind
  BY DEF IndexInv, IndexPlaced
<1>2. UNCHANGED <<disk, twins, gone>> /\ (~Begin(s) => UNCHANGED floor)
  BY SearchesKeep
<1>3. CASE Begin(s)
  BY <1>1, <1>2, <1>3, FloorBegins, BeginMoves, Listed DEF StampsTell, ListsBehind
<1>4. CASE ~Begin(s)
  <2>1. Still(s)
    BY <1>4, StaysStill
  <2> QED BY <1>1, <1>2, <1>4, <2>1 DEF StampsTell, ListsBehind, Still
<1> QED BY <1>3, <1>4

LEMMA FilesStayInPlace ==
  ASSUME IndexInv, NEW s \in Search, SearchStep(s) \/ \E e \in Search : CreateClashes(s, e)
  PROVE  FilesInPlace'
<1> USE IndexAssumption DEF IndexAssumption, FilesInPlace
<1>1. IndexPlaced /\ IndexTypeOK /\ FilesInPlace
  BY DEF IndexInv, IndexPlaced
<1>2. /\ path \in Search \cup {NoFile}
      /\ temp \in [Search -> Search \cup {NoFile}]
      /\ content \in [Search -> Rows]
      /\ \A t \in Search : find[t].name \in Search
  BY <1>1 DEF IndexTypeOK
<1>3. CASE Begin(s)
  <2>1. UNCHANGED <<path, temp, content>> /\ find[s].pc = "idle"
    BY <1>3, Zenon DEF Begin
  <2> QED BY <1>1, <1>2, <1>3, <2>1, BeginMoves
<1>4. CASE Check(s)
  <2>1. UNCHANGED <<path, temp, content>> /\ find[s].pc = "check"
    BY <1>4, Zenon DEF Check
  <2> QED BY <1>1, <1>2, <1>4, <2>1, CheckMoves DEF Still
<1>5. CASE Create(s)
  <2>1. /\ UNCHANGED path /\ find[s].pc = "create"
        /\ temp' = [temp EXCEPT ![s] = s] /\ content' = [content EXCEPT ![s] = NoRows]
    BY <1>5, Zenon DEF Create
  <2> QED BY <1>1, <1>2, <1>5, <2>1, CreateMoves DEF Still
<1>6. ASSUME NEW e \in Search, CreateClashes(s, e)
      PROVE  FilesInPlace'
  <2>1. UNCHANGED path /\ find[s].pc = "create" /\ find[e].pc = "fill"
    BY <1>6, Zenon DEF CreateClashes
  <2>2. Still(s) /\ find'[s].hits = find[s].hits
    BY <1>1, <1>6, ClashMoves
  <2>3. CASE /\ find'[s].pc = "fill" /\ find'[s].name = find[e].name
             /\ find'[s].left = {d \in Doc : find[s].files[d] # 0}
             /\ temp' = [temp EXCEPT ![find[e].name] = s]
             /\ content' = [content EXCEPT ![s] = NoRows]
    BY <1>1, <1>2, <2>1, <2>2, <2>3 DEF Still
  <2>4. CASE ~ (find'[s].pc = "fill") /\ UNCHANGED <<content, temp>>
    BY <1>1, <1>2, <1>6, <2>1, <2>2, <2>4, ClashMoves DEF Still
  <2> QED BY <1>1, <1>6, <2>3, <2>4, ClashMoves
<1>7. CASE Fill(s)
  <2>1. UNCHANGED <<path, temp>> /\ find[s].pc = "fill"
    BY <1>7, Zenon DEF Fill
  <2> QED BY <1>1, <1>2, <1>7, <2>1, FillMoves DEF Still
<1>8. CASE Install(s)
  <2>1. /\ UNCHANGED content /\ find[s].pc = "fill" /\ temp[find[s].name] # NoFile
        /\ path' = temp[find[s].name] /\ temp' = [temp EXCEPT ![find[s].name] = NoFile]
    BY <1>8, Zenon DEF Install
  <2>2. /\ Still(s) /\ find'[s].name = find[s].name /\ find'[s].hits = find[s].hits
        /\ find'[s].pc \in {"done", "query"}
    BY <1>1, <1>8, <2>1, InstallMoves DEF InstallFails
  <2> QED BY <1>1, <1>2, <2>1, <2>2 DEF Still
<1>9. CASE InstallFails(s)
  <2>1. UNCHANGED <<path, temp, content>> /\ find[s].pc = "fill" /\ temp[find[s].name] = NoFile
    BY <1>9, Zenon DEF InstallFails
  <2>2. /\ Still(s) /\ find'[s].name = find[s].name /\ find'[s].hits = find[s].hits
        /\ find'[s].pc \in {"done", "scan"}
    BY <1>1, <1>9, <2>1, InstallMoves DEF Install
  <2> QED BY <1>1, <1>2, <2>1, <2>2 DEF Still
<1>10. CASE Query(s)
  <2>1. UNCHANGED <<path, temp, content>> /\ find[s].pc = "query" /\ path # NoFile
    BY <1>10, Zenon DEF Query, IndexInv, FloorsBelow
  <2> QED BY <1>1, <1>2, <1>10, <2>1, QueryMoves DEF Still
<1>11. CASE ReadFile(s)
  <2>1. UNCHANGED <<path, temp, content>> /\ find[s].pc \in {"scan", "browse"}
    BY <1>11, Zenon DEF ReadFile
  <2> QED BY <1>1, <1>2, <1>11, <2>1, ReadMoves DEF Still
<1>12. CASE EndRead(s)
  <2>1. UNCHANGED <<path, temp, content>> /\ find[s].pc \in {"scan", "browse"}
    BY <1>12, Zenon DEF EndRead
  <2> QED BY <1>1, <1>2, <1>12, <2>1, EndReadMoves DEF Still
<1> QED BY <1>3, <1>4, <1>5, <1>6, <1>7, <1>8, <1>9, <1>10, <1>11, <1>12 DEF SearchStep

LEMMA RowsStayRight ==
  ASSUME IndexInv, NEW s \in Search, SearchStep(s) \/ \E e \in Search : CreateClashes(s, e)
  PROVE  RowsRight'
<1>1. IndexPlaced /\ IndexTypeOK /\ FilesInPlace /\ RowsRight /\ ListsBehind
  BY DEF IndexInv, IndexPlaced
<1>2. UNCHANGED <<disk, twins, gone>> /\ content \in [Search -> Rows]
  BY <1>1, SearchesKeep DEF IndexTypeOK
<1>3. CASE Begin(s)
  <2>1. UNCHANGED content /\ content[s] = NoRows
    BY <1>1, <1>3, Zenon DEF Begin, FilesInPlace
  <2> QED BY <1>1, <1>2, <1>3, <2>1, BeginMoves DEF RowsRight, NoRows, Nothing
<1>4. CASE ~Begin(s) /\ UNCHANGED content
  BY <1>1, <1>2, <1>4, StaysStill DEF RowsRight, Still
<1>5. CASE ~Begin(s) /\ content' = [content EXCEPT ![s] = NoRows]
  BY <1>1, <1>2, <1>5, StaysStill DEF RowsRight, Still, NoRows, Nothing
<1>6. CASE Fill(s)
  <2>1. PICK d \in find[s].left :
          content' = [content EXCEPT ![s][d] = [stamp |-> find[s].files[d], body |-> Readable(d)]]
    BY <1>6 DEF Fill
  <2>2. d \in Doc /\ find[s].files[d] # 0 /\ find[s].files[d] <= disk[d].n
    BY <1>1, <1>6 DEF FilesInPlace, ListsBehind, Fill, IndexTypeOK
  <2>3. find[s].files[d] \in Nat /\ disk[d].n \in Nat
    BY <1>1, <2>2, ListsCount
  <2>4. /\ d \notin gone => Readable(d) # Nothing
        /\ Readable(d) # Nothing => Readable(d) = disk[d].n
    BY <2>2, <2>3, Listed
  <2>5. Still(s)
    BY <1>1, <1>6, FillMoves
  <2> DEFINE row == [stamp |-> find[s].files[d], body |-> Readable(d)]
  <2>6. /\ content'[s][d] = row
        /\ \A t \in Search, e \in Doc : t # s \/ e # d => content'[t][e] = content[t][e]
    BY <1>2, <2>1, <2>2 DEF Rows
  <2>7. row.stamp = find[s].files[d] /\ row.body = Readable(d)
    OBVIOUS
  <2> HIDE DEF row
  <2>8. \A t \in Search : find'[t].files = find[t].files
    BY <2>5 DEF Still
  <2>9. SUFFICES ASSUME NEW t \in Search, NEW e \in Doc
                 PROVE  LET r == content'[t][e] IN
                        /\ r.stamp \in {0, find[t].files[e]}
                        /\ r.body # Nothing => r.stamp # 0 /\ r.body >= r.stamp
                        /\ r.stamp # 0 /\ e \notin gone => r.body # Nothing
    BY <1>2, <2>8 DEF RowsRight
  <2>10. CASE t = s /\ e = d
    BY <2>2, <2>3, <2>4, <2>6, <2>7, <2>10
  <2>11. CASE t # s \/ e # d
    BY <1>1, <2>6, <2>11 DEF RowsRight
  <2> QED BY <2>10, <2>11
<1> QED BY <1>3, <1>4, <1>5, <1>6, SearchesKeep

(* Who is under way, and who is about to query.                            *)
LEMMA BusyShrinks ==
  ASSUME IndexInv, NEW s \in Search, SearchStep(s) \/ \E e \in Search : CreateClashes(s, e),
         ~Begin(s)
  PROVE  /\ Busy' \subseteq Busy /\ s \in Busy
         /\ \A t \in Search : find'[t].pc = "query" => find[t].pc = "query" \/ (Install(s) /\ t = s)
         /\ ~Install(s) => UNCHANGED path
<1>1. Still(s) /\ find[s].pc \in Working
  BY StaysStill
<1>2. Busy' \subseteq Busy /\ s \in Busy
  BY <1>1 DEF Still, Busy
<1>3. find'[s].pc = "query" => find[s].pc = "query" \/ Install(s)
  <2>1. IndexTypeOK /\ (Query(s) => path # NoFile)
    BY DEF IndexInv, IndexPlaced, FloorsBelow, Query
  <2> QED BY <2>1, CheckMoves, CreateMoves, ClashMoves, FillMoves, InstallMoves, QueryMoves,
             ReadMoves, EndReadMoves DEF SearchStep
<1>4. ~Install(s) => UNCHANGED path
  <2>1. CASE Create(s)
    BY <2>1 DEF Create
  <2>2. ASSUME NEW e \in Search, CreateClashes(s, e) PROVE UNCHANGED path
    BY <2>2, Zenon DEF CreateClashes
  <2> QED BY <2>1, <2>2, SearchesKeep
<1>5. \A t \in Search : find'[t].pc = "query" => find[t].pc = "query" \/ (Install(s) /\ t = s)
  <2>1. \A t \in Search : t = s \/ find'[t] = find[t]
    BY <1>1 DEF Still
  <2> QED BY <1>3, <2>1, Zenon
<1> QED BY <1>2, <1>4, <1>5

LEMMA FloorsStayBelow ==
  ASSUME IndexInv, NEW s \in Search, SearchStep(s) \/ \E e \in Search : CreateClashes(s, e)
  PROVE  FloorsBelow'
<1>1. IndexPlaced /\ IndexTypeOK /\ FilesInPlace /\ ListsBehind /\ FloorsBelow
  BY DEF IndexInv, IndexPlaced
<1>2. UNCHANGED <<disk, twins, gone>>
  BY SearchesKeep
<1>3. CASE Begin(s)
  <2>1. /\ \A t \in Search \ {s} : find'[t] = find[t] /\ floor'[t] = floor[t]
        /\ find'[s].files = Present /\ find'[s].pc # "query"
        /\ \A d \in Doc : /\ floor'[s][d] <= disk[d].n
                          /\ \A e \in Busy : floor'[s][d] <= floor[e][d]
    BY <1>1, <1>3, BeginMoves, FloorBegins
  <2>2. UNCHANGED path /\ find[s].pc = "idle"
    BY <1>3, Zenon DEF Begin
  <2>3. /\ \A d \in Doc : disk[d].n \in Nat /\ Present[d] \in Nat
        /\ \A d \in Doc : floor'[s][d] \in Nat
        /\ \A t \in Search, d \in Doc : floor[t][d] \in Nat /\ find[t].files[d] \in Nat
    <3>1. floor' \in [Search -> Listing] /\ Present \in Listing
      BY <1>1, <1>3, FloorBegins, ReadsTyped
    <3> QED BY <1>1, <3>1, ListsCount, WritesCount DEF Listing
  <2>4. ASSUME NEW t \in Busy \cup {s} PROVE ListsAbove(s, t)'
    <3>1. \A d \in Doc : floor'[t][d] <= disk[d].n /\ floor'[t][d] \in Nat
      BY <1>1, <2>1, <2>3, <2>4 DEF ListsBehind, Busy
    <3> QED BY <1>2, <2>1, <2>3, <3>1, Listed DEF ListsAbove
  <2>5. ASSUME NEW t \in Busy \ {s} PROVE ListsAbove(t, s)'
    <3>1. ListsAbove(t, t) /\ find'[t] = find[t] /\ t \in Search
      BY <1>1, <2>1, <2>5 DEF FloorsBelow, Busy
    <3> QED BY <1>2, <2>1, <2>3, <2>5, <3>1 DEF ListsAbove
  <2>6. ASSUME NEW t \in Search \ {s}, NEW e \in Search \ {s}, ListsAbove(t, e)
        PROVE  ListsAbove(t, e)'
    BY <1>2, <2>1, <2>6 DEF ListsAbove
  <2>7. Busy' \subseteq Busy \cup {s} /\ s \notin Busy
    BY <2>1, <2>2 DEF Busy, Working
  <2>8. \A t, e \in Busy' : ListsAbove(e, t)'
    <3> SUFFICES ASSUME NEW t \in Busy', NEW e \in Busy' PROVE ListsAbove(e, t)'
      OBVIOUS
    <3>1. t \in Search /\ e \in Search
      BY DEF Busy
    <3>2. CASE e = s
      BY <2>4, <2>7, <3>2
    <3>3. CASE e # s /\ t = s
      BY <2>5, <2>7, <3>3
    <3>4. CASE e # s /\ t # s
      BY <1>1, <2>6, <2>7, <3>1, <3>4 DEF FloorsBelow
    <3> QED BY <3>2, <3>3, <3>4
  <2>9. ASSUME NEW t \in Search, find'[t].pc = "query"
        PROVE  path' # NoFile /\ \E b \in Search : b = path' /\ ListsAbove(b, t)'
    <3>1. t # s /\ find[t].pc = "query" /\ path # NoFile /\ ListsAbove(path, t)
      BY <1>1, <2>1, <2>9 DEF FloorsBelow
    <3>2. path \in Search \ {s}
      BY <1>1, <2>2, <3>1 DEF FilesInPlace, IndexTypeOK
    <3> QED BY <1>1, <2>2, <2>6, <3>1, <3>2
  <2> QED BY <2>8, <2>9 DEF FloorsBelow, ListsAbove
<1>4. CASE ~Begin(s)
  <2>1. Still(s) /\ UNCHANGED floor
    BY <1>4, StaysStill, SearchesKeep
  <2>2. ASSUME NEW t \in Search, NEW e \in Search, ListsAbove(t, e) PROVE ListsAbove(t, e)'
    BY <1>2, <2>1, <2>2 DEF ListsAbove, Still
  <2>3. Busy' \subseteq Busy /\ Busy \subseteq Search /\ s \in Busy
    BY <1>4, BusyShrinks DEF Busy
  <2>4. ASSUME NEW t \in Search, find'[t].pc = "query"
        PROVE  path' # NoFile /\ path' \in Search /\ ListsAbove(path', t)
    <3>1. CASE ~Install(s)
      BY <1>1, <1>4, <2>4, <3>1, BusyShrinks DEF FloorsBelow, IndexTypeOK
    <3>2. CASE Install(s)
      <4>1. path' = temp[find[s].name] /\ path' # NoFile
        BY <3>2, Zenon DEF Install
      <4>2. find[s].name \in Search /\ temp[find[s].name] \in Search
        BY <1>1, <4>1 DEF IndexTypeOK
      <4>3. path' \in Busy
        BY <1>1, <4>1, <4>2 DEF FilesInPlace, Busy, Working
      <4>4. t \in Busy
        BY <1>4, <2>3, <2>4, BusyShrinks DEF Busy, Working
      <4> QED BY <1>1, <4>1, <4>2, <4>3, <4>4 DEF FloorsBelow
    <3> QED BY <3>1, <3>2
  <2>5. \A t, e \in Busy' : ListsAbove(e, t)'
    BY <1>1, <2>2, <2>3 DEF FloorsBelow
  <2>6. \A t \in Search : find'[t].pc = "query" =>
          path' # NoFile /\ \E b \in Search : b = path' /\ ListsAbove(b, t)'
    BY <2>2, <2>4
  <2> QED BY <2>5, <2>6 DEF FloorsBelow, ListsAbove
<1> QED BY <1>3, <1>4

LEMMA FilesStayWhole ==
  ASSUME IndexInv, NEW s \in Search, SearchStep(s) \/ \E e \in Search : CreateClashes(s, e)
  PROVE  FilesWhole'
<1> SUFFICES ASSUME ~clashed' PROVE FilesWhole'
  BY DEF FilesWhole
<1> USE DEF Filled
<1>1. /\ IndexPlaced /\ IndexTypeOK /\ FilesInPlace /\ NoFile \notin Search
      /\ ~clashed /\ FilesWhole /\ SearchStep(s)
  <2>1. SearchStep(s)
    BY Zenon DEF CreateClashes
  <2>2. ~clashed
    BY SearchesKeep
  <2> QED BY <2>1, <2>2, IndexAssumption DEF IndexInv, IndexPlaced, IndexAssumption
<1>2. /\ path \in Search \cup {NoFile} /\ content \in [Search -> Rows]
      /\ temp \in [Search -> Search \cup {NoFile}]
  BY <1>1 DEF IndexTypeOK
<1>3. CASE Begin(s)
  <2>1. UNCHANGED <<path, temp, content>> /\ find[s].pc = "idle"
    BY <1>3, Zenon DEF Begin
  <2>2. path # s
    BY <1>1, <2>1 DEF FilesInPlace
  <2> QED BY <1>1, <1>2, <1>3, <2>1, <2>2, BeginMoves DEF FilesWhole
<1>4. CASE Create(s)
  <2>1. UNCHANGED path /\ find[s].pc = "create" /\ content' = [content EXCEPT ![s] = NoRows]
    BY <1>4, Zenon DEF Create
  <2>2. path # s
    BY <1>1, <2>1 DEF FilesInPlace
  <2>3. \A t \in Search \ {s} : content'[t] = content[t]
    BY <1>2, <2>1
  <2> QED BY <1>1, <1>2, <1>4, <2>1, <2>2, <2>3, CreateMoves DEF FilesWhole, Still
<1>5. CASE Fill(s)
  <2>1. UNCHANGED path /\ find[s].pc = "fill"
    BY <1>5, Zenon DEF Fill
  <2>2. PICK d \in find[s].left :
          /\ find'[s].left = find[s].left \ {d}
          /\ content' = [content EXCEPT ![s][d] = [stamp |-> find[s].files[d], body |-> Readable(d)]]
    BY <1>1, <1>5, FillMoves
  <2>3. d \in Doc /\ find[s].files[d] # 0
    BY <1>1, <2>1, <2>2 DEF FilesInPlace, IndexTypeOK
  <2>4. /\ content'[s][d].stamp = find[s].files[d]
        /\ \A t \in Search, e \in Doc : t # s \/ e # d => content'[t][e] = content[t][e]
    BY <1>2, <2>2, <2>3 DEF Rows
  <2>5. /\ \A t \in Search : find'[t].files = find[t].files /\ find'[t].name = find[t].name
        /\ \A t \in Search \ {s} : find'[t] = find[t]
    BY <1>1, <1>5, FillMoves DEF Still
  <2>6. \A t \in Search, e \in Doc :
          (find[t].files[e] # 0 => content[t][e].stamp # 0) =>
            (find'[t].files[e] # 0 => content'[t][e].stamp # 0)
    BY <2>3, <2>4, <2>5
  <2> QED BY <1>1, <1>2, <2>1, <2>2, <2>3, <2>4, <2>5, <2>6 DEF FilesWhole
<1>6. CASE Install(s)
  <2>1. /\ UNCHANGED content /\ find[s].pc = "fill" /\ find[s].left = {}
        /\ path' = temp[find[s].name] /\ temp[find[s].name] # NoFile
    BY <1>6, Zenon DEF Install
  <2>2. path' = s
    BY <1>1, <1>2, <2>1 DEF FilesWhole, FilesInPlace
  <2>3. Still(s) /\ find'[s].name = find[s].name /\ find'[s].pc # "fill"
    BY <1>1, <1>6, <2>1, InstallMoves DEF InstallFails
  <2> QED BY <1>1, <2>1, <2>2, <2>3 DEF FilesWhole, Still
<1>7. CASE ~Begin(s) /\ ~Create(s) /\ ~Fill(s) /\ ~Install(s)
  <2>1. UNCHANGED <<path, content>>
    BY <1>1, <1>7, Zenon DEF SearchStep, Check, InstallFails, Query, ReadFile, EndRead
  <2>2. Still(s) /\ find'[s].name = find[s].name /\ find'[s].pc # "fill"
    <3>1. (Query(s) => path # NoFile) /\ (InstallFails(s) => ~Install(s))
      BY DEF IndexInv, FloorsBelow, Query, Install, InstallFails
    <3>2. ReadFile(s) => find[s].pc # "fill"
      BY DEF ReadFile
    <3> QED BY <1>1, <1>7, <3>1, <3>2, CheckMoves, InstallMoves, QueryMoves, ReadMoves, EndReadMoves
        DEF SearchStep
  <2> QED BY <1>1, <1>2, <2>1, <2>2 DEF FilesWhole, Still
<1> QED BY <1>3, <1>4, <1>5, <1>6, <1>7

(* What is hit at the end of a check, of a query and of a reading.         *)
LEMMA HitsStayFresh ==
  ASSUME IndexInv, NEW s \in Search, SearchStep(s) \/ \E e \in Search : CreateClashes(s, e)
  PROVE  HitsFresh'
<1>1. /\ IndexPlaced /\ IndexTypeOK /\ FilesInPlace /\ ListsBehind /\ FloorsBelow
      /\ RowsRight /\ HitsFresh
  BY DEF IndexInv, IndexPlaced
<1>2. /\ UNCHANGED <<disk, twins, gone>>
      /\ \A t \in Search \ {s} : find'[t] = find[t] /\ floor'[t] = floor[t]
  BY <1>1, SearchesKeep, BeginMoves, FloorBegins, StaysStill DEF Still
<1>3. SUFFICES ASSUME NEW d \in Doc \ twins, find'[s].hits[d] # Nothing
               PROVE  find'[s].hits[d] >= floor'[s][d]
  BY <1>1, <1>2 DEF HitsFresh
<1>4. CASE Begin(s)
  <2>1. find[s].pc = "idle"
    BY <1>4, Zenon DEF Begin
  <2>2. find[s].hits = Empty /\ find'[s].hits = find[s].hits
    BY <1>1, <1>4, <2>1, BeginMoves DEF FilesInPlace
  <2> QED BY <1>3, <2>2 DEF Empty, Nothing
<1>5. ASSUME ~Begin(s) PROVE UNCHANGED floor /\ s \in Busy /\ ListsAbove(s, s)
  BY <1>1, <1>5, SearchesKeep, BusyShrinks DEF FloorsBelow
<1>6. CASE ~Begin(s) /\ find'[s].hits = find[s].hits
  BY <1>1, <1>3, <1>5, <1>6 DEF HitsFresh
<1>7. ASSUME NEW b \in Search, ListsAbove(b, s), find'[s].hits = Matching(content[b]), ~Begin(s)
      PROVE  find'[s].hits[d] >= floor'[s][d]
  <2>1. find'[s].hits[d] = content[b][d].body
    BY <1>7 DEF Matching
  <2>2. /\ content[b][d].stamp = find[b].files[d] /\ find[b].files[d] # 0
        /\ content[b][d].body >= find[b].files[d]
    BY <1>1, <1>3, <2>1 DEF RowsRight
  <2>3. find[b].files[d] >= floor[s][d]
    BY <1>7, <2>2 DEF ListsAbove
  <2>4. /\ content[b][d].body \in Nat /\ find[b].files[d] \in Nat /\ floor[s][d] \in Nat
    BY <1>1, ListsCount
  <2> QED BY <1>5, <1>7, <2>1, <2>2, <2>3, <2>4
<1>8. CASE Check(s) /\ find'[s].hits # find[s].hits
  <2>1. ~Begin(s)
    BY <1>8 DEF Check, Begin
  <2>2. /\ path \in Search /\ Fresh(content[path], find[s].files)
        /\ find'[s].hits = Matching(content[path])
    BY <1>1, <1>8, CheckMoves DEF IndexTypeOK
  <2>3. content[path][d].stamp = find[s].files[d] /\ find'[s].hits[d] = content[path][d].body
    BY <2>2 DEF Fresh, Matching
  <2>4. content[path][d].body >= find[s].files[d] /\ find[s].files[d] # 0
    BY <1>1, <1>3, <2>2, <2>3 DEF RowsRight
  <2>5. find[s].files[d] >= floor[s][d]
    BY <1>5, <2>1, <2>4 DEF ListsAbove
  <2>6. content[path][d].body \in Nat /\ find[s].files[d] \in Nat /\ floor[s][d] \in Nat
    BY <1>1, <2>2, ListsCount
  <2> QED BY <1>5, <2>1, <2>3, <2>4, <2>5, <2>6
<1>9. CASE Query(s)
  <2>1. path \in Search /\ ListsAbove(path, s) /\ ~Begin(s) /\ path # NoFile
    BY <1>1, <1>9 DEF FloorsBelow, Query, Begin, IndexTypeOK
  <2> QED BY <1>1, <1>7, <1>9, <2>1, QueryMoves
<1>10. CASE ReadFile(s)
  <2>1. ~Begin(s)
    BY <1>10, Zenon DEF ReadFile, Begin
  <2>2. PICK e \in find[s].left : find'[s].hits = [find[s].hits EXCEPT ![e] = Readable(e)]
    BY <1>1, <1>10, ReadMoves
  <2>3. find[s].hits \in Listing
    BY <1>1 DEF IndexTypeOK
  <2>4. CASE e = d
    <3>1. find'[s].hits[d] = disk[d].n
      BY <1>3, <2>2, <2>3, <2>4, Listed DEF Listing
    <3>2. floor[s][d] <= disk[d].n /\ floor[s][d] \in Nat /\ disk[d].n \in Nat
      BY <1>1, ListsCount DEF ListsBehind
    <3> QED BY <1>5, <2>1, <3>1, <3>2
  <2>5. CASE e # d
    BY <1>1, <1>3, <1>5, <2>1, <2>2, <2>3, <2>5 DEF HitsFresh, Listing
  <2> QED BY <2>4, <2>5
<1>11. CASE ~Begin(s) /\ ~Check(s) /\ ~Query(s) /\ ~ReadFile(s)
  BY <1>1, <1>6, <1>11, CreateMoves, ClashMoves, FillMoves, InstallMoves, EndReadMoves
  DEF SearchStep
<1>12. CASE Check(s) /\ find'[s].hits = find[s].hits
  <2>1. ~Begin(s)
    BY <1>12, Zenon DEF Check, Begin
  <2> QED BY <1>6, <1>12, <2>1
<1> QED BY <1>4, <1>8, <1>9, <1>10, <1>11, <1>12

LEMMA HitsStayThere ==
  ASSUME IndexInv, NEW s \in Search, SearchStep(s) \/ \E e \in Search : CreateClashes(s, e)
  PROVE  HitsThere'
<1>1. /\ IndexPlaced /\ IndexTypeOK /\ FilesInPlace /\ ListsBehind /\ FloorsBelow
      /\ RowsRight /\ HitsThere /\ FilesWhole
  BY DEF IndexInv, IndexPlaced
<1>2. /\ UNCHANGED <<disk, twins, gone>>
      /\ \A t \in Search \ {s} : find'[t] = find[t] /\ floor'[t] = floor[t]
  BY <1>1, SearchesKeep, BeginMoves, FloorBegins, StaysStill DEF Still
<1>3. SUFFICES ASSUME ~clashed', NEW d \in Doc, Kept(s, d)', find'[s].hits[d] = Nothing
               PROVE  /\ find'[s].pc = "scan" => d \in find'[s].left
                      /\ find'[s].pc # "browse"
                      /\ find'[s].pc = "done" => find'[s].for = "rebuild"
  <2>1. clashed => clashed'
    BY SearchesKeep
  <2> QED BY <1>1, <1>2, <1>3, <2>1 DEF HitsThere, Kept
<1>4. ~clashed /\ SearchStep(s) /\ d \notin gone
  <2>1. SearchStep(s)
    BY <1>3, Zenon DEF CreateClashes
  <2> QED BY <1>2, <1>3, <2>1, SearchesKeep DEF Kept
<1>5. CASE Begin(s)
  BY <1>1, <1>5, BeginMoves
<1>6. ASSUME ~Begin(s) PROVE Kept(s, d) /\ floor[s][d] # 0 /\ s \in Busy /\ ListsAbove(s, s)
  BY <1>1, <1>2, <1>3, <1>6, SearchesKeep, BusyShrinks DEF FloorsBelow, Kept
<1>7. ASSUME NEW b \in Search, content[b][d].stamp # 0 PROVE Matching(content[b])[d] # Nothing
  BY <1>1, <1>4, <1>7 DEF RowsRight, Matching
<1>8. CASE Check(s)
  <2>1. ~Begin(s) /\ find[s].files[d] # 0
    <3>1. ~Begin(s)
      BY <1>8 DEF Check, Begin
    <3> QED BY <1>4, <1>6, <3>1 DEF ListsAbove
  <2>2. Fresh(content[path], find[s].files) /\ path \in Search => Matching(content[path])[d] # Nothing
    BY <1>7, <2>1 DEF Fresh
  <2> QED BY <1>1, <1>3, <1>8, <2>2, CheckMoves DEF IndexTypeOK
<1>9. CASE Query(s)
  <2>1. path \in Search /\ ListsAbove(path, s) /\ ~Begin(s) /\ path # NoFile
    BY <1>1, <1>9 DEF FloorsBelow, Query, Begin, IndexTypeOK
  <2>2. find[path].files[d] # 0
    BY <1>4, <1>6, <2>1 DEF ListsAbove
  <2>3. content[path][d].stamp # 0
    BY <1>1, <1>4, <2>1, <2>2 DEF FilesWhole, Filled
  <2> QED BY <1>1, <1>3, <1>7, <1>9, <2>1, <2>3, QueryMoves
<1>10. CASE ReadFile(s)
  <2>1. ~Begin(s) /\ find[s].pc \in {"scan", "browse"}
    BY <1>10, Zenon DEF ReadFile, Begin
  <2>2. PICK e \in find[s].left :
          /\ find'[s].left = find[s].left \ {e}
          /\ find'[s].hits = [find[s].hits EXCEPT ![e] = Readable(e)]
    BY <1>1, <1>10, ReadMoves
  <2>3. find[s].hits \in Listing
    BY <1>1 DEF IndexTypeOK
  <2>4. e # d
    <3>1. floor[s][d] <= disk[d].n /\ floor[s][d] \in Nat /\ disk[d].n \in Nat
      BY <1>1, ListsCount DEF ListsBehind
    <3>2. Readable(d) # Nothing
      BY <1>4, <1>6, <2>1, <3>1, Listed
    <3> QED BY <1>3, <2>2, <2>3, <3>2 DEF Listing
  <2>5. find[s].hits[d] = Nothing
    BY <1>3, <2>2, <2>3, <2>4 DEF Listing
  <2>6. find'[s].pc = find[s].pc
    BY <1>1, <1>10, ReadMoves
  <2> QED BY <1>1, <1>4, <1>6, <2>1, <2>2, <2>4, <2>5, <2>6 DEF HitsThere
<1>11. CASE EndRead(s)
  <2>1. ~Begin(s) /\ find[s].pc \in {"scan", "browse"} /\ find[s].left = {}
    BY <1>11, Zenon DEF EndRead, Begin
  <2>2. find'[s].hits = find[s].hits
    BY <1>1, <1>11, EndReadMoves
  <2> QED BY <1>1, <1>3, <1>4, <1>6, <2>1, <2>2 DEF HitsThere
<1>12. CASE Create(s) \/ Fill(s) \/ Install(s) \/ InstallFails(s)
  BY <1>1, <1>12, CreateMoves, FillMoves, InstallMoves
<1> QED BY <1>4, <1>5, <1>8, <1>9, <1>10, <1>11, <1>12 DEF SearchStep

LEMMA IndexKept == IndexInv /\ [IndexNext]_indexVars => IndexInv'
<1> SUFFICES ASSUME IndexInv, [IndexNext]_indexVars PROVE IndexInv'
  OBVIOUS
<1>1. CASE \E d \in Doc : Write(d) \/ Remove(d)
  BY <1>1, DocumentsKeep
<1>2. ASSUME NEW s \in Search, SearchStep(s) \/ \E e \in Search : CreateClashes(s, e)
      PROVE  IndexInv'
  <2>1. IndexNext
    BY <1>2 DEF IndexNext
  <2> QED BY <1>2, <2>1, IndexTyped, ListsStayBehind, FilesStayInPlace, RowsStayRight,
             FloorsStayBelow, FilesStayWhole, HitsStayFresh, HitsStayThere DEF IndexInv, IndexPlaced
<1>3. CASE UNCHANGED indexVars
  <2> USE <1>3 DEF indexVars, IndexInv, IndexPlaced
  <2>1. IndexTypeOK' /\ StampsTell' /\ ListsBehind' /\ FilesInPlace' /\ RowsRight'
    BY DEF IndexTypeOK, StampsTell, ListsBehind, FilesInPlace, RowsRight
  <2>2. FloorsBelow' /\ FilesWhole' /\ HitsFresh' /\ HitsThere'
    BY DEF FloorsBelow, ListsAbove, Busy, FilesWhole, Filled, HitsFresh, HitsThere, Kept
  <2> QED BY <2>1, <2>2
<1> QED BY <1>1, <1>2, <1>3 DEF IndexNext

LEMMA SearchesTell == IndexInv => SearchTellsTheTruth
<1> SUFFICES ASSUME IndexInv PROVE SearchTellsTheTruth
  OBVIOUS
<1>1. NothingStale
  BY DEF IndexInv, HitsFresh, NothingStale
<1>2. NothingMissed
  BY DEF IndexInv, HitsThere, NothingMissed
<1> QED BY <1>1, <1>2 DEF SearchTellsTheTruth

-----------------------------------------------------------------------------
(* The screen.                                                             *)

(* What a fan-out and an action are in.                                    *)
Fans == [pc : {"idle", "asked", "read", "stalled"}, list : SUBSET Approval,
         known : BOOLEAN, healthy : BOOLEAN]
Acts == [pc : {"idle", "sent", "stalled", "done", "refused", "done_shown", "refused_shown"},
         of : Approval \cup {NoApproval}, way : {"dialog", "sheet", "button"}]
Dialogs == [of : Approval \cup {NoApproval}, submitting : BOOLEAN]

LEMMA FansSet ==
  ASSUME NEW f \in Fans, NEW list \in SUBSET Approval
  PROVE  [f EXCEPT !.pc = "read", !.list = list] \in Fans
BY ZenonT(30) DEF Fans

LEMMA ActsSet ==
  ASSUME NEW x \in Acts, NEW a \in Approval \cup {NoApproval},
         NEW pc \in {"sent", "stalled", "done", "refused", "done_shown", "refused_shown"},
         NEW way \in {"dialog", "sheet", "button"}
  PROVE  /\ Unused \in Acts /\ [x EXCEPT !.pc = pc] \in Acts
         /\ [pc |-> "sent", of |-> a, way |-> way] \in Acts
BY DEF Acts, Unused

LEMMA DialogsSet ==
  ASSUME NEW y \in Dialogs, NEW submitting \in BOOLEAN
  PROVE  /\ Closed \in Dialogs /\ \A a \in Approval : [Closed EXCEPT !.of = a] \in Dialogs
         /\ [y EXCEPT !.submitting = submitting] \in Dialogs
BY DEF Dialogs, Closed

LEMMA ScreenTyped == DashboardTypeOK /\ [DashboardNext]_dashboardVars => DashboardTypeOK'
<1> SUFFICES ASSUME DashboardTypeOK, [DashboardNext]_dashboardVars PROVE DashboardTypeOK'
  OBVIOUS
<1> USE DashboardAssumption DEF DashboardAssumption, serverVars
<1>1. /\ stage \in [Approval -> {"unfiled", "pending", "decided"}]
      /\ late \subseteq Approval /\ screen \subseteq Approval /\ error \in BOOLEAN
      /\ fan \in [Fan -> Fans] /\ act \in [Action -> Acts] /\ dialog \in Dialogs
      /\ stalls \in 0 .. MaxStalls
  BY DEF DashboardTypeOK, Fans, Acts, Dialogs
<1>2. SUFFICES /\ stage' \in [Approval -> {"unfiled", "pending", "decided"}]
               /\ late' \subseteq Approval /\ screen' \subseteq Approval /\ error' \in BOOLEAN
               /\ fan' \in [Fan -> Fans] /\ act' \in [Action -> Acts] /\ dialog' \in Dialogs
               /\ stalls' \in 0 .. MaxStalls
  BY DEF DashboardTypeOK, Fans, Acts, Dialogs
<1>3. ASSUME Stalls PROVE stalls' \in 0 .. MaxStalls
  BY <1>1, <1>3 DEF Stalls
<1>4. ASSUME NEW a \in Approval, File(a) \/ DecideElsewhere(a) \/ ServeLate(a)
      PROVE  <1>2!1
  BY <1>1, <1>4 DEF File, DecideElsewhere, ServeLate, Decide
<1>5. ASSUME NEW a \in Approval, Open(a) PROVE <1>2!1
  BY <1>1, <1>5, DialogsSet DEF Open
<1>6. CASE Tick
  <2>1. "tick" \in Fan /\ fan' = [fan EXCEPT !["tick"] = [Idle EXCEPT !.pc = "asked"]]
    BY <1>6 DEF Tick, Ask, Fan
  <2>2. [Idle EXCEPT !.pc = "asked"] \in Fans
    BY DEF Fans, Idle
  <2>3. fan' \in [Fan -> Fans]
    BY <1>1, <2>1, <2>2
  <2> QED BY <1>1, <1>6, <2>3 DEF Tick
<1>7. CASE Dismiss
  BY <1>1, <1>7, DialogsSet DEF Dismiss
<1>8. ASSUME NEW f \in Fan, Read(f) PROVE <1>2!1
  <2>1. Pending \in SUBSET Approval
    BY DEF Pending
  <2>2. fan' = [fan EXCEPT ![f] = [fan[f] EXCEPT !.pc = "read", !.list = Pending]]
    BY <1>1, <1>8 DEF Read
  <2>3. [fan[f] EXCEPT !.pc = "read", !.list = Pending] \in Fans
    <3>1. fan[f] \in Fans
      BY <1>1
    <3> QED BY <2>1, <3>1, FansSet, Zenon
  <2>4. fan' \in [Fan -> Fans]
    BY <1>1, <2>2, <2>3
  <2> QED BY <1>1, <1>8, <2>4 DEF Read
<1>9. ASSUME NEW f \in Fan, Apply(f) PROVE <1>2!1
  <2>1. fan[f].list \subseteq Approval /\ fan[f].healthy \in BOOLEAN
    BY <1>1 DEF Fans
  <2>2. Idle \in Fans
    BY DEF Fans, Idle
  <2>3. fan' \in [Fan -> Fans]
    BY <1>1, <1>9, <2>2 DEF Apply
  <2> QED BY <1>1, <1>9, <2>1, <2>3 DEF Apply
<1>10. ASSUME NEW f \in Fan, Stall(f) PROVE <1>2!1
  <2>1. PICK known \in BOOLEAN, healthy \in BOOLEAN :
          fan' = [fan EXCEPT ![f] = [pc |-> "stalled", known |-> known, healthy |-> healthy,
                                     list |-> IF known THEN fan[f].list ELSE {}]]
    BY <1>10 DEF Stall
  <2>2. fan[f].list \in SUBSET Approval
    BY <1>1 DEF Fans
  <2> DEFINE list == IF known THEN fan[f].list ELSE {}
             stalled == [pc |-> "stalled", known |-> known, healthy |-> healthy, list |-> list]
  <2>3. stalled \in Fans
    <3>1. fan[f] \in Fans /\ list \in SUBSET Approval
      BY <1>1, <2>2
    <3> HIDE DEF list
    <3> QED BY <3>1 DEF Fans
  <2> HIDE DEF stalled
  <2>4. fan' \in [Fan -> Fans]
    BY <1>1, <2>1, <2>3 DEF stalled
  <2> QED BY <1>1, <1>3, <1>10, <2>4 DEF Stall
<1>11. ASSUME NEW x \in Action, Submit(x) PROVE <1>2!1
  <2>1. dialog.of \in Approval \cup {NoApproval}
    BY <1>1 DEF Dialogs
  <2> QED BY <1>1, <1>11, <2>1, ActsSet, DialogsSet DEF Submit, Send
<1>12. ASSUME NEW x \in Action, Press(x) PROVE <1>2!1
  BY <1>1, <1>12, ActsSet DEF Press, Send
<1>13. ASSUME NEW x \in Action, NEW a \in Approval, Tap(x, a) PROVE <1>2!1
  BY <1>1, <1>13, ActsSet DEF Tap, Send
<1>14. ASSUME NEW x \in Action, Serve(x) PROVE <1>2!1
  <2> DEFINE pc == IF act[x].of = NoApproval \/ stage[act[x].of] = "pending"
                   THEN "done" ELSE "refused"
  <2>1. act' = [act EXCEPT ![x] = [act[x] EXCEPT !.pc = pc]] /\ act[x].of \in Approval \cup {NoApproval}
    BY <1>1, <1>14 DEF Serve, Acts
  <2>2. pc \in {"done", "refused"}
    OBVIOUS
  <2> HIDE DEF pc
  <2>3. act' \in [Action -> Acts]
    BY <1>1, <2>1, <2>2, ActsSet
  <2> QED BY <1>1, <1>14, <2>1, <2>3 DEF Serve, Decide
<1>15. ASSUME NEW x \in Action, StallPost(x) PROVE <1>2!1
  <2>1. /\ act' = [act EXCEPT ![x] = [act[x] EXCEPT !.pc = "stalled"]]
        /\ act[x].of \in Approval \cup {NoApproval}
    BY <1>1, <1>15 DEF StallPost, Acts
  <2>2. act' \in [Action -> Acts]
    BY <1>1, <2>1, ActsSet
  <2> QED BY <1>1, <1>3, <1>15, <2>1, <2>2 DEF StallPost
<1>16. ASSUME NEW x \in Action, PostTimesOut(x) PROVE <1>2!1
  <2>1. act' = [act EXCEPT ![x] = [act[x] EXCEPT !.pc = "refused"]]
    BY <1>1, <1>16 DEF PostTimesOut
  <2>2. act' \in [Action -> Acts]
    BY <1>1, <2>1, ActsSet
  <2> QED BY <1>1, <1>16, <2>2 DEF PostTimesOut
<1>17. ASSUME NEW x \in Action, Refresh(x) PROVE <1>2!1
  <2> DEFINE pc == IF act[x].pc = "done" THEN "done_shown" ELSE "refused_shown"
  <2>1. act' = [act EXCEPT ![x] = [act[x] EXCEPT !.pc = pc]]
    BY <1>1, <1>17 DEF Refresh, Acts
  <2>2. pc \in {"done_shown", "refused_shown"} /\ x \in Fan
    BY DEF Fan
  <2> HIDE DEF pc
  <2>3. act' \in [Action -> Acts]
    BY <1>1, <2>1, <2>2, ActsSet
  <2>4. [Idle EXCEPT !.pc = "asked"] \in Fans
    BY DEF Fans, Idle
  <2>5. fan' \in [Fan -> Fans]
    BY <1>1, <1>17, <2>2, <2>4 DEF Refresh, Ask
  <2> QED BY <1>1, <1>17, <2>3, <2>5 DEF Refresh
<1>18. ASSUME NEW x \in Action, Finish(x) PROVE <1>2!1
  <2>1. dialog' \in {dialog, Closed, [dialog EXCEPT !.submitting = FALSE]}
    BY <1>18 DEF Finish
  <2> QED BY <1>1, <1>18, <2>1, ActsSet, DialogsSet DEF Finish
<1>19. CASE UNCHANGED dashboardVars
  BY <1>1, <1>19 DEF dashboardVars
<1> QED BY <1>4, <1>5, <1>6, <1>7, <1>8, <1>9, <1>10, <1>11, <1>12, <1>13, <1>14, <1>15, <1>16,
           <1>17, <1>18, <1>19 DEF DashboardNext, FanStep, ActionStep

LEMMA ScreenBegins == DashboardInit => DashboardTypeOK
<1> SUFFICES ASSUME DashboardInit PROVE DashboardTypeOK
  OBVIOUS
<1>1. fan \in [Fan -> Fans] /\ act \in [Action -> Acts] /\ dialog \in Dialogs
  <2>1. Idle \in Fans /\ Unused \in Acts /\ Closed \in Dialogs
    BY DEF Fans, Idle, Acts, Unused, Dialogs, Closed
  <2> QED BY <2>1 DEF DashboardInit
<1>2. 0 \in 0 .. MaxStalls
  BY DashboardAssumption DEF DashboardAssumption
<1> QED BY <1>1, <1>2
    DEF DashboardInit, DashboardTypeOK, Fans, Acts, Dialogs

-----------------------------------------------------------------------------
(* The passes over the books.                                              *)

(* What a pass has at each of its places, and which passes get there.      *)
GrowthDraft == Range(GrowthDrafts)
Draft == Briefs \cup GrowthDraft
ReportType ==
  {"executive-report", "cross-project-executive-report", "business-operating-report",
   "project-health-report", "repository-verification-report", "growth-review", "morning-brief",
   "revenue-pipeline-report", "content-pipeline-report"}

GatedAction ==
  {"change_pricing", "send_final_proposals", "send_client_messages", "publish_social_posts",
   "publish_public_content", "run_paid_ads", "launch_ad_campaigns"}

OnDeals == {"qualify", "lead", "briefs", "audit"}
OnDrafts == {"briefs", "draft", "review", "asking"}

HasFields(x) ==
  /\ {"kind", "at", "fresh", "made", "filed", "left"} \subseteq DOMAIN x
  /\ x.at \in OnDeals \cup OnDrafts \cup {"report"} => "todo" \in DOMAIN x
  /\ x.at \in OnDrafts \cup {"lead"} => "of" \in DOMAIN x
  /\ x.at = "asking" => "asks" \in DOMAIN x
  /\ x.at = "reading" /\ "deals" \notin x.left => "seen" \in DOMAIN x

HasPlace(x) ==
  /\ x.kind \in ServiceKind /\ x.fresh \in BOOLEAN
  /\ x.at \in {"reading", "report", "plan", "end"} \cup OnDeals \cup OnDrafts
  /\ x.at = "reading" => x.left \subseteq {"deals", "accounts"}
  /\ x.at \in OnDeals => x.kind = "revenue"
  /\ x.at = "draft" => x.kind = "growth"
  /\ x.at \in {"review", "asking"} => x.kind \in {"revenue", "growth"}
  /\ x.at = "plan" => x.kind \in DOMAIN PerClient

HasWork(x) ==
  /\ x.at \in OnDeals \/ (x.at \in OnDrafts /\ x.kind = "revenue") =>
       x.todo \in Seq(Deal) /\ (x.at # "audit" => x.todo # <<>>)
  /\ x.at = "draft" => x.todo \in Seq(GrowthDraft) /\ x.todo # <<>>
  /\ x.at = "report" => x.todo \in Seq(ReportType) /\ x.todo # <<>>
  /\ x.at = "asking" => x.asks \in Seq(GatedAction) /\ x.asks # <<>>

PassesPlaced ==
  /\ pass = [p \in Pass |-> pass[p]]
  /\ \A p \in Pass : UnderWay(p) =>
       /\ HasFields(pass[p]) /\ HasPlace(pass[p]) /\ HasWork(pass[p])
       /\ pass[p].kind \in Services[p]

(* What a draft of each type would commit the company to, and what backs a *)
(* request of that kind.                                                   *)
Commits(type) ==
  CASE type \in Briefs -> Range(Commitments)
    [] type = "social-post-brief" -> {"publish_social_posts", "publish_public_content"}
    [] type = "ad-campaign-brief" ->
         {"run_paid_ads", "launch_ad_campaigns", "publish_public_content"}
    [] OTHER -> {"publish_public_content"}

Backed(made, action, of) ==
  /\ <<"compliance-review", of>> \in made
  /\ \E y \in made : y[1] \in Draft /\ y[2] = of /\ action \in Commits(y[1])

(* Of the drafts of a pass those of earlier opportunities are asked for;   *)
(* those of the one it is about are, or will be when it has asked.         *)
AskedFor(x, y) == \A action \in Commits(y[1]) : <<action, y[2]>> \in x.filed
ToAskFor(x, y) ==
  /\ x.at \in OnDrafts /\ y[2] = x.of
  /\ x.at = "asking" =>
       \A action \in Commits(y[1]) : action \in Range(x.asks) \/ <<action, y[2]>> \in x.filed

Gated(x) ==
  /\ \A r \in x.filed : Backed(x.made, r[1], r[2])
  /\ \A y \in x.made : y[1] \in Draft => AskedFor(x, y) \/ ToAskFor(x, y)
  /\ \A y \in x.made : y[1] \in Draft =>
       /\ y = <<y[1], y[2]>>
       /\ \/ x.kind = "revenue" /\ y[1] \in Briefs
          \/ x.kind = "growth" /\ y[1] \in GrowthDraft
  /\ x.at = "briefs" => x.left # {} /\ \A type \in Briefs \ x.left : <<type, x.of>> \in x.made
  /\ x.at = "review" => \E type \in Draft : <<type, x.of>> \in x.made
  /\ x.at = "asking" => \A action \in Range(x.asks) : Backed(x.made, action, x.of)

PassesGated == \A p \in Pass : UnderWay(p) => Gated(pass[p])

(* What a pass that nothing disturbed has still to go through is open.     *)
Undisturbed(x) ==
  x.fresh =>
    /\ x.at = "reading" /\ "deals" \notin x.left => x.seen = {books}
    /\ x.at \in OnDeals \/ (x.at \in OnDrafts /\ x.kind = "revenue") =>
         Range(x.todo) \subseteq OpenDeals(books)

NoneReopened ==
  /\ reopened = {}
  /\ \A p \in Pass : UnderWay(p) => Undisturbed(pass[p])

(* Two readings of the books between which nothing was done but to give    *)
(* open opportunities another open status.                                 *)
Alike(b, c) ==
  /\ b.client = c.client /\ b.project = c.project
  /\ \A d \in Deal :
       /\ b.deal[d].of = c.deal[d].of /\ b.deal[d].value = c.deal[d].value
       /\ b.deal[d].margin = c.deal[d].margin
       /\ IsOpen(b.deal[d].status) <=> IsOpen(c.deal[d].status)
       /\ ~IsOpen(c.deal[d].status) => b.deal[d].status = c.deal[d].status

(* What a revenue pass has still to qualify, no opportunity twice, and what*)
(* it knows of the books as long as nothing disturbs it.                   *)
OnWork(x) == x.at \in OnDeals \/ (x.at \in OnDrafts /\ x.kind = "revenue")
Rest(x) == IF x.at = "qualify" THEN x.todo ELSE IF x.todo = <<>> THEN <<>> ELSE Tail(x.todo)
Distinct(seq) == \A i, j \in 1 .. Len(seq) : i # j => seq[i] # seq[j]

KnowsOf(x, b) ==
  LET seen == Reading(x.seen)
      accounts == Reading(x.accounts) IN
  /\ {"seen", "accounts"} \subseteq DOMAIN x /\ seen \in Book /\ accounts \in Book
  /\ Alike(seen, b) /\ Alike(accounts, b)
  /\ \A d \in Range(Rest(x)) : seen.deal[d].status = b.deal[d].status
Knows(x) == KnowsOf(x, books)

Informed(x) ==
  /\ x.at = "reading" /\ x.kind = "revenue" /\ "accounts" \notin x.left =>
       "accounts" \in DOMAIN x /\ (x.fresh => x.accounts = {books})
  /\ x.fresh /\ OnWork(x) => Distinct(Rest(x)) /\ (Rest(x) # <<>> => Knows(x))

PassesInformed == \A p \in Pass : UnderWay(p) => Informed(pass[p])

(* The score of an opportunity: what it is of itself, what its account is, *)
(* whose score the number of stalled opportunities lowers, and its status. *)
FixedPoints(value, margin, status) ==
  FirstOf(<< <<value >= 10000, 25>>, <<value >= 3000, 18>>, <<value > 0, 10>>, <<TRUE, 0>> >>)
  + FirstOf(<< <<margin >= 50, 20>>, <<margin >= 30, 15>>, <<margin > 0, 8>>, <<TRUE, 0>> >>)
  + FirstOf(<< <<status = "active", 15>>, <<status = "lead", 8>>, <<TRUE, 0>> >>)

ScoreLess(a, penalty) ==
  LET n == Max({1, a.deals})
      unit == 1200 * n
      points == Min({30 * unit, 4 * n * a.won}) + Min({25 * unit, 3 * n * a.pipeline})
                + Min({15 * unit, 180 * a.margins})
      whole == Min({10, 5 * a.active}) + Min({10, 5 * a.delivered})
               + (IF a.linked THEN 5 ELSE 0) - Min({20, 10 * a.blocked})
               - penalty - (IF a.due THEN 8 ELSE 0)
  IN Clamp((2 * (points + unit * whole) + unit) \div (2 * unit))

AccountPoints(score) == Min({20, (2 * score + 5) \div 10})

FixedOf(b, d) ==
  FixedPoints(b.deal[d].value, b.deal[d].margin, b.client[b.deal[d].of].status)

(* What an opportunity scores at most, whatever its status is worth.       *)
Most(b, d) == FixedOf(b, d) + AccountPoints(ScoreLess(Account(b, b.deal[d].of), 0))

(* How often an opportunity was moved, to where, and what it scores.       *)
MovesFit(m, status, most) ==
  \/ m = 0
  \/ /\ m = 1
     /\ \/ status = "proposal_draft" /\ most >= 45
        \/ status = "qualified"
        \/ status = "intake" /\ most < 32
  \/ /\ m = 2
     /\ \/ status = "proposal_draft" /\ most >= 50
        \/ status = "qualified" /\ most >= 45 /\ most < 49
        \/ status = "intake" /\ most < 32

MovesAreFew == \A d \in Deal : MovesFit(moves[d], books.deal[d].status, Most(books, d))

BooksInv ==
  /\ PipelinesTypeOK /\ PassesPlaced /\ PassesGated /\ NoneReopened
  /\ PassesInformed /\ MovesAreFew

-----------------------------------------------------------------------------
LEMMA DraftNames ==
  /\ GrowthDraft = {"social-post-brief", "campaign-brief", "creative-brief", "ad-campaign-brief"}
  /\ Range(Commitments) = {"change_pricing", "send_final_proposals", "send_client_messages"}
  /\ GrowthDrafts \in Seq(GrowthDraft) /\ Len(GrowthDrafts) = 4
  /\ Commitments \in Seq(GatedAction) /\ Commitments # <<>>
<1>1. DOMAIN GrowthDrafts = 1 .. 4 /\ DOMAIN Commitments = 1 .. 3 /\ Len(GrowthDrafts) = 4
      /\ Len(Commitments) = 3
  BY DEF GrowthDrafts, Commitments
<1>2. /\ GrowthDrafts[1] = "social-post-brief" /\ GrowthDrafts[2] = "campaign-brief"
      /\ GrowthDrafts[3] = "creative-brief" /\ GrowthDrafts[4] = "ad-campaign-brief"
  BY DEF GrowthDrafts
<1>3. /\ Commitments[1] = "change_pricing" /\ Commitments[2] = "send_final_proposals"
      /\ Commitments[3] = "send_client_messages"
  BY DEF Commitments
<1>4. \A i \in 1 .. 4 : i = 1 \/ i = 2 \/ i = 3 \/ i = 4
  OBVIOUS
<1>5. GrowthDraft = {"social-post-brief", "campaign-brief", "creative-brief", "ad-campaign-brief"}
  BY <1>1, <1>2, <1>4 DEF GrowthDraft, Range
<1>6. Range(Commitments) = {"change_pricing", "send_final_proposals", "send_client_messages"}
  BY <1>1, <1>3, <1>4 DEF Range
<1>7. GrowthDrafts \in Seq(GrowthDraft)
  BY <1>5 DEF GrowthDrafts
<1>8. Commitments \in Seq(GatedAction) /\ Commitments # <<>>
  BY DEF Commitments, GatedAction
<1> QED BY <1>1, <1>5, <1>6, <1>7, <1>8

LEMMA ReportNames ==
  \A kind \in DOMAIN Reports : Reports[kind] \in Seq(ReportType) /\ Reports[kind] # <<>>
<1> SUFFICES ASSUME NEW kind \in DOMAIN Reports
             PROVE  Reports[kind] \in Seq(ReportType) /\ Reports[kind] # <<>>
  OBVIOUS
<1>1. kind \in {"business", "health", "repositories", "growth_review", "brief", "revenue", "growth"}
  BY DEF Reports
<1>2. /\ Reports["business"] = <<"executive-report", "cross-project-executive-report",
                                 "business-operating-report">>
      /\ Reports["health"] = <<"project-health-report">>
      /\ Reports["repositories"] = <<"repository-verification-report">>
      /\ Reports["growth_review"] = <<"growth-review">>
      /\ Reports["brief"] = <<"morning-brief">>
      /\ Reports["revenue"] = <<"revenue-pipeline-report">>
      /\ Reports["growth"] = <<"content-pipeline-report">>
  BY DEF Reports
<1>3. ASSUME NEW type \in ReportType PROVE <<type>> \in Seq(ReportType) /\ <<type>> # <<>>
  OBVIOUS
<1>4. Reports["business"] \in Seq(ReportType) /\ Reports["business"] # <<>>
  BY <1>2 DEF ReportType
<1>5. kind # "business" => \E type \in ReportType : Reports[kind] = <<type>>
  BY <1>1, <1>2 DEF ReportType
<1> QED BY <1>1, <1>3, <1>4, <1>5

(* The fields of a pass that a step sets, and those it leaves.             *)
LEMMA WithFields ==
  ASSUME NEW x, NEW changes
  PROVE  /\ DOMAIN With(x, changes) = DOMAIN x \cup DOMAIN changes
         /\ \A f \in DOMAIN changes : With(x, changes)[f] = changes[f]
         /\ \A f \in DOMAIN x \ DOMAIN changes : With(x, changes)[f] = x[f]
BY DEF With

(* What was backed stays so.                                               *)
LEMMA StaysBacked ==
  ASSUME NEW made, NEW more, made \subseteq more, NEW action, NEW of, Backed(made, action, of)
  PROVE  Backed(more, action, of)
BY DEF Backed

Placed(x) == HasFields(x) /\ HasPlace(x) /\ HasWork(x) /\ Gated(x)

LEMMA FirstBegins ==
  ASSUME NEW kind \in ServiceKind, NEW left \in SUBSET {"deals", "accounts"},
         "deals" \in left
  PROVE  Placed([kind |-> kind, at |-> "reading", fresh |-> TRUE, made |-> {}, filed |-> {},
                 left |-> left])
BY DEF Placed, HasFields, HasPlace, HasWork, Gated, OnDeals, OnDrafts

(* Writing what is no draft, on the way to a place with nothing to ask for.*)
LEMMA PlainMove ==
  ASSUME NEW x, Placed(x), x.at \notin OnDrafts, NEW y, HasFields(y), HasPlace(y), HasWork(y),
         y.kind = x.kind, y.filed = x.filed, x.made \subseteq y.made,
         \A z \in y.made \ x.made : z[1] \notin Draft,
         y.at \notin {"briefs", "review", "asking"}
  PROVE  Placed(y)
<1>1. \A r \in y.filed : Backed(y.made, r[1], r[2])
  BY StaysBacked DEF Placed, Gated
<1>2. \A z \in y.made : z[1] \in Draft => z \in x.made /\ AskedFor(x, z)
  BY DEF Placed, Gated, ToAskFor
<1> QED BY <1>1, <1>2 DEF Placed, Gated, AskedFor, OnDrafts

LEMMA LeastOfTwo ==
  ASSUME NEW a \in Int, NEW b \in Int
  PROVE  /\ Min({a, b}) = IF a <= b THEN a ELSE b
         /\ Max({a, b}) = IF a <= b THEN b ELSE a
BY DEF Min, Max

LEMMA FirstsOf ==
  ASSUME NEW S, NEW seq \in Seq(S), NEW n \in Nat \ {0}
  PROVE  /\ Firsts(seq, n) \in Seq(S)
         /\ seq # <<>> => Firsts(seq, n) # <<>>
         /\ Len(Firsts(seq, n)) <= Len(seq)
         /\ \A i \in 1 .. Len(Firsts(seq, n)) : Firsts(seq, n)[i] = seq[i]
<1> DEFINE m == Min({n, Len(seq)})
<1>1. m \in Nat /\ m <= Len(seq) /\ (Len(seq) # 0 => m # 0) /\ Firsts(seq, n) = SubSeq(seq, 1, m)
  BY LeastOfTwo DEF Firsts
<1> HIDE DEF m
<1>2. \A i \in 1 .. m : seq[i] \in S
  BY <1>1
<1>3. /\ SubSeq(seq, 1, m) \in Seq(S)
      /\ Len(SubSeq(seq, 1, m)) = IF 1 <= m THEN m - 1 + 1 ELSE 0
      /\ \A i \in 1 .. m - 1 + 1 : SubSeq(seq, 1, m)[i] = seq[1 + i - 1]
  BY <1>1, <1>2, SubSeqProperties
<1>4. Len(Firsts(seq, n)) = m /\ \A i \in 1 .. m : Firsts(seq, n)[i] = seq[i]
  BY <1>1, <1>3
<1>5. seq # <<>> => Len(seq) # 0
  BY EmptySeq
<1>6. seq # <<>> => Firsts(seq, n) # <<>>
  BY <1>1, <1>4, <1>5, EmptySeq
<1> QED BY <1>1, <1>3, <1>4, <1>6

LEMMA DealsFinite ==
  ASSUME NEW b
  PROVE  Cardinality(OpenDeals(b)) \in Nat /\ OpenDeals(b) \subseteq Deal
<1>1. OpenDeals(b) \subseteq Deal
  BY DEF OpenDeals
<1> QED BY <1>1, FS_Subset, FS_CardinalityType, BooksAssumption DEF BooksAssumption

(* What a revenue pass may go through: open opportunities, no one twice.   *)
LEMMA SelectedOf ==
  ASSUME NEW b, NEW order \in Orders(b), NEW focus \in Deal \cup {Nobody}
  PROVE  /\ order \in Seq(Deal)
         /\ Selected(order, focus) \in Seq(OpenDeals(b))
         /\ Distinct(Selected(order, focus))
<1>1. /\ Cardinality(OpenDeals(b)) \in Nat /\ OpenDeals(b) \subseteq Deal
      /\ order \in [1 .. Cardinality(OpenDeals(b)) -> OpenDeals(b)]
  BY DealsFinite DEF Orders
<1>2. order \in Seq(OpenDeals(b)) /\ order \in Seq(Deal)
  BY <1>1
<1>3. Firsts(order, MaxSelected) \in Seq(OpenDeals(b))
  BY <1>2, FirstsOf, PipelinesAssumption DEF PipelinesAssumption
<1>4. focus \in Range(order) => <<focus>> \in Seq(OpenDeals(b))
  BY <1>1 DEF Range
<1>5. <<>> \in Seq(OpenDeals(b)) /\ Distinct(<<>>) /\ Distinct(<<focus>>)
  BY DEF Distinct
<1>6. Distinct(Firsts(order, MaxSelected))
  <2> DEFINE firsts == Firsts(order, MaxSelected)
  <2>1. /\ \A i \in 1 .. Len(firsts) : firsts[i] = order[i]
        /\ Len(firsts) <= Len(order)
    BY <1>2, FirstsOf, PipelinesAssumption DEF PipelinesAssumption
  <2>2. Len(firsts) \in Nat /\ Len(order) \in Nat /\ DOMAIN order = 1 .. Len(order)
    BY <1>2, <1>3
  <2>3. \A i, j \in DOMAIN order : i # j => order[i] # order[j]
    BY DEF Orders
  <2> HIDE DEF firsts
  <2> QED BY <2>1, <2>2, <2>3 DEF Distinct, firsts
<1> QED BY <1>2, <1>3, <1>4, <1>5, <1>6 DEF Selected

LEMMA DealsRead ==
  ASSUME NEW x, Placed(x), x.at = "reading", NEW b, NEW y,
         y = With(x, [left |-> x.left \ {"deals"}, seen |-> {b}])
  PROVE  /\ Placed(y) /\ y.at = "reading"
         /\ y.left = x.left \ {"deals"} /\ y.kind = x.kind /\ y.fresh = x.fresh
         /\ y.seen = {b}
         /\ "accounts" \in DOMAIN x => "accounts" \in DOMAIN y /\ y.accounts = x.accounts
<1>1. {"kind", "at", "fresh", "made", "filed", "left"} \subseteq DOMAIN x
  BY DEF Placed, HasFields
<1>2. /\ y.at = "reading" /\ DOMAIN x \subseteq DOMAIN y /\ "seen" \in DOMAIN y
      /\ "accounts" \in DOMAIN x => y.accounts = x.accounts
      /\ y.left = x.left \ {"deals"} /\ y.kind = x.kind /\ y.fresh = x.fresh
      /\ y.made = x.made /\ y.filed = x.filed /\ y.seen = {b}
  BY <1>1 DEF With
<1>3. HasFields(y) /\ HasPlace(y) /\ HasWork(y)
  BY <1>2 DEF Placed, HasFields, HasPlace, HasWork, OnDeals, OnDrafts
<1> QED BY <1>2, <1>3, PlainMove DEF OnDrafts

LEMMA AccountsRead ==
  ASSUME NEW x, Placed(x), x.at = "reading", NEW b, NEW y,
         y = With(x, [left |-> x.left \ {"accounts"}, accounts |-> {b}])
  PROVE  /\ Placed(y) /\ y.at = "reading"
         /\ y.left = x.left \ {"accounts"} /\ y.kind = x.kind /\ y.fresh = x.fresh
         /\ "seen" \in DOMAIN x => y.seen = x.seen
         /\ "accounts" \in DOMAIN y /\ y.accounts = {b}
<1>1. /\ {"kind", "at", "fresh", "made", "filed", "left"} \subseteq DOMAIN x
      /\ "deals" \notin x.left => "seen" \in DOMAIN x
  BY DEF Placed, HasFields
<1>2. /\ y.at = "reading" /\ DOMAIN x \subseteq DOMAIN y
      /\ "accounts" \in DOMAIN y /\ y.accounts = {b}
      /\ y.left = x.left \ {"accounts"} /\ y.kind = x.kind /\ y.fresh = x.fresh
      /\ y.made = x.made /\ y.filed = x.filed
      /\ "seen" \in DOMAIN x => y.seen = x.seen
  BY <1>1 DEF With
<1>3. HasFields(y) /\ HasPlace(y) /\ HasWork(y)
  BY <1>1, <1>2 DEF Placed, HasFields, HasPlace, HasWork, OnDeals, OnDrafts
<1> QED BY <1>2, <1>3, PlainMove DEF OnDrafts

LEMMA NoPlans == DOMAIN PerClient = {"account_plans", "success_status"}
BY DEF PerClient

LEMMA AlikeItself == ASSUME NEW b PROVE Alike(b, b)
BY DEF Alike

(* What a pass that has read goes on with.                                 *)
HasRead(x, y) ==
  \A f \in {"seen", "accounts"} \cap DOMAIN x : f \in DOMAIN y /\ y[f] = x[f]

(* What is left to do when everything is read.                             *)
LEMMA AgendaOf ==
  ASSUME NEW x, Placed(x), x.at = "reading", NEW b, NEW order \in Orders(b),
         NEW focus \in Deal \cup {Nobody}, NEW y, y = With(x, Agenda(x.kind, order, focus))
  PROVE  /\ Placed(y) /\ y.at \notin {"reading", "review", "asking"}
         /\ y.kind = x.kind /\ y.fresh = x.fresh
         /\ y.at \in OnDeals =>
              /\ y.todo \in Seq(OpenDeals(b)) /\ Distinct(y.todo)
              /\ \/ y.at = "audit" /\ y.todo = <<>>
                 \/ y.at = "qualify" /\ HasRead(x, y)
<1>1. /\ {"kind", "at", "fresh", "made", "filed", "left"} \subseteq DOMAIN x
      /\ x.kind \in ServiceKind /\ x.fresh \in BOOLEAN
  BY DEF Placed, HasFields, HasPlace
<1> DEFINE todo == Selected(order, focus)
<1>2. /\ todo \in Seq(OpenDeals(b)) /\ todo \in Seq(Deal) /\ order \in Seq(Deal)
      /\ Distinct(todo)
  BY SelectedOf, DealsFinite, SeqMonotonic
<1>3. CASE x.kind = "revenue" /\ todo = <<>>
  <2> HIDE DEF todo
  <2>1. y = With(x, With(Forgotten, [todo |-> todo, at |-> "audit"]))
    <3>1. Agenda("revenue", order, focus) = With(Forgotten, [todo |-> todo, at |-> "audit"])
      BY <1>3, NoPlans DEF Agenda, todo
    <3> QED BY <1>3, <3>1
  <2>2. /\ DOMAIN x \cup {"todo"} \subseteq DOMAIN y /\ y.at = "audit" /\ y.todo = todo
        /\ y.kind = x.kind /\ y.fresh = x.fresh /\ y.made = x.made /\ y.filed = x.filed
    BY <1>1, <2>1 DEF With, Forgotten
  <2>3. HasFields(y) /\ HasPlace(y) /\ HasWork(y)
    BY <1>1, <1>2, <1>3, <2>2 DEF HasFields, HasPlace, HasWork, OnDeals, OnDrafts
  <2> QED BY <1>2, <1>3, <2>2, <2>3, PlainMove DEF OnDrafts
<1>4. CASE x.kind = "revenue" /\ todo # <<>>
  <2> HIDE DEF todo
  <2>1. y = With(x, [todo |-> todo, at |-> "qualify"])
    <3>1. Agenda("revenue", order, focus) = [todo |-> todo, at |-> "qualify"]
      BY <1>4, NoPlans DEF Agenda, todo
    <3> QED BY <1>4, <3>1
  <2>2. /\ DOMAIN x \cup {"todo"} \subseteq DOMAIN y /\ y.at = "qualify" /\ y.todo = todo
        /\ y.kind = x.kind /\ y.fresh = x.fresh /\ y.made = x.made /\ y.filed = x.filed
    BY <1>1, <2>1 DEF With
  <2>3. HasFields(y) /\ HasPlace(y) /\ HasWork(y)
    BY <1>1, <1>2, <1>4, <2>2 DEF HasFields, HasPlace, HasWork, OnDeals, OnDrafts
  <2>4. HasRead(x, y)
    BY <2>1 DEF With, HasRead
  <2> QED BY <1>2, <2>2, <2>3, <2>4, PlainMove DEF OnDrafts
<1>5. CASE x.kind = "growth" /\ configured = Section /\ order # <<>>
  <2> DEFINE drafts == Firsts(GrowthDrafts, MaxSelected)
  <2>1. y = With(x, With(Forgotten, [todo |-> drafts, at |-> "draft", of |-> order[1]]))
    <3>1. Agenda("growth", order, focus) =
            With(Forgotten, [todo |-> drafts, at |-> "draft", of |-> order[1]])
      BY <1>5, NoPlans DEF Agenda
    <3> QED BY <1>5, <3>1
  <2>2. GrowthDrafts \in Seq(GrowthDraft) /\ GrowthDrafts # <<>>
    <3>1. GrowthDrafts \in Seq(GrowthDraft)
      BY DraftNames
    <3> QED BY <3>1 DEF GrowthDrafts
  <2>3. drafts \in Seq(GrowthDraft) /\ drafts # <<>>
    BY <2>2, FirstsOf, PipelinesAssumption DEF PipelinesAssumption
  <2> HIDE DEF drafts
  <2>4. /\ DOMAIN x \cup {"todo", "of"} \subseteq DOMAIN y /\ y.at = "draft" /\ y.todo = drafts
        /\ y.kind = x.kind /\ y.fresh = x.fresh /\ y.made = x.made /\ y.filed = x.filed
    BY <1>1, <2>1 DEF With, Forgotten
  <2>5. HasFields(y) /\ HasPlace(y) /\ HasWork(y)
    BY <1>1, <1>5, <2>3, <2>4 DEF HasFields, HasPlace, HasWork, OnDeals, OnDrafts
  <2> QED BY <1>5, <2>4, <2>5, PlainMove DEF OnDrafts, OnDeals
<1>6. CASE x.kind \in DOMAIN PerClient
  <2>1. x.kind \in {"account_plans", "success_status"}
    BY <1>6 DEF PerClient
  <2>2. y = With(x, With(Forgotten, [left |-> Client, at |-> "plan"]))
    BY <1>6, <2>1 DEF Agenda
  <2>3. /\ DOMAIN x \subseteq DOMAIN y /\ y.at = "plan"
        /\ y.kind = x.kind /\ y.fresh = x.fresh /\ y.made = x.made /\ y.filed = x.filed
    BY <1>1, <2>2 DEF With, Forgotten
  <2>4. HasFields(y) /\ HasPlace(y) /\ HasWork(y)
    BY <1>1, <1>6, <2>3 DEF HasFields, HasPlace, HasWork, OnDeals, OnDrafts
  <2> QED BY <2>3, <2>4, PlainMove DEF OnDrafts, OnDeals
<1>7. CASE /\ x.kind # "revenue" /\ x.kind \notin DOMAIN PerClient
           /\ ~(x.kind = "growth" /\ configured = Section /\ order # <<>>)
  <2>1. y = With(x, With(Forgotten, [at |-> "report", todo |-> Reports[x.kind]]))
    BY <1>7 DEF Agenda, Reporting
  <2>2. x.kind \in DOMAIN Reports
    BY <1>1, <1>7 DEF ServiceKind
  <2> DEFINE reports == Reports[x.kind]
  <2>3. reports \in Seq(ReportType) /\ reports # <<>>
    BY <2>2, ReportNames
  <2> HIDE DEF reports
  <2>4. /\ DOMAIN x \cup {"todo"} \subseteq DOMAIN y /\ y.at = "report" /\ y.todo = reports
        /\ y.kind = x.kind /\ y.fresh = x.fresh /\ y.made = x.made /\ y.filed = x.filed
    BY <1>1, <2>1 DEF With, Forgotten, reports
  <2>5. HasFields(y) /\ HasPlace(y) /\ HasWork(y)
    BY <1>1, <2>3, <2>4 DEF HasFields, HasPlace, HasWork, OnDeals, OnDrafts
  <2> QED BY <2>4, <2>5, PlainMove DEF OnDrafts, OnDeals
<1> QED BY <1>3, <1>4, <1>5, <1>6, <1>7

(* The revenue pass.                                                       *)
LEMMA QualifyPlaced ==
  ASSUME NEW x, Placed(x), x.at = "qualify", NEW ready, NEW y,
         y = With(IF Len(x.todo) = 1 THEN With(x, Forgotten) ELSE x,
                  [at |-> "lead", of |-> Head(x.todo), ready |-> ready])
  PROVE  /\ Placed(y) /\ y.at = "lead" /\ y.kind = x.kind /\ y.fresh = x.fresh /\ y.todo = x.todo
         /\ Len(x.todo) # 1 => HasRead(x, y)
<1>1. /\ {"kind", "at", "fresh", "made", "filed", "left", "todo"} \subseteq DOMAIN x
      /\ x.kind = "revenue"
  BY DEF Placed, HasFields, HasPlace, OnDeals
<1>2. /\ DOMAIN x \cup {"of"} \subseteq DOMAIN y /\ y.at = "lead" /\ y.todo = x.todo
      /\ y.kind = x.kind /\ y.fresh = x.fresh /\ y.made = x.made /\ y.filed = x.filed
  <2>1. CASE Len(x.todo) = 1
    BY <1>1, <2>1 DEF With, Forgotten
  <2>2. CASE Len(x.todo) # 1
    BY <1>1, <2>2 DEF With
  <2> QED BY <2>1, <2>2
<1>3. HasFields(y) /\ HasPlace(y) /\ HasWork(y)
  BY <1>1, <1>2 DEF Placed, HasFields, HasPlace, HasWork, OnDeals, OnDrafts
<1>4. Len(x.todo) # 1 => HasRead(x, y)
  BY DEF With, HasRead
<1> QED BY <1>2, <1>3, <1>4, PlainMove DEF OnDrafts, OnDeals

LEMMA LeadPlaced ==
  ASSUME NEW x, Placed(x), x.at = "lead", NEW y,
         y = With(x, With(IF x.ready THEN [at |-> "briefs", left |-> Briefs] ELSE [at |-> "audit"],
                          [made |-> x.made \cup {<<"lead-qualification-report", x.of>>}]))
  PROVE  /\ Placed(y) /\ y.at \in {"briefs", "audit"} /\ y.kind = x.kind /\ y.fresh = x.fresh
         /\ y.todo = x.todo
<1>1. /\ {"kind", "at", "fresh", "made", "filed", "left", "todo", "of"} \subseteq DOMAIN x
      /\ x.kind = "revenue"
  BY DEF Placed, HasFields, HasPlace, OnDeals
<1>2. \A z \in {<<"lead-qualification-report", x.of>>} : z[1] \notin Draft
  BY DraftNames DEF Draft, Briefs
<1>3. CASE x.ready
  <2>1. y = With(x, With([at |-> "briefs", left |-> Briefs],
                         [made |-> x.made \cup {<<"lead-qualification-report", x.of>>}]))
    BY <1>3
  <2>2. /\ DOMAIN x \subseteq DOMAIN y /\ y.at = "briefs" /\ y.todo = x.todo /\ y.left = Briefs
        /\ y.kind = x.kind /\ y.fresh = x.fresh /\ y.filed = x.filed
        /\ y.made = x.made \cup {<<"lead-qualification-report", x.of>>}
    BY <1>1, <2>1 DEF With
  <2>3. HasFields(y) /\ HasPlace(y) /\ HasWork(y)
    BY <1>1, <2>2 DEF Placed, HasFields, HasPlace, HasWork, OnDeals, OnDrafts
  <2>4. \A r \in y.filed : Backed(y.made, r[1], r[2])
    BY <2>2, StaysBacked DEF Placed, Gated
  <2>5. \A z \in y.made : z[1] \in Draft => z \in x.made /\ AskedFor(x, z)
    BY <1>2, <2>2 DEF Placed, Gated, ToAskFor, OnDrafts
  <2>6. Gated(y)
    BY <2>2, <2>4, <2>5 DEF Placed, Gated, AskedFor, Briefs
  <2> QED BY <2>2, <2>3, <2>6 DEF Placed
<1>4. CASE ~x.ready
  <2>1. y = With(x, With([at |-> "audit"],
                         [made |-> x.made \cup {<<"lead-qualification-report", x.of>>}]))
    BY <1>4
  <2>2. /\ DOMAIN x \subseteq DOMAIN y /\ y.at = "audit" /\ y.todo = x.todo
        /\ y.kind = x.kind /\ y.fresh = x.fresh /\ y.filed = x.filed
        /\ y.made = x.made \cup {<<"lead-qualification-report", x.of>>}
    BY <1>1, <2>1 DEF With
  <2>3. HasFields(y) /\ HasPlace(y) /\ HasWork(y)
    BY <1>1, <2>2 DEF Placed, HasFields, HasPlace, HasWork, OnDeals, OnDrafts
  <2> QED BY <1>2, <2>2, <2>3, PlainMove DEF OnDrafts, OnDeals
<1> QED BY <1>3, <1>4

LEMMA BriefPlaced ==
  ASSUME NEW x, Placed(x), x.at = "briefs", NEW type \in Briefs, type \in x.left, NEW y,
         y = With(x, With([left |-> x.left \ {type},
                           at |-> IF x.left \ {type} = {} THEN "review" ELSE "briefs"],
                          [made |-> x.made \cup {<<type, x.of>>}]))
  PROVE  /\ Placed(y) /\ y.at \in {"briefs", "review"} /\ y.kind = x.kind /\ y.fresh = x.fresh
         /\ y.todo = x.todo
<1> DEFINE at == IF x.left \ {type} = {} THEN "review" ELSE "briefs"
<1>1. /\ {"kind", "at", "fresh", "made", "filed", "left", "todo", "of"} \subseteq DOMAIN x
      /\ x.kind = "revenue"
  BY DEF Placed, HasFields, HasPlace, OnDeals, OnDrafts
<1>2. at \in {"briefs", "review"} /\ (at = "briefs" <=> x.left \ {type} # {})
  OBVIOUS
<1> HIDE DEF at
<1>3. y = With(x, With([left |-> x.left \ {type}, at |-> at],
                       [made |-> x.made \cup {<<type, x.of>>}]))
  BY DEF at
<1>4. /\ DOMAIN x \subseteq DOMAIN y /\ y.at = at /\ y.todo = x.todo /\ y.of = x.of
      /\ y.left = x.left \ {type}
      /\ y.kind = x.kind /\ y.fresh = x.fresh /\ y.filed = x.filed
      /\ y.made = x.made \cup {<<type, x.of>>}
  BY <1>1, <1>3 DEF With
<1>5. HasFields(y) /\ HasPlace(y) /\ HasWork(y)
  BY <1>1, <1>2, <1>4 DEF Placed, HasFields, HasPlace, HasWork, OnDeals, OnDrafts
<1>6. \A r \in y.filed : Backed(y.made, r[1], r[2])
  BY <1>4, StaysBacked DEF Placed, Gated
<1>7. ASSUME NEW z \in y.made, z[1] \in Draft
      PROVE  (AskedFor(y, z) \/ ToAskFor(y, z)) /\ z[1] \in Briefs /\ z = <<z[1], z[2]>>
  <2>1. CASE z \in x.made
    <3>1. AskedFor(x, z) \/ (z[2] = x.of)
      BY <1>7, <2>1 DEF Placed, Gated, ToAskFor
    <3>2. z[1] \in Briefs /\ z = <<z[1], z[2]>>
      BY <1>1, <1>7, <2>1 DEF Placed, Gated
    <3> QED BY <1>2, <1>4, <3>1, <3>2 DEF AskedFor, ToAskFor, OnDrafts
  <2>2. CASE z = <<type, x.of>>
    BY <1>2, <1>4, <2>2 DEF ToAskFor, OnDrafts
  <2> QED BY <1>4, <2>1, <2>2
<1>8. \A t \in Briefs \ y.left : <<t, y.of>> \in y.made
  BY <1>4 DEF Placed, Gated
<1>9. type \in Draft /\ <<type, y.of>> \in y.made
  BY <1>4 DEF Draft
<1>10. Gated(y)
  BY <1>1, <1>2, <1>4, <1>6, <1>7, <1>8, <1>9 DEF Gated
<1> QED BY <1>1, <1>2, <1>4, <1>5, <1>10 DEF Placed

(* On to the next opportunity, or to the report.                           *)
LEMMA NextOf ==
  ASSUME NEW todo \in Seq(Deal), NEW next, next = NextDeal(todo)
  PROVE  /\ DOMAIN next = {"at", "todo"}
         /\ \/ next.at = "report" /\ next.todo \in Seq(ReportType) /\ next.todo # <<>>
            \/ next.at = "qualify" /\ next.todo = todo /\ todo # <<>>
<1>1. "revenue" \in DOMAIN Reports
  BY DEF Reports
<1> DEFINE reports == Reports["revenue"]
<1>2. reports \in Seq(ReportType) /\ reports # <<>>
  BY <1>1, ReportNames
<1>3. next = IF todo = <<>> THEN [at |-> "report", todo |-> reports]
             ELSE [todo |-> todo, at |-> "qualify"]
  BY DEF NextDeal, Reporting
<1> HIDE DEF reports
<1> QED BY <1>2, <1>3

LEMMA AuditPlaced ==
  ASSUME NEW x, Placed(x), x.at = "audit", NEW of, NEW rest \in Seq(Deal), NEW y,
         y = With(x, With(NextDeal(rest), [made |-> x.made \cup {<<"conversion-audit", of>>}]))
  PROVE  /\ Placed(y) /\ y.at \in {"qualify", "report"} /\ y.kind = x.kind /\ y.fresh = x.fresh
         /\ y.at = "qualify" => y.todo = rest
<1> DEFINE next == NextDeal(rest)
<1>1. /\ {"kind", "at", "fresh", "made", "filed", "left", "todo"} \subseteq DOMAIN x
      /\ x.kind = "revenue"
  BY DEF Placed, HasFields, HasPlace, OnDeals
<1>2. /\ DOMAIN next = {"at", "todo"}
      /\ \/ next.at = "report" /\ next.todo \in Seq(ReportType) /\ next.todo # <<>>
         \/ next.at = "qualify" /\ next.todo = rest /\ rest # <<>>
  BY NextOf
<1> HIDE DEF next
<1>3. y = With(x, With(next, [made |-> x.made \cup {<<"conversion-audit", of>>}]))
  BY DEF next
<1>4. /\ DOMAIN x \subseteq DOMAIN y /\ y.at = next.at /\ y.todo = next.todo
      /\ y.kind = x.kind /\ y.fresh = x.fresh /\ y.filed = x.filed
      /\ y.made = x.made \cup {<<"conversion-audit", of>>}
  BY <1>1, <1>2, <1>3 DEF With
<1>5. \A z \in {<<"conversion-audit", of>>} : z[1] \notin Draft
  BY DraftNames DEF Draft, Briefs
<1>6. HasFields(y) /\ HasPlace(y) /\ HasWork(y)
  BY <1>1, <1>2, <1>4 DEF Placed, HasFields, HasPlace, HasWork, OnDeals, OnDrafts
<1> QED BY <1>2, <1>4, <1>5, <1>6, PlainMove DEF OnDrafts, OnDeals

(* The growth pass.                                                        *)
LEMMA DraftPlaced ==
  ASSUME NEW x, Placed(x), x.at = "draft", NEW y,
         y = With(x, With([todo |-> Tail(x.todo),
                           at |-> IF Tail(x.todo) = <<>> THEN "review" ELSE "draft"],
                          [made |-> x.made \cup {<<Head(x.todo), x.of>>}]))
  PROVE  Placed(y) /\ y.at \in {"draft", "review"} /\ y.kind = x.kind /\ y.fresh = x.fresh
<1> DEFINE rest == Tail(x.todo)
           type == Head(x.todo)
           at == IF rest = <<>> THEN "review" ELSE "draft"
<1>1. /\ {"kind", "at", "fresh", "made", "filed", "left", "todo", "of"} \subseteq DOMAIN x
      /\ x.kind = "growth" /\ x.todo \in Seq(GrowthDraft) /\ x.todo # <<>>
  BY DEF Placed, HasFields, HasPlace, HasWork, OnDeals, OnDrafts
<1>2. rest \in Seq(GrowthDraft) /\ type \in GrowthDraft
  BY <1>1, HeadTailProperties
<1>3. at \in {"draft", "review"} /\ (at = "draft" => rest # <<>>)
  OBVIOUS
<1> HIDE DEF rest, type, at
<1>4. y = With(x, With([todo |-> rest, at |-> at], [made |-> x.made \cup {<<type, x.of>>}]))
  BY DEF at, rest, type
<1>5. /\ DOMAIN x \subseteq DOMAIN y /\ y.at = at /\ y.todo = rest /\ y.of = x.of
      /\ y.kind = x.kind /\ y.fresh = x.fresh /\ y.filed = x.filed
      /\ y.made = x.made \cup {<<type, x.of>>}
  BY <1>1, <1>4 DEF With
<1>6. HasFields(y) /\ HasPlace(y) /\ HasWork(y)
  BY <1>1, <1>2, <1>3, <1>5 DEF Placed, HasFields, HasPlace, HasWork, OnDeals, OnDrafts
<1>7. \A r \in y.filed : Backed(y.made, r[1], r[2])
  BY <1>5, StaysBacked DEF Placed, Gated
<1>8. ASSUME NEW z \in y.made, z[1] \in Draft
      PROVE  (AskedFor(y, z) \/ ToAskFor(y, z)) /\ z[1] \in GrowthDraft /\ z = <<z[1], z[2]>>
  <2>1. CASE z \in x.made
    <3>1. AskedFor(x, z) \/ (z[2] = x.of)
      BY <1>8, <2>1 DEF Placed, Gated, ToAskFor
    <3>2. z[1] \in GrowthDraft /\ z = <<z[1], z[2]>>
      BY <1>1, <1>8, <2>1 DEF Placed, Gated
    <3> QED BY <1>3, <1>5, <3>1, <3>2 DEF AskedFor, ToAskFor, OnDrafts
  <2>2. CASE z = <<type, x.of>>
    BY <1>2, <1>3, <1>5, <2>2 DEF ToAskFor, OnDrafts
  <2> QED BY <1>5, <2>1, <2>2
<1>9. type \in Draft /\ <<type, y.of>> \in y.made
  BY <1>2, <1>5 DEF Draft
<1>10. Gated(y)
  BY <1>1, <1>3, <1>5, <1>7, <1>8, <1>9 DEF Gated
<1> QED BY <1>1, <1>3, <1>5, <1>6, <1>10 DEF Placed

LEMMA RangeOfConcat ==
  ASSUME NEW S, NEW s \in Seq(S), NEW t \in Seq(S)
  PROVE  s \o t \in Seq(S) /\ Range(s \o t) = Range(s) \cup Range(t)
<1>1. /\ s \o t \in Seq(S) /\ Len(s \o t) = Len(s) + Len(t)
      /\ \A i \in 1 .. Len(s) + Len(t) : (s \o t)[i] = IF i <= Len(s) THEN s[i] ELSE t[i - Len(s)]
  BY ConcatProperties
<1>2. /\ Len(s) \in Nat /\ Len(t) \in Nat /\ DOMAIN s = 1 .. Len(s) /\ DOMAIN t = 1 .. Len(t)
      /\ DOMAIN (s \o t) = 1 .. Len(s) + Len(t)
  BY <1>1, LenProperties
<1> DEFINE u == s \o t
<1>3. \A i \in 1 .. Len(s) : i \in DOMAIN u /\ u[i] = s[i]
  BY <1>1, <1>2
<1>4. \A i \in 1 .. Len(t) : Len(s) + i \in DOMAIN u /\ u[Len(s) + i] = t[i]
  BY <1>1, <1>2
<1>5. \A i \in DOMAIN u : (i \in DOMAIN s /\ u[i] = s[i])
                          \/ (i - Len(s) \in DOMAIN t /\ u[i] = t[i - Len(s)])
  BY <1>1, <1>2
<1>6. u \in Seq(S)
  BY <1>1
<1> HIDE DEF u
<1>7. Range(u) = Range(s) \cup Range(t)
  BY <1>2, <1>3, <1>4, <1>5 DEF Range
<1> QED BY <1>6, <1>7 DEF u

LEMMA RangeOfTail ==
  ASSUME NEW S, NEW s \in Seq(S), s # <<>>
  PROVE  /\ Head(s) \in S /\ Head(s) \in Range(s) /\ Tail(s) \in Seq(S)
         /\ Range(s) = {Head(s)} \cup Range(Tail(s))
<1>1. /\ Len(s) \in Nat \ {0} /\ DOMAIN s = 1 .. Len(s)
      /\ Head(s) \in S /\ Tail(s) \in Seq(S) /\ Len(Tail(s)) = Len(s) - 1
      /\ \A i \in 1 .. Len(Tail(s)) : Tail(s)[i] = s[i + 1]
  BY HeadTailProperties, EmptySeq, LenProperties
<1>2. Head(s) = s[1] /\ DOMAIN Tail(s) = 1 .. Len(s) - 1
  BY <1>1, LenProperties
<1> DEFINE rest == Tail(s)
<1>3. \A i \in 1 .. Len(s) - 1 : rest[i] = s[i + 1]
  BY <1>1
<1>4. \A i \in DOMAIN s : s[i] = s[1] \/ (i - 1 \in DOMAIN rest /\ s[i] = rest[i - 1])
  BY <1>1, <1>2, <1>3
<1>5. \A i \in DOMAIN rest : i + 1 \in DOMAIN s /\ rest[i] = s[i + 1]
  BY <1>1, <1>2, <1>3
<1> HIDE DEF rest
<1>6. Range(s) = {s[1]} \cup Range(rest)
  BY <1>1, <1>4, <1>5 DEF Range
<1> QED BY <1>1, <1>2, <1>6 DEF rest, Range

(* What is asked for covers the drafts that were made, and no other.       *)
LEMMA ActionsOf ==
  ASSUME NEW x, x.kind \in {"revenue", "growth"}
  PROVE  /\ ActionsFor(x) \in Seq(GatedAction) /\ ActionsFor(x) # <<>>
         /\ x.kind = "revenue" => Range(ActionsFor(x)) = Range(Commitments)
         /\ x.kind = "growth" =>
              Range(ActionsFor(x)) =
                {"publish_public_content"}
                \cup (IF <<"social-post-brief", x.of>> \in x.made THEN {"publish_social_posts"} ELSE {})
                \cup (IF <<"ad-campaign-brief", x.of>> \in x.made
                      THEN {"run_paid_ads", "launch_ad_campaigns"} ELSE {})
<1>1. CASE x.kind = "revenue"
  BY <1>1, DraftNames DEF ActionsFor
<1>2. CASE x.kind = "growth"
  <2> DEFINE social == IF <<"social-post-brief", x.of>> \in x.made
                       THEN <<"publish_social_posts">> ELSE <<>>
             public == <<"publish_public_content">>
             ads == IF <<"ad-campaign-brief", x.of>> \in x.made
                    THEN <<"run_paid_ads", "launch_ad_campaigns">> ELSE <<>>
  <2>1. ActionsFor(x) = (social \o public) \o ads
    BY <1>2 DEF ActionsFor
  <2>2. /\ social \in Seq(GatedAction) /\ public \in Seq(GatedAction) /\ ads \in Seq(GatedAction)
    <3>1. {"publish_social_posts", "publish_public_content", "run_paid_ads", "launch_ad_campaigns"}
            \subseteq GatedAction
      BY DEF GatedAction
    <3>2. public \in Seq(GatedAction)
      BY <3>1
    <3>3. social \in Seq(GatedAction)
      BY <3>1
    <3>4. ads \in Seq(GatedAction)
      BY <3>1
    <3> QED BY <3>2, <3>3, <3>4
  <2>3. Range(public) = {"publish_public_content"}
    BY DEF Range
  <2>4. Range(social) = IF <<"social-post-brief", x.of>> \in x.made THEN {"publish_social_posts"} ELSE {}
    BY DEF Range
  <2>5. Range(ads) = IF <<"ad-campaign-brief", x.of>> \in x.made
                     THEN {"run_paid_ads", "launch_ad_campaigns"} ELSE {}
    BY DEF Range
  <2> HIDE DEF social, public, ads
  <2>6. /\ social \o public \in Seq(GatedAction)
        /\ Range(social \o public) = Range(social) \cup Range(public)
    BY <2>2, RangeOfConcat
  <2> DEFINE both == social \o public
  <2> HIDE DEF both
  <2>7. /\ both \o ads \in Seq(GatedAction)
        /\ Range(both \o ads) = Range(social) \cup Range(public) \cup Range(ads)
    <3>1. both \in Seq(GatedAction) /\ Range(both) = Range(social) \cup Range(public)
      BY <2>6 DEF both
    <3> QED BY <2>2, <3>1, RangeOfConcat
  <2>8. ActionsFor(x) \in Seq(GatedAction)
        /\ Range(ActionsFor(x)) = Range(social) \cup Range(public) \cup Range(ads)
    BY <2>1, <2>7 DEF both
  <2>9. ActionsFor(x) # <<>>
    <3>1. Range(<<>>) = {}
      BY DEF Range
    <3> QED BY <2>3, <2>8, <3>1
  <2> QED BY <1>2, <2>3, <2>4, <2>5, <2>8, <2>9
<1> QED BY <1>1, <1>2

LEMMA ReviewPlaced ==
  ASSUME NEW x, Placed(x), x.at = "review", NEW y,
         y = With(x, With([at |-> "asking", asks |-> ActionsFor(x)],
                          [made |-> x.made \cup {<<"compliance-review", x.of>>}]))
  PROVE  /\ Placed(y) /\ y.at = "asking" /\ y.kind = x.kind /\ y.fresh = x.fresh
         /\ y.todo = x.todo
<1> DEFINE asks == ActionsFor(x)
<1>1. /\ {"kind", "at", "fresh", "made", "filed", "left", "todo", "of"} \subseteq DOMAIN x
      /\ x.kind \in {"revenue", "growth"}
  BY DEF Placed, HasFields, HasPlace, OnDeals, OnDrafts
<1>2. /\ asks \in Seq(GatedAction) /\ asks # <<>>
      /\ x.kind = "revenue" => Range(asks) = Range(Commitments)
      /\ x.kind = "growth" =>
           Range(asks) =
             {"publish_public_content"}
             \cup (IF <<"social-post-brief", x.of>> \in x.made THEN {"publish_social_posts"} ELSE {})
             \cup (IF <<"ad-campaign-brief", x.of>> \in x.made
                   THEN {"run_paid_ads", "launch_ad_campaigns"} ELSE {})
  BY <1>1, ActionsOf
<1> HIDE DEF asks
<1>3. y = With(x, With([at |-> "asking", asks |-> asks],
                       [made |-> x.made \cup {<<"compliance-review", x.of>>}]))
  BY DEF asks
<1>4. /\ DOMAIN x \cup {"asks"} \subseteq DOMAIN y /\ y.at = "asking" /\ y.asks = asks
      /\ y.todo = x.todo /\ y.of = x.of
      /\ y.kind = x.kind /\ y.fresh = x.fresh /\ y.filed = x.filed
      /\ y.made = x.made \cup {<<"compliance-review", x.of>>}
  BY <1>1, <1>3 DEF With
<1>5. HasFields(y) /\ HasPlace(y) /\ HasWork(y)
  BY <1>1, <1>2, <1>4 DEF Placed, HasFields, HasPlace, HasWork, OnDeals, OnDrafts
<1>6. \A r \in y.filed : Backed(y.made, r[1], r[2])
  BY <1>4, StaysBacked DEF Placed, Gated
<1>7. "compliance-review" \notin Draft /\ Draft = Briefs \cup GrowthDraft
      /\ \A type \in Briefs : Commits(type) = Range(Commitments)
  BY DraftNames DEF Draft, Briefs, Commits
<1>8. ASSUME NEW z \in y.made, z[1] \in Draft
      PROVE  /\ AskedFor(y, z) \/ ToAskFor(y, z)
             /\ z = <<z[1], z[2]>>
             /\ \/ y.kind = "revenue" /\ z[1] \in Briefs
                \/ y.kind = "growth" /\ z[1] \in GrowthDraft
  <2>1. z \in x.made
    BY <1>4, <1>7, <1>8
  <2>2. /\ z = <<z[1], z[2]>>
        /\ \/ x.kind = "revenue" /\ z[1] \in Briefs
           \/ x.kind = "growth" /\ z[1] \in GrowthDraft
    BY <1>8, <2>1 DEF Placed, Gated
  <2>3. CASE AskedFor(x, z)
    BY <1>4, <2>2, <2>3 DEF AskedFor
  <2>4. CASE z[2] = x.of /\ ~AskedFor(x, z)
    <3>1. Commits(z[1]) \subseteq Range(asks)
      <4>1. CASE x.kind = "revenue"
        BY <1>2, <1>7, <2>2, <4>1
      <4>2. CASE x.kind = "growth"
        <5>1. <<z[1], x.of>> \in x.made
          BY <2>1, <2>2, <2>4
        <5> QED BY <1>2, <2>2, <4>2, <5>1, DraftNames DEF Commits, Briefs
      <4> QED BY <1>1, <4>1, <4>2
    <3> QED BY <1>4, <2>2, <2>4, <3>1 DEF ToAskFor, OnDrafts
  <2> QED BY <1>8, <2>1, <2>2, <2>3, <2>4 DEF Placed, Gated, ToAskFor
<1>9. ASSUME NEW action \in Range(asks) PROVE Backed(y.made, action, y.of)
  <2>1. PICK type \in Draft : <<type, x.of>> \in x.made
    BY DEF Placed, Gated
  <2>2. \/ x.kind = "revenue" /\ type \in Briefs
        \/ x.kind = "growth" /\ type \in GrowthDraft
    BY <2>1 DEF Placed, Gated
  <2>3. \E t \in Draft : <<t, x.of>> \in x.made /\ action \in Commits(t)
    <3>1. CASE x.kind = "revenue"
      BY <1>2, <1>7, <1>9, <2>1, <2>2, <3>1
    <3>2. CASE x.kind = "growth" /\ action = "publish_public_content"
      BY <2>1, <2>2, <3>2, DraftNames DEF Commits, Briefs
    <3>3. CASE x.kind = "growth" /\ action = "publish_social_posts"
      <4>1. <<"social-post-brief", x.of>> \in x.made
        BY <1>2, <1>9, <3>3
      <4> QED BY <3>3, <4>1, DraftNames DEF Commits, Briefs, Draft
    <3>4. CASE x.kind = "growth" /\ action \in {"run_paid_ads", "launch_ad_campaigns"}
      <4>1. <<"ad-campaign-brief", x.of>> \in x.made
        BY <1>2, <1>9, <3>4
      <4> QED BY <3>4, <4>1, DraftNames DEF Commits, Briefs, Draft
    <3> QED BY <1>1, <1>2, <1>9, <3>1, <3>2, <3>3, <3>4
  <2>4. PICK t \in Draft : <<t, x.of>> \in x.made /\ action \in Commits(t)
    BY <2>3
  <2>5. /\ <<t, x.of>> \in y.made /\ <<t, x.of>>[1] = t /\ <<t, x.of>>[2] = y.of
        /\ <<"compliance-review", y.of>> \in y.made
    BY <1>4, <2>4
  <2> QED BY <2>4, <2>5 DEF Backed
<1>10. Gated(y)
  BY <1>4, <1>6, <1>8, <1>9 DEF Gated
<1> QED BY <1>4, <1>5, <1>10 DEF Placed

LEMMA AskPlaced ==
  ASSUME NEW x, Placed(x), x.at = "asking", NEW y,
         y = With(x, With(IF Tail(x.asks) # <<>> THEN [at |-> "asking"]
                          ELSE IF x.kind = "growth" THEN Reporting("growth")
                          ELSE NextDeal(Tail(x.todo)),
                          [asks |-> Tail(x.asks),
                           filed |-> x.filed \cup {<<Head(x.asks), x.of>>}]))
  PROVE  /\ Placed(y) /\ y.at \in {"asking", "report", "qualify"}
         /\ y.kind = x.kind /\ y.fresh = x.fresh
         /\ y.at = "asking" => y.todo = x.todo
         /\ y.at = "qualify" => y.todo = Tail(x.todo) /\ x.kind = "revenue" /\ x.todo # <<>>
<1> DEFINE rest == Tail(x.asks)
           action == Head(x.asks)
           next == IF rest # <<>> THEN [at |-> "asking"]
                   ELSE IF x.kind = "growth" THEN Reporting("growth") ELSE NextDeal(Tail(x.todo))
<1>1. /\ {"kind", "at", "fresh", "made", "filed", "left", "todo", "of", "asks"} \subseteq DOMAIN x
      /\ x.kind \in {"revenue", "growth"} /\ x.asks \in Seq(GatedAction) /\ x.asks # <<>>
      /\ x.kind = "revenue" => x.todo \in Seq(Deal) /\ x.todo # <<>>
  BY DEF Placed, HasFields, HasPlace, HasWork, OnDeals, OnDrafts
<1>2. /\ rest \in Seq(GatedAction) /\ action \in Range(x.asks)
      /\ Range(x.asks) = {action} \cup Range(rest)
  BY <1>1, RangeOfTail
<1>3. /\ DOMAIN next \in {{"at"}, {"at", "todo"}}
      /\ \/ rest # <<>> /\ "todo" \notin DOMAIN next /\ next.at = "asking"
         \/ /\ rest = <<>> /\ "todo" \in DOMAIN next /\ next.at = "report"
            /\ next.todo \in Seq(ReportType) /\ next.todo # <<>>
         \/ /\ rest = <<>> /\ "todo" \in DOMAIN next /\ next.at = "qualify"
            /\ x.kind = "revenue"
            /\ next.todo = Tail(x.todo) /\ next.todo \in Seq(Deal) /\ next.todo # <<>>
  <2>1. CASE rest # <<>>
    BY <2>1
  <2>2. CASE rest = <<>> /\ x.kind = "growth"
    <3>1. "growth" \in DOMAIN Reports
      BY DEF Reports
    <3> DEFINE reports == Reports["growth"]
    <3>2. reports \in Seq(ReportType) /\ reports # <<>>
      BY <3>1, ReportNames
    <3>3. next = [at |-> "report", todo |-> reports]
      BY <2>2 DEF Reporting
    <3> HIDE DEF reports, next
    <3> QED BY <2>2, <3>2, <3>3
  <2>3. CASE rest = <<>> /\ x.kind # "growth"
    <3>1. Tail(x.todo) \in Seq(Deal) /\ x.kind = "revenue"
      BY <1>1, <2>3, HeadTailProperties
    <3>2. next = NextDeal(Tail(x.todo))
      BY <2>3
    <3> HIDE DEF next
    <3>3. /\ DOMAIN next = {"at", "todo"}
          /\ \/ next.at = "report" /\ next.todo \in Seq(ReportType) /\ next.todo # <<>>
             \/ next.at = "qualify" /\ next.todo = Tail(x.todo) /\ Tail(x.todo) # <<>>
      BY <3>1, <3>2, NextOf
    <3> QED BY <2>3, <3>1, <3>3
  <2> QED BY <2>1, <2>2, <2>3
<1> HIDE DEF next, rest, action
<1>4. y = With(x, With(next, [asks |-> rest, filed |-> x.filed \cup {<<action, x.of>>}]))
  BY DEF next, rest, action
<1>5. /\ DOMAIN x \subseteq DOMAIN y /\ y.at = next.at /\ y.of = x.of /\ y.asks = rest
      /\ "todo" \in DOMAIN next => y.todo = next.todo
      /\ "todo" \notin DOMAIN next => y.todo = x.todo
      /\ y.kind = x.kind /\ y.fresh = x.fresh /\ y.made = x.made
      /\ y.filed = x.filed \cup {<<action, x.of>>}
  BY <1>1, <1>3, <1>4 DEF With
<1>6. HasFields(y) /\ HasPlace(y) /\ HasWork(y)
  <2>1. HasFields(y)
    BY <1>1, <1>3, <1>5 DEF HasFields, OnDeals, OnDrafts
  <2>2. HasPlace(y)
    BY <1>1, <1>3, <1>5 DEF Placed, HasPlace, OnDeals, OnDrafts
  <2>3. HasWork(y)
    BY <1>1, <1>2, <1>3, <1>5 DEF HasWork, OnDeals, OnDrafts
  <2> QED BY <2>1, <2>2, <2>3
<1>7. ASSUME NEW r \in y.filed PROVE Backed(y.made, r[1], r[2])
  <2>1. CASE r \in x.filed
    BY <1>5, <2>1 DEF Placed, Gated
  <2>2. CASE r = <<action, x.of>>
    <3>1. Backed(x.made, action, x.of)
      BY <1>2 DEF Placed, Gated
    <3> QED BY <1>5, <2>2, <3>1
  <2> QED BY <1>5, <2>1, <2>2
<1>8. ASSUME NEW z \in y.made, z[1] \in Draft PROVE AskedFor(y, z) \/ ToAskFor(y, z)
  <2>1. CASE AskedFor(x, z)
    BY <1>5, <2>1 DEF AskedFor
  <2>2. CASE ToAskFor(x, z)
    <3>1. z[2] = x.of
          /\ \A a \in Commits(z[1]) : a \in Range(x.asks) \/ <<a, z[2]>> \in x.filed
      BY <2>2 DEF ToAskFor
    <3>2. \A a \in Commits(z[1]) : a \in Range(rest) \/ <<a, z[2]>> \in y.filed
      <4> SUFFICES ASSUME NEW a \in Commits(z[1]), a \notin Range(rest)
                   PROVE  <<a, z[2]>> \in y.filed
        OBVIOUS
      <4>1. a = action \/ <<a, z[2]>> \in x.filed
        BY <1>2, <3>1
      <4> QED BY <1>5, <3>1, <4>1
    <3>3. CASE rest # <<>>
      <4>1. y.at = "asking" /\ y.asks = rest /\ y.of = x.of
        BY <1>3, <1>5, <3>3
      <4> QED BY <3>1, <3>2, <4>1 DEF ToAskFor, OnDrafts
    <3>4. CASE rest = <<>>
      <4>1. Range(rest) = {}
        BY <3>4 DEF Range
      <4> QED BY <3>2, <4>1 DEF AskedFor
    <3> QED BY <3>3, <3>4
  <2> QED BY <1>5, <1>8, <2>1, <2>2 DEF Placed, Gated
<1>9. y.at = "asking" => \A a \in Range(y.asks) : Backed(y.made, a, y.of)
  BY <1>2, <1>5 DEF Placed, Gated
<1>10. \A z \in y.made : z[1] \in Draft =>
         /\ z = <<z[1], z[2]>>
         /\ \/ y.kind = "revenue" /\ z[1] \in Briefs
            \/ y.kind = "growth" /\ z[1] \in GrowthDraft
  BY <1>5 DEF Placed, Gated
<1>11. y.at \in {"asking", "report", "qualify"}
  BY <1>3, <1>5
<1>12. Gated(y)
  BY <1>7, <1>8, <1>9, <1>10, <1>11 DEF Gated
<1>13. y.at = "asking" => y.todo = x.todo
  BY <1>3, <1>5
<1>14. y.at = "qualify" => y.todo = Tail(x.todo) /\ x.kind = "revenue" /\ x.todo # <<>>
  BY <1>1, <1>3, <1>5
<1>15. Placed(y)
  BY <1>6, <1>12 DEF Placed
<1> QED BY <1>5, <1>11, <1>13, <1>14, <1>15

(* The plans and the reports.                                              *)
LEMMA PlanPlaced ==
  ASSUME NEW x, Placed(x), x.at = "plan", NEW of, NEW y,
         y = With(x, With([left |-> x.left \ {of},
                           at |-> IF x.left \ {of} = {} THEN "end" ELSE "plan"],
                          [made |-> x.made \cup {<<PerClient[x.kind], of>>}]))
  PROVE  Placed(y) /\ y.at \in {"plan", "end"} /\ y.kind = x.kind /\ y.fresh = x.fresh
<1> DEFINE left == x.left \ {of}
           at == IF left = {} THEN "end" ELSE "plan"
<1>7. at \in {"plan", "end"}
  OBVIOUS
<1>1. /\ {"kind", "at", "fresh", "made", "filed", "left"} \subseteq DOMAIN x
      /\ x.kind \in {"account_plans", "success_status"}
  BY NoPlans DEF Placed, HasFields, HasPlace, OnDeals, OnDrafts
<1> DEFINE type == PerClient[x.kind]
<1>2. type \in {"client-account-plan", "client-success-status-report"}
  BY <1>1 DEF PerClient
<1> HIDE DEF type, left, at
<1>3. y = With(x, With([left |-> left, at |-> at], [made |-> x.made \cup {<<type, of>>}]))
  BY DEF type, left, at
<1>4. /\ DOMAIN x \subseteq DOMAIN y /\ y.at = at
      /\ y.kind = x.kind /\ y.fresh = x.fresh /\ y.filed = x.filed
      /\ y.made = x.made \cup {<<type, of>>}
  BY <1>1, <1>3 DEF With
<1>5. \A z \in {<<type, of>>} : z[1] \notin Draft
  BY <1>2, DraftNames DEF Draft, Briefs
<1>6. HasFields(y) /\ HasPlace(y) /\ HasWork(y)
  BY <1>1, <1>4, <1>7 DEF Placed, HasFields, HasPlace, HasWork, OnDeals, OnDrafts
<1> QED BY <1>4, <1>5, <1>6, <1>7, PlainMove DEF OnDrafts, OnDeals

LEMMA ReportPlaced ==
  ASSUME NEW x, Placed(x), x.at = "report", NEW y,
         y = With(x, With([todo |-> Tail(x.todo),
                           at |-> IF Tail(x.todo) = <<>> THEN "end" ELSE "report"],
                          [made |-> x.made \cup {<<Head(x.todo), Nobody>>}]))
  PROVE  Placed(y) /\ y.at \in {"report", "end"} /\ y.kind = x.kind /\ y.fresh = x.fresh
<1> DEFINE rest == Tail(x.todo)
           type == Head(x.todo)
           at == IF rest = <<>> THEN "end" ELSE "report"
<1>1. /\ {"kind", "at", "fresh", "made", "filed", "left", "todo"} \subseteq DOMAIN x
      /\ x.todo \in Seq(ReportType) /\ x.todo # <<>>
  BY DEF Placed, HasFields, HasWork
<1>2. rest \in Seq(ReportType) /\ type \in ReportType
  BY <1>1, HeadTailProperties
<1>3. at \in {"end", "report"} /\ (at = "report" => rest # <<>>)
  OBVIOUS
<1> HIDE DEF rest, type, at
<1>4. y = With(x, With([todo |-> rest, at |-> at], [made |-> x.made \cup {<<type, Nobody>>}]))
  BY DEF at, rest, type
<1>5. /\ DOMAIN x \subseteq DOMAIN y /\ y.at = at /\ y.todo = rest
      /\ y.kind = x.kind /\ y.fresh = x.fresh /\ y.filed = x.filed
      /\ y.made = x.made \cup {<<type, Nobody>>}
  BY <1>1, <1>4 DEF With
<1>6. \A z \in {<<type, Nobody>>} : z[1] \notin Draft
  BY <1>2, DraftNames DEF Draft, Briefs, ReportType
<1>7. HasFields(y) /\ HasPlace(y) /\ HasWork(y)
  BY <1>1, <1>2, <1>3, <1>5 DEF Placed, HasFields, HasPlace, HasWork, OnDeals, OnDrafts
<1> QED BY <1>3, <1>5, <1>6, <1>7, PlainMove DEF OnDrafts, OnDeals

(* What disturbs a pass takes nothing from what it has to do.              *)
LEMMA DisturbedPlaced ==
  ASSUME NEW x, Placed(x), NEW y, y = [x EXCEPT !.fresh = FALSE]
  PROVE  /\ Placed(y) /\ y.kind = x.kind /\ y.fresh = FALSE /\ y.at = x.at
<1>1. /\ {"kind", "at", "fresh", "made", "filed", "left"} \subseteq DOMAIN x
  BY DEF Placed, HasFields
<1>2. /\ DOMAIN y = DOMAIN x /\ y.fresh = FALSE
      /\ \A f \in DOMAIN x : f # "fresh" => y[f] = x[f]
  BY <1>1
<1>3. /\ y.kind = x.kind /\ y.at = x.at /\ y.made = x.made /\ y.filed = x.filed
      /\ y.left = x.left
      /\ "todo" \in DOMAIN x => y.todo = x.todo
      /\ "of" \in DOMAIN x => y.of = x.of
      /\ "asks" \in DOMAIN x => y.asks = x.asks
  BY <1>1, <1>2
<1>4. HasFields(y)
  BY <1>2, <1>3 DEF Placed, HasFields
<1>5. HasPlace(y)
  BY <1>2, <1>3 DEF Placed, HasPlace
<1>6. HasWork(y)
  BY <1>3 DEF Placed, HasFields, HasWork, OnDeals, OnDrafts
<1>7. Gated(y)
  <2>1. y.at \in OnDrafts => y.of = x.of
    BY <1>3 DEF Placed, HasFields
  <2>2. y.at = "asking" => y.asks = x.asks
    BY <1>3 DEF Placed, HasFields
  <2>3. \A z \in x.made : ToAskFor(x, z) => ToAskFor(y, z)
    BY <1>3, <2>1, <2>2 DEF ToAskFor
  <2>4. \A z \in x.made : AskedFor(x, z) => AskedFor(y, z)
    BY <1>3 DEF AskedFor
  <2> QED BY <1>3, <2>1, <2>2, <2>3, <2>4 DEF Placed, Gated, OnDrafts
<1> QED BY <1>2, <1>3, <1>4, <1>5, <1>6, <1>7 DEF Placed

(* A pass goes on with what it had to go through, or with less.            *)
LEMMA GoesOn ==
  ASSUME NEW x, NEW y, Undisturbed(x), y.fresh = x.fresh, y.at # "reading",
         y.at \in OnDeals \/ (y.at \in OnDrafts /\ y.kind = "revenue") =>
           /\ x.at \in OnDeals \/ (x.at \in OnDrafts /\ x.kind = "revenue")
           /\ Range(y.todo) \subseteq Range(x.todo)
  PROVE  Undisturbed(y)
BY DEF Undisturbed

(* It knows what it knew.                                                  *)
LEMMA KnowsOn ==
  ASSUME NEW x, NEW changes, {"seen", "accounts"} \cap DOMAIN changes = {}, Informed(x), NEW y,
         y = With(x, changes), y.fresh = x.fresh, y.at # "reading",
         OnWork(y) => OnWork(x) /\ Rest(y) = Rest(x)
  PROVE  Informed(y)
<1>1. \A f \in {"seen", "accounts"} \cap DOMAIN x : f \in DOMAIN y /\ y[f] = x[f]
  BY DEF With
<1>2. {"seen", "accounts"} \subseteq DOMAIN x =>
        {"seen", "accounts"} \subseteq DOMAIN y /\ y.seen = x.seen /\ y.accounts = x.accounts
  BY <1>1
<1>3. Knows(x) /\ Rest(y) = Rest(x) => Knows(y)
  BY <1>2 DEF Knows, KnowsOf
<1> QED BY <1>3 DEF Informed

LEMMA IdleInformed == ASSUME NEW y, y.at # "reading", ~OnWork(y) PROVE Informed(y)
BY DEF Informed

(* Where a step of a pass leaves it, unless it qualifies an opportunity.   *)
Fits(y, p) ==
  y.at # "off" => Placed(y) /\ y.kind \in Services[p] /\ Undisturbed(y) /\ Informed(y)

LEMMA ReadingFits ==
  ASSUME BooksInv, NEW p \in Pass, NEW what \in {"deals", "accounts"}, ReadBooks(p, what)
  PROVE  \E y : pass' = [pass EXCEPT ![p] = y] /\ Fits(y, p)
<1> DEFINE x == pass[p]
           read == With(x, IF what = "deals" THEN [left |-> x.left \ {what}, seen |-> {books}]
                           ELSE [left |-> x.left \ {what}, accounts |-> {books}])
<1>1. /\ Placed(x) /\ x.kind \in Services[p] /\ Undisturbed(x) /\ Informed(x)
      /\ x.at = "reading" /\ what \in x.left
  BY DEF BooksInv, PassesPlaced, PassesGated, NoneReopened, PassesInformed, ReadBooks, Placed
<1>2. \/ /\ x.left \ {what} # {} /\ pass' = [pass EXCEPT ![p] = read]
      \/ \E focus \in Deal \cup {Nobody}, order \in Orders(Reading(read.seen)) :
           /\ x.left \ {what} = {}
           /\ pass' = [pass EXCEPT ![p] = With(read, Agenda(x.kind, order, focus))]
  BY DEF ReadBooks
<1> HIDE DEF x
<1>3. /\ Placed(read) /\ read.at = "reading"
      /\ read.left = x.left \ {what} /\ read.kind = x.kind /\ read.fresh = x.fresh
      /\ what = "deals" =>
           /\ read.seen = {books}
           /\ "accounts" \in DOMAIN x => "accounts" \in DOMAIN read /\ read.accounts = x.accounts
      /\ what = "accounts" =>
           /\ "seen" \in DOMAIN x => read.seen = x.seen
           /\ "accounts" \in DOMAIN read /\ read.accounts = {books}
  <2>1. CASE what = "deals"
    <3> DEFINE y == With(x, [left |-> x.left \ {"deals"}, seen |-> {books}])
    <3>1. /\ Placed(y) /\ y.at = "reading"
          /\ y.left = x.left \ {"deals"} /\ y.kind = x.kind /\ y.fresh = x.fresh
          /\ y.seen = {books}
          /\ "accounts" \in DOMAIN x => "accounts" \in DOMAIN y /\ y.accounts = x.accounts
      <4>1. Placed(x) /\ x.at = "reading"
        BY <1>1
      <4>2. ASSUME NEW b
            PROVE  LET r == With(x, [left |-> x.left \ {"deals"}, seen |-> {b}]) IN
                   /\ Placed(r) /\ r.at = "reading"
                   /\ r.left = x.left \ {"deals"} /\ r.kind = x.kind /\ r.fresh = x.fresh
                   /\ r.seen = {b}
                   /\ "accounts" \in DOMAIN x =>
                        "accounts" \in DOMAIN r /\ r.accounts = x.accounts
        BY <4>1, DealsRead
      <4> QED BY <4>2
    <3>2. read = y
      BY <2>1
    <3> QED BY <2>1, <3>1, <3>2
  <2>2. CASE what = "accounts"
    <3> DEFINE y == With(x, [left |-> x.left \ {"accounts"}, accounts |-> {books}])
    <3>1. /\ Placed(y) /\ y.at = "reading"
          /\ y.left = x.left \ {"accounts"} /\ y.kind = x.kind /\ y.fresh = x.fresh
          /\ "seen" \in DOMAIN x => y.seen = x.seen
          /\ "accounts" \in DOMAIN y /\ y.accounts = {books}
      BY <1>1, AccountsRead
    <3>2. read = y
      BY <2>2
    <3> QED BY <2>2, <3>1, <3>2
  <2> QED BY <2>1, <2>2
<1> HIDE DEF read
<1>4. x.left \subseteq {"deals", "accounts"}
      /\ ("deals" \notin x.left => "seen" \in DOMAIN x)
  BY <1>1 DEF Placed, HasPlace, HasFields
<1>5. read.fresh /\ "deals" \notin read.left => read.seen = {books}
  BY <1>1, <1>3, <1>4 DEF Undisturbed
<1>6. read.kind = "revenue" /\ "accounts" \notin read.left =>
         "accounts" \in DOMAIN read /\ (read.fresh => read.accounts = {books})
  BY <1>1, <1>3 DEF Informed
<1>7. CASE x.left \ {what} # {} /\ pass' = [pass EXCEPT ![p] = read]
  <2>1. Undisturbed(read)
    BY <1>3, <1>5 DEF Undisturbed, OnDeals, OnDrafts
  <2>2. Informed(read)
    BY <1>3, <1>6 DEF Informed, OnWork, OnDeals, OnDrafts
  <2> QED BY <1>1, <1>3, <1>7, <2>1, <2>2 DEF Fits
<1>8. ASSUME NEW focus \in Deal \cup {Nobody}, NEW order \in Orders(Reading(read.seen)),
             x.left \ {what} = {},
             pass' = [pass EXCEPT ![p] = With(read, Agenda(x.kind, order, focus))]
      PROVE  \E y : pass' = [pass EXCEPT ![p] = y] /\ Fits(y, p)
  <2> DEFINE y == With(read, Agenda(read.kind, order, focus))
             b == Reading(read.seen)
  <2>1. /\ Placed(y) /\ y.at \notin {"reading", "review", "asking"}
        /\ y.kind = read.kind /\ y.fresh = read.fresh
        /\ y.at \in OnDeals =>
             /\ y.todo \in Seq(OpenDeals(b)) /\ Distinct(y.todo)
             /\ \/ y.at = "audit" /\ y.todo = <<>>
                \/ y.at = "qualify" /\ HasRead(read, y)
    BY <1>3, AgendaOf
  <2>2. read.fresh => b = books
    BY <1>3, <1>5, <1>8 DEF Reading
  <2>3. pass' = [pass EXCEPT ![p] = y]
    BY <1>3, <1>8
  <2> HIDE DEF y, b
  <2>4. y.at \in OnDrafts /\ y.kind = "revenue" => y.at \in OnDeals
    BY <2>1 DEF Placed, HasPlace, OnDeals, OnDrafts
  <2>5. y.at \in OnDeals => Range(y.todo) \subseteq OpenDeals(b)
    BY <2>1 DEF Range
  <2>6. Undisturbed(y)
    BY <2>1, <2>2, <2>4, <2>5 DEF Undisturbed
  <2>7. y.kind \in Services[p]
    BY <1>1, <1>3, <2>1
  <2>8. Informed(y)
    <3>1. OnWork(y) => y.at \in OnDeals
      BY <2>4 DEF OnWork
    <3>2. y.at \in OnDeals => y.kind = "revenue"
      BY <2>1 DEF Placed, HasPlace
    <3>3. CASE y.at = "qualify"
      <4>1. HasRead(read, y) /\ Distinct(y.todo) /\ y.kind = "revenue"
        BY <2>1, <3>2, <3>3 DEF OnDeals
      <4>2. "seen" \in DOMAIN read /\ "accounts" \in DOMAIN read
        BY <1>3, <1>8, <1>6, <2>1, <4>1 DEF Placed, HasFields
      <4>3. {"seen", "accounts"} \subseteq DOMAIN y /\ y.seen = read.seen
            /\ y.accounts = read.accounts
        BY <4>1, <4>2 DEF HasRead
      <4>4. y.fresh => Reading(y.seen) = books /\ Reading(y.accounts) = books
        BY <1>3, <1>5, <1>8, <1>6, <2>1, <4>1, <4>3 DEF Reading
      <4>5. books \in Book
        BY DEF BooksInv, PipelinesTypeOK
      <4>6. y.fresh => Knows(y)
        BY <4>3, <4>4, <4>5, AlikeItself DEF Knows, KnowsOf
      <4>7. Rest(y) = y.todo
        BY <3>3 DEF Rest
      <4> QED BY <3>3, <4>1, <4>6, <4>7 DEF Informed
    <3>4. CASE y.at = "audit" /\ y.todo = <<>>
      <4>1. Rest(y) = <<>> /\ Distinct(<<>>)
        BY <3>4 DEF Rest, Distinct
      <4> QED BY <3>4, <4>1 DEF Informed
    <3>5. CASE ~OnWork(y)
      BY <2>1, <3>5, IdleInformed
    <3> QED BY <2>1, <3>1, <3>3, <3>4, <3>5
  <2> QED BY <2>1, <2>3, <2>6, <2>7, <2>8 DEF Fits
<1> QED BY <1>2, <1>7, <1>8

LEMMA StepFits ==
  ASSUME BooksInv, NEW p \in Pass, PassStep(p), ~Qualify(p)
  PROVE  /\ UNCHANGED <<books, configured, edits, moves, reopened>>
         /\ \E y : pass' = [pass EXCEPT ![p] = y] /\ Fits(y, p)
<1> DEFINE x == pass[p]
<1>1. UnderWay(p) => Placed(x) /\ x.kind \in Services[p] /\ Undisturbed(x) /\ Informed(x)
  BY DEF BooksInv, PassesPlaced, PassesGated, NoneReopened, PassesInformed, Placed
<1>2. CASE BeginPass(p)
  <2>1. PICK kind \in Services[p] :
          Forth(p, [kind |-> kind, at |-> "reading", fresh |-> TRUE, made |-> {}, filed |-> {},
                    left |-> IF kind = "revenue" THEN {"deals", "accounts"} ELSE {"deals"}])
    BY <1>2 DEF BeginPass
  <2> DEFINE left == IF kind = "revenue" THEN {"deals", "accounts"} ELSE {"deals"}
             y == With(x, [kind |-> kind, at |-> "reading", fresh |-> TRUE, made |-> {},
                           filed |-> {}, left |-> left])
  <2>2. pass' = [pass EXCEPT ![p] = y] /\ UNCHANGED <<books, configured, edits, moves, reopened>>
    BY <2>1 DEF Forth
  <2>3. kind \in ServiceKind
    BY <2>1, PipelinesAssumption DEF PipelinesAssumption
  <2>4. left \subseteq {"deals", "accounts"} /\ "deals" \in left
    OBVIOUS
  <2> HIDE DEF left, x
  <2>5. /\ {"kind", "at", "fresh", "made", "filed", "left"} \subseteq DOMAIN y
        /\ y.kind = kind /\ y.at = "reading" /\ y.fresh = TRUE /\ y.made = {} /\ y.filed = {}
        /\ y.left = left
    BY DEF With
  <2> HIDE DEF y
  <2>6. Placed(y)
    BY <2>3, <2>4, <2>5 DEF Placed, HasFields, HasPlace, HasWork, Gated, OnDeals, OnDrafts
  <2>7. Undisturbed(y)
    BY <2>4, <2>5 DEF Undisturbed, OnDeals, OnDrafts
  <2>8. kind = "revenue" => "accounts" \in left
    BY DEF left
  <2>9. Informed(y)
    BY <2>5, <2>8 DEF Informed, OnWork, OnDeals, OnDrafts
  <2> QED BY <2>1, <2>2, <2>5, <2>6, <2>7, <2>9 DEF Fits
<1>3. ASSUME NEW what \in {"deals", "accounts"}, ReadBooks(p, what)
      PROVE  /\ UNCHANGED <<books, configured, edits, moves, reopened>>
             /\ \E y : pass' = [pass EXCEPT ![p] = y] /\ Fits(y, p)
  BY <1>3, ReadingFits DEF ReadBooks
<1>4. CASE WriteLead(p)
  <2> DEFINE changes == With(IF x.ready THEN [at |-> "briefs", left |-> Briefs]
                             ELSE [at |-> "audit"],
                             [made |-> x.made \cup {<<"lead-qualification-report", x.of>>}])
             y == With(x, changes)
  <2>1. /\ x.at = "lead" /\ UnderWay(p)
        /\ pass' = [pass EXCEPT ![p] = y] /\ UNCHANGED <<books, configured, edits, moves, reopened>>
    BY <1>4 DEF WriteLead, Produce, Forth, UnderWay
  <2> HIDE DEF x
  <2>2. /\ Placed(y) /\ y.at \in {"briefs", "audit"} /\ y.kind = x.kind /\ y.fresh = x.fresh
        /\ y.todo = x.todo
    BY <1>1, <2>1, LeadPlaced
  <2>3. {"seen", "accounts"} \cap DOMAIN changes = {}
    BY DEF With
  <2> HIDE DEF changes
  <2>4. Informed(y)
    <3>1. OnWork(x) /\ Rest(y) = Rest(x) /\ y.at # "reading"
      BY <2>1, <2>2 DEF OnWork, OnDeals, Rest
    <3> HIDE DEF y
    <3>2. y = With(x, changes) /\ y.fresh = x.fresh /\ Informed(x)
      BY <1>1, <2>1, <2>2 DEF y
    <3> QED BY <2>3, <3>1, <3>2, KnowsOn
  <2> HIDE DEF y
  <2>5. Undisturbed(y)
    BY <1>1, <2>1, <2>2, GoesOn DEF OnDeals, OnDrafts
  <2> QED BY <1>1, <2>1, <2>2, <2>4, <2>5 DEF Fits
<1>5. ASSUME NEW type \in Briefs, WriteBrief(p, type)
      PROVE  /\ UNCHANGED <<books, configured, edits, moves, reopened>>
             /\ \E y : pass' = [pass EXCEPT ![p] = y] /\ Fits(y, p)
  <2> DEFINE changes == With([left |-> x.left \ {type},
                              at |-> IF x.left \ {type} = {} THEN "review" ELSE "briefs"],
                             [made |-> x.made \cup {<<type, x.of>>}])
             y == With(x, changes)
  <2>1. /\ x.at = "briefs" /\ UnderWay(p) /\ type \in x.left
        /\ pass' = [pass EXCEPT ![p] = y] /\ UNCHANGED <<books, configured, edits, moves, reopened>>
    BY <1>5 DEF WriteBrief, Produce, Forth, UnderWay
  <2> HIDE DEF x
  <2>2. /\ Placed(y) /\ y.at \in {"briefs", "review"} /\ y.kind = x.kind /\ y.fresh = x.fresh
        /\ y.todo = x.todo
    BY <1>1, <2>1, BriefPlaced
  <2>3. {"seen", "accounts"} \cap DOMAIN changes = {}
    BY DEF With
  <2> HIDE DEF changes
  <2>4. Informed(y)
    <3>1. OnWork(y) => OnWork(x) /\ Rest(y) = Rest(x)
      BY <2>1, <2>2 DEF OnWork, OnDeals, OnDrafts, Rest
    <3> HIDE DEF y
    <3>2. y = With(x, changes) /\ y.fresh = x.fresh /\ Informed(x) /\ y.at # "reading"
      BY <1>1, <2>1, <2>2 DEF y
    <3> QED BY <2>3, <3>1, <3>2, KnowsOn
  <2> HIDE DEF y
  <2>5. Undisturbed(y)
    BY <1>1, <2>1, <2>2, GoesOn DEF OnDeals, OnDrafts
  <2> QED BY <1>1, <2>1, <2>2, <2>4, <2>5 DEF Fits
<1>6. CASE WriteAudit(p)
  <2>1. x.at = "audit" /\ UnderWay(p)
    BY <1>6 DEF WriteAudit, UnderWay
  <2>2. x.todo \in Seq(Deal)
    BY <1>1, <2>1 DEF Placed, HasWork, OnDeals
  <2>3. Rest(x) \in Seq(Deal) /\ Range(Rest(x)) \subseteq Range(x.todo)
    <3>1. CASE x.todo = <<>>
      <4>1. Rest(x) = <<>> /\ Range(<<>>) = {}
        BY <2>1, <3>1 DEF Rest, Range
      <4> QED BY <4>1
    <3>2. CASE x.todo # <<>>
      <4>1. Rest(x) = Tail(x.todo)
        BY <2>1, <3>2 DEF Rest
      <4> QED BY <2>2, <3>2, <4>1, RangeOfTail
    <3> QED BY <3>1, <3>2
  <2>4. \E of : pass' = [pass EXCEPT ![p] =
          With(x, With(NextDeal(Rest(x)), [made |-> x.made \cup {<<"conversion-audit", of>>}]))]
    <3>1. CASE x.todo = <<>>
      <4>1. NextDeal(Rest(x)) = Reporting("revenue")
        BY <2>1, <3>1 DEF Rest, NextDeal
      <4>2. pass' = [pass EXCEPT ![p] =
               With(x, With(NextDeal(Rest(x)),
                            [made |-> x.made \cup {<<"conversion-audit", Nobody>>}]))]
        BY <1>6, <3>1, <4>1 DEF WriteAudit, Produce, Forth
      <4> QED BY <4>2
    <3>2. CASE x.todo # <<>>
      <4>1. Rest(x) = Tail(x.todo)
        BY <2>1, <3>2 DEF Rest
      <4>2. pass' = [pass EXCEPT ![p] =
               With(x, With(NextDeal(Rest(x)),
                            [made |-> x.made \cup {<<"conversion-audit", x.of>>}]))]
        BY <1>6, <3>2, <4>1 DEF WriteAudit, Produce, Forth
      <4> QED BY <4>2
    <3> QED BY <3>1, <3>2
  <2>5. PICK of : pass' = [pass EXCEPT ![p] =
          With(x, With(NextDeal(Rest(x)), [made |-> x.made \cup {<<"conversion-audit", of>>}]))]
    BY <2>4
  <2> DEFINE rest == Rest(x)
             changes == With(NextDeal(rest), [made |-> x.made \cup {<<"conversion-audit", of>>}])
             y == With(x, changes)
  <2>6. UNCHANGED <<books, configured, edits, moves, reopened>> /\ pass' = [pass EXCEPT ![p] = y]
    BY <1>6, <2>5 DEF WriteAudit, Produce, Forth
  <2>7. {"seen", "accounts"} \cap DOMAIN changes = {}
    BY DEF With, NextDeal, Reporting
  <2> HIDE DEF x, rest
  <2>8. /\ Placed(y) /\ y.at \in {"qualify", "report"} /\ y.kind = x.kind /\ y.fresh = x.fresh
        /\ y.at = "qualify" => y.todo = rest
    BY <1>1, <2>1, <2>3, AuditPlaced DEF rest
  <2> HIDE DEF changes
  <2>9. Informed(y)
    <3>1. OnWork(y) => OnWork(x) /\ Rest(y) = Rest(x)
      BY <2>1, <2>8 DEF OnWork, OnDeals, OnDrafts, Rest, rest
    <3> HIDE DEF y
    <3>2. y = With(x, changes) /\ y.fresh = x.fresh /\ Informed(x) /\ y.at # "reading"
      BY <1>1, <2>1, <2>8 DEF y
    <3> QED BY <2>7, <3>1, <3>2, KnowsOn
  <2> HIDE DEF y
  <2>10. Undisturbed(y)
    BY <1>1, <2>1, <2>3, <2>8, GoesOn DEF OnDeals, OnDrafts, rest
  <2> QED BY <1>1, <2>1, <2>6, <2>8, <2>9, <2>10 DEF Fits
<1>7. CASE WriteDraft(p)
  <2> DEFINE y == With(x, With([todo |-> Tail(x.todo),
                                at |-> IF Tail(x.todo) = <<>> THEN "review" ELSE "draft"],
                               [made |-> x.made \cup {<<Head(x.todo), x.of>>}]))
  <2>1. /\ x.at = "draft" /\ UnderWay(p)
        /\ pass' = [pass EXCEPT ![p] = y] /\ UNCHANGED <<books, configured, edits, moves, reopened>>
    BY <1>7 DEF WriteDraft, Produce, Forth, UnderWay
  <2> HIDE DEF x
  <2>2. Placed(y) /\ y.at \in {"draft", "review"} /\ y.kind = x.kind /\ y.fresh = x.fresh
    BY <1>1, <2>1, DraftPlaced
  <2> HIDE DEF y
  <2>3. x.kind = "growth"
    BY <1>1, <2>1 DEF Placed, HasPlace
  <2>4. Undisturbed(y)
    BY <1>1, <2>1, <2>2, <2>3, GoesOn DEF OnDeals, OnDrafts
  <2>5. Informed(y)
    BY <2>2, <2>3, IdleInformed DEF OnWork, OnDeals
  <2> QED BY <1>1, <2>1, <2>2, <2>4, <2>5 DEF Fits
<1>8. CASE WriteReview(p)
  <2> DEFINE changes == With([at |-> "asking", asks |-> ActionsFor(x)],
                             [made |-> x.made \cup {<<"compliance-review", x.of>>}])
             y == With(x, changes)
  <2>1. /\ x.at = "review" /\ UnderWay(p)
        /\ pass' = [pass EXCEPT ![p] = y] /\ UNCHANGED <<books, configured, edits, moves, reopened>>
    BY <1>8 DEF WriteReview, Produce, Forth, UnderWay
  <2> HIDE DEF x
  <2>2. /\ Placed(y) /\ y.at = "asking" /\ y.kind = x.kind /\ y.fresh = x.fresh
        /\ y.todo = x.todo
    BY <1>1, <2>1, ReviewPlaced
  <2>3. {"seen", "accounts"} \cap DOMAIN changes = {}
    BY DEF With
  <2> HIDE DEF changes
  <2>4. Informed(y)
    <3>1. OnWork(y) => OnWork(x) /\ Rest(y) = Rest(x)
      BY <2>1, <2>2 DEF OnWork, OnDeals, OnDrafts, Rest
    <3> HIDE DEF y
    <3>2. y = With(x, changes) /\ y.fresh = x.fresh /\ Informed(x) /\ y.at # "reading"
      BY <1>1, <2>1, <2>2 DEF y
    <3> QED BY <2>3, <3>1, <3>2, KnowsOn
  <2> HIDE DEF y
  <2>5. Undisturbed(y)
    BY <1>1, <2>1, <2>2, GoesOn DEF OnDeals, OnDrafts
  <2> QED BY <1>1, <2>1, <2>2, <2>4, <2>5 DEF Fits
<1>9. CASE AskOwner(p)
  <2> DEFINE changes == With(IF Tail(x.asks) # <<>> THEN [at |-> "asking"]
                             ELSE IF x.kind = "growth" THEN Reporting("growth")
                             ELSE NextDeal(Tail(x.todo)),
                             [asks |-> Tail(x.asks),
                              filed |-> x.filed \cup {<<Head(x.asks), x.of>>}])
             y == With(x, changes)
  <2>1. /\ x.at = "asking" /\ UnderWay(p)
        /\ pass' = [pass EXCEPT ![p] = y] /\ UNCHANGED <<books, configured, edits, moves, reopened>>
    BY <1>9 DEF AskOwner, Forth, UnderWay
  <2> HIDE DEF x
  <2>2. /\ Placed(y) /\ y.at \in {"asking", "report", "qualify"}
        /\ y.kind = x.kind /\ y.fresh = x.fresh
        /\ y.at = "asking" => y.todo = x.todo
        /\ y.at = "qualify" => y.todo = Tail(x.todo) /\ x.kind = "revenue" /\ x.todo # <<>>
    BY <1>1, <2>1, AskPlaced
  <2>3. {"seen", "accounts"} \cap DOMAIN changes = {}
    BY DEF With, NextDeal, Reporting
  <2> HIDE DEF changes
  <2>4. Informed(y)
    <3>1. OnWork(y) => OnWork(x) /\ Rest(y) = Rest(x)
      BY <2>1, <2>2 DEF OnWork, OnDeals, OnDrafts, Rest
    <3> HIDE DEF y
    <3>2. y = With(x, changes) /\ y.fresh = x.fresh /\ Informed(x) /\ y.at # "reading"
      BY <1>1, <2>1, <2>2 DEF y
    <3> QED BY <2>3, <3>1, <3>2, KnowsOn
  <2> HIDE DEF y
  <2>5. y.at = "qualify" => Range(y.todo) \subseteq Range(x.todo)
    <3>1. x.kind = "revenue" => x.todo \in Seq(Deal)
      BY <1>1, <2>1 DEF Placed, HasWork, OnDrafts
    <3> QED BY <2>2, <3>1, RangeOfTail
  <2>6. Undisturbed(y)
    BY <1>1, <2>1, <2>2, <2>5, GoesOn DEF OnDeals, OnDrafts
  <2> QED BY <1>1, <2>1, <2>2, <2>6, <2>4 DEF Fits
<1>10. ASSUME NEW c \in Client, WritePlan(p, c)
       PROVE  /\ UNCHANGED <<books, configured, edits, moves, reopened>>
              /\ \E y : pass' = [pass EXCEPT ![p] = y] /\ Fits(y, p)
  <2> DEFINE y == With(x, With([left |-> x.left \ {c},
                                at |-> IF x.left \ {c} = {} THEN "end" ELSE "plan"],
                               [made |-> x.made \cup {<<PerClient[x.kind], c>>}]))
  <2>1. /\ x.at = "plan" /\ UnderWay(p)
        /\ pass' = [pass EXCEPT ![p] = y] /\ UNCHANGED <<books, configured, edits, moves, reopened>>
    BY <1>10 DEF WritePlan, Produce, Forth, UnderWay
  <2> HIDE DEF x
  <2>2. Placed(y) /\ y.at \in {"plan", "end"} /\ y.kind = x.kind /\ y.fresh = x.fresh
    BY <1>1, <2>1, PlanPlaced
  <2> HIDE DEF y
  <2>3. Undisturbed(y)
    BY <1>1, <2>1, <2>2, GoesOn DEF OnDeals, OnDrafts
  <2>4. Informed(y)
    BY <2>2, IdleInformed DEF OnWork, OnDeals, OnDrafts
  <2> QED BY <1>1, <2>1, <2>2, <2>3, <2>4 DEF Fits
<1>11. CASE WriteReport(p)
  <2> DEFINE y == With(x, With([todo |-> Tail(x.todo),
                                at |-> IF Tail(x.todo) = <<>> THEN "end" ELSE "report"],
                               [made |-> x.made \cup {<<Head(x.todo), Nobody>>}]))
  <2>1. /\ x.at = "report" /\ UnderWay(p)
        /\ pass' = [pass EXCEPT ![p] = y] /\ UNCHANGED <<books, configured, edits, moves, reopened>>
    BY <1>11 DEF WriteReport, Produce, Forth, UnderWay
  <2> HIDE DEF x
  <2>2. Placed(y) /\ y.at \in {"report", "end"} /\ y.kind = x.kind /\ y.fresh = x.fresh
    BY <1>1, <2>1, ReportPlaced
  <2> HIDE DEF y
  <2>3. Undisturbed(y)
    BY <1>1, <2>1, <2>2, GoesOn DEF OnDeals, OnDrafts
  <2>4. Informed(y)
    BY <2>2, IdleInformed DEF OnWork, OnDeals, OnDrafts
  <2> QED BY <1>1, <2>1, <2>2, <2>3, <2>4 DEF Fits
<1>12. CASE EndPass(p)
  <2>1. Fits(Off, p)
    BY DEF Fits, Off
  <2> QED BY <1>12, <2>1 DEF EndPass
<1> QED BY <1>2, <1>3, <1>4, <1>5, <1>6, <1>7, <1>8, <1>9, <1>10, <1>11, <1>12 DEF PassStep

-----------------------------------------------------------------------------
(* The verdict of a chain of early returns is that of the first condition  *)
(* that holds.                                                             *)
LEMMA FirstIs ==
  ASSUME NEW n \in Nat, NEW chain, DOMAIN chain = 1 .. n, NEW i \in 1 .. n, chain[i][1],
         \A j \in 1 .. (i - 1) : ~chain[j][1]
  PROVE  FirstOf(chain) = chain[i][2]
<1> DEFINE Is(k) == chain[k][1] /\ \A j \in 1 .. (k - 1) : ~chain[j][1]
<1>1. i \in DOMAIN chain /\ Is(i)
  OBVIOUS
<1>2. ASSUME NEW k \in DOMAIN chain, Is(k) PROVE k = i
  <2>1. k \in 1 .. n
    OBVIOUS
  <2>2. ~(k < i)
    BY <1>2, <2>1
  <2>3. ~(i < k)
    BY <1>1, <1>2, <2>1
  <2> QED BY <2>1, <2>2, <2>3
<1> DEFINE first == CHOOSE k \in DOMAIN chain : Is(k)
<1>3. first \in DOMAIN chain /\ Is(first)
  BY <1>1
<1>4. first = i
  <2> HIDE DEF first
  <2> QED BY <1>2, <1>3
<1>5. FirstOf(chain) = chain[first][2]
  BY DEF FirstOf
<1> QED BY <1>4, <1>5

LEMMA FirstOfThree ==
  ASSUME NEW e1, NEW e2, NEW e3, e3[1]
  PROVE  FirstOf(<<e1, e2, e3>>) =
           IF e1[1] THEN e1[2] ELSE IF e2[1] THEN e2[2] ELSE e3[2]
<1> DEFINE chain == <<e1, e2, e3>>
<1>1. /\ DOMAIN chain = 1 .. 3
      /\ chain[1] = e1 /\ chain[2] = e2 /\ chain[3] = e3
  OBVIOUS
<1> HIDE DEF chain
<1>2. PICK i \in 1 .. 3 : chain[i][1] /\ \A j \in 1 .. (i - 1) : ~chain[j][1]
  <2>1. CASE e1[1]
    BY <1>1, <2>1
  <2>2. CASE ~e1[1] /\ e2[1]
    BY <1>1, <2>2
  <2>3. CASE ~e1[1] /\ ~e2[1]
    BY <1>1, <2>3
  <2> QED BY <2>1, <2>2, <2>3
<1>3. FirstOf(chain) = chain[i][2]
  BY <1>1, <1>2, FirstIs
<1>4. i = 1 \/ i = 2 \/ i = 3
  OBVIOUS
<1>5. chain[i][2] = IF e1[1] THEN e1[2] ELSE IF e2[1] THEN e2[2] ELSE e3[2]
  BY <1>1, <1>2, <1>4
<1> QED BY <1>3, <1>5 DEF chain

LEMMA FirstOfFour ==
  ASSUME NEW e1, NEW e2, NEW e3, NEW e4, e4[1]
  PROVE  FirstOf(<<e1, e2, e3, e4>>) =
           IF e1[1] THEN e1[2] ELSE IF e2[1] THEN e2[2] ELSE IF e3[1] THEN e3[2]
           ELSE e4[2]
<1> DEFINE chain == <<e1, e2, e3, e4>>
<1>1. /\ DOMAIN chain = 1 .. 4
      /\ chain[1] = e1 /\ chain[2] = e2 /\ chain[3] = e3 /\ chain[4] = e4
  OBVIOUS
<1> HIDE DEF chain
<1>2. PICK i \in 1 .. 4 : chain[i][1] /\ \A j \in 1 .. (i - 1) : ~chain[j][1]
  <2>1. CASE e1[1]
    BY <1>1, <2>1
  <2>2. CASE ~e1[1] /\ e2[1]
    BY <1>1, <2>2
  <2>3. CASE ~e1[1] /\ ~e2[1] /\ e3[1]
    BY <1>1, <2>3
  <2>4. CASE ~e1[1] /\ ~e2[1] /\ ~e3[1]
    BY <1>1, <2>4
  <2> QED BY <2>1, <2>2, <2>3, <2>4
<1>3. FirstOf(chain) = chain[i][2]
  BY <1>1, <1>2, FirstIs
<1>4. i = 1 \/ i = 2 \/ i = 3 \/ i = 4
  OBVIOUS
<1>5. chain[i][2] = IF e1[1] THEN e1[2] ELSE IF e2[1] THEN e2[2] ELSE IF e3[1] THEN e3[2]
                    ELSE e4[2]
  BY <1>1, <1>2, <1>4
<1> QED BY <1>3, <1>5 DEF chain

LEMMA FirstOfFive ==
  ASSUME NEW e1, NEW e2, NEW e3, NEW e4, NEW e5, e5[1]
  PROVE  FirstOf(<<e1, e2, e3, e4, e5>>) =
           IF e1[1] THEN e1[2] ELSE IF e2[1] THEN e2[2] ELSE IF e3[1] THEN e3[2]
           ELSE IF e4[1] THEN e4[2] ELSE e5[2]
<1> DEFINE chain == <<e1, e2, e3, e4, e5>>
<1>1. /\ DOMAIN chain = 1 .. 5
      /\ chain[1] = e1 /\ chain[2] = e2 /\ chain[3] = e3 /\ chain[4] = e4 /\ chain[5] = e5
  OBVIOUS
<1> HIDE DEF chain
<1>2. PICK i \in 1 .. 5 : chain[i][1] /\ \A j \in 1 .. (i - 1) : ~chain[j][1]
  <2>1. CASE e1[1]
    BY <1>1, <2>1
  <2>2. CASE ~e1[1] /\ e2[1]
    BY <1>1, <2>2
  <2>3. CASE ~e1[1] /\ ~e2[1] /\ e3[1]
    BY <1>1, <2>3
  <2>4. CASE ~e1[1] /\ ~e2[1] /\ ~e3[1] /\ e4[1]
    BY <1>1, <2>4
  <2>5. CASE ~e1[1] /\ ~e2[1] /\ ~e3[1] /\ ~e4[1]
    BY <1>1, <2>5
  <2> QED BY <2>1, <2>2, <2>3, <2>4, <2>5
<1>3. FirstOf(chain) = chain[i][2]
  BY <1>1, <1>2, FirstIs
<1>4. i = 1 \/ i = 2 \/ i = 3 \/ i = 4 \/ i = 5
  OBVIOUS
<1>5. chain[i][2] = IF e1[1] THEN e1[2] ELSE IF e2[1] THEN e2[2] ELSE IF e3[1] THEN e3[2]
                    ELSE IF e4[1] THEN e4[2] ELSE e5[2]
  BY <1>1, <1>2, <1>4
<1> QED BY <1>3, <1>5 DEF chain

LEMMA FirstOfSix ==
  ASSUME NEW e1, NEW e2, NEW e3, NEW e4, NEW e5, NEW e6, e6[1]
  PROVE  FirstOf(<<e1, e2, e3, e4, e5, e6>>) =
           IF e1[1] THEN e1[2] ELSE IF e2[1] THEN e2[2] ELSE IF e3[1] THEN e3[2]
           ELSE IF e4[1] THEN e4[2] ELSE IF e5[1] THEN e5[2] ELSE e6[2]
<1> DEFINE chain == <<e1, e2, e3, e4, e5, e6>>
<1>1. /\ DOMAIN chain = 1 .. 6
      /\ chain[1] = e1 /\ chain[2] = e2 /\ chain[3] = e3 /\ chain[4] = e4 /\ chain[5] = e5 /\ chain[6] = e6
  OBVIOUS
<1> HIDE DEF chain
<1>2. PICK i \in 1 .. 6 : chain[i][1] /\ \A j \in 1 .. (i - 1) : ~chain[j][1]
  <2>1. CASE e1[1]
    BY <1>1, <2>1
  <2>2. CASE ~e1[1] /\ e2[1]
    BY <1>1, <2>2
  <2>3. CASE ~e1[1] /\ ~e2[1] /\ e3[1]
    BY <1>1, <2>3
  <2>4. CASE ~e1[1] /\ ~e2[1] /\ ~e3[1] /\ e4[1]
    BY <1>1, <2>4
  <2>5. CASE ~e1[1] /\ ~e2[1] /\ ~e3[1] /\ ~e4[1] /\ e5[1]
    BY <1>1, <2>5
  <2>6. CASE ~e1[1] /\ ~e2[1] /\ ~e3[1] /\ ~e4[1] /\ ~e5[1]
    BY <1>1, <2>6
  <2> QED BY <2>1, <2>2, <2>3, <2>4, <2>5, <2>6
<1>3. FirstOf(chain) = chain[i][2]
  BY <1>1, <1>2, FirstIs
<1>4. i = 1 \/ i = 2 \/ i = 3 \/ i = 4 \/ i = 5 \/ i = 6
  OBVIOUS
<1>5. chain[i][2] = IF e1[1] THEN e1[2] ELSE IF e2[1] THEN e2[2] ELSE IF e3[1] THEN e3[2]
                    ELSE IF e4[1] THEN e4[2] ELSE IF e5[1] THEN e5[2] ELSE e6[2]
  BY <1>1, <1>2, <1>4
<1> QED BY <1>3, <1>5 DEF chain

(* A qualification leaves an opportunity open.                             *)
LEMMA PatchedIs ==
  ASSUME NEW status, NEW verdict
  PROVE  PatchedStatus(status, verdict) =
           IF verdict = "proposal_ready" THEN "proposal_draft" ELSE IF verdict = "qualified"
           THEN "qualified" ELSE IF status = "stalled" THEN "stalled" ELSE "intake"
<1> DEFINE e1 == <<verdict = "proposal_ready", "proposal_draft">>
           e2 == <<verdict = "qualified", "qualified">>
           e3 == <<status = "stalled", "stalled">>
           e4 == <<TRUE, "intake">>
<1>1. /\ (e1[1] <=> verdict = "proposal_ready") /\ e1[2] = "proposal_draft"
      /\ (e2[1] <=> verdict = "qualified") /\ e2[2] = "qualified"
      /\ (e3[1] <=> status = "stalled") /\ e3[2] = "stalled"
      /\ e4[1] /\ e4[2] = "intake"
  BY Zenon
<1>2. PatchedStatus(status, verdict) = FirstOf(<<e1, e2, e3, e4>>)
  BY DEF PatchedStatus
<1> HIDE DEF e1, e2, e3, e4
<1> QED BY <1>1, <1>2, FirstOfFour

LEMMA PatchedOpen ==
  ASSUME NEW status, NEW verdict
  PROVE  PatchedStatus(status, verdict) \in DealStatus /\ IsOpen(PatchedStatus(status, verdict))
BY PatchedIs DEF DealStatus, IsOpen

(* A change of one status changes nothing else of the books.               *)
LEMMA StatusSet ==
  ASSUME NEW b \in Book, NEW d \in Deal, NEW status \in DealStatus, NEW c,
         c = [b EXCEPT !.deal[d].status = status]
  PROVE  /\ c \in Book /\ c.client = b.client /\ c.project = b.project /\ c.pending = b.pending
         /\ c.deal[d].status = status
         /\ \A e \in Deal : /\ e # d => c.deal[e] = b.deal[e]
                            /\ c.deal[e].of = b.deal[e].of
                            /\ c.deal[e].value = b.deal[e].value
                            /\ c.deal[e].margin = b.deal[e].margin
         /\ status = b.deal[d].status => c = b
<1> DEFINE Deals == [of : Client, status : DealStatus, value : Nat, margin : Nat]
           x == [b.deal[d] EXCEPT !.status = status]
           deal == [b.deal EXCEPT ![d] = x]
<1>1. /\ b.deal \in [Deal -> Deals] /\ b.deal[d] \in Deals
      /\ b = [client |-> b.client, project |-> b.project, deal |-> b.deal, pending |-> b.pending]
      /\ DOMAIN b = {"client", "project", "deal", "pending"}
  BY DEF Book
<1>2. c = [b EXCEPT !.deal = deal]
  OBVIOUS
<1>3. /\ x \in Deals /\ x.status = status /\ x.of = b.deal[d].of
      /\ x.value = b.deal[d].value /\ x.margin = b.deal[d].margin
      /\ status = b.deal[d].status => x = b.deal[d]
  <2>1. b.deal[d] = [of |-> b.deal[d].of, status |-> b.deal[d].status,
                     value |-> b.deal[d].value, margin |-> b.deal[d].margin]
    BY <1>1
  <2>2. x = [of |-> b.deal[d].of, status |-> status,
             value |-> b.deal[d].value, margin |-> b.deal[d].margin]
    BY <2>1
  <2> HIDE DEF x
  <2> QED BY <1>1, <2>1, <2>2
<1> HIDE DEF x
<1>4. /\ deal \in [Deal -> Deals] /\ deal[d] = x /\ \A e \in Deal : e # d => deal[e] = b.deal[e]
      /\ x = b.deal[d] => deal = b.deal
  <2> HIDE DEF Deals
  <2> QED BY <1>1, <1>3
<1> HIDE DEF deal
<1>5. /\ c.client = b.client /\ c.project = b.project /\ c.pending = b.pending /\ c.deal = deal
      /\ c = [client |-> b.client, project |-> b.project, deal |-> deal, pending |-> b.pending]
  BY <1>1, <1>2
<1>6. c \in Book
  BY <1>4, <1>5 DEF Book
<1>7. deal = b.deal => c = b
  BY <1>1, <1>5
<1> QED BY <1>3, <1>4, <1>5, <1>6, <1>7

LEMMA StaysOpen ==
  ASSUME NEW b \in Book, NEW d \in Deal, NEW status \in DealStatus, IsOpen(status), NEW c,
         c = [b EXCEPT !.deal[d].status = status]
  PROVE  OpenDeals(b) \subseteq OpenDeals(c)
<1>1. c.deal[d].status = status
  BY DEF Book
<1>2. \A e \in Deal : e # d => c.deal[e] = b.deal[e]
  BY StatusSet
<1> QED BY <1>1, <1>2 DEF OpenDeals

(* What disturbs a pass that fits leaves it fit, whatever has changed.     *)
LEMMA DisturbedFits ==
  ASSUME NEW x, x.at # "off", NEW p \in Pass, Placed(x), x.kind \in Services[p], NEW y,
         y = [x EXCEPT !.fresh = FALSE]
  PROVE  Placed(y) /\ y.at # "off" /\ y.kind \in Services[p] /\ ~y.fresh
BY DisturbedPlaced

-----------------------------------------------------------------------------
(* What the digests say of the same books.                                 *)
LEMMA AskedFinite == IsFiniteSet(Asked)
<1> DEFINE Names == SUBSET (Client \cup Project)
           Marks == BOOLEAN \X BOOLEAN
           f == [r \in Asked |-> <<r.names, <<r.exact, r.high>>>>]
<1>1. IsFiniteSet(Client \cup Project)
  BY BooksAssumption, FS_Union DEF BooksAssumption
<1>2. IsFiniteSet(Names)
  BY <1>1, FS_SUBSET
<1>3. IsFiniteSet(BOOLEAN)
  <2>1. BOOLEAN = {TRUE} \cup {FALSE}
    OBVIOUS
  <2>2. IsFiniteSet({TRUE}) /\ IsFiniteSet({FALSE})
    BY FS_Singleton
  <2> QED BY <2>1, <2>2, FS_Union
<1>4. IsFiniteSet(Marks)
  BY <1>3, FS_Product
<1>5. IsFiniteSet(Names \X Marks)
  BY <1>2, <1>4, FS_Product
<1>6. \A r \in Asked : /\ r.names \in Names /\ <<r.exact, r.high>> \in Marks
                       /\ r = [names |-> r.names, exact |-> r.exact, high |-> r.high]
  BY DEF Asked
<1>7. f \in [Asked -> Names \X Marks]
  BY <1>6
<1>8. ASSUME NEW r \in Asked, NEW s \in Asked, f[r] = f[s] PROVE r = s
  <2>1. <<r.names, <<r.exact, r.high>>>> = <<s.names, <<s.exact, s.high>>>>
    BY <1>8
  <2>2. r.names = s.names /\ r.exact = s.exact /\ r.high = s.high
    BY <2>1
  <2> QED BY <1>6, <2>2
<1>9. f \in Injection(Asked, Names \X Marks)
  BY <1>7, <1>8 DEF Injection, IsInjective
<1> HIDE DEF f
<1> QED BY <1>5, <1>9, FS_Injection

(* Something of a finite set counts.                                       *)
LEMMA Counts ==
  ASSUME NEW S, IsFiniteSet(S), NEW T, T \subseteq S
  PROVE  Cardinality(T) \in Nat /\ (T # {} => Cardinality(T) > 0) /\ (T = {} => Cardinality(T) = 0)
<1>1. IsFiniteSet(T)
  BY FS_Subset
<1>2. Cardinality(T) \in Nat /\ (Cardinality(T) = 0 <=> T = {})
  BY <1>1, FS_CardinalityType, FS_EmptySet
<1> QED BY <1>2

LEMMA RiskIs ==
  ASSUME NEW b, NEW p, NEW x, x = b.project[p]
  PROVE  RiskFor(b, p) =
           IF x.status = "blocked" THEN "blocked" ELSE IF "needs_human" \in x.runs
           THEN "needs_human" ELSE IF Naming(b, p) # {} THEN "approval" ELSE IF x.failing > 0
           \/ x.stale > 0 THEN "watch" ELSE IF x.status \in Underway /\ (x.runs = {} \/ x.idle >= 7)
           THEN "watch" ELSE "clear"
<1> DEFINE e1 == <<x.status = "blocked", "blocked">>
           e2 == <<"needs_human" \in x.runs, "needs_human">>
           e3 == <<Naming(b, p) # {}, "approval">>
           e4 == <<x.failing > 0 \/ x.stale > 0, "watch">>
           e5 == <<x.status \in Underway /\ (x.runs = {} \/ x.idle >= 7), "watch">>
           e6 == <<TRUE, "clear">>
<1>1. /\ (e1[1] <=> x.status = "blocked") /\ e1[2] = "blocked"
      /\ (e2[1] <=> "needs_human" \in x.runs) /\ e2[2] = "needs_human"
      /\ (e3[1] <=> Naming(b, p) # {}) /\ e3[2] = "approval"
      /\ (e4[1] <=> x.failing > 0 \/ x.stale > 0) /\ e4[2] = "watch"
      /\ (e5[1] <=> x.status \in Underway /\ (x.runs = {} \/ x.idle >= 7)) /\ e5[2] = "watch"
      /\ e6[1] /\ e6[2] = "clear"
  BY Zenon
<1>2. RiskFor(b, p) = FirstOf(<<e1, e2, e3, e4, e5, e6>>)
  BY Zenon DEF RiskFor
<1> HIDE DEF e1, e2, e3, e4, e5, e6
<1> QED BY <1>1, <1>2, FirstOfSix

LEMMA PortfolioIs ==
  ASSUME NEW b, NEW p, NEW x, x = b.project[p]
  PROVE  RiskForProject(b, p) =
           IF x.status = "blocked" THEN "blocked" ELSE IF "needs_human" \in x.runs
           THEN "needs_human" ELSE IF \E r \in Naming(b, p) : r.exact THEN "approval"
           ELSE IF x.runs = {} /\ x.status \notin {"delivered", "cancelled"} THEN "watch"
           ELSE IF Worth(b, DealsOf(b, x.of)) > 0 /\ x.status = "intake" THEN "watch" ELSE "clear"
<1> DEFINE e1 == <<x.status = "blocked", "blocked">>
           e2 == <<"needs_human" \in x.runs, "needs_human">>
           e3 == <<\E r \in Naming(b, p) : r.exact, "approval">>
           e4 == <<x.runs = {} /\ x.status \notin {"delivered", "cancelled"}, "watch">>
           e5 == <<Worth(b, DealsOf(b, x.of)) > 0 /\ x.status = "intake", "watch">>
           e6 == <<TRUE, "clear">>
<1>1. /\ (e1[1] <=> x.status = "blocked") /\ e1[2] = "blocked"
      /\ (e2[1] <=> "needs_human" \in x.runs) /\ e2[2] = "needs_human"
      /\ (e3[1] <=> \E r \in Naming(b, p) : r.exact) /\ e3[2] = "approval"
      /\ (e4[1] <=> x.runs = {} /\ x.status \notin {"delivered", "cancelled"}) /\ e4[2] = "watch"
      /\ (e5[1] <=> Worth(b, DealsOf(b, x.of)) > 0 /\ x.status = "intake") /\ e5[2] = "watch"
      /\ e6[1] /\ e6[2] = "clear"
  BY Zenon
<1>2. RiskForProject(b, p) = FirstOf(<<e1, e2, e3, e4, e5, e6>>)
  BY Zenon DEF RiskForProject
<1> HIDE DEF e1, e2, e3, e4, e5, e6
<1> QED BY <1>1, <1>2, FirstOfSix

LEMMA VerificationIs ==
  ASSUME NEW x
  PROVE  VerifyRepository(x, TRUE, TRUE) = "attention" => x.failing > 0 \/ x.stale > 0
<1> DEFINE e1 == <<~x.repository, "missing">>
           e2 == <<~TRUE, "unsupported">>
           e3 == <<~TRUE, "unverified">>
           e4 == <<x.failing > 0 \/ x.stale > 0, "attention">>
           e5 == <<TRUE, "verified">>
<1>1. /\ e1[2] = "missing" /\ e2[2] = "unsupported" /\ e3[2] = "unverified"
      /\ (e4[1] <=> x.failing > 0 \/ x.stale > 0) /\ e4[2] = "attention"
      /\ e5[1] /\ e5[2] = "verified"
  BY Zenon
<1>2. VerifyRepository(x, TRUE, TRUE) = FirstOf(<<e1, e2, e3, e4, e5>>)
  BY Zenon DEF VerifyRepository
<1> HIDE DEF e1, e2, e3, e4, e5
<1> QED BY <1>1, <1>2, FirstOfFive

LEMMA ClientRiskIs == ASSUME NEW a, a.blocked > 0 PROVE RiskForClient(a) = "blocked"
<1> DEFINE e1 == <<a.blocked > 0, "blocked">>
           e2 == <<a.due, "follow_up_due">>
           e3 == <<a.proposals > 0, "proposal">>
           e4 == <<a.active > 0 \/ a.open > 0, "active">>
           e5 == <<TRUE, "cold">>
<1>1. (e1[1] <=> a.blocked > 0) /\ e1[2] = "blocked" /\ e5[1]
  BY Zenon
<1>2. RiskForClient(a) = FirstOf(<<e1, e2, e3, e4, e5>>)
  BY Zenon DEF RiskForClient
<1> HIDE DEF e1, e2, e3, e4, e5
<1> QED BY <1>1, <1>2, FirstOfFive

(* The parts of a project's health score.                                  *)
RiskPoints == [blocked |-> 45, needs_human |-> 35, approval |-> 20, watch |-> 15, clear |-> 0]

Points(risk, asked, human, failing, stale, none, old, worth) ==
  100 - risk - asked - human - failing - stale - none - old + worth

ScoredAs(b, p, asked, human, failing, stale, none, old, worth) ==
  /\ asked \in 0 .. 15 /\ human \in {0, 10} /\ failing \in 0 .. 25 /\ stale \in 0 .. 15
  /\ none \in {0, 8} /\ old \in {0, 10} /\ worth \in {0, 5}
  /\ ScoreFor(b, p) =
       Clamp(Points(RiskPoints[RiskFor(b, p)], asked, human, failing, stale, none, old, worth))
  /\ Naming(b, p) = {} => asked = 0
  /\ Naming(b, p) # {} => asked >= 5
  /\ "needs_human" \notin b.project[p].runs => human = 0
  /\ b.project[p].failing = 0 => failing = 0
  /\ b.project[p].stale = 0 => stale = 0

LEMMA ScoreIs ==
  ASSUME NEW b \in Book, NEW p \in Project
  PROVE  \E asked, human, failing, stale, none, old, worth :
           ScoredAs(b, p, asked, human, failing, stale, none, old, worth)
<1> DEFINE x == b.project[p]
           n == Cardinality(Naming(b, p))
           h == IF "needs_human" \in x.runs THEN 1 ELSE 0
           asked == Min({15, 5 * n})
           human == Min({20, 10 * h})
           failing == Min({25, 10 * x.failing})
           stale == Min({15, 5 * x.stale})
           none == IF x.runs = {} THEN 8 ELSE 0
           old == IF x.idle >= 14 THEN 10 ELSE 0
           worth == IF Worth(b, DealsOf(b, x.of) \cap OpenDeals(b)) > 0 THEN 5 ELSE 0
<1>1. /\ n \in Nat /\ (Naming(b, p) = {} => n = 0) /\ (Naming(b, p) # {} => n > 0)
  <2>1. Naming(b, p) \subseteq Asked
    BY DEF Naming, Book
  <2> QED BY <2>1, AskedFinite, Counts
<1>2. x.failing \in Nat /\ x.stale \in Nat
  BY DEF Book
<1>3. ScoreFor(b, p) =
        Clamp(Points(RiskPoints[RiskFor(b, p)], asked, human, failing, stale, none, old, worth))
  BY Zenon DEF ScoreFor, RiskPoints, Points
<1>4. h \in {0, 1} /\ ("needs_human" \notin x.runs => h = 0)
  OBVIOUS
<1>5. none \in {0, 8} /\ old \in {0, 10} /\ worth \in {0, 5}
  OBVIOUS
<1> HIDE DEF n, h
<1>6. asked = (IF 15 <= 5 * n THEN 15 ELSE 5 * n)
  <2>1. 5 * n \in Int
    BY <1>1
  <2> QED BY <2>1, LeastOfTwo
<1>7. human = (IF 20 <= 10 * h THEN 20 ELSE 10 * h)
  BY <1>4, LeastOfTwo
<1>8. failing = (IF 25 <= 10 * x.failing THEN 25 ELSE 10 * x.failing)
  BY <1>2, LeastOfTwo
<1>9. stale = (IF 15 <= 5 * x.stale THEN 15 ELSE 5 * x.stale)
  BY <1>2, LeastOfTwo
<1> HIDE DEF asked, human, failing, stale, none, old, worth
<1>10. asked \in 0 .. 15 /\ (Naming(b, p) = {} => asked = 0) /\ (Naming(b, p) # {} => asked >= 5)
  BY <1>1, <1>6
<1>11. human \in {0, 10} /\ ("needs_human" \notin x.runs => human = 0)
  BY <1>4, <1>7
<1>12. failing \in 0 .. 25 /\ (x.failing = 0 => failing = 0)
  BY <1>2, <1>8
<1>13. stale \in 0 .. 15 /\ (x.stale = 0 => stale = 0)
  BY <1>2, <1>9
<1>14. /\ asked \in 0 .. 15 /\ human \in {0, 10} /\ failing \in 0 .. 25 /\ stale \in 0 .. 15
       /\ none \in {0, 8} /\ old \in {0, 10} /\ worth \in {0, 5}
  BY <1>5, <1>10, <1>11, <1>12, <1>13
<1>15. ScoredAs(b, p, asked, human, failing, stale, none, old, worth)
  <2>1. /\ Naming(b, p) = {} => asked = 0
        /\ Naming(b, p) # {} => asked >= 5
        /\ "needs_human" \notin b.project[p].runs => human = 0
        /\ b.project[p].failing = 0 => failing = 0
        /\ b.project[p].stale = 0 => stale = 0
    BY <1>10, <1>11, <1>12, <1>13
  <2> QED BY <1>3, <1>14, <2>1 DEF ScoredAs
<1> QED BY <1>15, Zenon

LEMMA ClampIs ==
  ASSUME NEW n \in Int
  PROVE  Clamp(n) = IF n <= 0 THEN 0 ELSE IF n >= 100 THEN 100 ELSE n
<1> DEFINE m == Min({100, n})
<1>1. m = IF 100 <= n THEN 100 ELSE n
  BY LeastOfTwo
<1> HIDE DEF m
<1>2. m \in Int
  BY <1>1
<1>3. Max({0, m}) = IF 0 <= m THEN m ELSE 0
  BY <1>2, LeastOfTwo
<1>4. Clamp(n) = Max({0, m})
  BY DEF Clamp, m
<1> QED BY <1>1, <1>3, <1>4

(* Who needs the owner scores below who does not.                          *)
LEMMA ScoreOfClear ==
  ASSUME NEW b \in Book, NEW p \in Project, RiskFor(b, p) = "clear"
  PROVE  ScoreFor(b, p) \in Int /\ ScoreFor(b, p) >= 82
<1> DEFINE x == b.project[p]
<1>1. /\ "needs_human" \notin x.runs /\ Naming(b, p) = {}
      /\ ~(x.failing > 0 \/ x.stale > 0)
  BY RiskIs
<1>2. x.failing = 0 /\ x.stale = 0
  BY <1>1 DEF Book
<1>3. RiskPoints[RiskFor(b, p)] = 0
  BY DEF RiskPoints
<1>4. PICK asked, human, failing, stale, none, old, worth :
        ScoredAs(b, p, asked, human, failing, stale, none, old, worth)
  BY ScoreIs
<1>5. asked = 0 /\ human = 0 /\ failing = 0 /\ stale = 0
  BY <1>1, <1>2, <1>4 DEF ScoredAs
<1> DEFINE sum == Points(0, 0, 0, 0, 0, none, old, worth)
<1>6. ScoreFor(b, p) = Clamp(sum)
  BY <1>3, <1>4, <1>5 DEF ScoredAs
<1>7. sum \in Int /\ sum >= 82
  <2>1. none \in {0, 8} /\ old \in {0, 10} /\ worth \in {0, 5}
    BY <1>4 DEF ScoredAs
  <2> QED BY <2>1 DEF Points
<1> HIDE DEF sum
<1> QED BY <1>6, <1>7, ClampIs

LEMMA ScoreOfNeedy ==
  ASSUME NEW b \in Book, NEW p \in Project,
         RiskFor(b, p) \in {"blocked", "needs_human", "approval"}
  PROVE  ScoreFor(b, p) \in Int /\ ScoreFor(b, p) <= 80
<1> DEFINE risk == RiskPoints[RiskFor(b, p)]
<1>1. /\ risk \in {45, 35, 20} /\ (risk = 20 => Naming(b, p) # {})
  <2>1. RiskFor(b, p) = "approval" => Naming(b, p) # {}
    BY RiskIs
  <2>2. /\ RiskFor(b, p) = "blocked" => risk = 45
        /\ RiskFor(b, p) = "needs_human" => risk = 35
        /\ RiskFor(b, p) = "approval" => risk = 20
    BY DEF RiskPoints
  <2> QED BY <2>1, <2>2
<1>2. PICK asked, human, failing, stale, none, old, worth :
        ScoredAs(b, p, asked, human, failing, stale, none, old, worth)
  BY ScoreIs
<1>3. ScoreFor(b, p) = Clamp(Points(risk, asked, human, failing, stale, none, old, worth))
      /\ (Naming(b, p) # {} => asked >= 5)
  BY <1>2 DEF ScoredAs
<1> HIDE DEF risk
<1> DEFINE sum == Points(risk, asked, human, failing, stale, none, old, worth)
<1>4. sum \in Int /\ sum <= 80
  <2>1. /\ asked \in 0 .. 15 /\ human \in {0, 10} /\ failing \in 0 .. 25 /\ stale \in 0 .. 15
        /\ none \in {0, 8} /\ old \in {0, 10} /\ worth \in {0, 5}
    BY <1>2 DEF ScoredAs
  <2> QED BY <1>1, <1>3, <2>1 DEF Points
<1>5. ScoreFor(b, p) = Clamp(sum)
  BY <1>3
<1> HIDE DEF sum
<1> QED BY <1>4, <1>5, ClampIs

(* The digests agree about what asks for attention, whatever is in the     *)
(* books.                                                                  *)
LEMMA AttentionShared == books \in Book => AttentionAgrees
<1> SUFFICES ASSUME books \in Book, NEW q \in Project
             PROVE  LET health == RiskFor(books, q)
                        portfolio == RiskForProject(books, q) IN
      /\ \A r \in {"blocked", "needs_human"} : (health = r) <=> (portfolio = r)
      /\ portfolio = "approval" => health = "approval"
      /\ VerifyRepository(books.project[q], TRUE, TRUE) = "attention" => health # "clear"
      /\ health \in {"blocked", "needs_human", "approval"} =>
           \A w \in Project : RiskFor(books, w) = "clear"
             => ScoreFor(books, q) < ScoreFor(books, w)
      /\ health \in {"blocked", "approval"} => ~IsClean(books)
      /\ health = "approval" => "approvals" \in LookToday(books)
      /\ health = "blocked" =>
           /\ {"blockers"} \subseteq LookToday(books) \cap Connections(books)
           /\ RiskForClient(Account(books, books.project[q].of)) = "blocked"
  BY Zenon DEF AttentionAgrees
<1> DEFINE x == books.project[q]
           health == RiskFor(books, q)
           portfolio == RiskForProject(books, q)
<1>1. health = IF x.status = "blocked" THEN "blocked" ELSE IF "needs_human" \in x.runs
               THEN "needs_human" ELSE IF Naming(books, q) # {} THEN "approval"
               ELSE IF x.failing > 0 \/ x.stale > 0 THEN "watch"
               ELSE IF x.status \in Underway /\ (x.runs = {} \/ x.idle >= 7)
               THEN "watch" ELSE "clear"
  BY RiskIs
<1>2. \A r \in {"blocked", "needs_human"} : (health = r) <=> (portfolio = r)
  BY <1>1, PortfolioIs
<1>3. portfolio = "approval" => health = "approval"
  BY <1>1, PortfolioIs
<1>4. VerifyRepository(x, TRUE, TRUE) = "attention" => health # "clear"
  BY <1>1, VerificationIs
<1>5. ASSUME health \in {"blocked", "needs_human", "approval"}, NEW w \in Project,
             RiskFor(books, w) = "clear"
      PROVE  ScoreFor(books, q) < ScoreFor(books, w)
  <2>1. ScoreFor(books, q) \in Int /\ ScoreFor(books, q) <= 80
    BY <1>5, ScoreOfNeedy
  <2>2. ScoreFor(books, w) \in Int /\ ScoreFor(books, w) >= 82
    BY <1>5, ScoreOfClear
  <2> QED BY <2>1, <2>2
<1>6. health = "approval" => books.pending # {} /\ Cardinality(books.pending) > 0
  <2>1. health = "approval" => Naming(books, q) # {}
    BY <1>1
  <2>2. books.pending \subseteq Asked
    BY DEF Book
  <2> QED BY <2>1, <2>2, AskedFinite, Counts DEF Naming
<1>7. IsFiniteSet(Project)
  BY BooksAssumption DEF BooksAssumption
<1>8. health = "blocked" => x.status = "blocked"
  BY <1>1
<1>9. health = "blocked" => RootView(books).blockers > 0
  <2> DEFINE blocked == InStatus(books, Project, {"blocked"})
             runs == {p \in Project : "blocked" \in books.project[p].runs}
  <2>1. blocked \subseteq Project /\ runs \subseteq Project
    BY DEF InStatus
  <2>2. health = "blocked" => blocked # {}
    BY <1>8 DEF InStatus
  <2>3. /\ Cardinality(blocked) \in Nat /\ Cardinality(runs) \in Nat
        /\ health = "blocked" => Cardinality(blocked) > 0
    BY <1>7, <2>1, <2>2, Counts
  <2>4. RootView(books).blockers = Min({SectionLimit, Cardinality(blocked) + Cardinality(runs)})
    BY DEF RootView
  <2> HIDE DEF blocked, runs
  <2> QED BY <2>3, <2>4, LeastOfTwo DEF SectionLimit
<1>10. health \in {"blocked", "approval"} => ~IsClean(books)
  <2>1. BriefSignals(books).approvals = Cardinality(books.pending)
    BY DEF BriefSignals
  <2> QED BY <1>6, <1>9, <2>1 DEF IsClean
<1>11. health = "approval" => "approvals" \in LookToday(books)
  BY <1>6, Zenon DEF LookToday
<1>12. health = "blocked" => "blockers" \in LookToday(books)
  BY <1>9 DEF LookToday
<1>13. health = "blocked" => "blockers" \in Connections(books)
  BY <1>9 DEF Connections
<1>14. health = "blocked" => RiskForClient(Account(books, x.of)) = "blocked"
  <2> DEFINE stuck == InStatus(books, ProjectsOf(books, x.of), {"blocked"})
  <2>1. stuck \subseteq Project
    BY DEF InStatus, ProjectsOf
  <2>2. health = "blocked" => q \in stuck
    BY <1>8 DEF InStatus, ProjectsOf
  <2>3. health = "blocked" => Cardinality(stuck) > 0
    BY <1>7, <2>1, <2>2, Counts
  <2>4. Account(books, x.of).blocked = Cardinality(stuck)
    BY DEF Account
  <2> QED BY <2>3, <2>4, ClientRiskIs
<1> QED BY <1>2, <1>3, <1>4, <1>5, <1>10, <1>11, <1>12, <1>13, <1>14

-----------------------------------------------------------------------------
(* Sums over finite sets.                                                  *)

(* What holds of a set when it holds of every smaller one holds of all.    *)
LEMMA SetInduction ==
  ASSUME NEW D, IsFiniteSet(D), NEW good,
         \A s \in SUBSET D : (\A t \in SUBSET s : t # s => t \in good) => s \in good
  PROVE  \A s \in SUBSET D : s \in good
<1> SUFFICES ASSUME NEW bad \in SUBSET D, bad \notin good PROVE FALSE
  OBVIOUS
<1> DEFINE sizes == {n \in Nat : \E s \in SUBSET D : s \notin good /\ Cardinality(s) = n}
<1>1. \A s \in SUBSET D : IsFiniteSet(s) /\ Cardinality(s) \in Nat
  BY FS_Subset, FS_CardinalityType
<1>2. Cardinality(bad) \in sizes
  BY <1>1
<1>3. sizes \in SUBSET Nat /\ sizes # {}
  BY <1>2
<1>4. Oldest(sizes) \in sizes /\ \A n \in sizes : Oldest(sizes) <= n
  BY <1>3, LeastOf
<1>5. PICK s \in SUBSET D : s \notin good /\ Cardinality(s) = Oldest(sizes)
  BY <1>4
<1>6. ASSUME NEW t \in SUBSET s, t # s PROVE t \in good
  <2>1. Cardinality(t) <= Cardinality(s) /\ Cardinality(t) # Cardinality(s)
    BY <1>1, <1>6, FS_Subset
  <2>2. t \in SUBSET D /\ Cardinality(t) \in Nat
    BY <1>1
  <2>3. t \notin good => Cardinality(t) \in sizes
    BY <2>2
  <2>4. Cardinality(t) \in sizes => Cardinality(s) <= Cardinality(t)
    BY <1>4, <1>5
  <2>5. Cardinality(s) \in Nat
    BY <1>1
  <2> QED BY <2>1, <2>2, <2>3, <2>4, <2>5
<1> QED BY <1>5, <1>6

(* A sum takes one element after the other.                                *)
Some(s) == CHOOSE x \in s : TRUE
Adds(f, D, sum) ==
  sum = [s \in SUBSET D |-> IF s = {} THEN 0 ELSE f[Some(s)] + sum[s \ {Some(s)}]]

LEMMA SomeOf == ASSUME NEW s, s # {} PROVE Some(s) \in s /\ s \ {Some(s)} # s
<1>1. Some(s) \in s
  BY DEF Some
<1> QED BY <1>1

LEMMA AddsOnce ==
  ASSUME NEW f, NEW D, IsFiniteSet(D), NEW sum, Adds(f, D, sum),
         NEW E \in SUBSET D, NEW h, NEW part, Adds(h, E, part), \A x \in E : h[x] = f[x]
  PROVE  \A s \in SUBSET E : sum[s] = part[s]
<1> DEFINE good == {s \in SUBSET E : sum[s] = part[s]}
<1>1. IsFiniteSet(E)
  BY FS_Subset
<1>2. ASSUME NEW s \in SUBSET E, \A t \in SUBSET s : t # s => t \in good PROVE s \in good
  <2>1. CASE s = {}
    <3>1. sum[s] = 0 /\ part[s] = 0
      BY <2>1 DEF Adds
    <3> QED BY <3>1
  <2>2. CASE s # {}
    <3> DEFINE x == Some(s)
               rest == s \ {x}
    <3>1. x \in s /\ rest \in SUBSET s /\ rest # s /\ rest \in SUBSET E /\ s \in SUBSET D
      BY <2>2, SomeOf
    <3>2. sum[s] = f[x] + sum[rest] /\ part[s] = h[x] + part[rest]
      BY <2>2, <3>1 DEF Adds
    <3>3. sum[rest] = part[rest]
      BY <1>2, <3>1
    <3> QED BY <3>1, <3>2, <3>3
  <2> QED BY <2>1, <2>2
<1> HIDE DEF good
<1>3. \A s \in SUBSET E : s \in good
  BY <1>1, <1>2, SetInduction
<1> QED BY <1>3 DEF good

LEMMA AddsExists ==
  ASSUME NEW f, NEW D, IsFiniteSet(D)
  PROVE  \E sum : Adds(f, D, sum)
<1> DEFINE good == {s \in SUBSET D : \E sum : Adds(f, s, sum)}
           SumOn(s) == CHOOSE sum : Adds(f, s, sum)
<1>1. \A s \in SUBSET D : s \in good => Adds(f, s, SumOn(s))
  OBVIOUS
<1>2. \A s \in SUBSET D : IsFiniteSet(s)
  BY FS_Subset
<1>3. ASSUME NEW s \in SUBSET D, \A t \in SUBSET s : t # s => t \in good PROVE s \in good
  <2> DEFINE sum == [t \in SUBSET s |-> IF t = {} THEN 0
                                       ELSE f[Some(t)] + SumOn(t \ {Some(t)})[t \ {Some(t)}]]
  <2>1. ASSUME NEW t \in SUBSET s, t # s PROVE sum[t] = SumOn(t)[t]
    <3>1. Adds(f, t, SumOn(t))
      BY <1>1, <1>3, <2>1
    <3>2. CASE t = {}
      BY <3>1, <3>2 DEF Adds
    <3>3. CASE t # {}
      <4> DEFINE x == Some(t)
                 rest == t \ {x}
      <4>1. x \in t /\ rest \in SUBSET t /\ rest # t /\ rest \in SUBSET s /\ rest # s
        BY <3>3, SomeOf
      <4>2. Adds(f, rest, SumOn(rest))
        BY <1>1, <1>3, <4>1
      <4> HIDE DEF SumOn
      <4>3. sum[t] = f[x] + SumOn(rest)[rest]
        BY <3>3
      <4>4. SumOn(t)[t] = f[x] + SumOn(t)[rest]
        BY <3>1, <3>3 DEF Adds
      <4>5. SumOn(t)[rest] = SumOn(rest)[rest]
        <5>1. IsFiniteSet(t)
          BY <1>2
        <5>2. \A u \in SUBSET rest : SumOn(t)[u] = SumOn(rest)[u]
          BY <3>1, <4>1, <4>2, <5>1, AddsOnce
        <5> QED BY <5>2
      <4> QED BY <4>3, <4>4, <4>5
    <3> QED BY <3>2, <3>3
  <2>2. ASSUME NEW t \in SUBSET s
        PROVE  sum[t] = IF t = {} THEN 0 ELSE f[Some(t)] + sum[t \ {Some(t)}]
    <3>1. CASE t = {}
      BY <3>1
    <3>2. CASE t # {}
      <4>1. t \ {Some(t)} \in SUBSET s /\ t \ {Some(t)} # s
        BY <3>2, SomeOf
      <4>2. sum[t \ {Some(t)}] = SumOn(t \ {Some(t)})[t \ {Some(t)}]
        BY <2>1, <4>1
      <4>3. sum[t] = f[Some(t)] + SumOn(t \ {Some(t)})[t \ {Some(t)}]
        BY <3>2
      <4> QED BY <3>2, <4>2, <4>3
    <3> QED BY <3>1, <3>2
  <2>3. sum = [t \in SUBSET s |-> sum[t]]
    OBVIOUS
  <2> HIDE DEF sum
  <2>4. Adds(f, s, sum)
    BY <2>2, <2>3 DEF Adds
  <2> QED BY <2>4
<1> HIDE DEF good
<1>4. \A s \in SUBSET D : s \in good
  BY <1>3, SetInduction
<1> QED BY <1>4 DEF good

LEMMA TotalAdds ==
  ASSUME NEW f, IsFiniteSet(DOMAIN f)
  PROVE  \E sum : Adds(f, DOMAIN f, sum) /\ Total(f) = sum[DOMAIN f]
<1> DEFINE sum == CHOOSE sum : Adds(f, DOMAIN f, sum)
           iter == CHOOSE iter : iter = [s \in SUBSET DOMAIN f |->
                     IF s = {} THEN 0 ELSE LET x == CHOOSE x \in s : TRUE
                                           IN f[x] + iter[s \ {x}]]
<1>1. Total(f) = iter[DOMAIN f]
  BY DEF Total, MapThenSumSet, MapThenFoldSet
<1>2. iter = sum
  BY DEF Adds, Some
<1>3. Adds(f, DOMAIN f, sum)
  BY AddsExists
<1> HIDE DEF iter, sum
<1> QED BY <1>1, <1>2, <1>3

(* What a sum over some of the elements is, in whatever order it is taken. *)
SumOver(f, S) == Total([i \in S |-> f[i]])

LEMMA SumsOf ==
  ASSUME NEW D, IsFiniteSet(D), NEW f \in [D -> Nat]
  PROVE  \E sum : /\ Adds(f, D, sum)
                  /\ \A S \in SUBSET D : sum[S] \in Nat /\ SumOver(f, S) = sum[S]
<1>1. PICK sum : Adds(f, D, sum)
  BY AddsExists
<1> DEFINE good == {s \in SUBSET D : sum[s] \in Nat}
<1>2. ASSUME NEW s \in SUBSET D, \A t \in SUBSET s : t # s => t \in good PROVE s \in good
  <2>1. CASE s = {}
    BY <1>1, <2>1 DEF Adds
  <2>2. CASE s # {}
    <3> DEFINE x == Some(s)
               rest == s \ {x}
    <3>1. x \in s /\ rest \in SUBSET s /\ rest # s
      BY <2>2, SomeOf
    <3>2. sum[s] = f[x] + sum[rest]
      BY <1>1, <2>2 DEF Adds
    <3>3. sum[rest] \in Nat /\ f[x] \in Nat
      BY <1>2, <3>1
    <3> QED BY <3>2, <3>3
  <2> QED BY <2>1, <2>2
<1> HIDE DEF good
<1>3. \A s \in SUBSET D : s \in good
  BY <1>2, SetInduction
<1>4. ASSUME NEW S \in SUBSET D PROVE SumOver(f, S) = sum[S]
  <2> DEFINE h == [i \in S |-> f[i]]
  <2>1. IsFiniteSet(S) /\ DOMAIN h = S /\ \A x \in S : h[x] = f[x]
    BY FS_Subset
  <2> HIDE DEF h
  <2>2. PICK part : Adds(h, S, part) /\ Total(h) = part[S]
    BY <2>1, TotalAdds
  <2>3. \A s \in SUBSET S : sum[s] = part[s]
    BY <1>1, <2>1, <2>2, AddsOnce
  <2>4. SumOver(f, S) = Total(h)
    BY DEF SumOver, h
  <2> QED BY <2>2, <2>3, <2>4
<1> QED BY <1>1, <1>3, <1>4 DEF good

LEMMA SumTakes ==
  ASSUME NEW D, IsFiniteSet(D), NEW f \in [D -> Nat]
  PROVE  \A S \in SUBSET D : \A x \in S : SumOver(f, S) = f[x] + SumOver(f, S \ {x})
<1>1. PICK sum : /\ Adds(f, D, sum)
                 /\ \A S \in SUBSET D : sum[S] \in Nat /\ SumOver(f, S) = sum[S]
  BY SumsOf
<1> DEFINE good == {s \in SUBSET D : \A x \in s : sum[s] = f[x] + sum[s \ {x}]}
<1>2. ASSUME NEW s \in SUBSET D, \A t \in SUBSET s : t # s => t \in good,
             NEW x \in s
      PROVE  sum[s] = f[x] + sum[s \ {x}]
  <2> DEFINE y == Some(s)
  <2>1. y \in s /\ sum[s] = f[y] + sum[s \ {y}]
    BY <1>1, <1>2, SomeOf DEF Adds
  <2>2. CASE x = y
    BY <2>1, <2>2
  <2>3. CASE x # y
    <3> DEFINE rest == s \ {x, y}
    <3>1. /\ s \ {x} \in SUBSET s /\ s \ {x} # s /\ y \in s \ {x} /\ (s \ {x}) \ {y} = rest
          /\ s \ {y} \in SUBSET s /\ s \ {y} # s /\ x \in s \ {y} /\ (s \ {y}) \ {x} = rest
          /\ rest \in SUBSET D
      BY <2>1, <2>3
    <3>2. sum[s \ {x}] = f[y] + sum[rest] /\ sum[s \ {y}] = f[x] + sum[rest]
      BY <1>2, <3>1
    <3>3. f[x] \in Nat /\ f[y] \in Nat /\ sum[rest] \in Nat
      BY <1>1, <1>2, <2>1, <3>1
    <3> HIDE DEF rest, y
    <3> QED BY <2>1, <3>2, <3>3
  <2> QED BY <2>2, <2>3
<1>3. \A s \in SUBSET D : (\A t \in SUBSET s : t # s => t \in good) => s \in good
  BY <1>2
<1> HIDE DEF good
<1>4. \A s \in SUBSET D : s \in good
  BY <1>3, SetInduction
<1>5. \A S \in SUBSET D : \A x \in S : sum[S] = f[x] + sum[S \ {x}]
  BY <1>4 DEF good
<1>6. \A S \in SUBSET D : \A x \in S : S \ {x} \in SUBSET D
  OBVIOUS
<1> QED BY <1>1, <1>5, <1>6

LEMMA SumIs ==
  ASSUME NEW D, IsFiniteSet(D), NEW f \in [D -> Nat]
  PROVE  /\ SumOver(f, {}) = 0
         /\ \A S \in SUBSET D : SumOver(f, S) \in Nat
<1>1. PICK sum : /\ Adds(f, D, sum)
                 /\ \A S \in SUBSET D : sum[S] \in Nat /\ SumOver(f, S) = sum[S]
  BY SumsOf
<1>2. sum[{}] = 0
  BY <1>1 DEF Adds
<1> QED BY <1>1, <1>2

(* Of two sets that have nothing in common.                                *)
LEMMA SumDisjoint ==
  ASSUME NEW D, IsFiniteSet(D), NEW f \in [D -> Nat], NEW S \in SUBSET D, NEW T \in SUBSET D,
         S \cap T = {}
  PROVE  SumOver(f, S \cup T) = SumOver(f, S) + SumOver(f, T)
<1> DEFINE good == {s \in SUBSET T : SumOver(f, S \cup s) = SumOver(f, S) + SumOver(f, s)}
<1>1. ASSUME NEW s \in SUBSET T, \A t \in SUBSET s : t # s => t \in good PROVE s \in good
  <2>1. CASE s = {}
    <3>1. S \cup s = S /\ SumOver(f, s) = 0 /\ SumOver(f, S) \in Nat
      BY <2>1, SumIs
    <3> QED BY <3>1
  <2>2. CASE s # {}
    <3>1. PICK x \in s : TRUE
      BY <2>2
    <3> DEFINE rest == s \ {x}
    <3>2. /\ rest \in SUBSET s /\ rest # s /\ x \in S \cup s
          /\ (S \cup s) \ {x} = S \cup rest /\ S \cup s \in SUBSET D /\ s \in SUBSET D
          /\ rest \in SUBSET D
      BY <3>1
    <3>3. SumOver(f, S \cup s) = f[x] + SumOver(f, S \cup rest)
      BY <3>2, SumTakes
    <3>4. SumOver(f, s) = f[x] + SumOver(f, rest)
      BY <3>1, <3>2, SumTakes
    <3>5. SumOver(f, S \cup rest) = SumOver(f, S) + SumOver(f, rest)
      BY <1>1, <3>2
    <3>6. f[x] \in Nat /\ SumOver(f, S) \in Nat /\ SumOver(f, rest) \in Nat
      BY <3>1, <3>2, SumIs
    <3> HIDE DEF rest
    <3>7. SumOver(f, S \cup s) = SumOver(f, S) + SumOver(f, s)
      BY <3>3, <3>4, <3>5, <3>6
    <3> QED BY <3>7
  <2> QED BY <2>1, <2>2
<1>2. IsFiniteSet(T)
  BY FS_Subset
<1> HIDE DEF good
<1>3. \A s \in SUBSET T : s \in good
  BY <1>1, <1>2, SetInduction
<1> QED BY <1>3 DEF good

-----------------------------------------------------------------------------
(* What the digests say of the money.                                      *)
Values(b) == [d \in Deal |-> b.deal[d].value]

LEMMA WorthIs ==
  ASSUME NEW b \in Book, NEW S \in SUBSET Deal
  PROVE  /\ Values(b) \in [Deal -> Nat] /\ IsFiniteSet(Deal)
         /\ Worth(b, S) = SumOver(Values(b), S)
         /\ Worth(b, S) \in Nat
<1>1. Values(b) \in [Deal -> Nat] /\ IsFiniteSet(Deal)
  BY BooksAssumption DEF BooksAssumption, Book, Values
<1>2. [d \in S |-> b.deal[d].value] = [d \in S |-> Values(b)[d]]
  BY DEF Values
<1>3. Worth(b, S) = SumOver(Values(b), S)
  BY <1>2 DEF Worth, SumOver
<1>4. SumOver(Values(b), S) \in Nat
  BY <1>1, SumIs
<1> QED BY <1>1, <1>3, <1>4

(* Every open opportunity is on one account.                               *)
LEMMA AccountsAddUp ==
  ASSUME NEW b \in Book
  PROVE  Worth(b, OpenDeals(b)) = Total([c \in Client |-> Account(b, c).pipeline])
<1> DEFINE Unclosed == OpenDeals(b)
           Of(C) == {d \in Unclosed : b.deal[d].of \in C}
           V == Values(b)
           P == [c \in Client |-> Worth(b, DealsOf(b, c) \cap Unclosed)]
           good == {C \in SUBSET Client : SumOver(P, C) = SumOver(V, Of(C))}
<1>1. IsFiniteSet(Client) /\ IsFiniteSet(Deal) /\ V \in [Deal -> Nat] /\ Unclosed \in SUBSET Deal
  BY BooksAssumption, WorthIs DEF BooksAssumption, OpenDeals
<1>2. P \in [Client -> Nat]
  <2>1. \A c \in Client : DealsOf(b, c) \cap Unclosed \in SUBSET Deal
    BY <1>1
  <2>2. \A c \in Client : Worth(b, DealsOf(b, c) \cap Unclosed) \in Nat
    BY <2>1, WorthIs
  <2> QED BY <2>2
<1>3. ASSUME NEW C \in SUBSET Client, \A t \in SUBSET C : t # C => t \in good PROVE C \in good
  <2>1. CASE C = {}
    <3>1. Of(C) = {}
      BY <2>1
    <3>2. SumOver(P, C) = 0 /\ SumOver(V, Of(C)) = 0
      <4> HIDE DEF P, V, Of, Unclosed
      <4> QED BY <1>1, <1>2, <2>1, <3>1, SumIs
    <3> QED BY <3>2
  <2>2. CASE C # {}
    <3>1. PICK c \in C : TRUE
      BY <2>2
    <3> DEFINE rest == C \ {c}
               mine == DealsOf(b, c) \cap Unclosed
    <3>2. rest \in SUBSET C /\ rest # C /\ c \in Client
      BY <3>1
    <3>3. /\ Of(C) = mine \cup Of(rest) /\ mine \cap Of(rest) = {}
          /\ mine \in SUBSET Deal /\ Of(rest) \in SUBSET Deal
      BY <1>1, <3>1 DEF DealsOf
    <3>4. SumOver(P, C) = P[c] + SumOver(P, rest)
      <4> HIDE DEF P, rest
      <4> QED BY <1>1, <1>2, <3>1, SumTakes DEF rest
    <3>5. SumOver(P, rest) = SumOver(V, Of(rest))
      BY <1>3, <3>2
    <3>6. P[c] = SumOver(V, mine)
      <4>1. P[c] = Worth(b, mine)
        BY <3>2
      <4>2. Worth(b, mine) = SumOver(V, mine)
        <5> HIDE DEF mine
        <5> QED BY <3>3, WorthIs
      <4> QED BY <4>1, <4>2
    <3>7. SumOver(V, Of(C)) = SumOver(V, mine) + SumOver(V, Of(rest))
      <4> DEFINE theirs == Of(rest)
      <4>1. Of(C) = mine \cup theirs
        BY <3>3
      <4>2. mine \in SUBSET Deal /\ theirs \in SUBSET Deal /\ mine \cap theirs = {}
        BY <3>3
      <4> HIDE DEF V, mine, theirs
      <4>3. SumOver(V, mine \cup theirs) = SumOver(V, mine) + SumOver(V, theirs)
        BY <1>1, <4>2, SumDisjoint
      <4> HIDE DEF Of
      <4> QED BY <4>1, <4>3 DEF theirs
    <3>8. SumOver(P, C) = SumOver(V, Of(C))
      <4> HIDE DEF V, Of, mine, P, rest
      <4> QED BY <3>4, <3>5, <3>6, <3>7
    <3> QED BY <3>8
  <2> QED BY <2>1, <2>2
<1>4. Client \in good
  <2> HIDE DEF good
  <2>1. \A C \in SUBSET Client : C \in good
    BY <1>1, <1>3, SetInduction
  <2> QED BY <2>1
<1>5. Of(Client) = Unclosed
  BY <1>1 DEF Book
<1>6. SumOver(P, Client) = SumOver(V, Unclosed)
  BY <1>4, <1>5
<1>7. [c \in Client |-> P[c]] = [c \in Client |-> Account(b, c).pipeline]
  BY DEF Account
<1>8. SumOver(P, Client) = Total([c \in Client |-> Account(b, c).pipeline])
  BY <1>7 DEF SumOver
<1>9. Worth(b, Unclosed) = SumOver(V, Unclosed)
  BY <1>1, WorthIs
<1> QED BY <1>6, <1>8, <1>9

(* A client is worth no less to the company than its revenue.              *)
LEMMA TierIs ==
  ASSUME NEW a, NEW value, value = Max({a.won, a.pipeline})
  PROVE  ClassifyRevenue(a) =
           IF value = 0 THEN "unknown" ELSE IF value >= 10000 THEN "high"
           ELSE IF value >= 3000 THEN "medium" ELSE "low"
<1> DEFINE none == value = 0
           large == value >= 10000
           fair == value >= 3000
           e1 == <<none, "unknown">>
           e2 == <<large, "high">>
           e3 == <<fair, "medium">>
           e4 == <<TRUE, "low">>
<1>1. ClassifyRevenue(a) = FirstOf(<<e1, e2, e3, e4>>)
  BY DEF ClassifyRevenue
<1> HIDE DEF none, large, fair
<1>2. /\ (e1[1] <=> none) /\ e1[2] = "unknown"
      /\ (e2[1] <=> large) /\ e2[2] = "high"
      /\ (e3[1] <=> fair) /\ e3[2] = "medium"
      /\ e4[1] /\ e4[2] = "low"
  BY Zenon
<1> HIDE DEF e1, e2, e3, e4
<1>3. ClassifyRevenue(a) = IF e1[1] THEN e1[2] ELSE IF e2[1] THEN e2[2]
                           ELSE IF e3[1] THEN e3[2] ELSE e4[2]
  BY <1>1, <1>2, FirstOfFour
<1> QED BY <1>2, <1>3 DEF none, large, fair

LEMMA StrategicIs ==
  ASSUME NEW a, NEW value, value = a.won + a.pipeline
  PROVE  /\ ClassifyClient(a).revenue_tier = ClassifyRevenue(a)
         /\ ClassifyClient(a).relationship = RelationshipHealth(a)
         /\ value >= 10000 => ClassifyClient(a).strategic = "high"
         /\ value >= 3000 => ClassifyClient(a).strategic \in {"high", "medium"}
<1> DEFINE top == value >= 10000 \/ ValueScore(a) >= 70
           fair == value >= 3000 \/ a.active > 0 \/ a.open > 0
           e1 == <<top, "high">>
           e2 == <<fair, "medium">>
           e3 == <<TRUE, "low">>
<1>1. /\ (e1[1] <=> top) /\ e1[2] = "high" /\ (e2[1] <=> fair) /\ e2[2] = "medium"
      /\ e3[1] /\ e3[2] = "low"
  <2> HIDE DEF top, fair
  <2> QED BY Zenon
<1>2. /\ ClassifyClient(a).strategic = FirstOf(<<e1, e2, e3>>)
      /\ ClassifyClient(a).revenue_tier = ClassifyRevenue(a)
      /\ ClassifyClient(a).relationship = RelationshipHealth(a)
  BY DEF ClassifyClient
<1> HIDE DEF e1, e2, e3
<1>3. ClassifyClient(a).strategic = IF e1[1] THEN e1[2] ELSE IF e2[1] THEN e2[2] ELSE e3[2]
  BY <1>1, <1>2, FirstOfThree
<1> QED BY <1>1, <1>2, <1>3

LEMMA HealthIs ==
  ASSUME NEW a, a.due \/ a.stalled > 0
  PROVE  RelationshipHealth(a) = "at_risk"
<1> DEFINE e1 == <<a.blocked > 0 \/ a.due \/ a.stalled > 0, "at_risk">>
           e2 == <<a.delivered > 0, "strong">>
           e3 == <<TRUE, "neutral">>
<1>1. (e1[1] <=> a.blocked > 0 \/ a.due \/ a.stalled > 0) /\ e1[2] = "at_risk" /\ e3[1]
  BY Zenon
<1>2. RelationshipHealth(a) = FirstOf(<<e1, e2, e3>>)
  BY Zenon DEF RelationshipHealth
<1> HIDE DEF e1, e2, e3
<1> QED BY <1>1, <1>2, FirstOfThree

(* The money of an account.                                                *)
LEMMA AccountIs ==
  ASSUME NEW b \in Book, NEW c \in Client
  PROVE  /\ Account(b, c).won \in Nat /\ Account(b, c).pipeline \in Nat
         /\ Account(b, c).due = b.client[c].due
         /\ (\E d \in DealsOf(b, c) : b.deal[d].status = "stalled") => Account(b, c).stalled > 0
<1> DEFINE won == {d \in DealsOf(b, c) : b.deal[d].status = "won"}
           open == DealsOf(b, c) \cap OpenDeals(b)
           stalled == {d \in DealsOf(b, c) : b.deal[d].status = "stalled"}
<1>1. won \in SUBSET Deal /\ open \in SUBSET Deal /\ stalled \in SUBSET Deal /\ IsFiniteSet(Deal)
  BY BooksAssumption DEF BooksAssumption, DealsOf
<1>2. /\ Account(b, c).won = Worth(b, won) /\ Account(b, c).pipeline = Worth(b, open)
      /\ Account(b, c).due = b.client[c].due /\ Account(b, c).stalled = Cardinality(stalled)
  BY DEF Account
<1>3. Worth(b, won) \in Nat /\ Worth(b, open) \in Nat
  <2> HIDE DEF won, open
  <2> QED BY <1>1, WorthIs
<1>4. stalled # {} => Cardinality(stalled) > 0
  BY <1>1, Counts
<1> QED BY <1>2, <1>3, <1>4

LEMMA MoneyShared == books \in Book => MoneyAgrees
<1> SUFFICES ASSUME books \in Book PROVE MoneyAgrees
  OBVIOUS
<1> DEFINE account == [c \in Client |-> Account(books, c)]
           class == [c \in Client |-> ClassifyClient(account[c])]
           advice == Recommendations(books, configured = Section, TRUE)
           Level(x) == CASE x = "high" -> 3 [] x = "medium" -> 2 [] OTHER -> 1
<1>1. BriefSignals(books).pipeline = Total([c \in Client |-> account[c].pipeline])
  <2>1. [c \in Client |-> account[c].pipeline] = [c \in Client |-> Account(books, c).pipeline]
    OBVIOUS
  <2>2. BriefSignals(books).pipeline = Worth(books, OpenDeals(books))
    BY DEF BriefSignals
  <2> HIDE DEF account
  <2> QED BY <2>1, <2>2, AccountsAddUp
<1>2. ASSUME NEW c \in Client
      PROVE  Level(class[c].revenue_tier) <= Level(class[c].strategic)
  <2> DEFINE a == Account(books, c)
             tier == ClassifyRevenue(a)
             strategic == ClassifyClient(a).strategic
  <2>1. class[c].revenue_tier = tier /\ class[c].strategic = strategic
    BY StrategicIs, AccountIs
  <2>2. a.won \in Nat /\ a.pipeline \in Nat
    BY AccountIs
  <2>3. /\ tier \in {"unknown", "high", "medium", "low"}
        /\ tier = "high" => a.won + a.pipeline >= 10000
        /\ tier = "medium" => a.won + a.pipeline >= 3000
    <3> DEFINE won == a.won
               open == a.pipeline
               value == Max({won, open})
    <3>1. value = IF won <= open THEN open ELSE won
      <4>1. won \in Int /\ open \in Int
        BY <2>2
      <4> HIDE DEF won, open
      <4> QED BY <4>1, LeastOfTwo
    <3>2. tier = IF value = 0 THEN "unknown" ELSE IF value >= 10000 THEN "high"
                 ELSE IF value >= 3000 THEN "medium" ELSE "low"
      BY TierIs
    <3> HIDE DEF value, tier, won, open
    <3>3. won \in Nat /\ open \in Nat
      BY <2>2 DEF won, open
    <3> QED BY <3>1, <3>2, <3>3 DEF won, open
  <2>4. /\ tier = "high" => strategic = "high"
        /\ tier = "medium" => strategic \in {"high", "medium"}
    <3> HIDE DEF a, tier
    <3> QED BY <2>2, <2>3, StrategicIs
  <2> HIDE DEF tier, strategic
  <2> QED BY <2>1, <2>3, <2>4
<1>3. "prioritize" \in advice => "pipeline" \in Connections(books)
  <2>1. OpenDeals(books) \in SUBSET Deal /\ IsFiniteSet(Deal)
    BY BooksAssumption DEF BooksAssumption, OpenDeals
  <2>2. "prioritize" \in advice => Worth(books, OpenDeals(books)) # 0
    BY Zenon DEF Recommendations
  <2>3. OpenDeals(books) = {} => Worth(books, OpenDeals(books)) = 0
    BY <2>1, WorthIs, SumIs
  <2>4. OpenDeals(books) # {} => BriefSignals(books).open > 0
    BY <2>1, Counts DEF BriefSignals
  <2>5. BriefSignals(books).open > 0 => "pipeline" \in Connections(books)
    BY DEF Connections
  <2> QED BY <2>2, <2>3, <2>4, <2>5
<1>4. ASSUME advice \cap {"review_stalled", "follow_up"} # {}
      PROVE  \E c \in Client : class[c].relationship = "at_risk"
  <2>1. \/ \E d \in Deal : books.deal[d].status = "stalled"
        \/ \E c \in Client : books.client[c].due
    BY <1>4 DEF Recommendations
  <2>2. ASSUME NEW c \in Client, Account(books, c).due \/ Account(books, c).stalled > 0
        PROVE  class[c].relationship = "at_risk"
    <3>1. class[c].relationship = RelationshipHealth(Account(books, c))
      BY AccountIs, StrategicIs
    <3> QED BY <2>2, <3>1, HealthIs
  <2>3. CASE \E d \in Deal : books.deal[d].status = "stalled"
    <3>1. PICK d \in Deal : books.deal[d].status = "stalled"
      BY <2>3
    <3>2. books.deal[d].of \in Client /\ d \in DealsOf(books, books.deal[d].of)
      BY DEF Book, DealsOf
    <3>3. Account(books, books.deal[d].of).stalled > 0
      BY <3>1, <3>2, AccountIs
    <3> QED BY <2>2, <3>2, <3>3
  <2>4. CASE \E c \in Client : books.client[c].due
    <3>1. PICK c \in Client : books.client[c].due
      BY <2>4
    <3>2. Account(books, c).due
      BY <3>1, AccountIs
    <3> QED BY <2>2, <3>2
  <2> QED BY <2>1, <2>3, <2>4
<1> HIDE DEF advice, class, account
<1> QED BY <1>1, <1>2, <1>3, <1>4 DEF MoneyAgrees, advice, class, account

-----------------------------------------------------------------------------
(* What an opportunity scores, and how little an account's stalled ones    *)
(* make of that.                                                           *)
LEMMA DivUnique ==
  ASSUME NEW n \in Int, NEW m \in Nat \ {0}, NEW q \in Int, q * m <= n, n < q * m + m
  PROVE  n \div m = q
OBVIOUS

LEMMA DivSpec ==
  ASSUME NEW n \in Int, NEW m \in Nat \ {0}
  PROVE  n \div m \in Int /\ (n \div m) * m <= n /\ n < (n \div m) * m + m
OBVIOUS

LEMMA DivLess ==
  ASSUME NEW n \in Int, NEW m \in Nat \ {0}, NEW k \in Int
  PROVE  (n - m * k) \div m = (n \div m) - k
<1> DEFINE q == n \div m
<1>1. q \in Int /\ q * m <= n /\ n < q * m + m
  BY DivSpec
<1> HIDE DEF q
<1>2. (q - k) * m = q * m - m * k
  BY <1>1
<1>3. m * k \in Int /\ q * m \in Int /\ n - m * k \in Int /\ q - k \in Int
  BY <1>1
<1>4. (q - k) * m <= n - m * k /\ n - m * k < (q - k) * m + m
  BY <1>1, <1>2, <1>3
<1>5. (n - m * k) \div m = q - k
  BY <1>3, <1>4, DivUnique
<1> QED BY <1>5 DEF q

LEMMA PenaltyLess ==
  ASSUME NEW points \in Int, NEW unit \in Nat \ {0}, NEW whole \in Int,
         NEW penalty \in {0, 5, 10}
  PROVE  (2 * (points + unit * (whole - penalty)) + unit) \div (2 * unit)
         = ((2 * (points + unit * whole) + unit) \div (2 * unit)) - penalty
<1> DEFINE n == 2 * (points + unit * whole) + unit
           m == 2 * unit
<1>1. n \in Int /\ m \in Nat \ {0}
  <2>1. unit * whole \in Int
    OBVIOUS
  <2> QED BY <2>1
<1>2. 2 * (points + unit * (whole - penalty)) + unit = n - m * penalty
  <2>1. unit * (whole - penalty) = unit * whole - unit * penalty
    OBVIOUS
  <2>2. unit * whole \in Int /\ unit * penalty \in Int
    OBVIOUS
  <2>3. 2 * (unit * penalty) = m * penalty
    OBVIOUS
  <2> QED BY <2>1, <2>2, <2>3
<1>3. (n - m * penalty) \div m = (n \div m) - penalty
  <2> HIDE DEF n, m
  <2>1. penalty \in Int
    OBVIOUS
  <2> QED BY <1>1, <2>1, DivLess
<1> QED BY <1>2, <1>3

LEMMA ScoreLessIs ==
  ASSUME NEW a, a.deals \in Nat, a.won \in Nat, a.pipeline \in Nat, a.margins \in Nat,
         a.active \in Nat, a.delivered \in Nat, a.blocked \in Nat, NEW penalty \in {0, 5, 10}
  PROVE  /\ ScoreLess(a, penalty) \in Int /\ ScoreLess(a, 0) \in Int
         /\ ScoreLess(a, penalty) <= ScoreLess(a, 0)
         /\ ScoreLess(a, 0) <= ScoreLess(a, penalty) + 10
<1> DEFINE deals == a.deals
           n == Max({1, deals})
           unit == 1200 * n
           revenue == 4 * n * a.won
           pipeline == 3 * n * a.pipeline
           margins == 180 * a.margins
           points == Min({30 * unit, revenue}) + Min({25 * unit, pipeline})
                     + Min({15 * unit, margins})
           active == 5 * a.active
           delivered == 5 * a.delivered
           blocked == 10 * a.blocked
           ongoing == Min({10, active})
           done == Min({10, delivered})
           linked == IF a.linked THEN 5 ELSE 0
           stuck == Min({20, blocked})
           due == IF a.due THEN 8 ELSE 0
           whole(k) == ongoing + done + linked - stuck - k - due
           Q(k) == (2 * (points + unit * whole(k)) + unit) \div (2 * unit)
<1>1. n \in Nat \ {0}
  <2>1. deals \in Nat
    OBVIOUS
  <2> HIDE DEF deals
  <2>2. \A i, j \in Int : Max({i, j}) = IF i <= j THEN j ELSE i
    BY LeastOfTwo
  <2>3. 1 \in Int /\ deals \in Int
    BY <2>1
  <2>4. n = IF 1 <= deals THEN deals ELSE 1
    BY <2>2, <2>3
  <2> QED BY <2>1, <2>4
<1> HIDE DEF n
<1>2. unit \in Nat \ {0} /\ revenue \in Int /\ pipeline \in Int /\ margins \in Int
  <2>1. 4 * n \in Nat /\ 3 * n \in Nat
    BY <1>1
  <2> HIDE DEF n
  <2> QED BY <1>1, <2>1
<1>3. active \in Int /\ delivered \in Int /\ blocked \in Int
  OBVIOUS
<1> HIDE DEF unit, revenue, pipeline, margins, active, delivered, blocked
<1>4. points \in Int
  <2>1. 30 * unit \in Int /\ 25 * unit \in Int /\ 15 * unit \in Int
    BY <1>2
  <2>2. \A i, j \in Int : Min({i, j}) \in Int
    BY LeastOfTwo
  <2>3. /\ Min({30 * unit, revenue}) \in Int /\ Min({25 * unit, pipeline}) \in Int
        /\ Min({15 * unit, margins}) \in Int
    BY <1>2, <2>1, <2>2
  <2> QED BY <2>3
<1>5. ongoing \in Int /\ done \in Int /\ linked \in Int /\ stuck \in Int /\ due \in Int
  <2>1. \A i, j \in Int : Min({i, j}) \in Int
    BY LeastOfTwo
  <2> QED BY <1>3, <2>1
<1>6. ASSUME NEW k PROVE ScoreLess(a, k) = Clamp(Q(k))
  BY DEF ScoreLess, n, unit, revenue, pipeline, margins, active, delivered, blocked
<1> HIDE DEF points, ongoing, done, linked, stuck, due
<1>7. Q(penalty) = Q(0) - penalty
  <2> DEFINE top == whole(0)
  <2>1. top \in Int /\ whole(penalty) = top - penalty
    BY <1>5
  <2> HIDE DEF top
  <2>2. (2 * (points + unit * (top - penalty)) + unit) \div (2 * unit)
        = ((2 * (points + unit * top) + unit) \div (2 * unit)) - penalty
    BY <1>2, <1>4, <2>1, PenaltyLess
  <2>3. Q(penalty) = (2 * (points + unit * (top - penalty)) + unit) \div (2 * unit)
    BY <2>1
  <2>4. Q(0) = (2 * (points + unit * top) + unit) \div (2 * unit)
    BY DEF top
  <2> QED BY <2>2, <2>3, <2>4
<1>8. Q(0) \in Int
  <2>1. whole(0) \in Int
    BY <1>5
  <2> HIDE DEF whole
  <2>2. unit * whole(0) \in Int
    BY <1>2, <2>1
  <2>3. 2 * (points + unit * whole(0)) + unit \in Int /\ 2 * unit \in Nat \ {0}
    BY <1>2, <1>4, <2>2
  <2> QED BY <2>3, DivSpec
<1> HIDE DEF Q
<1>9. ScoreLess(a, penalty) = Clamp(Q(0) - penalty) /\ ScoreLess(a, 0) = Clamp(Q(0))
  BY <1>6, <1>7
<1> QED BY <1>8, <1>9, ClampIs

LEMMA AccountPointsFall ==
  ASSUME NEW high \in Int, NEW low \in Int, low <= high, high <= low + 10
  PROVE  /\ AccountPoints(low) \in Int /\ AccountPoints(high) \in Int
         /\ AccountPoints(low) <= AccountPoints(high)
         /\ AccountPoints(high) <= AccountPoints(low) + 2
<1> DEFINE i == (2 * high + 5) \div 10
           j == (2 * low + 5) \div 10
<1>1. i \in Int /\ j \in Int /\ j <= i /\ i <= j + 2
  OBVIOUS
<1> HIDE DEF i, j
<1>2. Min({20, i}) = (IF 20 <= i THEN 20 ELSE i) /\ Min({20, j}) = (IF 20 <= j THEN 20 ELSE j)
  BY <1>1, LeastOfTwo
<1>3. AccountPoints(high) = Min({20, i}) /\ AccountPoints(low) = Min({20, j})
  BY DEF AccountPoints, i, j
<1> QED BY <1>1, <1>2, <1>3

-----------------------------------------------------------------------------
(* Readings that are alike, of which the scores are the same.              *)
LEMMA AlikeThrough ==
  ASSUME NEW b, NEW c, NEW e, Alike(b, c), Alike(c, e)
  PROVE  Alike(b, e)
BY DEF Alike

LEMMA AlikeWhenSet ==
  ASSUME NEW b \in Book, NEW d \in Deal, IsOpen(b.deal[d].status), NEW status \in DealStatus,
         IsOpen(status), NEW c, c = [b EXCEPT !.deal[d].status = status]
  PROVE  Alike(b, c)
<1>1. c.client = b.client /\ c.project = b.project
  BY StatusSet
<1>2. c.deal[d].status = status
  BY DEF Book
<1>3. \A e \in Deal : e # d => c.deal[e] = b.deal[e]
  BY StatusSet
<1>4. \A e \in Deal : c.deal[e].of = b.deal[e].of
  BY StatusSet
<1>5. \A e \in Deal : c.deal[e].value = b.deal[e].value /\ c.deal[e].margin = b.deal[e].margin
  BY StatusSet
<1>6. \A e \in Deal : /\ IsOpen(b.deal[e].status) <=> IsOpen(c.deal[e].status)
                      /\ ~IsOpen(c.deal[e].status) => b.deal[e].status = c.deal[e].status
  BY <1>2, <1>3
<1> QED BY <1>1, <1>4, <1>5, <1>6 DEF Alike

LEMMA SameWorth ==
  ASSUME NEW b, NEW c, Alike(b, c), NEW S \in SUBSET Deal
  PROVE  Worth(b, S) = Worth(c, S) /\ Margins(b, S) = Margins(c, S)
<1>1. [d \in S |-> b.deal[d].value] = [d \in S |-> c.deal[d].value]
  BY DEF Alike
<1>2. [d \in S |-> b.deal[d].margin] = [d \in S |-> c.deal[d].margin]
  BY DEF Alike
<1> QED BY <1>1, <1>2 DEF Worth, Margins

LEMMA SameAccount ==
  ASSUME NEW b, NEW s, Alike(b, s), NEW c \in Client, NEW x, x = Account(b, c),
         NEW y, y = Account(s, c)
  PROVE  /\ x.deals = y.deals /\ x.won = y.won /\ x.pipeline = y.pipeline
         /\ x.margins = y.margins /\ x.active = y.active /\ x.delivered = y.delivered
         /\ x.linked = y.linked /\ x.blocked = y.blocked /\ x.due = y.due
<1> DEFINE mine == DealsOf(b, c)
           open == mine \cap OpenDeals(b)
           won == {d \in mine : b.deal[d].status = "won"}
           projects == ProjectsOf(b, c)
<1>1. mine \in SUBSET Deal /\ open \in SUBSET Deal /\ won \in SUBSET Deal
  BY DEF DealsOf
<1>2. mine = DealsOf(s, c) /\ projects = ProjectsOf(s, c)
  BY DEF Alike, DealsOf, ProjectsOf
<1>3. OpenDeals(b) = OpenDeals(s)
  BY DEF Alike, OpenDeals
<1>4. won = {d \in mine : s.deal[d].status = "won"}
  <2>1. \A d \in Deal : b.deal[d].status = "won" <=> s.deal[d].status = "won"
    BY DEF Alike, IsOpen
  <2> QED BY <1>1, <2>1
<1>5. \A statuses : InStatus(b, projects, statuses) = InStatus(s, projects, statuses)
  BY DEF Alike, InStatus
<1>6. /\ x.deals = Cardinality(mine) /\ x.won = Worth(b, won) /\ x.pipeline = Worth(b, open)
      /\ x.margins = Margins(b, mine)
      /\ x.active = Cardinality(InStatus(b, projects, InDelivery))
      /\ x.blocked = Cardinality(InStatus(b, projects, {"blocked"}))
      /\ x.delivered = Cardinality(InStatus(b, projects, {"delivered"}))
      /\ x.linked = (\E p \in projects : b.project[p].repository)
      /\ x.due = b.client[c].due
  BY DEF Account
<1>7. /\ y.deals = Cardinality(DealsOf(s, c))
      /\ y.won = Worth(s, {d \in DealsOf(s, c) : s.deal[d].status = "won"})
      /\ y.pipeline = Worth(s, DealsOf(s, c) \cap OpenDeals(s))
      /\ y.margins = Margins(s, DealsOf(s, c))
      /\ y.active = Cardinality(InStatus(s, ProjectsOf(s, c), InDelivery))
      /\ y.blocked = Cardinality(InStatus(s, ProjectsOf(s, c), {"blocked"}))
      /\ y.delivered = Cardinality(InStatus(s, ProjectsOf(s, c), {"delivered"}))
      /\ y.linked = (\E p \in ProjectsOf(s, c) : s.project[p].repository)
      /\ y.due = s.client[c].due
  BY DEF Account
<1>8. b.project = s.project /\ b.client = s.client
  BY DEF Alike
<1> HIDE DEF mine, open, won, projects
<1>9. /\ Worth(b, won) = Worth(s, won) /\ Worth(b, open) = Worth(s, open)
      /\ Margins(b, mine) = Margins(s, mine)
  BY <1>1, SameWorth
<1>10. x.deals = y.deals /\ x.margins = y.margins
  BY <1>2, <1>6, <1>7, <1>9
<1>11. x.won = y.won
  BY <1>2, <1>4, <1>6, <1>7, <1>9
<1>12. x.pipeline = y.pipeline
  BY <1>2, <1>3, <1>6, <1>7, <1>9 DEF open
<1>13. x.active = y.active /\ x.blocked = y.blocked /\ x.delivered = y.delivered
  BY <1>2, <1>5, <1>6, <1>7
<1>14. x.linked = y.linked /\ x.due = y.due
  BY <1>2, <1>6, <1>7, <1>8
<1> QED BY <1>10, <1>11, <1>12, <1>13, <1>14

LEMMA SameScore ==
  ASSUME NEW x, NEW y, NEW penalty,
         x.deals = y.deals, x.won = y.won, x.pipeline = y.pipeline, x.margins = y.margins,
         x.active = y.active, x.delivered = y.delivered, x.linked = y.linked,
         x.blocked = y.blocked, x.due = y.due
  PROVE  ScoreLess(x, penalty) = ScoreLess(y, penalty)
BY DEF ScoreLess

LEMMA SameMost ==
  ASSUME NEW b \in Book, NEW s \in Book, Alike(b, s), NEW d \in Deal
  PROVE  Most(b, d) = Most(s, d) /\ FixedOf(b, d) = FixedOf(s, d)
<1>1. /\ b.deal[d].of \in Client /\ b.deal[d].of = s.deal[d].of
      /\ b.deal[d].value = s.deal[d].value /\ b.deal[d].margin = s.deal[d].margin
      /\ b.client = s.client
  BY DEF Alike, Book
<1>2. FixedOf(b, d) = FixedOf(s, d)
  BY <1>1 DEF FixedOf
<1>3. ScoreLess(Account(b, b.deal[d].of), 0) = ScoreLess(Account(s, s.deal[d].of), 0)
  <2> DEFINE c == b.deal[d].of
             x == Account(b, c)
             y == Account(s, c)
  <2>1. c \in Client
    BY <1>1
  <2> HIDE DEF c
  <2>2. /\ x.deals = y.deals /\ x.won = y.won /\ x.pipeline = y.pipeline
        /\ x.margins = y.margins /\ x.active = y.active /\ x.delivered = y.delivered
        /\ x.linked = y.linked /\ x.blocked = y.blocked /\ x.due = y.due
    BY <2>1, SameAccount
  <2> HIDE DEF x, y
  <2>3. ScoreLess(x, 0) = ScoreLess(y, 0)
    BY <2>2, SameScore
  <2> QED BY <1>1, <2>3 DEF x, y, c
<1> QED BY <1>1, <1>2, <1>3 DEF Most

(* What an opportunity scores is close to what it would without a stalled  *)
(* one on its account.                                                     *)
LEMMA ChainOfFour ==
  ASSUME NEW c1, NEW c2, NEW c3, NEW v1 \in Int, NEW v2 \in Int, NEW v3 \in Int, NEW v4 \in Int
  PROVE  FirstOf(<< <<c1, v1>>, <<c2, v2>>, <<c3, v3>>, <<TRUE, v4>> >>) \in Int
<1> DEFINE e1 == <<c1, v1>>
           e2 == <<c2, v2>>
           e3 == <<c3, v3>>
           e4 == <<TRUE, v4>>
<1>1. e1[2] = v1 /\ e2[2] = v2 /\ e3[2] = v3 /\ e4[2] = v4 /\ e4[1]
  BY Zenon
<1> HIDE DEF e1, e2, e3, e4
<1>2. FirstOf(<<e1, e2, e3, e4>>) \in Int
  BY <1>1, FirstOfFour
<1> QED BY <1>2 DEF e1, e2, e3, e4

LEMMA ChainOfThree ==
  ASSUME NEW c1, NEW c2, NEW v1 \in Int, NEW v2 \in Int, NEW v3 \in Int
  PROVE  FirstOf(<< <<c1, v1>>, <<c2, v2>>, <<TRUE, v3>> >>) \in Int
<1> DEFINE e1 == <<c1, v1>>
           e2 == <<c2, v2>>
           e3 == <<TRUE, v3>>
<1>1. e1[2] = v1 /\ e2[2] = v2 /\ e3[2] = v3 /\ e3[1]
  BY Zenon
<1> HIDE DEF e1, e2, e3
<1>2. FirstOf(<<e1, e2, e3>>) \in Int
  BY <1>1, FirstOfThree
<1> QED BY <1>2 DEF e1, e2, e3

LEMMA FixedPointsIs == ASSUME NEW value, NEW margin, NEW status
                       PROVE  FixedPoints(value, margin, status) \in Int
<1> DEFINE a1 == value >= 10000
           a2 == value >= 3000
           a3 == value > 0
           b1 == margin >= 50
           b2 == margin >= 30
           b3 == margin > 0
           c1 == status = "active"
           c2 == status = "lead"
           value_ == FirstOf(<< <<a1, 25>>, <<a2, 18>>, <<a3, 10>>, <<TRUE, 0>> >>)
           margin_ == FirstOf(<< <<b1, 20>>, <<b2, 15>>, <<b3, 8>>, <<TRUE, 0>> >>)
           client_ == FirstOf(<< <<c1, 15>>, <<c2, 8>>, <<TRUE, 0>> >>)
<1>1. FixedPoints(value, margin, status) = value_ + margin_ + client_
  BY DEF FixedPoints
<1> HIDE DEF a1, a2, a3, b1, b2, b3, c1, c2
<1>2. 25 \in Int /\ 20 \in Int /\ 18 \in Int /\ 15 \in Int /\ 10 \in Int /\ 8 \in Int /\ 0 \in Int
  OBVIOUS
<1>3. value_ \in Int /\ margin_ \in Int /\ client_ \in Int
  BY <1>2, ChainOfFour, ChainOfThree
<1> HIDE DEF value_, margin_, client_
<1> QED BY <1>1, <1>3

LEMMA AccountTyped ==
  ASSUME NEW b \in Book, NEW c \in Client, NEW x, x = Account(b, c)
  PROVE  /\ x.deals \in Nat /\ x.won \in Nat /\ x.pipeline \in Nat /\ x.margins \in Nat
         /\ x.active \in Nat /\ x.delivered \in Nat /\ x.blocked \in Nat /\ x.stalled \in Nat
<1>1. IsFiniteSet(Deal) /\ IsFiniteSet(Project)
  BY BooksAssumption DEF BooksAssumption
<1>2. x.won \in Nat /\ x.pipeline \in Nat
  BY AccountIs
<1>3. x.deals \in Nat
  <2>1. DealsOf(b, c) \subseteq Deal
    BY DEF DealsOf
  <2> QED BY <1>1, <2>1, Counts DEF Account
<1>4. x.stalled \in Nat
  <2> DEFINE stalled == {d \in DealsOf(b, c) : b.deal[d].status = "stalled"}
  <2>1. stalled \subseteq Deal /\ x.stalled = Cardinality(stalled)
    BY DEF DealsOf, Account
  <2> QED BY <1>1, <2>1, Counts
<1>5. \A statuses : Cardinality(InStatus(b, ProjectsOf(b, c), statuses)) \in Nat
  <2>1. \A statuses : InStatus(b, ProjectsOf(b, c), statuses) \subseteq Project
    BY DEF InStatus, ProjectsOf
  <2> QED BY <1>1, <2>1, Counts
<1>6. x.active \in Nat /\ x.delivered \in Nat /\ x.blocked \in Nat
  BY <1>5 DEF Account
<1>7. x.margins \in Nat
  <2> DEFINE margins == [d \in Deal |-> b.deal[d].margin]
             mine == DealsOf(b, c)
  <2>1. margins \in [Deal -> Nat] /\ mine \in SUBSET Deal
    BY DEF Book, DealsOf
  <2>2. x.margins = Margins(b, mine)
    BY DEF Account
  <2>3. [d \in mine |-> b.deal[d].margin] = [d \in mine |-> margins[d]]
    BY <2>1
  <2>4. Margins(b, mine) = SumOver(margins, mine)
    BY <2>3 DEF Margins, SumOver
  <2> HIDE DEF margins, mine
  <2> QED BY <1>1, <2>1, <2>2, <2>4, SumIs
<1> QED BY <1>2, <1>3, <1>4, <1>6, <1>7

LEMMA EvaluateIs ==
  ASSUME NEW b, NEW s, NEW d, NEW a, a = Account(s, b.deal[d].of)
  PROVE  EvaluateOpportunity(b, s, d) =
           Clamp(FixedOf(b, d) + AccountPoints(ScoreLess(a, Min({10, 5 * a.stalled})))
                 + StatusPoints[b.deal[d].status])
BY DEF EvaluateOpportunity, FixedOf, FixedPoints, AccountPoints, ScoreLess, ValueScore

LEMMA ScoreNearMost ==
  ASSUME NEW b \in Book, NEW s \in Book, Alike(s, b), NEW d \in Deal
  PROVE  \E n \in Int : /\ EvaluateOpportunity(b, s, d) = Clamp(n + StatusPoints[b.deal[d].status])
                        /\ Most(b, d) \in Int /\ n <= Most(b, d) /\ Most(b, d) <= n + 2
<1> DEFINE c == b.deal[d].of
           a == Account(s, c)
           penalty == Min({10, 5 * a.stalled})
           n == FixedOf(b, d) + AccountPoints(ScoreLess(a, penalty))
<1>1. c \in Client /\ s.deal[d].of = c
  BY DEF Book, Alike
<1>2. EvaluateOpportunity(b, s, d) = Clamp(n + StatusPoints[b.deal[d].status])
  BY EvaluateIs
<1>3. Most(b, d) = FixedOf(b, d) + AccountPoints(ScoreLess(a, 0))
  <2>1. Most(s, d) = Most(b, d) /\ FixedOf(s, d) = FixedOf(b, d)
    BY SameMost
  <2> QED BY <1>1, <2>1 DEF Most
<1>4. FixedOf(b, d) \in Int
  BY FixedPointsIs DEF FixedOf
<1> HIDE DEF c
<1>5. /\ a.deals \in Nat /\ a.won \in Nat /\ a.pipeline \in Nat /\ a.margins \in Nat
      /\ a.active \in Nat /\ a.delivered \in Nat /\ a.blocked \in Nat /\ a.stalled \in Nat
  BY <1>1, AccountTyped
<1> HIDE DEF a
<1>6. penalty \in {0, 5, 10}
  <2> DEFINE k == 5 * a.stalled
  <2>1. k \in Int /\ (k = 0 \/ k = 5 \/ k >= 10)
    BY <1>5
  <2> HIDE DEF k
  <2>2. \A i, j \in Int : Min({i, j}) = IF i <= j THEN i ELSE j
    BY LeastOfTwo
  <2>3. Min({10, k}) = IF 10 <= k THEN 10 ELSE k
    BY <2>1, <2>2
  <2> QED BY <2>1, <2>3 DEF k
<1> HIDE DEF penalty
<1>7. /\ ScoreLess(a, penalty) \in Int /\ ScoreLess(a, 0) \in Int
      /\ ScoreLess(a, penalty) <= ScoreLess(a, 0)
      /\ ScoreLess(a, 0) <= ScoreLess(a, penalty) + 10
  BY <1>5, <1>6, ScoreLessIs
<1>8. /\ AccountPoints(ScoreLess(a, penalty)) \in Int /\ AccountPoints(ScoreLess(a, 0)) \in Int
      /\ AccountPoints(ScoreLess(a, penalty)) <= AccountPoints(ScoreLess(a, 0))
      /\ AccountPoints(ScoreLess(a, 0)) <= AccountPoints(ScoreLess(a, penalty)) + 2
  BY <1>7, AccountPointsFall
<1>9. n \in Int /\ Most(b, d) \in Int /\ n <= Most(b, d) /\ Most(b, d) <= n + 2
  BY <1>3, <1>4, <1>8
<1> HIDE DEF n
<1> QED BY <1>2, <1>9

(* Where a qualification moves an opportunity.                             *)
LEMMA StageIs ==
  ASSUME NEW score
  PROVE  Stage(score) = IF score >= 65 THEN "proposal_ready"
                        ELSE IF score >= 45 THEN "qualified" ELSE "needs_qualification"
<1> DEFINE high == score >= 65
           fair == score >= 45
           e1 == <<high, "proposal_ready">>
           e2 == <<fair, "qualified">>
           e3 == <<TRUE, "needs_qualification">>
<1>1. Stage(score) = FirstOf(<<e1, e2, e3>>)
  BY DEF Stage
<1> HIDE DEF high, fair
<1>2. /\ (e1[1] <=> high) /\ e1[2] = "proposal_ready" /\ (e2[1] <=> fair) /\ e2[2] = "qualified"
      /\ e3[1] /\ e3[2] = "needs_qualification"
  BY Zenon
<1> HIDE DEF e1, e2, e3
<1>3. Stage(score) = IF e1[1] THEN e1[2] ELSE IF e2[1] THEN e2[2] ELSE e3[2]
  BY <1>1, <1>2, FirstOfThree
<1> QED BY <1>2, <1>3 DEF high, fair

LEMMA TurnsFew ==
  ASSUME NEW status \in DealStatus, IsOpen(status), NEW n \in Int, NEW most \in Int,
         n <= most, most <= n + 2, NEW m \in Nat, MovesFit(m, status, most),
         NEW new, new = PatchedStatus(status, Stage(Clamp(n + StatusPoints[status])))
  PROVE  MovesFit(IF new # status THEN m + 1 ELSE m, new, most)
<1> DEFINE score == n + StatusPoints[status]
<1>1. status \in {"intake", "qualified", "proposal_draft", "proposal_sent", "stalled"}
  BY DEF DealStatus, IsOpen
<1>2. /\ status = "intake" => score = n + 8
      /\ status = "qualified" => score = n + 15
      /\ status = "proposal_draft" => score = n + 18
      /\ status = "proposal_sent" => score = n + 20
      /\ status = "stalled" => score = n - 10
  BY DEF StatusPoints
<1>3. score \in Int
  BY <1>1, <1>2
<1> HIDE DEF score
<1>4. new = IF score >= 65 THEN "proposal_draft" ELSE IF score >= 45 THEN "qualified"
            ELSE IF status = "stalled" THEN "stalled" ELSE "intake"
  <2>1. Clamp(score) = IF score <= 0 THEN 0 ELSE IF score >= 100 THEN 100 ELSE score
    BY <1>3, ClampIs
  <2>2. (Clamp(score) >= 65 <=> score >= 65) /\ (Clamp(score) >= 45 <=> score >= 45)
    BY <1>3, <2>1
  <2>3. Stage(Clamp(score)) = IF score >= 65 THEN "proposal_ready"
                              ELSE IF score >= 45 THEN "qualified" ELSE "needs_qualification"
    BY <2>2, StageIs
  <2>4. new = PatchedStatus(status, Stage(Clamp(score)))
    BY DEF score
  <2> QED BY <2>3, <2>4, PatchedIs
<1>5. m = 0 \/ m = 1 \/ m = 2
  BY DEF MovesFit
<1>6. CASE m = 0
  BY <1>1, <1>2, <1>3, <1>4, <1>6 DEF MovesFit
<1>7. CASE m = 1
  BY <1>1, <1>2, <1>3, <1>4, <1>7 DEF MovesFit
<1>8. CASE m = 2
  BY <1>1, <1>2, <1>3, <1>4, <1>8 DEF MovesFit
<1> QED BY <1>5, <1>6, <1>7, <1>8

-----------------------------------------------------------------------------
(* What a pass that is disturbed knows does not matter.                    *)
LEMMA DisturbedInformed ==
  ASSUME NEW q, Placed(pass[q]), Informed(pass[q]), pass'[q] = [pass[q] EXCEPT !.fresh = FALSE]
  PROVE  Informed(pass[q])'
<1> DEFINE x == pass[q]
           y == pass'[q]
<1>1. {"kind", "at", "fresh", "made", "filed", "left"} \subseteq DOMAIN x
  BY DEF Placed, HasFields
<1>2. /\ DOMAIN y = DOMAIN x /\ y.fresh = FALSE /\ y.at = x.at /\ y.kind = x.kind
      /\ y.left = x.left
  BY <1>1
<1>3. /\ y.at = "reading" /\ y.kind = "revenue" /\ "accounts" \notin y.left =>
           "accounts" \in DOMAIN y
      /\ ~y.fresh
  BY <1>2 DEF Informed
<1> QED BY <1>3 DEF Informed

(* What is left when the first is done has it no more.                     *)
LEMMA DistinctTail ==
  ASSUME NEW seq \in Seq(Deal), seq # <<>>, Distinct(seq)
  PROVE  /\ Distinct(Tail(seq)) /\ Head(seq) \notin Range(Tail(seq))
         /\ Range(Tail(seq)) \subseteq Range(seq) /\ Range(seq) \subseteq Deal
<1>1. /\ Len(seq) \in Nat /\ Tail(seq) \in Seq(Deal) /\ Len(Tail(seq)) = Len(seq) - 1
      /\ \A i \in 1 .. Len(Tail(seq)) : Tail(seq)[i] = seq[i + 1]
      /\ Head(seq) = seq[1] /\ Len(seq) >= 1
  OBVIOUS
<1>2. DOMAIN Tail(seq) = 1 .. Len(Tail(seq)) /\ DOMAIN seq = 1 .. Len(seq)
  BY <1>1
<1>3. Distinct(Tail(seq))
  BY <1>1 DEF Distinct
<1>4. Head(seq) \notin Range(Tail(seq))
  BY <1>1, <1>2 DEF Distinct, Range
<1> QED BY <1>1, <1>3, <1>4, RangeOfTail DEF Range

LEMMA NoneLeft ==
  ASSUME NEW seq \in Seq(Deal), Len(seq) = 1
  PROVE  Tail(seq) = <<>>
<1>1. Tail(seq) \in Seq(Deal) /\ Len(Tail(seq)) = 0
  OBVIOUS
<1> QED BY <1>1, EmptySeq

(* How often an opportunity was moved when a pass that nothing disturbed   *)
(* has qualified it.                                                       *)
LEMMA QualifyMoves ==
  ASSUME NEW b \in Book, NEW s \in Book, books \in Book, Alike(b, books), Alike(s, books),
         NEW d \in Deal, b.deal[d].status = books.deal[d].status,
         IsOpen(books.deal[d].status), NEW m \in Nat,
         MovesFit(m, books.deal[d].status, Most(books, d)),
         NEW new, new = PatchedStatus(books.deal[d].status, Stage(EvaluateOpportunity(b, s, d)))
  PROVE  MovesFit(IF new # books.deal[d].status THEN m + 1 ELSE m, new, Most(books, d))
<1> DEFINE status == books.deal[d].status
<1>1. Alike(s, b)
  BY AlikeThrough DEF Alike
<1>2. PICK n \in Int : /\ EvaluateOpportunity(b, s, d) = Clamp(n + StatusPoints[status])
                       /\ Most(b, d) \in Int /\ n <= Most(b, d) /\ Most(b, d) <= n + 2
  BY <1>1, ScoreNearMost
<1>3. Most(books, d) = Most(b, d)
  BY SameMost
<1>4. status \in DealStatus
  BY DEF Book
<1>5. new = PatchedStatus(status, Stage(Clamp(n + StatusPoints[status])))
  BY <1>2
<1> HIDE DEF status
<1>6. IsOpen(status) /\ MovesFit(m, status, Most(books, d))
  BY DEF status
<1>7. MovesFit(IF new # status THEN m + 1 ELSE m, new, Most(books, d))
  BY <1>2, <1>3, <1>4, <1>5, <1>6, TurnsFew
<1> QED BY <1>7 DEF status

(* A step of a pass over the books.                                        *)
LEMMA QualifyKeeps ==
  ASSUME BooksInv, NEW p \in Pass, Qualify(p)
  PROVE  BooksInv'
<1> DEFINE x == pass[p]
           d == Head(x.todo)
           was == books.deal[d].status
           stage_ == Stage(EvaluateOpportunity(Reading(x.seen), Reading(x.accounts), d))
           new == PatchedStatus(Reading(x.seen).deal[d].status, stage_)
           ready == stage_ = "proposal_ready"
           y == With(IF Len(x.todo) = 1 THEN With(x, Forgotten) ELSE x,
                     [at |-> "lead", of |-> d, ready |-> ready])
           others == IF new = was THEN {} ELSE Pass \ {p}
           local == [pass EXCEPT ![p] = y]
<1>1. /\ x.at = "qualify" /\ UnderWay(p)
      /\ books' = [books EXCEPT !.deal[d].status = new]
      /\ pass' = Disturbed(local, others)
      /\ moves' = [e \in Deal |-> IF ~x.fresh THEN 0
                                  ELSE IF e = d /\ new # was THEN moves[d] + 1 ELSE moves[e]]
      /\ reopened' = IF x.fresh /\ ~IsOpen(was) THEN reopened \cup {d} ELSE reopened
      /\ UNCHANGED <<configured, edits>>
  <2>1. x.at = "qualify" /\ UnderWay(p)
    BY DEF Qualify, UnderWay
  <2>2. /\ books' = [books EXCEPT !.deal[d].status = new]
        /\ reopened' = IF x.fresh /\ ~IsOpen(was) THEN reopened \cup {d} ELSE reopened
        /\ UNCHANGED <<configured, edits>>
    BY DEF Qualify
  <2>3. moves' = [e \in Deal |-> IF ~x.fresh THEN 0
                                 ELSE IF e = d /\ new # was THEN moves[d] + 1 ELSE moves[e]]
    BY DEF Qualify
  <2>4. pass' = Disturbed(local, others)
    BY DEF Qualify
  <2> QED BY <2>1, <2>2, <2>3, <2>4
<1>2. new \in DealStatus /\ IsOpen(new)
  BY PatchedOpen
<1>3. Informed(x) /\ MovesAreFew
  BY <1>1 DEF BooksInv, PassesInformed
<1>4. /\ Placed(x) /\ x.kind \in Services[p] /\ Undisturbed(x) /\ books \in Book
      /\ x.kind = "revenue" /\ reopened = {} /\ moves \in [Deal -> Nat] /\ x.fresh \in BOOLEAN
  <2>1. Placed(x) /\ x.kind \in Services[p] /\ Undisturbed(x)
    BY <1>1 DEF BooksInv, PassesPlaced, PassesGated, NoneReopened, Placed
  <2>2. books \in Book /\ moves \in [Deal -> Nat] /\ reopened = {}
    BY DEF BooksInv, PipelinesTypeOK, NoneReopened
  <2>3. x.kind = "revenue" /\ x.fresh \in BOOLEAN
    BY <1>1, <2>1 DEF Placed, HasPlace, OnDeals
  <2> QED BY <2>1, <2>2, <2>3
<1>5. x.fresh => /\ Reading(x.seen) \in Book /\ Reading(x.accounts) \in Book
                 /\ Alike(Reading(x.seen), books) /\ Alike(Reading(x.accounts), books)
                 /\ \A e \in Range(x.todo) : Reading(x.seen).deal[e].status = books.deal[e].status
                 /\ {"seen", "accounts"} \subseteq DOMAIN x
                 /\ Distinct(x.todo)
  <2>1. x.todo # <<>> /\ Rest(x) = x.todo /\ OnWork(x)
    BY <1>1, <1>4 DEF Placed, HasWork, OnDeals, OnWork, Rest
  <2> HIDE DEF x
  <2>2. x.fresh => Knows(x) /\ Distinct(x.todo)
    BY <1>3, <2>1 DEF Informed
  <2> QED BY <2>1, <2>2 DEF Knows, KnowsOf
<1> HIDE DEF stage_, new, ready, x
<1>6. /\ Placed(y) /\ y.at = "lead" /\ y.kind = x.kind /\ y.fresh = x.fresh /\ y.todo = x.todo
      /\ Len(x.todo) # 1 => HasRead(x, y)
  <2>1. Placed(x) /\ x.at = "qualify"
    BY <1>1, <1>4
  <2>2. ASSUME NEW r
        PROVE  LET z == With(IF Len(x.todo) = 1 THEN With(x, Forgotten) ELSE x,
                             [at |-> "lead", of |-> Head(x.todo), ready |-> r]) IN
               /\ Placed(z) /\ z.at = "lead" /\ z.kind = x.kind /\ z.fresh = x.fresh
               /\ z.todo = x.todo
               /\ Len(x.todo) # 1 => HasRead(x, z)
    BY <2>1, QualifyPlaced
  <2> QED BY <2>2
<1> HIDE DEF y
<1>7. d \in Deal /\ d \in Range(x.todo)
  <2>1. x.todo \in Seq(Deal) /\ x.todo # <<>>
    BY <1>1, <1>4 DEF Placed, HasWork, OnDeals
  <2> QED BY <2>1, RangeOfTail
<1>8. x.fresh => Range(x.todo) \subseteq OpenDeals(books)
  BY <1>1, <1>4 DEF Undisturbed, OnDeals
<1>9. x.fresh => IsOpen(was)
  BY <1>7, <1>8 DEF OpenDeals
<1>10. x.todo \in Seq(Deal) /\ x.todo # <<>> /\ d = Head(x.todo)
  BY <1>1, <1>4 DEF Placed, HasWork, OnDeals
<1>11. x.fresh => /\ Distinct(Tail(x.todo)) /\ d \notin Range(Tail(x.todo))
                  /\ Range(Tail(x.todo)) \subseteq Range(x.todo) /\ Range(x.todo) \subseteq Deal
  BY <1>5, <1>10, DistinctTail
<1>12. x.fresh => was \in DealStatus /\ new = PatchedStatus(was, Stage(
                    EvaluateOpportunity(Reading(x.seen), Reading(x.accounts), d)))
  BY <1>4, <1>5, <1>7 DEF new, stage_, Book
<1> HIDE DEF d
<1>13. /\ books' \in Book /\ (new = was => books' = books)
  BY <1>1, <1>2, <1>4, <1>7, StatusSet
<1>14. OpenDeals(books) \subseteq OpenDeals(books')
  BY <1>1, <1>2, <1>4, <1>7, StaysOpen
<1>15. x.fresh => Alike(books, books')
  BY <1>1, <1>2, <1>4, <1>7, <1>9, AlikeWhenSet
<1>16. /\ books'.deal[d].status = new
       /\ \A e \in Deal : e # d => books'.deal[e] = books.deal[e]
  <2>1. books'.deal[d].status = new
    BY <1>1, <1>4, <1>7 DEF Book
  <2>2. \A e \in Deal : e # d => books'.deal[e] = books.deal[e]
    BY <1>1, <1>2, <1>4, <1>7, StatusSet
  <2> QED BY <2>1, <2>2
<1>17. MovesAreFew'
  <2>1. CASE ~x.fresh
    BY <1>1, <2>1 DEF MovesAreFew, MovesFit
  <2>2. CASE x.fresh
    <3> DEFINE m == IF new # was THEN moves[d] + 1 ELSE moves[d]
    <3>1. \A e \in Deal : Most(books, e) = Most(books', e)
      BY <1>4, <1>13, <1>15, <2>2, SameMost
    <3>2. ASSUME NEW e \in Deal, e # d
          PROVE  MovesFit(moves'[e], books'.deal[e].status, Most(books', e))
      <4>1. moves'[e] = moves[e] /\ books'.deal[e].status = books.deal[e].status
        BY <1>1, <1>16, <2>2, <3>2
      <4>2. MovesFit(moves[e], books.deal[e].status, Most(books, e))
        BY <1>3 DEF MovesAreFew
      <4> QED BY <3>1, <4>1, <4>2
    <3>3. MovesFit(m, new, Most(books, d))
      BY <1>3, <1>4, <1>5, <1>7, <1>9, <1>12, <2>2, QualifyMoves DEF MovesAreFew, was
    <3>4. moves'[d] = m
      BY <1>1, <1>7, <2>2
    <3>5. MovesFit(moves'[d], books'.deal[d].status, Most(books', d))
      BY <1>7, <1>16, <3>1, <3>3, <3>4
    <3>6. \A e \in Deal : MovesFit(moves'[e], books'.deal[e].status, Most(books', e))
      BY <3>2, <3>5
    <3> QED BY <3>6 DEF MovesAreFew
  <2> QED BY <1>4, <2>1, <2>2
<1> HIDE DEF was
<1>18. y.fresh => Distinct(Rest(y)) /\ (Rest(y) # <<>> => KnowsOf(y, books'))
  <2>1. Rest(y) = Tail(x.todo)
    BY <1>6, <1>10 DEF Rest
  <2>2. CASE Len(x.todo) = 1
    <3>1. Tail(x.todo) = <<>>
      BY <1>10, <2>2, NoneLeft
    <3> QED BY <1>6, <1>11, <2>1, <3>1
  <2>3. CASE Len(x.todo) # 1 /\ x.fresh
    <3>1. {"seen", "accounts"} \subseteq DOMAIN y /\ y.seen = x.seen /\ y.accounts = x.accounts
      BY <1>5, <1>6, <2>3 DEF HasRead
    <3>2. Alike(Reading(x.seen), books') /\ Alike(Reading(x.accounts), books')
      BY <1>5, <1>15, <2>3, AlikeThrough
    <3>3. ASSUME NEW e \in Range(Tail(x.todo))
          PROVE  Reading(x.seen).deal[e].status = books'.deal[e].status
      BY <1>5, <1>11, <1>16, <2>3
    <3>4. KnowsOf(y, books')
      BY <1>5, <2>1, <2>3, <3>1, <3>2, <3>3 DEF KnowsOf
    <3> QED BY <1>11, <2>1, <2>3, <3>4
  <2> QED BY <1>6, <2>2, <2>3
<1>19. /\ DOMAIN pass = Pass /\ DOMAIN pass' = Pass /\ local[p] = y
       /\ \A q \in Pass : q # p => local[q] = pass[q]
       /\ pass' = [q \in Pass |-> pass'[q]]
  BY <1>1 DEF BooksInv, PassesPlaced, Disturbed
<1>20. \A q \in Pass : pass'[q] = IF q \in others /\ local[q].at # "off"
                                  THEN [local[q] EXCEPT !.fresh = FALSE] ELSE local[q]
  BY <1>1 DEF Disturbed
<1>21. p \notin others
  OBVIOUS
<1> HIDE DEF others, local
<1>22. pass'[p] = y
  BY <1>19, <1>20, <1>21
<1>23. ASSUME NEW q \in Pass, pass'[q].at # "off"
       PROVE  /\ Placed(pass'[q]) /\ pass'[q].kind \in Services[q]
              /\ Undisturbed(pass[q])' /\ Informed(pass[q])'
  <2>1. CASE q = p
    <3>1. y.fresh => Range(y.todo) \subseteq OpenDeals(books')
      BY <1>6, <1>8, <1>14
    <3>2. \E z : z = pass[q]' /\ z = y
      BY <1>22, <2>1
    <3>3. Undisturbed(pass[q])'
      BY <1>6, <3>1, <3>2 DEF Undisturbed, OnDeals, OnDrafts
    <3>4. y.at # "reading"
      BY <1>6
    <3>5. Informed(pass[q])'
      BY <1>18, <3>2, <3>4 DEF Informed, Knows, KnowsOf
    <3> QED BY <1>4, <1>6, <1>22, <2>1, <3>3, <3>5
  <2>2. CASE q # p /\ q \in others
    <3>1. pass[q].at # "off" /\ pass'[q] = [pass[q] EXCEPT !.fresh = FALSE]
      BY <1>19, <1>20, <1>23, <2>2
    <3>2. Placed(pass[q]) /\ pass[q].kind \in Services[q] /\ Informed(pass[q])
      BY <3>1 DEF BooksInv, PassesPlaced, PassesGated, PassesInformed, Placed, UnderWay
    <3>3. Placed(pass'[q]) /\ pass'[q].kind \in Services[q] /\ ~pass'[q].fresh
      BY <3>1, <3>2, DisturbedPlaced
    <3>4. Undisturbed(pass[q])'
      BY <3>3 DEF Undisturbed
    <3>5. Informed(pass[q])'
      BY <3>1, <3>2, DisturbedInformed
    <3> QED BY <3>3, <3>4, <3>5
  <2>3. CASE q # p /\ q \notin others
    <3>1. pass'[q] = pass[q] /\ books' = books
      BY <1>13, <1>19, <1>20, <2>3 DEF others
    <3>2. /\ Placed(pass[q]) /\ pass[q].kind \in Services[q] /\ Undisturbed(pass[q])
          /\ Informed(pass[q])
      BY <1>23, <3>1 DEF BooksInv, PassesPlaced, PassesGated, Placed, NoneReopened,
         PassesInformed, UnderWay
    <3>3. Undisturbed(pass[q])'
      BY <3>1, <3>2 DEF Undisturbed
    <3>4. Informed(pass[q])'
      BY <3>1, <3>2 DEF Informed, Knows
    <3> QED BY <3>1, <3>2, <3>3, <3>4
  <2> QED BY <2>1, <2>2, <2>3
<1>24. moves' \in [Deal -> Nat] /\ reopened' = {}
  BY <1>1, <1>4, <1>7, <1>9
<1>25. PipelinesTypeOK'
  BY <1>1, <1>13, <1>23, <1>24 DEF BooksInv, PipelinesTypeOK, UnderWay
<1>26. PassesPlaced'
  BY <1>19, <1>23 DEF PassesPlaced, Placed, UnderWay
<1>27. PassesGated'
  BY <1>23 DEF PassesGated, Placed, UnderWay
<1>28. NoneReopened'
  BY <1>23, <1>24 DEF NoneReopened, UnderWay
<1>29. PassesInformed'
  BY <1>23 DEF PassesInformed, UnderWay
<1> QED BY <1>17, <1>25, <1>26, <1>27, <1>28, <1>29 DEF BooksInv

LEMMA StepKeeps ==
  ASSUME BooksInv, NEW p \in Pass, PassStep(p), ~Qualify(p)
  PROVE  BooksInv'
<1>1. /\ UNCHANGED <<books, configured, edits, moves, reopened>>
      /\ \E y : pass' = [pass EXCEPT ![p] = y] /\ Fits(y, p)
  BY StepFits
<1>2. PICK y : pass' = [pass EXCEPT ![p] = y] /\ Fits(y, p)
  BY <1>1
<1>3. DOMAIN pass = Pass /\ DOMAIN pass' = Pass /\ pass' = [q \in Pass |-> pass'[q]]
  BY <1>2 DEF BooksInv, PassesPlaced
<1>4. ASSUME NEW q \in Pass, pass'[q].at # "off"
      PROVE  /\ Placed(pass'[q]) /\ pass'[q].kind \in Services[q] /\ Undisturbed(pass[q])'
             /\ Informed(pass[q])'
  <2>1. CASE q = p
    <3>1. pass'[q] = y
      BY <1>2, <1>3, <2>1
    <3>2. Placed(y) /\ y.kind \in Services[p] /\ Undisturbed(y) /\ Informed(y)
      BY <1>2, <1>4, <3>1 DEF Fits
    <3>3. Undisturbed(pass[q])'
      BY <1>1, <3>1, <3>2 DEF Undisturbed
    <3>4. Informed(pass[q])'
      BY <1>1, <3>1, <3>2 DEF Informed, Knows
    <3> QED BY <2>1, <3>1, <3>2, <3>3, <3>4
  <2>2. CASE q # p
    <3>1. pass'[q] = pass[q]
      BY <1>2, <1>3, <2>2
    <3>2. /\ Placed(pass[q]) /\ pass[q].kind \in Services[q] /\ Undisturbed(pass[q])
          /\ Informed(pass[q])
      BY <1>4, <3>1 DEF BooksInv, PassesPlaced, PassesGated, Placed, NoneReopened,
         PassesInformed, UnderWay
    <3>3. Undisturbed(pass[q])'
      BY <1>1, <3>1, <3>2 DEF Undisturbed
    <3>4. Informed(pass[q])'
      BY <1>1, <3>1, <3>2 DEF Informed, Knows
    <3> QED BY <3>1, <3>2, <3>3, <3>4
  <2> QED BY <2>1, <2>2
<1>5. PipelinesTypeOK'
  BY <1>1, <1>4 DEF BooksInv, PipelinesTypeOK, UnderWay
<1>6. PassesPlaced'
  BY <1>3, <1>4 DEF PassesPlaced, Placed, UnderWay
<1>7. PassesGated'
  BY <1>4 DEF PassesGated, Placed, UnderWay
<1>8. NoneReopened'
  BY <1>1, <1>4 DEF BooksInv, NoneReopened, UnderWay
<1>9. PassesInformed'
  BY <1>4 DEF PassesInformed, UnderWay
<1>10. MovesAreFew'
  BY <1>1 DEF BooksInv, MovesAreFew
<1> QED BY <1>5, <1>6, <1>7, <1>8, <1>9, <1>10 DEF BooksInv

(* What the owner writes meanwhile.                                        *)
LEMMA StatusKeeps ==
  ASSUME BooksInv, NEW d \in Deal, NEW status \in Verdicts, SetStatus(d, status)
  PROVE  BooksInv'
<1>1. /\ books' = [books EXCEPT !.deal[d].status = status]
      /\ pass' = Disturbed(pass, Pass)
      /\ moves' = [e \in Deal |-> 0]
      /\ edits < MaxEdits /\ edits' = edits + 1
      /\ UNCHANGED <<configured, reopened>>
  BY DEF SetStatus
<1>2. status \in DealStatus /\ MaxEdits \in Nat
  BY PipelinesAssumption DEF PipelinesAssumption
<1>3. books \in Book /\ edits \in 0 .. MaxEdits /\ reopened = {}
  BY DEF BooksInv, PipelinesTypeOK, NoneReopened
<1>4. books' \in Book
  BY <1>1, <1>2, <1>3, StatusSet
<1>5. /\ DOMAIN pass = Pass /\ pass' = [q \in Pass |-> pass'[q]]
      /\ \A q \in Pass : pass'[q] = IF pass[q].at # "off" THEN [pass[q] EXCEPT !.fresh = FALSE]
                                    ELSE pass[q]
  BY <1>1 DEF Disturbed, BooksInv, PassesPlaced
<1>6. ASSUME NEW q \in Pass, pass'[q].at # "off"
      PROVE  /\ Placed(pass'[q]) /\ pass'[q].kind \in Services[q] /\ Undisturbed(pass[q])'
             /\ Informed(pass[q])'
  <2>1. pass[q].at # "off" /\ pass'[q] = [pass[q] EXCEPT !.fresh = FALSE]
    BY <1>5, <1>6
  <2>2. Placed(pass[q]) /\ pass[q].kind \in Services[q] /\ Informed(pass[q])
    BY <2>1 DEF BooksInv, PassesPlaced, PassesGated, PassesInformed, Placed, UnderWay
  <2>3. Placed(pass'[q]) /\ pass'[q].kind \in Services[q] /\ ~pass'[q].fresh
    BY <2>1, <2>2, DisturbedPlaced
  <2>4. Undisturbed(pass[q])'
    BY <2>3 DEF Undisturbed
  <2>5. Informed(pass[q])'
    BY <2>1, <2>2, DisturbedInformed
  <2> QED BY <2>3, <2>4, <2>5
<1>7. PipelinesTypeOK'
  BY <1>1, <1>2, <1>3, <1>4, <1>6 DEF BooksInv, PipelinesTypeOK, UnderWay
<1>8. PassesPlaced'
  BY <1>5, <1>6 DEF PassesPlaced, Placed, UnderWay
<1>9. PassesGated'
  BY <1>6 DEF PassesGated, Placed, UnderWay
<1>10. NoneReopened'
  BY <1>1, <1>3, <1>6 DEF NoneReopened, UnderWay
<1>11. PassesInformed'
  BY <1>6 DEF PassesInformed, UnderWay
<1>12. MovesAreFew'
  BY <1>1 DEF MovesAreFew, MovesFit
<1> QED BY <1>7, <1>8, <1>9, <1>10, <1>11, <1>12 DEF BooksInv

LEMMA BooksBegin == PipelinesInit => BooksInv
<1> SUFFICES ASSUME PipelinesInit PROVE BooksInv
  OBVIOUS
<1>1. \A p \in Pass : pass[p] = Off /\ ~UnderWay(p)
  BY DEF PipelinesInit, UnderWay, Off
<1>2. books \in Book /\ MaxEdits \in Nat
  BY PipelinesAssumption DEF PipelinesInit, PipelinesAssumption
<1>3. PipelinesTypeOK
  BY <1>1, <1>2 DEF PipelinesInit, PipelinesTypeOK
<1>4. PassesPlaced
  BY <1>1 DEF PipelinesInit, PassesPlaced
<1>5. MovesAreFew
  BY DEF PipelinesInit, MovesAreFew, MovesFit
<1> QED BY <1>1, <1>3, <1>4, <1>5
    DEF PipelinesInit, BooksInv, PassesGated, NoneReopened, PassesInformed

(* No step of a pass, no qualification and no edit breaks the invariant of *)
(* the passes.                                                             *)
LEMMA BooksKept == BooksInv /\ [PipelinesNext]_pipelineVars => BooksInv'
<1> SUFFICES ASSUME BooksInv, [PipelinesNext]_pipelineVars PROVE BooksInv'
  OBVIOUS
<1>1. ASSUME NEW p \in Pass, PassStep(p) PROVE BooksInv'
  <2>1. CASE Qualify(p)
    BY <2>1, QualifyKeeps
  <2>2. CASE ~Qualify(p)
    BY <1>1, <2>2, StepKeeps
  <2> QED BY <2>1, <2>2
<1>2. ASSUME NEW d \in Deal, NEW status \in Verdicts, SetStatus(d, status) PROVE BooksInv'
  BY <1>2, StatusKeeps
<1>3. ASSUME NEW section \in Section \cap Rewritten, Configure(section) PROVE BooksInv'
  <2>1. /\ configured' \subseteq Section /\ edits < MaxEdits /\ edits' = edits + 1
        /\ UNCHANGED <<books, pass, moves, reopened>>
    BY <1>3 DEF Configure, BooksInv, PipelinesTypeOK
  <2>2. edits' \in 0 .. MaxEdits
    BY <2>1, PipelinesAssumption DEF BooksInv, PipelinesTypeOK, PipelinesAssumption
  <2>3. PipelinesTypeOK'
    BY <2>1, <2>2 DEF BooksInv, PipelinesTypeOK, UnderWay
  <2>4. PassesPlaced' /\ PassesGated' /\ NoneReopened'
    BY <2>1 DEF BooksInv, PassesPlaced, PassesGated, NoneReopened, UnderWay, Undisturbed
  <2>5. PassesInformed' /\ MovesAreFew'
    BY <2>1 DEF BooksInv, PassesInformed, MovesAreFew, UnderWay, Informed, Knows
  <2> QED BY <2>3, <2>4, <2>5 DEF BooksInv
<1>4. CASE UNCHANGED pipelineVars
  BY <1>4 DEF pipelineVars, BooksInv, PipelinesTypeOK, PassesPlaced, PassesGated, NoneReopened,
     PassesInformed, MovesAreFew, UnderWay, Undisturbed, Informed, Knows
<1> QED BY <1>1, <1>2, <1>3, <1>4 DEF PipelinesNext

(* What was asked for is backed, and before a pass gets to its report it   *)
(* has asked for all its drafts would commit the company to.               *)
LEMMA DraftsGated == BooksInv => DraftsAreGated
<1> SUFFICES ASSUME BooksInv, NEW p \in Pass, UnderWay(p)
             PROVE  /\ \A r \in pass[p].filed :
                         /\ <<"compliance-review", r[2]>> \in pass[p].made
                         /\ \E y \in pass[p].made :
                              y[1] \in Draft /\ y[2] = r[2] /\ r[1] \in Commits(y[1])
                    /\ pass[p].at \in {"report", "end"} =>
                         \A y \in pass[p].made : y[1] \in Draft =>
                           \A action \in Commits(y[1]) : <<action, y[2]>> \in pass[p].filed
  BY Zenon DEF DraftsAreGated, Draft, GrowthDraft, Commits
<1>1. Gated(pass[p])
  BY DEF BooksInv, PassesGated
<1>2. pass[p].at \in {"report", "end"} => pass[p].at \notin OnDrafts
  BY DEF OnDrafts
<1> QED BY <1>1, <1>2 DEF Gated, Backed, AskedFor, ToAskFor

(* Two moves are all there is room for, and nothing closed was opened.     *)
LEMMA FewMovesSettle == BooksInv => PassesSettle
<1> SUFFICES ASSUME BooksInv, NEW d \in Deal PROVE moves[d] <= 2 /\ reopened = {}
  BY DEF PassesSettle, BooksInv, NoneReopened
<1>1. MovesFit(moves[d], books.deal[d].status, Most(books, d))
  BY DEF BooksInv, MovesAreFew
<1>2. moves[d] <= 2
  BY <1>1 DEF MovesFit
<1> QED BY <1>2 DEF BooksInv, NoneReopened

-----------------------------------------------------------------------------
(* A behaviour of the owner's view moves one part and leaves the others.   *)
OwnerInv ==
  /\ DashboardTypeOK /\ IndexInv /\ RecordsInv /\ BooksInv
  /\ cast \in Part

LEMMA OwnerBegins == Init => OwnerInv
BY ScreenBegins, IndexBegins, RecordsBegin, BooksBegin DEF Init, OwnerInv

LEMMA OneMoves ==
  ASSUME cast \in Part, [Next]_ownerVars
  PROVE  /\ [DashboardNext]_dashboardVars /\ [IndexNext]_indexVars /\ [MemoryNext]_memoryVars
         /\ [PipelinesNext]_pipelineVars
         /\ cast' \in Part
<1>1. CASE OnScreen(DashboardNext)
  BY <1>1 DEF OnScreen
<1>2. CASE InSearch(IndexNext)
  BY <1>2 DEF InSearch
<1>3. CASE InRecords(MemoryNext)
  BY <1>3 DEF InRecords
<1>4. CASE InBooks(PipelinesNext)
  BY <1>4 DEF InBooks
<1>5. CASE UNCHANGED ownerVars
  BY <1>5 DEF ownerVars
<1> QED BY <1>1, <1>2, <1>3, <1>4, <1>5 DEF Next

LEMMA OwnerKept == OwnerInv /\ [Next]_ownerVars => OwnerInv'
<1> SUFFICES ASSUME OwnerInv, [Next]_ownerVars PROVE OwnerInv'
  OBVIOUS
<1>1. /\ [DashboardNext]_dashboardVars /\ [IndexNext]_indexVars /\ [MemoryNext]_memoryVars
      /\ [PipelinesNext]_pipelineVars
      /\ cast' \in Part
  BY OneMoves DEF OwnerInv
<1>2. DashboardTypeOK' /\ IndexInv'
  BY <1>1, ScreenTyped, IndexKept DEF OwnerInv
<1>3. RecordsInv' /\ BooksInv'
  BY <1>1, RecordsKept, BooksKept DEF OwnerInv
<1> QED BY <1>1, <1>2, <1>3 DEF OwnerInv

LEMMA OwnerHolds == Spec => []OwnerInv
BY OwnerBegins, OwnerKept, PTL DEF Spec

(* The screen, the index, the records and the books stay of their types.   *)
THEOREM OwnerViewTyped == Spec => []TypeOK
<1>1. OwnerInv => TypeOK
  BY DEF OwnerInv, TypeOK, IndexInv, IndexPlaced, RecordsInv, RecordsPlaced,
     BooksInv
<1> QED BY <1>1, OwnerHolds, PTL

(* Whatever the engine, the recorders and the scans write to the records   *)
(* of a run at the same time: a decision the run names is in the logs it   *)
(* was to go to, and no link or status is lost that was written while      *)
(* nobody else held a copy of the run.                                     *)
THEOREM RecordsAgreeAlways == Spec => []LedgerAndRunAgree
<1>1. OwnerInv => LedgerAndRunAgree
  BY RecordsAgree DEF OwnerInv
<1> QED BY <1>1, OwnerHolds, PTL

(* A search of the memory returns what is in the files, however searches,  *)
(* rebuilds and writes overlap.                                            *)
THEOREM SearchesTellTheTruth == Spec => []SearchTellsTheTruth
<1>1. OwnerInv => SearchTellsTheTruth
  BY SearchesTell DEF OwnerInv
<1> QED BY <1>1, OwnerHolds, PTL

(* Whatever passes, edits of the owner and readings of the books overlap:  *)
(* no draft that would commit the company stands without its compliance    *)
(* review and its request for the owner, an opportunity that is qualified  *)
(* again by passes nobody disturbs is moved twice at most and no closed    *)
(* one is opened again, and the digests of one reading of the books agree  *)
(* about what asks for attention and about the money.                      *)
THEOREM BooksTellTheTruthAlways == Spec => []BooksTellTheTruth
<1>1. OwnerInv => BooksTellTheTruth
  <2> SUFFICES ASSUME BooksInv PROVE BooksTellTheTruth
    BY DEF OwnerInv
  <2>1. books \in Book
    BY DEF BooksInv, PipelinesTypeOK
  <2> QED BY <2>1, DraftsGated, FewMovesSettle, AttentionShared, MoneyShared
      DEF BooksTellTheTruth
<1> QED BY <1>1, OwnerHolds, PTL
=============================================================================
