----------------------- MODULE AutonomousRetryProofs -----------------------
(***************************************************************************)
(* Theorems about AutonomousRetry, for any number of runs, scans,          *)
(* attempts, crashes and thrown calls: its types and AttemptsDistinct,     *)
(* then RetriedWhenOver, then SettledForAReason, and last that the scan    *)
(* implements BoundedRetry.                                                *)
(*                                                                         *)
(* The argument for the attempts: the trigger source of a document - its   *)
(* parent and attempt - is written once, when the document is created, and *)
(* every later writer carries it along (the engine's in-memory record, the *)
(* copy a decision is linked in, the reconciler's snapshot, a patch).    A scan lists a *)
(* candidate only when no document carries the source of its next attempt, *)
(* and only it creates children, so the source is still free when it       *)
(* starts one.                                                             *)
(***************************************************************************)
EXTENDS AutonomousRetry, FiniteSetTheorems, FunctionTheorems, TLAPS

(* The engine call that holds a record of r it will write: its own until   *)
(* the run has its end, then the document as recordDecision() read it.     *)
InEngine == {"advance", "park", "dispatch", "settle", "complete"}
Holding == {"advance", "park", "dispatch", "settle", "complete", "linkGood", "linkBad"}

SameSource(p, q) == p.parent = q.parent /\ p.attempt = q.attempt

(* Every document that is yet to be written carries its source already. *)
SourcesKept ==
  /\ \A r \in Run : Live(r) => Exists(r)
  /\ \A r \in Run : ~Exists(r) => ~IsChild(r)
  /\ \A r \in Run : call[r] \in Holding =>
       SameSource(mem[r], file[r]) /\ mem[r].status # "unwritten"
  /\ \A s \in Scan : \A p \in stale[s] :
       Exists(p[1]) /\ SameSource(p[2], file[p[1]])

(* A candidate is an original. *)
CandidatesOriginal ==
  /\ \A s \in Scan : \A k \in todo[s] : Exists(k.run) /\ ~IsChild(k.run)
  /\ \A s \in Scan : at[s] \in {"request", "await"} =>
       doing[s] \in Candidate /\ Exists(doing[s].run) /\ ~IsChild(doing[s].run)
  /\ \A s \in Scan : at[s] = "await" => child[s] \in Run

(* The source of a candidate's next attempt is free and within the limit.  *)
SourcesFree ==
  \A s \in Scan : \A k, l \in todo[s] :
    /\ ~KnownSource(k.run, k.attempts + 1)
    /\ ~k.escalate => k.attempts + 1 <= MaxAttempts
    /\ k.run = l.run => k = l

SourceInv == TypeOK /\ SourcesKept /\ CandidatesOriginal

ParentsOriginal ==
  \A c \in Run : IsChild(c) => Exists(file[c].parent) /\ ~IsChild(file[c].parent)

Distinct ==
  /\ \A c, d \in Run :
       IsChild(c) /\ IsChild(d) /\ SameSource(file[c], file[d]) => c = d
  /\ \A c \in Run : IsChild(c) => file[c].attempt <= MaxAttempts

AttemptInv == ParentsOriginal /\ (OneScanner => Distinct /\ SourcesFree)

-----------------------------------------------------------------------------
LEMMA NewRecordTyped ==
  ASSUME NEW p \in Run \cup {NoRun}, NEW n \in Nat
  PROVE  NewRecord(p, n) \in Record
  BY DEF NewRecord, Record, Status, NonTerminal

LEMMA UnwrittenTyped == Unwritten \in Record /\ Unwritten.parent = NoRun
  BY DEF Unwritten, NewRecord, Record, Status, NonTerminal

LEMMA InitSourceInv ==
  ASSUME Init
  PROVE  SourceInv /\ AttemptInv
<1> USE DEF Init, EngineInit
<1>1. \A r \in Run : file[r] = Unwritten /\ call[r] = "none"
  OBVIOUS
<1>2. TypeOK
  BY UnwrittenTyped, EngineAssumption DEF TypeOK, EngineAssumption, Call, Over, At, Candidate
<1>3. \A r \in Run : ~Exists(r)
  BY <1>1 DEF Exists, Unwritten, NewRecord
<1>4. SourcesKept
  BY <1>1, UnwrittenTyped DEF SourcesKept, Live, Over, Holding, IsChild, Exists, Unwritten, NewRecord
<1>5. CandidatesOriginal
  BY DEF CandidatesOriginal
<1>6. AttemptInv
  BY <1>1, UnwrittenTyped DEF AttemptInv, ParentsOriginal, Distinct, SourcesFree, IsChild
<1> QED BY <1>2, <1>4, <1>5, <1>6 DEF SourceInv

-----------------------------------------------------------------------------
(* Steps that create no document.                                          *)

KeepsSources ==
  \A r \in Run :
    (Exists(r)' <=> Exists(r)) /\ SameSource(file'[r], file[r])

LEMMA WriteKeepsSources ==
  ASSUME TypeOK, NEW r \in Run, NEW rec \in Record, Write(r, rec),
         Exists(r), rec.status # "unwritten", SameSource(rec, file[r])
  PROVE  /\ KeepsSources
         /\ file' \in [Run -> Record]
         /\ age' \in [Run -> 0 .. StaleAfter]
<1>1. file' = [file EXCEPT ![r] = rec] /\ age' = [age EXCEPT ![r] = 0]
  BY DEF Write
<1>2. file' \in [Run -> Record] /\ age' \in [Run -> 0 .. StaleAfter]
  BY <1>1, EngineAssumption DEF TypeOK, EngineAssumption
<1>3. KeepsSources
  BY <1>1 DEF TypeOK, KeepsSources, Exists, SameSource
<1> QED BY <1>2, <1>3

LEMMA UnchangedKeepsSources ==
  ASSUME UNCHANGED file
  PROVE  KeepsSources
  BY DEF KeepsSources, Exists, SameSource

(* What such a step must say of the variables that refer to documents. *)
LEMMA KeptSourcesKept ==
  ASSUME SourceInv, TypeOK', KeepsSources,
         \A r \in Run : Live(r)' => Exists(r),
         \A r \in Run : call'[r] \in Holding =>
           SameSource(mem'[r], file[r]) /\ mem'[r].status # "unwritten",
         \A s \in Scan : \A p \in stale'[s] :
           Exists(p[1]) /\ SameSource(p[2], file[p[1]])
  PROVE  SourcesKept'
<1>1. \A r \in Run : IsChild(r)' <=> IsChild(r)
  BY DEF KeepsSources, SameSource, IsChild
<1>2. \A s \in Scan : \A p \in stale'[s] : p[1] \in Run
  BY DEF TypeOK
<1>3. \A r \in Run : ~Exists(r)' => ~IsChild(r)'
  BY <1>1 DEF KeepsSources, SourceInv, SourcesKept
<1>4. \A r \in Run : Live(r)' => Exists(r)'
  BY DEF KeepsSources
<1>5. \A r \in Run : call'[r] \in Holding =>
        SameSource(mem'[r], file'[r]) /\ mem'[r].status # "unwritten"
  BY DEF KeepsSources, SameSource
<1>6. \A s \in Scan : \A p \in stale'[s] :
        Exists(p[1])' /\ SameSource(p[2], file'[p[1]])
  BY <1>2 DEF KeepsSources, SameSource
<1> QED BY <1>3, <1>4, <1>5, <1>6 DEF SourcesKept, Holding, SameSource

LEMMA KeptCandidates ==
  ASSUME SourceInv, TypeOK', KeepsSources,
         \A s \in Scan : \A k \in todo'[s] : Exists(k.run) /\ ~IsChild(k.run),
         \A s \in Scan : at'[s] \in {"request", "await"} =>
           doing'[s] \in Candidate /\ Exists(doing'[s].run) /\ ~IsChild(doing'[s].run),
         \A s \in Scan : at'[s] = "await" => child'[s] \in Run
  PROVE  CandidatesOriginal'
<1>1. \A r \in Run :
        /\ file'[r].status # "unwritten" <=> Exists(r)
        /\ file'[r].parent # NoRun <=> IsChild(r)
  BY DEF KeepsSources, SameSource, IsChild, Exists
<1>2. \A k \in Candidate : k.run \in Run
  BY DEF Candidate
<1>3. \A s \in Scan : \A k \in todo'[s] : k \in Candidate
  BY DEF TypeOK
<1>4. \A s \in Scan : \A k \in todo'[s] :
        file'[k.run].status # "unwritten" /\ file'[k.run].parent = NoRun
  BY <1>1, <1>2, <1>3
<1>5. \A s \in Scan : at'[s] \in {"request", "await"} =>
        /\ doing'[s] \in Candidate
        /\ file'[doing'[s].run].status # "unwritten"
        /\ file'[doing'[s].run].parent = NoRun
  BY <1>1, <1>2
<1> QED BY <1>4, <1>5 DEF CandidatesOriginal, Exists, IsChild

-----------------------------------------------------------------------------
(* The call of a run writes its document and goes on.                      *)

otherVars == <<scanVars, blockers, triage, faults, overtaken>>

LEMMA DocumentStep ==
  ASSUME SourceInv, NEW r \in Run, NEW rec \in Record, NEW label \in Call,
         Live(r), Write(r, rec), rec.status # "unwritten", SameSource(rec, file[r]),
         call' = [call EXCEPT ![r] = label],
         \/ mem' = [mem EXCEPT ![r] = rec]
         \/ label \notin Holding /\ mem' \in {mem, [mem EXCEPT ![r] = Unwritten]},
         mode' = mode, UNCHANGED otherVars, erased' \subseteq Run
  PROVE  SourceInv' /\ KeepsSources
<1>1. Exists(r)
  BY DEF SourceInv, SourcesKept
<1>2. /\ KeepsSources
      /\ file' \in [Run -> Record] /\ age' \in [Run -> 0 .. StaleAfter]
  BY <1>1, WriteKeepsSources DEF SourceInv
<1>3. mem' \in [Run -> Record] /\ call' \in [Run -> Call]
  BY UnwrittenTyped DEF SourceInv, TypeOK
<1>4. TypeOK'
  BY <1>2, <1>3 DEF SourceInv, TypeOK, otherVars, scanVars
<1>5. \A q \in Run : Live(q)' => Exists(q)
  BY <1>1 DEF SourceInv, SourcesKept, TypeOK, Live
<1>6. \A q \in Run : call'[q] \in Holding =>
        SameSource(mem'[q], file[q]) /\ mem'[q].status # "unwritten"
  BY DEF SourceInv, SourcesKept, TypeOK
<1>7. SourcesKept'
  BY <1>2, <1>4, <1>5, <1>6, KeptSourcesKept DEF SourceInv, SourcesKept, otherVars, scanVars
<1>8. CandidatesOriginal'
  BY <1>2, <1>4, KeptCandidates DEF SourceInv, CandidatesOriginal, otherVars, scanVars
<1> QED BY <1>2, <1>4, <1>7, <1>8 DEF SourceInv

(* The call of a run reads its document, or forgets what it held. *)
LEMMA CallStep ==
  ASSUME SourceInv, NEW r \in Run, NEW label \in Call, Live(r),
         call' = [call EXCEPT ![r] = label],
         \/ mem' = [mem EXCEPT ![r] = file[r]]
         \/ label \notin Holding /\ mem' = [mem EXCEPT ![r] = Unwritten],
         UNCHANGED <<file, age, mode>>, UNCHANGED otherVars, erased' \subseteq Run
  PROVE  SourceInv' /\ KeepsSources
<1>1. Exists(r) /\ file[r] \in Record
  BY DEF SourceInv, SourcesKept, TypeOK
<1>2. KeepsSources
  BY UnchangedKeepsSources
<1>3. mem' \in [Run -> Record] /\ call' \in [Run -> Call]
  BY <1>1, UnwrittenTyped DEF SourceInv, TypeOK
<1>4. TypeOK'
  BY <1>3 DEF SourceInv, TypeOK, otherVars, scanVars
<1>5. \A q \in Run : Live(q)' => Exists(q)
  BY <1>1 DEF SourceInv, SourcesKept, TypeOK, Live
<1>6. \A q \in Run : call'[q] \in Holding =>
        SameSource(mem'[q], file[q]) /\ mem'[q].status # "unwritten"
  <2>1. SameSource(file[r], file[r]) /\ file[r].status # "unwritten"
    BY <1>1 DEF SameSource, Exists
  <2>2. \A q \in Run : q # r => call'[q] = call[q] /\ mem'[q] = mem[q]
    BY DEF SourceInv, TypeOK
  <2>3. call'[r] \in Holding => mem'[r] = file[r]
    BY DEF SourceInv, TypeOK
  <2> QED BY <2>1, <2>2, <2>3 DEF SourceInv, SourcesKept
<1>7. SourcesKept'
  BY <1>2, <1>4, <1>5, <1>6, KeptSourcesKept DEF SourceInv, SourcesKept, otherVars, scanVars
<1>8. CandidatesOriginal'
  BY <1>2, <1>4, KeptCandidates DEF SourceInv, CandidatesOriginal, otherVars, scanVars
<1> QED BY <1>2, <1>4, <1>7, <1>8 DEF SourceInv

(* After its end a run's call is over, its caller's, or records the end. *)
LEMMA EndLabel ==
  ASSUME TypeOK, NEW r \in Run, NEW verdict \in {"good", "bad"}
  PROVE  /\ AfterStart(r, verdict) \in Call \ Holding
         /\ RecordAt(verdict) \in Call \ Holding
         /\ LinkAt(verdict) \in Call
         /\ End(r, verdict) => \E label \in Call \ Holding : Goto(r, label)
<1>1. AfterStart(r, verdict) \in Call \ Holding
  BY DEF AfterStart, TypeOK, Call, Over, Holding
<1>2. RecordAt(verdict) \in Call \ Holding /\ LinkAt(verdict) \in Call
  BY DEF RecordAt, LinkAt, Call, Recording, Linking, Holding
<1>3. End(r, verdict) => \E label \in Call \ Holding : Goto(r, label)
  BY <1>1, <1>2 DEF End
<1> QED BY <1>1, <1>2, <1>3

LEMMA RunStepSources ==
  ASSUME SourceInv, NEW r \in Run, RunStep(r)
  PROVE  SourceInv' /\ KeepsSources
<1>1. UNCHANGED otherVars /\ erased' \subseteq Run
  BY DEF RunStep, otherVars, SourceInv, TypeOK
<1>2. /\ mem[r] \in Record /\ file[r] \in Record
      /\ Live(r) => Exists(r)
      /\ call[r] \in Holding => SameSource(mem[r], file[r])
      /\ call[r] \in Holding => mem[r].status # "unwritten"
  BY DEF SourceInv, TypeOK, SourcesKept
<1>3. \A p \in Record, status \in Status, b \in BOOLEAN :
        /\ [p EXCEPT !.status = status] \in Record
        /\ [p EXCEPT !.retryable = b] \in Record
        /\ [[p EXCEPT !.status = status] EXCEPT !.retryable = b] \in Record
        /\ SameSource([p EXCEPT !.status = status], p)
        /\ SameSource([p EXCEPT !.retryable = b], p)
        /\ SameSource([[p EXCEPT !.status = status] EXCEPT !.retryable = b], p)
  <2> SUFFICES ASSUME NEW p \in Record, NEW status \in Status, NEW b \in BOOLEAN
               PROVE  /\ [p EXCEPT !.status = status] \in Record
                      /\ [p EXCEPT !.retryable = b] \in Record
                      /\ [[p EXCEPT !.status = status] EXCEPT !.retryable = b] \in Record
                      /\ SameSource([p EXCEPT !.status = status], p)
                      /\ SameSource([p EXCEPT !.retryable = b], p)
                      /\ SameSource([[p EXCEPT !.status = status] EXCEPT !.retryable = b], p)
    OBVIOUS
  <2>1. [p EXCEPT !.status = status] \in Record
    BY DEF Record
  <2>2. [p EXCEPT !.retryable = b] \in Record
    BY DEF Record
  <2>3. [[p EXCEPT !.status = status] EXCEPT !.retryable = b] \in Record
    BY <2>1 DEF Record
  <2>4. SameSource([p EXCEPT !.status = status], p)
    BY DEF Record, SameSource
  <2>5. SameSource([p EXCEPT !.retryable = b], p)
    BY DEF Record, SameSource
  <2>6. SameSource([[p EXCEPT !.status = status] EXCEPT !.retryable = b], p)
    BY DEF Record, SameSource
  <2> QED BY <2>1, <2>2, <2>3, <2>4, <2>5, <2>6
<1>4. {"needs_human", "in_progress", "blocked", "failed", "completed"} \subseteq Status
  BY DEF Status, NonTerminal
<1>5. TypeOK
  BY DEF SourceInv
<1>6. CASE Park(r)
  <2> DEFINE rec == [mem[r] EXCEPT !.status = "needs_human"]
  <2>1. rec \in Record /\ SameSource(rec, file[r]) /\ rec.status # "unwritten"
    BY <1>2, <1>3, <1>4, <1>6 DEF Park, Holding, SameSource, Record
  <2>2. Live(r)
    BY <1>6 DEF Park, Live, Over
  <2>3. PICK label \in Call \ Holding : Goto(r, label)
    BY <1>5, <1>6, EndLabel DEF Park
  <2> QED BY <1>1, <1>6, <2>1, <2>2, <2>3, DocumentStep DEF Park, PersistLast, Goto
<1>7. CASE Advance(r)
  <2> DEFINE rec == [mem[r] EXCEPT !.status = "in_progress"]
  <2>1. rec \in Record /\ SameSource(rec, file[r]) /\ rec.status # "unwritten"
    BY <1>2, <1>3, <1>4, <1>7 DEF Advance, Holding, SameSource, Record
  <2>2. Live(r)
    BY <1>7 DEF Advance, Live, Over
  <2>3. (IF mode[r] = "dispatcher" THEN "dispatch" ELSE "complete") \in Call
    BY DEF Call
  <2> QED BY <1>1, <1>7, <2>1, <2>2, <2>3, DocumentStep DEF Advance, Persist, Goto
<1>8. CASE Dispatch(r)
  <2>1. Live(r) /\ SameSource(mem[r], file[r]) /\ mem[r].status # "unwritten"
    BY <1>8 DEF Dispatch, Live, Over, SourceInv, SourcesKept, Holding
  <2>2. CASE Persist(r, mem[r]) /\ Goto(r, "complete")
    <3>1. "complete" \in Call
      BY DEF Call
    <3> QED BY <1>1, <1>2, <1>8, <2>1, <2>2, <3>1, DocumentStep DEF Dispatch, Persist, Goto
  <2>3. ASSUME NEW b \in BOOLEAN,
               Persist(r, [mem[r] EXCEPT !.retryable = b]), Goto(r, "settle")
        PROVE  SourceInv' /\ KeepsSources
    <3> DEFINE rec == [mem[r] EXCEPT !.retryable = b]
    <3>1. rec \in Record /\ SameSource(rec, file[r]) /\ rec.status # "unwritten"
      BY <1>2, <1>3, <2>1 DEF SameSource, Record
    <3>2. "settle" \in Call
      BY DEF Call
    <3> QED BY <1>1, <1>8, <2>1, <2>3, <3>1, <3>2, DocumentStep DEF Dispatch, Persist, Goto
  <2> QED BY <1>8, <2>2, <2>3 DEF Dispatch
<1>9. CASE Settle(r)
  <2>1. PICK status \in {"blocked", "failed"} :
          PersistLast(r, [mem[r] EXCEPT !.status = status])
    BY <1>9 DEF Settle
  <2> DEFINE rec == [mem[r] EXCEPT !.status = status]
  <2>2. rec \in Record /\ SameSource(rec, file[r]) /\ rec.status # "unwritten"
    <3>1. rec \in Record /\ SameSource(rec, mem[r])
      BY <1>2, <1>3, <1>4, <2>1
    <3>2. SameSource(mem[r], file[r])
      BY <1>2, <1>9 DEF Settle, Holding
    <3>3. rec.status = status
      BY <1>2 DEF Record
    <3> QED BY <2>1, <3>1, <3>2, <3>3 DEF SameSource
  <2>3. Live(r)
    BY <1>9 DEF Settle, Live, Over
  <2>4. PICK label \in Call \ Holding : Goto(r, label)
    BY <1>5, <1>9, EndLabel DEF Settle
  <2> QED BY <1>1, <1>9, <2>1, <2>2, <2>3, <2>4, DocumentStep DEF Settle, PersistLast, Goto
<1>10. CASE Complete(r)
  <2> DEFINE rec == [mem[r] EXCEPT !.status = "completed"]
  <2>1. rec \in Record /\ SameSource(rec, file[r]) /\ rec.status # "unwritten"
    BY <1>2, <1>3, <1>4, <1>10 DEF Complete, Holding, SameSource, Record
  <2>2. Live(r)
    BY <1>10 DEF Complete, Live, Over
  <2>3. PICK label \in Call \ Holding : Goto(r, label)
    BY <1>5, <1>10, EndLabel DEF Complete
  <2> QED BY <1>1, <1>10, <2>1, <2>2, <2>3, DocumentStep DEF Complete, PersistLast, Goto
<1>11. CASE MarkRunning(r)
  <2> DEFINE rec == PatchedStatus(r, "in_progress")
  <2>1. rec \in Record /\ SameSource(rec, file[r]) /\ rec.status # "unwritten"
    BY <1>2, <1>3, <1>4 DEF PatchedStatus, Record
  <2>2. Live(r) /\ "pipeline" \in Call \ Holding
    BY <1>11 DEF MarkRunning, Live, Over, Call, Holding
  <2> QED BY <1>1, <1>11, <2>1, <2>2, DocumentStep DEF MarkRunning, Goto
<1>12. CASE FinishPipeline(r)
  <2>1. Live(r) /\ Exists(r) /\ {"good", "bad"} \subseteq Call \ Holding
    BY <1>2, <1>12 DEF FinishPipeline, Live, Over, Call, Holding
  <2>2. PICK rec \in Record, label \in {"good", "bad"} :
          /\ Write(r, rec) /\ Goto(r, label)
          /\ SameSource(rec, file[r]) /\ rec.status # "unwritten"
    <3>1. CASE /\ Write(r, IF mode[r] = "project"
                           THEN PatchedStatus(r, "completed") ELSE file[r])
               /\ Goto(r, "good")
      <4>1. SameSource(file[r], file[r])
        BY DEF SameSource
      <4>2. SameSource(PatchedStatus(r, "completed"), file[r])
            /\ PatchedStatus(r, "completed") \in Record
            /\ PatchedStatus(r, "completed").status # "unwritten"
        BY <1>2, <1>3, <1>4 DEF PatchedStatus, Record
      <4> QED BY <1>2, <2>1, <3>1, <4>1, <4>2 DEF Exists
    <3>2. ASSUME NEW b \in BOOLEAN,
                 Write(r, [PatchedStatus(r, "blocked") EXCEPT !.retryable = b]),
                 Goto(r, "bad")
          PROVE  \E rec \in Record, label \in {"good", "bad"} :
                   /\ Write(r, rec) /\ Goto(r, label)
                   /\ SameSource(rec, file[r]) /\ rec.status # "unwritten"
      <4> DEFINE rec == [PatchedStatus(r, "blocked") EXCEPT !.retryable = b]
      <4>1. rec \in Record /\ SameSource(rec, file[r]) /\ rec.status # "unwritten"
        BY <1>2, <1>3, <1>4 DEF PatchedStatus, Record
      <4> QED BY <3>2, <4>1
    <3> QED BY <1>12, <3>1, <3>2 DEF FinishPipeline
  <2> QED BY <1>1, <1>12, <2>1, <2>2, DocumentStep DEF FinishPipeline, Goto
<1>13. CASE ReadDecided(r)
  <2>1. PICK verdict \in {"good", "bad"} :
          call[r] = RecordAt(verdict) /\ Goto(r, LinkAt(verdict))
    BY <1>13 DEF ReadDecided
  <2>2. Live(r) /\ LinkAt(verdict) \in Call
    BY <1>5, <2>1, EndLabel DEF RecordAt, Live, Over
  <2> QED BY <1>1, <1>13, <2>1, <2>2, CallStep DEF ReadDecided, Goto
<1>14. CASE LinkDecision(r)
  <2>1. PICK verdict \in {"good", "bad"} :
          call[r] = LinkAt(verdict) /\ Goto(r, AfterStart(r, verdict))
    BY <1>14 DEF LinkDecision
  <2>2. Live(r) /\ call[r] \in Holding /\ AfterStart(r, verdict) \in Call \ Holding
    BY <1>5, <2>1, EndLabel DEF LinkAt, Live, Over, Holding
  <2>3. CASE PersistLast(r, mem[r])
    <3>1. SameSource(mem[r], file[r]) /\ mem[r].status # "unwritten"
      BY <1>2, <2>2
    <3> QED BY <1>1, <1>2, <1>14, <2>1, <2>2, <2>3, <3>1, DocumentStep
        DEF LinkDecision, PersistLast, Goto
  <2>4. CASE mem' = [mem EXCEPT ![r] = Unwritten] /\ UNCHANGED <<file, age>>
    BY <1>1, <1>14, <2>1, <2>2, <2>4, CallStep DEF LinkDecision, Goto
  <2> QED BY <1>14, <2>3, <2>4 DEF LinkDecision
<1> QED
  BY <1>6, <1>7, <1>8, <1>9, <1>10, <1>11, <1>12, <1>13, <1>14 DEF RunStep, EngineStep

-----------------------------------------------------------------------------
(* Steps that create a document.                                           *)

LEMMA NewDocument ==
  ASSUME SourceInv, NEW r \in Run, NEW how \in {"dispatcher", "project", "coordinator"},
         NEW parent \in Run \cup {NoRun}, NEW attempt \in Nat,
         StartRun(r, how, parent, attempt), UNCHANGED stale
  PROVE  /\ ~Exists(r)
         /\ file' = [file EXCEPT ![r] = NewRecord(parent, attempt)]
         /\ file' \in [Run -> Record] /\ age' \in [Run -> 0 .. StaleAfter]
         /\ mem' \in [Run -> Record] /\ call' \in [Run -> Call]
         /\ mode' \in [Run -> {"dispatcher", "project", "coordinator"}]
         /\ SourcesKept'
<1> DEFINE rec == NewRecord(parent, attempt)
<1>1. /\ ~Exists(r)
      /\ file' = [file EXCEPT ![r] = rec] /\ mem' = [mem EXCEPT ![r] = rec]
      /\ age' = [age EXCEPT ![r] = 0] /\ mode' = [mode EXCEPT ![r] = how]
  BY DEF StartRun, IsNewId, Persist, Write
<1>2. PICK label \in {"advance", "park"} : call' = [call EXCEPT ![r] = label]
  BY DEF StartRun, Goto
<1>3. rec \in Record /\ rec.status = "created" /\ label \in Call
  BY NewRecordTyped DEF NewRecord, Call
<1>4. /\ file' \in [Run -> Record] /\ age' \in [Run -> 0 .. StaleAfter]
      /\ mem' \in [Run -> Record] /\ call' \in [Run -> Call]
      /\ mode' \in [Run -> {"dispatcher", "project", "coordinator"}]
  <2> HIDE DEF rec
  <2> QED BY <1>1, <1>2, <1>3, EngineAssumption DEF EngineAssumption, SourceInv, TypeOK
<1>5. SourcesKept'
  <2> HIDE DEF rec
  <2> USE DEF SourceInv, SourcesKept, TypeOK
  <2>1. \A q \in Run : Live(q)' => Exists(q)'
    BY <1>1, <1>2, <1>3 DEF Live, Exists
  <2>2. \A q \in Run : ~Exists(q)' => ~IsChild(q)'
    BY <1>1, <1>3 DEF IsChild, Exists
  <2>3. \A q \in Run : call'[q] \in Holding =>
          SameSource(mem'[q], file'[q]) /\ mem'[q].status # "unwritten"
    <3>1. ASSUME NEW q \in Run, q # r, call'[q] \in Holding
          PROVE  SameSource(mem'[q], file'[q]) /\ mem'[q].status # "unwritten"
      BY <1>1, <1>2, <3>1
    <3>2. SameSource(mem'[r], file'[r]) /\ mem'[r].status # "unwritten"
      BY <1>1, <1>3 DEF SameSource
    <3> QED BY <3>1, <3>2
  <2>4. \A s \in Scan : \A p \in stale[s] : p[1] \in Run /\ p[1] # r
    BY <1>1
  <2>5. \A s \in Scan : \A p \in stale'[s] :
          Exists(p[1])' /\ SameSource(p[2], file'[p[1]])
    BY <1>1, <2>4 DEF Exists
  <2> QED BY <2>1, <2>2, <2>3, <2>5 DEF Holding, SameSource
<1> QED BY <1>1, <1>4, <1>5

(* A new document leaves the others as they are. *)
LEMMA NewDocumentKeepsOriginals ==
  ASSUME SourceInv, NEW r \in Run, NEW rec \in Record, ~Exists(r),
         file' = [file EXCEPT ![r] = rec], rec.status # "unwritten"
  PROVE  \A q \in Run : Exists(q) =>
           /\ file'[q].status # "unwritten"
           /\ file'[q].parent = file[q].parent
  BY DEF SourceInv, TypeOK, Exists

LEMMA StartOriginalSources ==
  ASSUME SourceInv, NEW r \in Run, StartOriginal(r)
  PROVE  SourceInv'
<1>1. PICK how \in {"dispatcher", "project"} : StartRun(r, how, NoRun, 0)
  BY DEF StartOriginal
<1>2. UNCHANGED otherVars /\ UNCHANGED erased
  BY DEF StartOriginal, otherVars
<1>3. NoRun \in Run \cup {NoRun} /\ 0 \in Nat
  OBVIOUS
<1>4. /\ ~Exists(r)
      /\ file' = [file EXCEPT ![r] = NewRecord(NoRun, 0)]
      /\ file' \in [Run -> Record] /\ age' \in [Run -> 0 .. StaleAfter]
      /\ mem' \in [Run -> Record] /\ call' \in [Run -> Call]
      /\ mode' \in [Run -> {"dispatcher", "project", "coordinator"}]
      /\ SourcesKept'
  <2>1. UNCHANGED stale
    BY <1>2 DEF otherVars, scanVars
  <2> QED BY <1>1, <1>3, <2>1, NewDocument
<1>5. TypeOK'
  BY <1>2, <1>4 DEF SourceInv, TypeOK, otherVars, scanVars
<1>6. NewRecord(NoRun, 0) \in Record /\ NewRecord(NoRun, 0).status # "unwritten"
  BY <1>3, NewRecordTyped DEF NewRecord
<1>7. \A q \in Run : Exists(q) =>
        file'[q].status # "unwritten" /\ file'[q].parent = file[q].parent
  BY <1>4, <1>6, NewDocumentKeepsOriginals
<1>8. \A k \in Candidate : k.run \in Run
  BY DEF Candidate
<1>9. CandidatesOriginal'
  BY <1>2, <1>7, <1>8
  DEF SourceInv, TypeOK, CandidatesOriginal, otherVars, scanVars, Exists, IsChild
<1> QED BY <1>4, <1>5, <1>9 DEF SourceInv

LEMMA StartChildSources ==
  ASSUME SourceInv, NEW s \in Scan, NEW c \in Run, StartChild(s, c)
  PROVE  SourceInv'
<1>1. PICK k \in todo[s], how \in {"project", "coordinator"} :
        /\ ~k.escalate
        /\ StartRun(c, how, k.run, k.attempts + 1)
        /\ todo' = [todo EXCEPT ![s] = @ \ {k}]
        /\ doing' = [doing EXCEPT ![s] = k]
  BY DEF StartChild
<1>2. k \in Candidate /\ k.run \in Run \cup {NoRun} /\ k.attempts + 1 \in Nat
      /\ Exists(k.run) /\ ~IsChild(k.run) /\ k.run \in Run
  BY DEF SourceInv, TypeOK, Candidate, CandidatesOriginal
<1>3. /\ ~Exists(c)
      /\ file' = [file EXCEPT ![c] = NewRecord(k.run, k.attempts + 1)]
      /\ file' \in [Run -> Record] /\ age' \in [Run -> 0 .. StaleAfter]
      /\ mem' \in [Run -> Record] /\ call' \in [Run -> Call]
      /\ mode' \in [Run -> {"dispatcher", "project", "coordinator"}]
      /\ SourcesKept'
  <2>1. UNCHANGED stale
    BY DEF StartChild
  <2> QED BY <1>1, <1>2, <2>1, NewDocument
<1>4. /\ at' = [at EXCEPT ![s] = "await"] /\ child' = [child EXCEPT ![s] = c]
      /\ UNCHANGED <<stale, blockers, triage, faults, overtaken, erased>>
  BY DEF StartChild
<1>5. todo' \in [Scan -> SUBSET Candidate]
  BY <1>1 DEF SourceInv, TypeOK
<1>6. /\ at' \in [Scan -> At] /\ child' \in [Scan -> Run \cup {NoRun}]
      /\ doing' \in [Scan -> Candidate \cup {NoCandidate}]
  BY <1>1, <1>2, <1>4 DEF SourceInv, TypeOK, At
<1>7. TypeOK'
  BY <1>3, <1>4, <1>5, <1>6 DEF SourceInv, TypeOK
<1>8. /\ NewRecord(k.run, k.attempts + 1) \in Record
      /\ NewRecord(k.run, k.attempts + 1).status # "unwritten"
  BY <1>2, NewRecordTyped DEF NewRecord
<1>9. \A q \in Run : Exists(q) =>
        file'[q].status # "unwritten" /\ file'[q].parent = file[q].parent
  BY <1>3, <1>8, NewDocumentKeepsOriginals
<1>10. \A l \in Candidate : l.run \in Run
  BY DEF Candidate
<1>11. CandidatesOriginal'
  <2>1. \A t \in Scan : \A l \in todo'[t] : l \in todo[t]
    BY <1>1 DEF SourceInv, TypeOK
  <2>2. \A t \in Scan : \A l \in todo'[t] :
          file'[l.run].status # "unwritten" /\ file'[l.run].parent = NoRun
    BY <1>9, <1>10, <2>1 DEF SourceInv, TypeOK, CandidatesOriginal, Exists, IsChild
  <2>3. \A t \in Scan : at'[t] \in {"request", "await"} =>
          /\ doing'[t] \in Candidate
          /\ file'[doing'[t].run].status # "unwritten"
          /\ file'[doing'[t].run].parent = NoRun
    <3>1. ASSUME NEW t \in Scan, t # s, at'[t] \in {"request", "await"}
          PROVE  /\ doing'[t] \in Candidate
                 /\ file'[doing'[t].run].status # "unwritten"
                 /\ file'[doing'[t].run].parent = NoRun
      <4>1. doing'[t] = doing[t] /\ at[t] \in {"request", "await"}
        BY <1>1, <1>4, <3>1 DEF SourceInv, TypeOK
      <4> QED BY <1>9, <1>10, <4>1 DEF SourceInv, CandidatesOriginal, Exists, IsChild
    <3>2. doing'[s] = k
      BY <1>1 DEF SourceInv, TypeOK
    <3> QED BY <1>2, <1>9, <3>1, <3>2 DEF Exists, IsChild
  <2>4. \A t \in Scan : at'[t] = "await" => child'[t] \in Run
    BY <1>4 DEF SourceInv, TypeOK, CandidatesOriginal
  <2> QED BY <2>2, <2>3, <2>4 DEF CandidatesOriginal, Exists, IsChild
<1> QED BY <1>3, <1>7, <1>11 DEF SourceInv

-----------------------------------------------------------------------------
(* The steps of a scan that create no document.                            *)

(* Calls that end, snapshots and candidates that are dropped. *)
LEMMA QuietStep ==
  ASSUME SourceInv, TypeOK', KeepsSources, UNCHANGED mem,
         \A r \in Run : call'[r] = call[r] \/ call'[r] \in Over,
         \A s \in Scan : stale'[s] \subseteq stale[s],
         \A s \in Scan : todo'[s] \subseteq todo[s],
         \A s \in Scan : at'[s] \in {"request", "await"} =>
           at'[s] = at[s] /\ doing'[s] = doing[s] /\ child'[s] = child[s]
  PROVE  SourceInv'
<1>1. \A r \in Run : Live(r)' => Exists(r)
  BY DEF Live, SourceInv, SourcesKept
<1>2. Over \cap Holding = {}
  BY DEF Over, Holding
<1>3. \A r \in Run : call'[r] \in Holding =>
        SameSource(mem'[r], file[r]) /\ mem'[r].status # "unwritten"
  BY <1>2 DEF SourceInv, SourcesKept
<1>4. \A s \in Scan : \A p \in stale'[s] :
        Exists(p[1]) /\ SameSource(p[2], file[p[1]])
  BY DEF SourceInv, SourcesKept
<1>5. SourcesKept'
  BY <1>1, <1>3, <1>4, KeptSourcesKept
<1>6. CandidatesOriginal'
  <2>1. \A s \in Scan : \A k \in todo'[s] : Exists(k.run) /\ ~IsChild(k.run)
    BY DEF SourceInv, CandidatesOriginal
  <2>2. \A s \in Scan : at'[s] \in {"request", "await"} =>
          doing'[s] \in Candidate /\ Exists(doing'[s].run) /\ ~IsChild(doing'[s].run)
    BY DEF SourceInv, CandidatesOriginal
  <2>3. \A s \in Scan : at'[s] = "await" => child'[s] \in Run
    BY DEF SourceInv, CandidatesOriginal
  <2> QED BY <2>1, <2>2, <2>3, KeptCandidates
<1> QED BY <1>5, <1>6 DEF SourceInv

LEMMA FailOriginalSources ==
  ASSUME SourceInv, NEW r \in Run, FailOriginal(r)
  PROVE  SourceInv' /\ KeepsSources
<1> USE DEF FailOriginal, Goto, scanVars
<1>1. KeepsSources
  BY UnchangedKeepsSources
<1>2. call' \in [Run -> Call] /\ \A q \in Run : call'[q] = call[q] \/ call'[q] \in Over
  BY DEF SourceInv, TypeOK, Over, Call
<1>3. TypeOK'
  BY <1>2 DEF SourceInv, TypeOK
<1> QED BY <1>1, <1>2, <1>3, QuietStep

LEMMA BeginScanSources ==
  ASSUME SourceInv, NEW s \in Scan, BeginScan(s)
  PROVE  SourceInv' /\ KeepsSources
<1> USE DEF BeginScan, engineVars
<1>1. KeepsSources
  BY UnchangedKeepsSources
<1>2. \A p \in stale'[s] : p[1] \in Run /\ IsStale(p[1]) /\ p = <<p[1], file[p[1]]>>
  BY DEF SourceInv, TypeOK
<1>3. stale' \in [Scan -> SUBSET (Run \X Record)]
  <2>1. {<<r, file[r]>> : r \in {q \in Run : IsStale(q)}} \subseteq Run \X Record
    BY DEF SourceInv, TypeOK
  <2> QED BY <2>1 DEF SourceInv, TypeOK
<1>4. at' \in [Scan -> At] /\ overtaken' \subseteq Run
  BY DEF SourceInv, TypeOK, At
<1>5. TypeOK'
  BY <1>3, <1>4 DEF SourceInv, TypeOK
<1>6. \A t \in Scan : \A p \in stale'[t] :
        Exists(p[1]) /\ SameSource(p[2], file[p[1]])
  <2>1. \A p \in stale'[s] : Exists(p[1]) /\ SameSource(p[2], file[p[1]])
    BY <1>2 DEF IsStale, NonTerminal, Exists, SameSource
  <2>2. \A t \in Scan : t # s => stale'[t] = stale[t]
    BY DEF SourceInv, TypeOK
  <2> QED BY <2>1, <2>2 DEF SourceInv, SourcesKept
<1>7. SourcesKept'
  BY <1>1, <1>5, <1>6, KeptSourcesKept DEF SourceInv, SourcesKept, Live
<1>8. \A t \in Scan : at'[t] \in {"request", "await"} => at[t] = at'[t]
  BY DEF SourceInv, TypeOK
<1>9. CandidatesOriginal'
  BY <1>1, <1>5, <1>8, KeptCandidates DEF SourceInv, CandidatesOriginal
<1> QED BY <1>1, <1>5, <1>7, <1>9 DEF SourceInv

LEMMA ReconcileSources ==
  ASSUME SourceInv, NEW s \in Scan, Reconcile(s)
  PROVE  SourceInv' /\ KeepsSources
<1>1. PICK p \in stale[s] :
        \E retryable \in BOOLEAN :
          /\ Write(p[1], Reconciled(p[2], retryable))
          /\ stale' = [stale EXCEPT ![s] = @ \ {p}]
  BY DEF Reconcile
<1>2. p[1] \in Run /\ p[2] \in Record /\ Exists(p[1]) /\ SameSource(p[2], file[p[1]])
  BY DEF SourceInv, TypeOK, SourcesKept
<1> PICK b \in BOOLEAN : /\ Write(p[1], Reconciled(p[2], b))
                         /\ stale' = [stale EXCEPT ![s] = @ \ {p}]
  BY <1>1
<1>3. /\ Reconciled(p[2], b) \in Record /\ Reconciled(p[2], b).status # "unwritten"
      /\ SameSource(Reconciled(p[2], b), file[p[1]])
  <2>1. Reconciled(p[2], b) \in Record /\ Reconciled(p[2], b).status = "blocked"
    BY <1>2 DEF Reconciled, Record, Status
  <2>2. SameSource(Reconciled(p[2], b), p[2])
    BY <1>2 DEF Reconciled, Record, SameSource
  <2> QED BY <1>2, <2>1, <2>2 DEF SameSource
<1>4. KeepsSources /\ file' \in [Run -> Record] /\ age' \in [Run -> 0 .. StaleAfter]
  BY <1>2, <1>3, WriteKeepsSources DEF SourceInv
<1>5. stale' \in [Scan -> SUBSET (Run \X Record)]
      /\ \A t \in Scan : stale'[t] \subseteq stale[t]
  BY <1>1 DEF SourceInv, TypeOK
<1>6. TypeOK'
  BY <1>4, <1>5 DEF Reconcile, SourceInv, TypeOK
<1> QED BY <1>4, <1>5, <1>6, QuietStep DEF Reconcile

LEMMA ListCandidatesSources ==
  ASSUME SourceInv, NEW s \in Scan, ListCandidates(s)
  PROVE  SourceInv' /\ KeepsSources
<1> USE DEF ListCandidates, engineVars
<1>1. KeepsSources
  BY UnchangedKeepsSources
<1>2. \A r \in Run : CandidateOf(r) \in Candidate /\ CandidateOf(r).run = r
  <2> SUFFICES ASSUME NEW r \in Run
               PROVE  CandidateOf(r) \in Candidate /\ CandidateOf(r).run = r
    OBVIOUS
  <2>1. file[r].attempts \in Nat /\ file[r].retryable \in BOOLEAN
    BY DEF SourceInv, TypeOK, Record
  <2>2. (~file[r].retryable \/ file[r].attempts + 1 > MaxAttempts) \in BOOLEAN
    OBVIOUS
  <2> QED BY <2>1, <2>2 DEF CandidateOf, Candidate
<1>3. todo' \in [Scan -> SUBSET Candidate]
  BY <1>2 DEF SourceInv, TypeOK
<1>4. at' \in [Scan -> At]
  BY DEF SourceInv, TypeOK, At
<1>5. TypeOK'
  BY <1>3, <1>4 DEF SourceInv, TypeOK
<1>6. SourcesKept'
  BY <1>1, <1>5, KeptSourcesKept DEF SourceInv, SourcesKept, Live
<1>7. \A t \in Scan : \A k \in todo'[t] : Exists(k.run) /\ ~IsChild(k.run)
  <2>1. \A k \in todo'[s] : Exists(k.run) /\ ~IsChild(k.run)
    BY <1>2 DEF SourceInv, TypeOK, Eligible, Exists
  <2>2. \A t \in Scan : t # s => todo'[t] = todo[t]
    BY DEF SourceInv, TypeOK
  <2> QED BY <2>1, <2>2 DEF SourceInv, CandidatesOriginal
<1>8. \A t \in Scan : at'[t] \in {"request", "await"} => at[t] = at'[t]
  BY DEF SourceInv, TypeOK
<1>9. CandidatesOriginal'
  BY <1>1, <1>5, <1>7, <1>8, KeptCandidates DEF SourceInv, CandidatesOriginal
<1> QED BY <1>1, <1>5, <1>6, <1>9 DEF SourceInv

LEMMA RequestApprovalSources ==
  ASSUME SourceInv, NEW s \in Scan, RequestApproval(s)
  PROVE  SourceInv' /\ KeepsSources
<1> USE DEF RequestApproval, engineVars
<1>1. KeepsSources
  BY UnchangedKeepsSources
<1>2. PICK k \in todo[s] :
        /\ todo' = [todo EXCEPT ![s] = @ \ {k}]
        /\ doing' = [doing EXCEPT ![s] = k]
        /\ blockers' = [blockers EXCEPT ![k.run] = @ + 1]
  OBVIOUS
<1>3. k \in Candidate /\ k.run \in Run /\ Exists(k.run) /\ ~IsChild(k.run)
  BY DEF SourceInv, TypeOK, Candidate, CandidatesOriginal
<1>4. todo' \in [Scan -> SUBSET Candidate] /\ \A t \in Scan : todo'[t] \subseteq todo[t]
  BY <1>2 DEF SourceInv, TypeOK
<1>5. doing' \in [Scan -> Candidate \cup {NoCandidate}] /\ at' \in [Scan -> At]
  BY <1>2, <1>3 DEF SourceInv, TypeOK, At
<1>6. blockers' \in [Run -> Nat]
  BY <1>2, <1>3 DEF SourceInv, TypeOK
<1>7. TypeOK'
  BY <1>4, <1>5, <1>6 DEF SourceInv, TypeOK
<1>8. SourcesKept'
  BY <1>1, <1>7, KeptSourcesKept DEF SourceInv, SourcesKept, Live
<1>9. CandidatesOriginal'
  <2>1. \A t \in Scan : t # s => doing'[t] = doing[t] /\ at'[t] = at[t]
    BY <1>2 DEF SourceInv, TypeOK
  <2>2. doing'[s] = k /\ at'[s] = "request"
    BY <1>2 DEF SourceInv, TypeOK
  <2>3. \A t \in Scan : at'[t] \in {"request", "await"} =>
          doing'[t] \in Candidate /\ Exists(doing'[t].run) /\ ~IsChild(doing'[t].run)
    BY <1>3, <2>1, <2>2 DEF SourceInv, CandidatesOriginal
  <2>4. \A t \in Scan : at'[t] = "await" => child'[t] \in Run
    BY <2>1, <2>2 DEF SourceInv, CandidatesOriginal
  <2>5. \A t \in Scan : \A l \in todo'[t] : Exists(l.run) /\ ~IsChild(l.run)
    BY <1>4 DEF SourceInv, CandidatesOriginal
  <2> QED BY <1>1, <1>7, <2>3, <2>4, <2>5, KeptCandidates
<1> QED BY <1>1, <1>7, <1>8, <1>9 DEF SourceInv

(* A patch of a document changes neither its source nor its status. *)
LEMMA PatchTyped ==
  ASSUME NEW rec \in Record, NEW n \in Nat, NEW b \in BOOLEAN
  PROVE  /\ [rec EXCEPT !.attempts = n, !.escalated = TRUE] \in Record
         /\ [rec EXCEPT !.attempts = n, !.recovered = b] \in Record
         /\ SameSource([rec EXCEPT !.attempts = n, !.escalated = TRUE], rec)
         /\ SameSource([rec EXCEPT !.attempts = n, !.recovered = b], rec)
         /\ [rec EXCEPT !.attempts = n, !.escalated = TRUE].status = rec.status
         /\ [rec EXCEPT !.attempts = n, !.recovered = b].status = rec.status
<1> DEFINE e == [rec EXCEPT !.attempts = n, !.escalated = TRUE]
           d == [rec EXCEPT !.attempts = n, !.recovered = b]
<1>1. e \in Record
  BY DEF Record
<1>2. d \in Record
  BY DEF Record
<1>3. SameSource(e, rec) /\ e.status = rec.status
  BY DEF Record, SameSource
<1>4. SameSource(d, rec) /\ d.status = rec.status
  BY DEF Record, SameSource
<1> QED BY <1>1, <1>2, <1>3, <1>4

LEMMA PatchEscalatedSources ==
  ASSUME SourceInv, NEW s \in Scan, PatchEscalated(s)
  PROVE  SourceInv' /\ KeepsSources
<1> USE DEF PatchEscalated
<1> DEFINE k == doing[s]
           rec == [file[k.run] EXCEPT !.attempts = k.attempts, !.escalated = TRUE]
<1>1. k \in Candidate /\ k.run \in Run /\ k.attempts \in Nat /\ Exists(k.run)
  BY DEF SourceInv, CandidatesOriginal, Candidate
<1>2. file[k.run] \in Record
  BY <1>1 DEF SourceInv, TypeOK
<1>3. rec \in Record /\ SameSource(rec, file[k.run]) /\ rec.status # "unwritten"
  BY <1>1, <1>2, PatchTyped DEF Exists
<1>4. KeepsSources /\ file' \in [Run -> Record] /\ age' \in [Run -> 0 .. StaleAfter]
  <2>1. Write(k.run, rec)
    OBVIOUS
  <2> QED BY <1>1, <1>3, <2>1, WriteKeepsSources DEF SourceInv
<1>5. at' \in [Scan -> At] /\ doing' \in [Scan -> Candidate \cup {NoCandidate}]
  BY DEF SourceInv, TypeOK, At
<1>6. TypeOK'
  BY <1>4, <1>5 DEF SourceInv, TypeOK
<1>7. \A t \in Scan : at'[t] \in {"request", "await"} =>
        at'[t] = at[t] /\ doing'[t] = doing[t] /\ child'[t] = child[t]
  BY DEF SourceInv, TypeOK
<1> QED BY <1>4, <1>6, <1>7, QuietStep

LEMMA PatchParentSources ==
  ASSUME SourceInv, NEW s \in Scan, PatchParent(s)
  PROVE  SourceInv' /\ KeepsSources
<1> USE DEF PatchParent
<1> DEFINE k == doing[s]
           b == file[k.run].recovered \/ call[child[s]] = "good"
           rec == [file[k.run] EXCEPT !.attempts = k.attempts + 1, !.recovered = b]
<1>1. k \in Candidate /\ k.run \in Run /\ k.attempts + 1 \in Nat /\ Exists(k.run)
  BY DEF SourceInv, CandidatesOriginal, Candidate
<1>2. file[k.run] \in Record
  BY <1>1 DEF SourceInv, TypeOK
<1>3. b \in BOOLEAN
  OBVIOUS
<1>4. rec \in Record /\ SameSource(rec, file[k.run]) /\ rec.status # "unwritten"
  <2> HIDE DEF b
  <2> QED BY <1>1, <1>2, <1>3, PatchTyped DEF Exists
<1>5. KeepsSources /\ file' \in [Run -> Record] /\ age' \in [Run -> 0 .. StaleAfter]
  <2>1. Write(k.run, rec)
    BY <1>2 DEF Record
  <2> QED BY <1>1, <1>4, <2>1, WriteKeepsSources DEF SourceInv
<1>6. /\ at' \in [Scan -> At] /\ doing' \in [Scan -> Candidate \cup {NoCandidate}]
      /\ child' \in [Scan -> Run \cup {NoRun}]
  BY DEF SourceInv, TypeOK, At
<1>7. TypeOK'
  BY <1>5, <1>6 DEF SourceInv, TypeOK
<1>8. \A t \in Scan : at'[t] \in {"request", "await"} =>
        at'[t] = at[t] /\ doing'[t] = doing[t] /\ child'[t] = child[t]
  BY DEF SourceInv, TypeOK
<1> QED BY <1>5, <1>7, <1>8, QuietStep

LEMMA SkipCandidateSources ==
  ASSUME SourceInv, NEW s \in Scan, SkipCandidate(s)
  PROVE  SourceInv' /\ KeepsSources
<1> USE DEF SkipCandidate, engineVars
<1>1. KeepsSources
  BY UnchangedKeepsSources
<1>2. todo' \in [Scan -> SUBSET Candidate] /\ \A t \in Scan : todo'[t] \subseteq todo[t]
  BY DEF SourceInv, TypeOK
<1>3. TypeOK'
  BY <1>2 DEF SourceInv, TypeOK
<1> QED BY <1>1, <1>2, <1>3, QuietStep

LEMMA EndScanSources ==
  ASSUME SourceInv, NEW s \in Scan, EndScan(s)
  PROVE  SourceInv' /\ KeepsSources
<1> USE DEF EndScan, engineVars
<1>1. KeepsSources
  BY UnchangedKeepsSources
<1>2. at' \in [Scan -> At]
  BY DEF SourceInv, TypeOK, At
<1>3. TypeOK'
  BY <1>2 DEF SourceInv, TypeOK
<1>4. \A t \in Scan : at'[t] \in {"request", "await"} => at'[t] = at[t]
  BY DEF SourceInv, TypeOK
<1> QED BY <1>1, <1>3, <1>4, QuietStep

(* A scan is given up, and its child's call with it. *)
LEMMA AbandonSources ==
  ASSUME SourceInv, NEW s \in Scan, Abandon(s), UNCHANGED <<file, age, mem, mode>>,
         call' \in [Run -> Call],
         \A r \in Run : call'[r] = call[r] \/ call'[r] \in Over,
         faults' \in Nat, UNCHANGED <<blockers, triage, overtaken, erased>>
  PROVE  SourceInv' /\ KeepsSources
<1> USE DEF Abandon
<1>1. KeepsSources
  BY UnchangedKeepsSources
<1>2. at' \in [Scan -> At] /\ child' \in [Scan -> Run \cup {NoRun}]
  BY DEF SourceInv, TypeOK, At
<1>3. doing' \in [Scan -> Candidate \cup {NoCandidate}]
  BY DEF SourceInv, TypeOK
<1>4. todo' \in [Scan -> SUBSET Candidate] /\ \A t \in Scan : todo'[t] \subseteq todo[t]
  BY DEF SourceInv, TypeOK
<1>5. /\ stale' \in [Scan -> SUBSET (Run \X Record)]
      /\ \A t \in Scan : stale'[t] \subseteq stale[t]
  BY DEF SourceInv, TypeOK
<1>6. TypeOK'
  BY <1>2, <1>3, <1>4, <1>5 DEF SourceInv, TypeOK
<1>7. \A t \in Scan : at'[t] \in {"request", "await"} =>
        at'[t] = at[t] /\ doing'[t] = doing[t] /\ child'[t] = child[t]
  BY DEF SourceInv, TypeOK
<1> QED BY <1>1, <1>4, <1>5, <1>6, <1>7, QuietStep

LEMMA ChildThrowsSources ==
  ASSUME SourceInv, NEW s \in Scan, ChildThrows(s)
  PROVE  SourceInv' /\ KeepsSources
<1> USE DEF ChildThrows, Throw, Goto
<1>1. /\ call' \in [Run -> Call]
      /\ \A r \in Run : call'[r] = call[r] \/ call'[r] \in Over
  BY DEF SourceInv, TypeOK, Over, Call
<1>2. faults' \in Nat
  BY DEF SourceInv, TypeOK
<1> QED BY <1>1, <1>2, AbandonSources

LEMMA ScanDiesSources ==
  ASSUME SourceInv, NEW s \in Scan, ScanDies(s)
  PROVE  SourceInv' /\ KeepsSources
<1> USE DEF ScanDies, Goto
<1>1. /\ call' \in [Run -> Call]
      /\ \A r \in Run : call'[r] = call[r] \/ call'[r] \in Over
  BY DEF SourceInv, TypeOK, Over, Call
<1>2. faults' \in Nat
  BY DEF SourceInv, TypeOK
<1> QED BY <1>1, <1>2, AbandonSources

LEMMA TickSources ==
  ASSUME SourceInv, Tick, UNCHANGED otherVars, UNCHANGED erased
  PROVE  SourceInv' /\ KeepsSources
<1> USE DEF Tick, otherVars, scanVars
<1>1. KeepsSources
  BY UnchangedKeepsSources
<1>2. age' \in [Run -> 0 .. StaleAfter]
  BY EngineAssumption DEF SourceInv, TypeOK, EngineAssumption
<1>3. TypeOK'
  BY <1>2 DEF SourceInv, TypeOK
<1> QED BY <1>1, <1>3, QuietStep

-----------------------------------------------------------------------------
(* The attempts stay distinct.                                             *)

LEMMA KeptAttempts ==
  ASSUME SourceInv, SourceInv', AttemptInv, KeepsSources,
         \A s \in Scan : todo'[s] \subseteq todo[s]
  PROVE  AttemptInv'
<1>1. \A r \in Run :
        /\ Exists(r)' <=> Exists(r)
        /\ IsChild(r)' <=> IsChild(r)
        /\ file'[r].parent = file[r].parent /\ file'[r].attempt = file[r].attempt
  BY DEF KeepsSources, SameSource, IsChild
<1>2. \A r \in Run : IsChild(r) => file[r].parent \in Run
  BY DEF SourceInv, TypeOK, Record, IsChild
<1>3. ParentsOriginal'
  BY <1>1, <1>2 DEF AttemptInv, ParentsOriginal, Exists, IsChild
<1>4. ASSUME OneScanner
      PROVE  Distinct' /\ SourcesFree'
  <2>1. Distinct'
    BY <1>1, <1>4 DEF AttemptInv, Distinct, SameSource
  <2>2. \A s \in Scan : \A k \in todo'[s] : KnownSource(k.run, k.attempts + 1)' =>
          KnownSource(k.run, k.attempts + 1)
    BY <1>1 DEF KnownSource, Children, Created
  <2>3. SourcesFree'
    BY <1>4, <2>2 DEF AttemptInv, SourcesFree
  <2> QED BY <2>1, <2>3
<1> QED BY <1>3, <1>4 DEF AttemptInv, OneScanner

LEMMA ListedAttempts ==
  ASSUME SourceInv, SourceInv', AttemptInv, KeepsSources, NEW s \in Scan, ListCandidates(s)
  PROVE  AttemptInv'
<1> USE DEF ListCandidates, engineVars
<1>1. ParentsOriginal' /\ (OneScanner => Distinct')
  BY DEF AttemptInv, ParentsOriginal, Distinct, SameSource, Exists, IsChild
<1>2. ASSUME OneScanner
      PROVE  SourcesFree'
  <2>1. \A t \in Scan : t = s
    BY <1>2 DEF OneScanner
  <2>2. todo'[s] = {CandidateOf(r) : r \in {q \in Run : Eligible(q)}}
    BY DEF SourceInv, TypeOK
  <2>3. \A k \in todo'[s] : Eligible(k.run) /\ k = CandidateOf(k.run)
    BY <2>2 DEF CandidateOf
  <2>4. \A k \in todo'[s] : k.run \in Run /\ k.attempts \in Nat
    BY DEF SourceInv, TypeOK, Candidate
  <2>5. ASSUME NEW k \in todo'[s]
        PROVE  /\ ~KnownSource(k.run, k.attempts + 1)
               /\ ~k.escalate => k.attempts + 1 <= MaxAttempts
    <3>1. k.attempts = file[k.run].attempts
      BY <2>3, <2>5 DEF CandidateOf
    <3> DEFINE over == ~file[k.run].retryable \/ file[k.run].attempts + 1 > MaxAttempts
    <3>4. k.escalate = over
      <4>1. CandidateOf(k.run).escalate = over
        BY DEF CandidateOf
      <4>2. k = CandidateOf(k.run)
        BY <2>3, <2>5
      <4> QED BY ONLY <4>1, <4>2, Zenon
    <3>2. k.attempts \in Nat /\ MaxAttempts \in Nat
      BY <2>4, <2>5, RetryAssumption DEF RetryAssumption
    <3>3. ~k.escalate => k.attempts + 1 <= MaxAttempts
      <4>1. ~k.escalate => ~over
        BY ONLY <3>4, Zenon
      <4>2. ~over => k.attempts + 1 <= MaxAttempts
        BY <3>1, <3>2
      <4> QED BY <4>1, <4>2
    <3> QED BY <2>3, <3>1, <3>3 DEF Eligible
  <2>6. \A k \in todo'[s] : ~KnownSource(k.run, k.attempts + 1)'
    BY <2>5 DEF KnownSource, Children, Created, Exists
  <2> QED BY <2>1, <2>3, <2>5, <2>6 DEF SourcesFree
<1> QED BY <1>1, <1>2 DEF AttemptInv, OneScanner

LEMMA StartOriginalAttempts ==
  ASSUME SourceInv, SourceInv', AttemptInv, NEW r \in Run, StartOriginal(r)
  PROVE  AttemptInv'
<1>1. /\ ~Exists(r) /\ file' = [file EXCEPT ![r] = NewRecord(NoRun, 0)]
      /\ UNCHANGED todo
  BY DEF StartOriginal, StartRun, IsNewId, Persist, Write, scanVars
<1>2. \A q \in Run : q # r => file'[q] = file[q]
  BY <1>1 DEF SourceInv, TypeOK
<1>3. ~IsChild(r) /\ file'[r].parent = NoRun /\ file'[r].status = "created"
  BY <1>1 DEF SourceInv, SourcesKept, TypeOK, NewRecord
<1>4. \A q \in Run : (IsChild(q)' <=> IsChild(q)) /\ (IsChild(q) => file'[q] = file[q] /\ q # r)
  BY <1>2, <1>3 DEF IsChild
<1>5. \A q \in Run : IsChild(q) => file[q].parent \in Run
  BY DEF SourceInv, TypeOK, Record, IsChild
<1>6. ParentsOriginal'
  <2>1. \A q \in Run : Exists(q) => file'[q].status # "unwritten"
    BY <1>2, <1>3 DEF Exists
  <2>2. \A q \in Run : ~IsChild(q) => file'[q].parent = NoRun
    BY <1>4 DEF IsChild
  <2> QED BY <1>4, <1>5, <2>1, <2>2 DEF AttemptInv, ParentsOriginal, Exists, IsChild
<1>7. ASSUME OneScanner
      PROVE  Distinct' /\ SourcesFree'
  <2>1. Distinct'
    BY <1>4, <1>7 DEF AttemptInv, Distinct, SameSource
  <2>2. \A s \in Scan : \A k \in todo[s] : k.run \in Run
    BY DEF SourceInv, TypeOK, Candidate
  <2>3. \A s \in Scan : \A k \in todo'[s] :
          KnownSource(k.run, k.attempts + 1)' => KnownSource(k.run, k.attempts + 1)
    <3>1. ASSUME NEW s \in Scan, NEW k \in todo'[s],
                 NEW c \in Run, file'[c].status # "unwritten",
                 file'[c].parent = k.run, file'[c].attempt = k.attempts + 1
          PROVE  KnownSource(k.run, k.attempts + 1)
      <4>1. k.run # NoRun
        BY <1>1, <2>2, <3>1 DEF Run, NoRun
      <4>2. IsChild(c) /\ file'[c] = file[c]
        BY <1>4, <3>1, <4>1 DEF IsChild
      <4> QED BY <3>1, <4>2 DEF KnownSource, Children, Created, Exists
    <3> QED BY <3>1 DEF KnownSource, Children, Created, Exists
  <2>4. SourcesFree'
    BY <1>1, <1>7, <2>3 DEF AttemptInv, SourcesFree
  <2> QED BY <2>1, <2>4
<1> QED BY <1>6, <1>7 DEF AttemptInv, OneScanner

LEMMA StartChildAttempts ==
  ASSUME SourceInv, SourceInv', AttemptInv, NEW s \in Scan, NEW c \in Run, StartChild(s, c)
  PROVE  AttemptInv'
<1>1. PICK k \in todo[s], how \in {"project", "coordinator"} :
        /\ ~k.escalate
        /\ StartRun(c, how, k.run, k.attempts + 1)
        /\ todo' = [todo EXCEPT ![s] = @ \ {k}]
  BY DEF StartChild
<1>2. k.run \in Run /\ k.attempts \in Nat /\ Exists(k.run) /\ ~IsChild(k.run)
  BY DEF SourceInv, TypeOK, Candidate, CandidatesOriginal
<1>3. ~Exists(c) /\ file' = [file EXCEPT ![c] = NewRecord(k.run, k.attempts + 1)]
  BY <1>1 DEF StartRun, IsNewId, Persist, Write
<1>4. \A q \in Run : q # c => file'[q] = file[q]
  BY <1>3 DEF SourceInv, TypeOK
<1>5. /\ ~IsChild(c) /\ k.run # c
      /\ file'[c].parent = k.run /\ file'[c].attempt = k.attempts + 1
      /\ file'[c].status = "created"
  BY <1>2, <1>3 DEF SourceInv, SourcesKept, TypeOK, NewRecord
<1>6. \A q \in Run : IsChild(q) => file[q].parent \in Run /\ q # c
  BY <1>5 DEF SourceInv, TypeOK, Record, IsChild
<1>7. \A q \in Run : q # c => (IsChild(q)' <=> IsChild(q))
  BY <1>4 DEF IsChild
<1>8. \A q \in Run : Exists(q) => q # c /\ file'[q] = file[q]
  BY <1>3, <1>4
<1>9. ParentsOriginal'
  <2>1. \A q \in Run : Exists(q) /\ ~IsChild(q) =>
          file'[q].status # "unwritten" /\ file'[q].parent = NoRun
    BY <1>8 DEF Exists, IsChild
  <2>2. ASSUME NEW q \in Run, IsChild(q)'
        PROVE  file'[q].parent \in Run /\ Exists(file'[q].parent) /\ ~IsChild(file'[q].parent)
    <3>1. CASE q = c
      BY <1>2, <1>5, <3>1
    <3>2. CASE q # c
      BY <1>4, <1>6, <1>7, <2>2, <3>2 DEF AttemptInv, ParentsOriginal
    <3> QED BY <3>1, <3>2
  <2> QED BY <2>1, <2>2 DEF ParentsOriginal, Exists, IsChild
<1>10. ASSUME OneScanner
       PROVE  Distinct' /\ SourcesFree'
  <2>1. Distinct /\ SourcesFree /\ \A t \in Scan : t = s
    BY <1>10 DEF AttemptInv, OneScanner
  <2>2. \A d \in Run : Exists(d) => ~(file[d].parent = k.run /\ file[d].attempt = k.attempts + 1)
    BY <2>1 DEF SourcesFree, KnownSource, Children, Created
  <2>3. \A d \in Run : IsChild(d) => Exists(d)
    BY DEF SourceInv, SourcesKept
  <2>4. k.attempts + 1 <= MaxAttempts
    BY <1>1, <2>1 DEF SourcesFree
  <2>5. Distinct'
    <3>1. ASSUME NEW d \in Run, NEW e \in Run, IsChild(d)', IsChild(e)',
                 file'[d].parent = file'[e].parent, file'[d].attempt = file'[e].attempt
          PROVE  d = e
      <4>1. CASE d # c /\ e # c
        BY <1>4, <1>7, <2>1, <3>1, <4>1 DEF Distinct, SameSource
      <4>2. CASE d = c /\ e # c
        BY <1>4, <1>5, <1>7, <2>2, <2>3, <3>1, <4>2
      <4>3. CASE d # c /\ e = c
        BY <1>4, <1>5, <1>7, <2>2, <2>3, <3>1, <4>3
      <4> QED BY <4>1, <4>2, <4>3
    <3>2. \A d \in Run : IsChild(d)' => file'[d].attempt <= MaxAttempts
      BY <1>4, <1>5, <1>7, <2>1, <2>4 DEF Distinct
    <3> QED BY <3>1, <3>2 DEF Distinct, SameSource
  <2>6. todo'[s] = todo[s] \ {k}
    BY <1>1 DEF SourceInv, TypeOK
  <2>7. \A l \in todo'[s] : l.run # k.run /\ l \in todo[s]
    BY <2>1, <2>6 DEF SourcesFree
  <2>8. \A l \in todo'[s] :
          KnownSource(l.run, l.attempts + 1)' => KnownSource(l.run, l.attempts + 1)
    <3>1. ASSUME NEW l \in todo'[s], NEW d \in Run, file'[d].status # "unwritten",
                 file'[d].parent = l.run, file'[d].attempt = l.attempts + 1
          PROVE  KnownSource(l.run, l.attempts + 1)
      <4>1. d # c
        BY <1>5, <2>7, <3>1
      <4>2. file'[d] = file[d]
        BY <1>4, <4>1
      <4> QED BY <3>1, <4>2 DEF KnownSource, Children, Created, Exists
    <3> QED BY <3>1 DEF KnownSource, Children, Created, Exists
  <2>9. SourcesFree'
    BY <2>1, <2>7, <2>8 DEF SourcesFree
  <2> QED BY <2>5, <2>9
<1> QED BY <1>9, <1>10 DEF AttemptInv, OneScanner

-----------------------------------------------------------------------------
(* The theorems.                                                           *)

LEMMA StepSources ==
  ASSUME SourceInv, [Next]_vars
  PROVE  SourceInv'
<1>1. CASE Next
  <2>1. ASSUME NEW r \in Run, StartOriginal(r) PROVE SourceInv'
    BY <2>1, StartOriginalSources
  <2>2. ASSUME NEW r \in Run, RunStep(r) PROVE SourceInv'
    BY <2>2, RunStepSources
  <2>3. ASSUME NEW r \in Run, FailOriginal(r) PROVE SourceInv'
    BY <2>3, FailOriginalSources
  <2>4. ASSUME NEW s \in Scan, ScanStep(s) PROVE SourceInv'
    BY <2>4, BeginScanSources, ReconcileSources, ListCandidatesSources,
       RequestApprovalSources, PatchEscalatedSources, SkipCandidateSources,
       StartChildSources, PatchParentSources, EndScanSources
    DEF ScanStep
  <2>5. ASSUME NEW s \in Scan, ChildThrows(s) \/ ScanDies(s) PROVE SourceInv'
    BY <2>5, ChildThrowsSources, ScanDiesSources
  <2>6. CASE Tick /\ UNCHANGED <<scanVars, blockers, triage, faults, overtaken, erased>>
    BY <2>6, TickSources DEF otherVars
  <2> QED BY <1>1, <2>1, <2>2, <2>3, <2>4, <2>5, <2>6 DEF Next
<1>2. CASE UNCHANGED vars
  BY <1>2, UnchangedKeepsSources, QuietStep
  DEF vars, engineVars, scanVars, SourceInv, TypeOK
<1> QED BY <1>1, <1>2

LEMMA StepAttempts ==
  ASSUME SourceInv, SourceInv', AttemptInv, [Next]_vars
  PROVE  AttemptInv'
<1>1. ASSUME KeepsSources, UNCHANGED todo PROVE AttemptInv'
  BY <1>1, KeptAttempts
<1>2. ASSUME NEW r \in Run, StartOriginal(r) PROVE AttemptInv'
  BY <1>2, StartOriginalAttempts
<1>3. ASSUME NEW r \in Run, RunStep(r) \/ FailOriginal(r) PROVE AttemptInv'
  BY <1>1, <1>3, RunStepSources, FailOriginalSources DEF RunStep, FailOriginal, scanVars
<1>4. ASSUME NEW s \in Scan, ScanStep(s) PROVE AttemptInv'
  <2>1. CASE BeginScan(s) \/ Reconcile(s) \/ PatchEscalated(s) \/ PatchParent(s) \/ EndScan(s)
    BY <1>1, <2>1, BeginScanSources, ReconcileSources, PatchEscalatedSources,
       PatchParentSources, EndScanSources
    DEF BeginScan, Reconcile, PatchEscalated, PatchParent, EndScan
  <2>2. CASE ListCandidates(s)
    BY <2>2, ListCandidatesSources, ListedAttempts
  <2>3. CASE RequestApproval(s) \/ SkipCandidate(s)
    <3>1. \A t \in Scan : todo'[t] \subseteq todo[t]
      BY <2>3 DEF RequestApproval, SkipCandidate, SourceInv, TypeOK
    <3> QED BY <2>3, <3>1, RequestApprovalSources, SkipCandidateSources, KeptAttempts
  <2>4. ASSUME NEW c \in Run, StartChild(s, c) PROVE AttemptInv'
    BY <2>4, StartChildAttempts
  <2> QED BY <1>4, <2>1, <2>2, <2>3, <2>4 DEF ScanStep
<1>5. ASSUME NEW s \in Scan, ChildThrows(s) \/ ScanDies(s) PROVE AttemptInv'
  <2>1. \A t \in Scan : todo'[t] \subseteq todo[t]
    BY <1>5 DEF ChildThrows, ScanDies, Abandon, SourceInv, TypeOK
  <2> QED BY <1>5, <2>1, ChildThrowsSources, ScanDiesSources, KeptAttempts
<1>6. ASSUME Tick, UNCHANGED otherVars, UNCHANGED erased PROVE AttemptInv'
  BY <1>1, <1>6, TickSources DEF otherVars, scanVars
<1>7. CASE UNCHANGED vars
  BY <1>1, <1>7, UnchangedKeepsSources DEF vars, engineVars, scanVars
<1> QED BY <1>2, <1>3, <1>4, <1>5, <1>6, <1>7 DEF Next, otherVars

(* Every document, call and scan has the shape TypeOK gives it, however    *)
(* many runs, scans and faults there are.                                  *)
THEOREM RetryTypeCorrect == Spec => []TypeOK
<1>1. Init => SourceInv
  BY InitSourceInv
<1>2. SourceInv /\ [Next]_vars => SourceInv'
  BY StepSources
<1>3. SourceInv => TypeOK
  BY DEF SourceInv
<1> QED BY <1>1, <1>2, <1>3, PTL DEF Spec

(* "Retry runs are deduplicated by trigger source", within the limit and   *)
(* never for a retry: while one caller scans.                              *)
THEOREM RetriesDistinct == Spec => []AttemptsDistinct
<1>1. Init => SourceInv /\ AttemptInv
  BY InitSourceInv
<1>2. SourceInv /\ AttemptInv /\ [Next]_vars => (SourceInv /\ AttemptInv)'
  BY StepSources, StepAttempts
<1>3. SourceInv /\ AttemptInv => AttemptsDistinct
  BY DEF AttemptInv, ParentsOriginal, Distinct, SameSource, AttemptsDistinct, Created
<1> QED BY <1>1, <1>2, <1>3, PTL DEF Spec

-----------------------------------------------------------------------------
(***************************************************************************)
(* RetriedWhenOver: two pipelines never work on the same failure, however  *)
(* many callers scan, unless a run was given up for stale.                 *)
(*                                                                         *)
(* The argument: while its call is at work nobody writes `blocked` or      *)
(* `failed` on a run except the reconciler, whose snapshot is then of a    *)
(* run that was stale under its call; the link of a decision only repeats  *)
(* what the document said when the call was at work already.  So a         *)
(* candidate's call was done when it was listed, and a call that is done   *)
(* never goes back to work.                                                *)
(***************************************************************************)

(* The engine does not show a run as failed before it gives it up. *)
EngineOptimistic ==
  \A r \in Run : call[r] \in InEngine => mem[r].status \in NonTerminal

DispatcherCalls ==
  \A r \in Run : call[r] \in {"dispatch", "settle"} => mode[r] = "dispatcher"

FailedIsOver ==
  \A r \in Run : AtWork(r) /\ file[r].status \in {"blocked", "failed"} => r \in overtaken

CopyIsOver ==
  \A r \in Run :
    AtWork(r) /\ call[r] \in Linking /\ mem[r].status \in {"blocked", "failed"}
      => r \in overtaken

StaleIsOver ==
  \A s \in Scan : \A p \in stale[s] : Live(p[1]) => p[1] \in overtaken

CandidateIsOver ==
  \A s \in Scan : \A k \in todo[s] : AtWork(k.run) => k.run \in overtaken

OverInv ==
  /\ EngineOptimistic /\ DispatcherCalls
  /\ FailedIsOver /\ CopyIsOver /\ StaleIsOver /\ CandidateIsOver
  /\ RetriedWhenOver

(* AtWork, of where a call is and how its run is executed. *)
Working(label, how) ==
  label \notin Over \cup {"none"} /\ ~(how = "dispatcher" /\ label \in Recording)

LEMMA InitOver ==
  ASSUME Init
  PROVE  OverInv
<1>1. \A r \in Run : call[r] = "none"
  BY DEF Init, EngineInit
<1>2. \A r \in Run : /\ ~Live(r) /\ ~AtWork(r)
                     /\ call[r] \notin InEngine /\ call[r] \notin {"dispatch", "settle"}
  BY <1>1 DEF Live, AtWork, InEngine
<1>3. \A s \in Scan : stale[s] = {} /\ todo[s] = {}
  BY DEF Init
<1> QED BY <1>2, <1>3 DEF OverInv, EngineOptimistic, DispatcherCalls, FailedIsOver,
                         CopyIsOver, StaleIsOver, CandidateIsOver, RetriedWhenOver

(* A step that creates no document, revives no call and lists nothing. *)
LEMMA KeptOver ==
  ASSUME SourceInv, SourceInv', KeepsSources, OverInv, overtaken \subseteq overtaken',
         \A r \in Run : Live(r)' => Live(r),
         \A r \in Run : AtWork(r)' => AtWork(r),
         \A s \in Scan : \A p \in stale'[s] : Live(p[1]) => p[1] \in overtaken',
         \A s \in Scan : \A k \in todo'[s] : AtWork(k.run) => k.run \in overtaken',
         EngineOptimistic', DispatcherCalls', FailedIsOver', CopyIsOver'
  PROVE  OverInv'
<1>1. \A s \in Scan : \A p \in stale'[s] : p[1] \in Run
  BY DEF SourceInv, TypeOK
<1>2. \A s \in Scan : \A k \in todo'[s] : k.run \in Run
  BY DEF SourceInv, TypeOK, Candidate
<1>3. \A r \in Run : call'[r] \notin Over \cup {"none"} => Live(r)
  BY DEF Live
<1>4. StaleIsOver'
  BY <1>1, <1>3 DEF StaleIsOver, Live
<1>5. \A r \in Run : Working(call'[r], mode'[r]) => AtWork(r)
  BY DEF AtWork, Live, Working
<1>6. CandidateIsOver'
  BY <1>2, <1>5 DEF CandidateIsOver, AtWork, Live, Working
<1>7. \A r \in Run : Children(r)' # {} => Children(r) # {}
  <2>1. \A c \in Run : (Exists(c)' <=> Exists(c)) /\ file'[c].parent = file[c].parent
    BY DEF KeepsSources, SameSource
  <2> QED BY <2>1 DEF Children, Created
<1>8. RetriedWhenOver'
  BY <1>5, <1>7 DEF OverInv, RetriedWhenOver, AtWork, Live, Working
<1> QED BY <1>4, <1>6, <1>8 DEF OverInv

(* What the engine's step of one run writes, where it leaves its call and  *)
(* what that holds.                                                        *)
EngineShape(r, rec, label, held) ==
  /\ file' = [file EXCEPT ![r] = rec]
  /\ call' = [call EXCEPT ![r] = label]
  /\ mem' = [mem EXCEPT ![r] = held]
  /\ mode' = mode
  /\ Working(label, mode[r]) /\ rec.status \in {"blocked", "failed"} => r \in overtaken
  /\ label \in {"dispatch", "settle"} => mode[r] = "dispatcher"
  /\ label \in InEngine => held.status \in NonTerminal
  /\ label \in Linking => held = rec

(* The end of a run: no call holds what it held, and what a dispatcher     *)
(* gave up is not at work.                                                 *)
LEMMA EndShape ==
  ASSUME TypeOK, NEW r \in Run, NEW rec \in Record, NEW verdict \in {"good", "bad"},
         PersistLast(r, rec), End(r, verdict), mode' = mode,
         mode[r] = "dispatcher" \/ rec.status \notin {"blocked", "failed"}
  PROVE  \E label \in Call, held \in Record : EngineShape(r, rec, label, held)
<1>1. PICK label \in {AfterStart(r, verdict), RecordAt(verdict)} : Goto(r, label)
  BY DEF End
<1>2. label \in Call \ Holding
  BY <1>1, EndLabel
<1>3. label \notin InEngine /\ label \notin Linking /\ label \notin {"dispatch", "settle"}
  BY <1>2 DEF InEngine, Holding, Linking
<1>4. mode[r] = "dispatcher" => ~Working(label, mode[r])
  BY <1>1 DEF AfterStart, RecordAt, Working, Over, Recording
<1>5. EngineShape(r, rec, label, Unwritten)
  BY <1>1, <1>3, <1>4 DEF EngineShape, PersistLast, Write, Goto
<1> QED BY <1>2, <1>5, UnwrittenTyped

LEMMA RunStepShape ==
  ASSUME SourceInv, OverInv, NEW r \in Run, RunStep(r)
  PROVE  \E rec \in Record, label \in Call, held \in Record :
           EngineShape(r, rec, label, held)
<1> DEFINE Shape(rec, label, held) == EngineShape(r, rec, label, held)
<1>0. TypeOK
  BY DEF SourceInv
<1>1. /\ mem[r] \in Record /\ file[r] \in Record
      /\ call[r] \in InEngine => mem[r].status \in NonTerminal
      /\ file = [file EXCEPT ![r] = file[r]] /\ mem = [mem EXCEPT ![r] = mem[r]]
  BY DEF SourceInv, TypeOK, OverInv, EngineOptimistic
<1>2. \A p \in Record, status \in Status, b \in BOOLEAN :
        /\ [p EXCEPT !.status = status] \in Record
        /\ [p EXCEPT !.status = status].status = status
        /\ [p EXCEPT !.retryable = b] \in Record
        /\ [p EXCEPT !.retryable = b].status = p.status
  <2> SUFFICES ASSUME NEW p \in Record, NEW status \in Status, NEW b \in BOOLEAN
               PROVE  /\ [p EXCEPT !.status = status] \in Record
                      /\ [p EXCEPT !.status = status].status = status
                      /\ [p EXCEPT !.retryable = b] \in Record
                      /\ [p EXCEPT !.retryable = b].status = p.status
    OBVIOUS
  <2>1. [p EXCEPT !.status = status] \in Record
    BY DEF Record
  <2>2. [p EXCEPT !.retryable = b] \in Record
    BY DEF Record
  <2> QED BY <2>1, <2>2 DEF Record
<1>3. {"needs_human", "in_progress", "blocked", "failed", "completed"} \subseteq Status
  BY DEF Status, NonTerminal
<1>5. "in_progress" \in NonTerminal /\ NonTerminal \cap {"blocked", "failed"} = {}
  BY DEF NonTerminal
<1> DEFINE changed(status) == [mem[r] EXCEPT !.status = status]
           patched(status) == [file[r] EXCEPT !.status = status]
<1>6. \A status \in Status :
        /\ changed(status) \in Record /\ changed(status).status = status
        /\ patched(status) \in Record /\ patched(status).status = status
  BY <1>1, <1>2
<1>7. CASE Park(r)
  <2>1. changed("needs_human") \in Record /\ changed("needs_human").status = "needs_human"
    BY <1>3, <1>6
  <2> HIDE DEF changed
  <2>2. /\ PersistLast(r, changed("needs_human")) /\ End(r, "bad") /\ mode' = mode
    BY <1>7 DEF Park, changed
  <2> QED BY <1>0, <2>1, <2>2, EndShape
<1>8. CASE Advance(r)
  <2> DEFINE label == IF mode[r] = "dispatcher" THEN "dispatch" ELSE "complete"
  <2>1. label \in Call /\ label \notin Linking
        /\ (label \in {"dispatch", "settle"} => mode[r] = "dispatcher")
    BY DEF Call, Linking
  <2>2. Shape(changed("in_progress"), label, changed("in_progress"))
    BY <1>3, <1>5, <1>6, <1>8, <2>1 DEF Advance, Persist, Write, Goto, EngineShape
  <2> QED BY <1>3, <1>6, <2>1, <2>2
<1>9. CASE Dispatch(r)
  <2>1. /\ mem[r].status \in NonTerminal /\ {"complete", "settle"} \subseteq Call \ Linking
        /\ mode[r] = "dispatcher"
    BY <1>1, <1>9 DEF Dispatch, InEngine, Call, Linking, OverInv, DispatcherCalls
  <2>2. CASE Persist(r, mem[r]) /\ Goto(r, "complete")
    <3>1. Shape(mem[r], "complete", mem[r])
      BY <1>5, <1>9, <2>1, <2>2 DEF Dispatch, Persist, Write, Goto, EngineShape
    <3> QED BY <1>1, <2>1, <3>1
  <2>3. ASSUME NEW b \in BOOLEAN,
               Persist(r, [mem[r] EXCEPT !.retryable = b]), Goto(r, "settle")
        PROVE  \E rec \in Record, label \in Call, held \in Record : Shape(rec, label, held)
    <3> DEFINE rec == [mem[r] EXCEPT !.retryable = b]
    <3>1. rec \in Record /\ rec.status = mem[r].status
      BY <1>1, <2>3 DEF Record
    <3>2. Shape(rec, "settle", rec)
      <4> HIDE DEF rec
      <4>1. file' = [file EXCEPT ![r] = rec] /\ mem' = [mem EXCEPT ![r] = rec]
            /\ call' = [call EXCEPT ![r] = "settle"] /\ mode' = mode
        BY <1>9, <2>3 DEF Dispatch, Persist, Write, Goto, rec
      <4> QED BY <1>5, <2>1, <3>1, <4>1 DEF EngineShape
    <3> QED BY <2>1, <3>1, <3>2
  <2> QED BY <1>9, <2>2, <2>3 DEF Dispatch
<1>10. CASE Settle(r)
  <2>1. PICK status \in {"blocked", "failed"} : PersistLast(r, changed(status))
    BY <1>10 DEF Settle
  <2>2. changed(status) \in Record
    BY <1>3, <1>6
  <2>3. mode[r] = "dispatcher" /\ End(r, "bad") /\ mode' = mode
    BY <1>10 DEF Settle, OverInv, DispatcherCalls
  <2> HIDE DEF changed
  <2> QED BY <1>0, <2>1, <2>2, <2>3, EndShape
<1>11. CASE Complete(r)
  <2>1. changed("completed") \in Record /\ changed("completed").status = "completed"
    BY <1>3, <1>6
  <2> HIDE DEF changed
  <2>2. /\ PersistLast(r, changed("completed")) /\ End(r, "good") /\ mode' = mode
    BY <1>11 DEF Complete, changed
  <2> QED BY <1>0, <2>1, <2>2, EndShape
<1>12. CASE MarkRunning(r)
  <2>1. "pipeline" \in (Call \ InEngine) \ Linking
    BY DEF Call, InEngine, Linking
  <2>2. Shape(patched("in_progress"), "pipeline", mem[r])
    BY <1>1, <1>3, <1>6, <1>12, <2>1 DEF MarkRunning, PatchedStatus, Write, Goto, EngineShape
  <2> QED BY <1>1, <1>3, <1>6, <2>1, <2>2
<1>13. CASE FinishPipeline(r)
  <2>1. /\ {"good", "bad"} \subseteq ((Call \cap Over) \ InEngine) \ Linking
        /\ mem' = mem /\ mode' = mode
    BY <1>13 DEF FinishPipeline, Call, Over, InEngine, Linking
  <2>2. PICK rec \in Record, label \in {"good", "bad"} : Write(r, rec) /\ Goto(r, label)
    <3>1. PatchedStatus(r, "completed") \in Record /\ file[r] \in Record
      BY <1>1, <1>3, <1>6 DEF PatchedStatus
    <3>2. \A b \in BOOLEAN : [PatchedStatus(r, "blocked") EXCEPT !.retryable = b] \in Record
      BY <1>2, <1>3, <1>6 DEF PatchedStatus
    <3> QED BY <1>13, <3>1, <3>2 DEF FinishPipeline
  <2>3. Shape(rec, label, mem[r])
    BY <1>1, <2>1, <2>2 DEF Write, Goto, EngineShape, Working
  <2> QED BY <1>1, <2>1, <2>2, <2>3
<1>14. CASE ReadDecided(r)
  <2>1. PICK verdict \in {"good", "bad"} :
          call[r] = RecordAt(verdict) /\ Goto(r, LinkAt(verdict))
    BY <1>14 DEF ReadDecided
  <2>2. /\ LinkAt(verdict) \in Call \ InEngine
        /\ LinkAt(verdict) \notin {"dispatch", "settle"}
        /\ Working(LinkAt(verdict), mode[r]) => AtWork(r)
    BY <2>1 DEF LinkAt, RecordAt, Linking, Recording, Call, InEngine, Working, AtWork, Live, Over
  <2>3. AtWork(r) /\ file[r].status \in {"blocked", "failed"} => r \in overtaken
    BY DEF OverInv, FailedIsOver
  <2>4. Shape(file[r], LinkAt(verdict), file[r])
    BY <1>1, <1>14, <2>1, <2>2, <2>3 DEF ReadDecided, Goto, EngineShape
  <2> QED BY <1>1, <2>2, <2>4
<1>15. CASE LinkDecision(r)
  <2>1. PICK verdict \in {"good", "bad"} :
          call[r] = LinkAt(verdict) /\ Goto(r, AfterStart(r, verdict))
    BY <1>15 DEF LinkDecision
  <2> DEFINE label == AfterStart(r, verdict)
  <2>2. label \in Call \ Holding /\ call[r] \in Linking
    BY <1>0, <2>1, EndLabel DEF LinkAt, Linking
  <2>3. label \notin InEngine /\ label \notin Linking /\ label \notin {"dispatch", "settle"}
    BY <2>2 DEF InEngine, Holding, Linking
  <2>4. Working(label, mode[r]) => AtWork(r)
    <3>1. mode[r] = "dispatcher" => ~Working(label, mode[r])
      BY DEF AfterStart, Working, Over
    <3>2. Live(r)
      BY <2>2 DEF Live, Linking, Over
    <3> QED BY <3>1, <3>2 DEF AtWork
  <2>5. /\ AtWork(r) /\ mem[r].status \in {"blocked", "failed"} => r \in overtaken
        /\ AtWork(r) /\ file[r].status \in {"blocked", "failed"} => r \in overtaken
    BY <2>2 DEF OverInv, FailedIsOver, CopyIsOver
  <2> HIDE DEF label
  <2>6. call' = [call EXCEPT ![r] = label] /\ mode' = mode
    BY <1>15, <2>1 DEF LinkDecision, Goto, label
  <2>7. CASE PersistLast(r, mem[r])
    <3>1. Shape(mem[r], label, Unwritten)
      BY <2>3, <2>4, <2>5, <2>6, <2>7 DEF PersistLast, Write, EngineShape
    <3> QED BY <1>1, <2>2, <3>1, UnwrittenTyped
  <2>8. CASE mem' = [mem EXCEPT ![r] = Unwritten] /\ UNCHANGED <<file, age>>
    <3>1. Shape(file[r], label, Unwritten)
      BY <1>1, <2>3, <2>4, <2>5, <2>6, <2>8 DEF EngineShape
    <3> QED BY <1>1, <2>2, <3>1, UnwrittenTyped
  <2> QED BY <1>15, <2>7, <2>8 DEF LinkDecision
<1> QED
  BY <1>7, <1>8, <1>9, <1>10, <1>11, <1>12, <1>13, <1>14, <1>15 DEF RunStep, EngineStep

(* Only a live call takes a step, and one whose work is done stays so. *)
LEMMA RunStepLive ==
  ASSUME TypeOK, NEW r \in Run, EngineStep(r)
  PROVE  /\ Live(r)
         /\ AtWork(r)' => AtWork(r)
<1>1. Live(r)
  BY DEF EngineStep, Park, Advance, Dispatch, Settle, Complete, ReadDecided, LinkDecision,
         MarkRunning, FinishPipeline, RecordAt, LinkAt, Live, Over
<1>2. ASSUME ~AtWork(r)
      PROVE  ~AtWork(r)'
  <2>1. mode[r] = "dispatcher" /\ call[r] \in Recording
    BY <1>1, <1>2 DEF AtWork
  <2>2. CASE ReadDecided(r)
    <3>1. call'[r] \in Recording /\ mode'[r] = "dispatcher"
      BY <2>1, <2>2 DEF ReadDecided, Goto, LinkAt, Recording, Linking, TypeOK
    <3> QED BY <3>1 DEF AtWork
  <2>3. CASE LinkDecision(r)
    <3>1. call'[r] \in Over
      BY <2>1, <2>3 DEF LinkDecision, Goto, AfterStart, Over, TypeOK
    <3> QED BY <3>1 DEF AtWork, Live
  <2> QED BY <2>1, <2>2, <2>3
      DEF EngineStep, Park, Advance, Dispatch, Settle, Complete, MarkRunning,
          FinishPipeline, Recording, Linking
<1> QED BY <1>1, <1>2

LEMMA RunStepOver ==
  ASSUME SourceInv, OverInv, NEW r \in Run, RunStep(r)
  PROVE  OverInv'
<1>1. PICK rec \in Record, label \in Call, held \in Record : EngineShape(r, rec, label, held)
  BY RunStepShape
<1>2. UNCHANGED <<scanVars, overtaken>>
  BY DEF RunStep
<1>3. SourceInv' /\ KeepsSources
  BY RunStepSources
<1>4. Live(r) /\ (AtWork(r)' => AtWork(r))
  BY RunStepLive DEF RunStep, SourceInv
<1>5. /\ \A q \in Run : q # r => call'[q] = call[q] /\ file'[q] = file[q] /\ mem'[q] = mem[q]
      /\ call'[r] = label /\ file'[r] = rec /\ mem'[r] = held /\ mode' = mode
  BY <1>1 DEF EngineShape, SourceInv, TypeOK
<1>6. \A q \in Run : (Live(q)' => Live(q)) /\ (AtWork(q)' => AtWork(q))
  BY <1>4, <1>5 DEF Live, AtWork
<1>7. EngineOptimistic' /\ DispatcherCalls'
  BY <1>1, <1>5 DEF OverInv, EngineOptimistic, DispatcherCalls, EngineShape
<1>8. AtWork(r)' => Working(label, mode[r])
  BY <1>5 DEF AtWork, Live, Working
<1>9. FailedIsOver'
  BY <1>1, <1>2, <1>5, <1>8 DEF OverInv, FailedIsOver, EngineShape, Live, AtWork
<1>10. CopyIsOver'
  BY <1>1, <1>2, <1>5, <1>8 DEF OverInv, CopyIsOver, EngineShape, Live, AtWork
<1> QED
  BY <1>2, <1>3, <1>6, <1>7, <1>9, <1>10, KeptOver
  DEF OverInv, StaleIsOver, CandidateIsOver, scanVars

(* A step of a scan that creates nothing, lists nothing and writes no status. *)
LEMMA QuietOver ==
  ASSUME SourceInv, SourceInv', KeepsSources, OverInv, UNCHANGED <<mem, mode, overtaken>>,
         \A r \in Run : file'[r].status = file[r].status,
         \A r \in Run : call'[r] = call[r] \/ call'[r] \in Over,
         \A s \in Scan : stale'[s] \subseteq stale[s],
         \A s \in Scan : todo'[s] \subseteq todo[s]
  PROVE  OverInv'
<1>1. \A r \in Run : (Live(r)' => Live(r)) /\ (AtWork(r)' => AtWork(r) /\ call'[r] = call[r])
  BY DEF Live, AtWork
<1>2. Over \cap InEngine = {} /\ Over \cap {"dispatch", "settle"} = {}
  BY DEF Over, InEngine
<1>3. EngineOptimistic' /\ DispatcherCalls'
  BY <1>2 DEF OverInv, EngineOptimistic, DispatcherCalls, InEngine, NonTerminal
<1>4. FailedIsOver' /\ CopyIsOver'
  BY <1>1 DEF OverInv, FailedIsOver, CopyIsOver
<1> QED BY <1>1, <1>3, <1>4, KeptOver DEF OverInv, StaleIsOver, CandidateIsOver

LEMMA BeginScanOver ==
  ASSUME SourceInv, OverInv, NEW s \in Scan, BeginScan(s)
  PROVE  OverInv'
<1>1. SourceInv' /\ KeepsSources
  BY BeginScanSources
<1>2. /\ UNCHANGED <<file, mem, call, mode, todo>>
      /\ overtaken' = overtaken \cup {r \in Run : IsStale(r) /\ Live(r)}
      /\ stale' = [stale EXCEPT ![s] = {<<r, file[r]>> : r \in {q \in Run : IsStale(q)}}]
  BY DEF BeginScan, engineVars
<1>3. \A t \in Scan : \A p \in stale'[t] : Live(p[1]) => p[1] \in overtaken'
  <2>1. \A p \in stale'[s] : p[1] \in Run /\ IsStale(p[1])
    BY <1>2 DEF SourceInv, TypeOK
  <2>2. \A t \in Scan : t # s => stale'[t] = stale[t]
    BY <1>2 DEF SourceInv, TypeOK
  <2> QED BY <1>2, <2>1, <2>2 DEF OverInv, StaleIsOver
<1>4. \A t \in Scan : \A k \in todo'[t] : AtWork(k.run) => k.run \in overtaken'
  BY <1>2 DEF OverInv, CandidateIsOver
<1>5. EngineOptimistic' /\ DispatcherCalls' /\ FailedIsOver' /\ CopyIsOver'
  BY <1>2 DEF OverInv, EngineOptimistic, DispatcherCalls, FailedIsOver, CopyIsOver, AtWork, Live
<1>6. \A r \in Run : (Live(r)' => Live(r)) /\ (AtWork(r)' => AtWork(r))
  BY <1>2 DEF AtWork, Live
<1> QED BY <1>1, <1>2, <1>3, <1>4, <1>5, <1>6, KeptOver

LEMMA ReconcileOver ==
  ASSUME SourceInv, OverInv, NEW s \in Scan, Reconcile(s)
  PROVE  OverInv'
<1>1. SourceInv' /\ KeepsSources
  BY ReconcileSources
<1>2. PICK p \in stale[s] :
        \E retryable \in BOOLEAN :
          /\ Write(p[1], Reconciled(p[2], retryable))
          /\ stale' = [stale EXCEPT ![s] = @ \ {p}]
  BY DEF Reconcile
<1>3. UNCHANGED <<mem, call, mode, todo, overtaken>>
  BY DEF Reconcile
<1>4. p[1] \in Run /\ (Live(p[1]) => p[1] \in overtaken)
  BY DEF SourceInv, TypeOK, OverInv, StaleIsOver
<1>5. FailedIsOver'
  <2>1. \A q \in Run : q # p[1] => file'[q] = file[q]
    BY <1>2 DEF Write, SourceInv, TypeOK
  <2> QED BY <1>3, <1>4, <2>1 DEF OverInv, FailedIsOver, AtWork, Live
<1>6. EngineOptimistic' /\ DispatcherCalls' /\ CopyIsOver'
  BY <1>3 DEF OverInv, EngineOptimistic, DispatcherCalls, CopyIsOver, AtWork, Live
<1>8. \A r \in Run : (Live(r)' => Live(r)) /\ (AtWork(r)' => AtWork(r))
  BY <1>3 DEF AtWork, Live
<1>7. \A t \in Scan : stale'[t] \subseteq stale[t]
  BY <1>2 DEF SourceInv, TypeOK
<1> QED
  BY <1>1, <1>3, <1>5, <1>6, <1>7, <1>8, KeptOver DEF OverInv, StaleIsOver, CandidateIsOver

LEMMA ListCandidatesOver ==
  ASSUME SourceInv, OverInv, NEW s \in Scan, ListCandidates(s)
  PROVE  OverInv'
<1>1. SourceInv' /\ KeepsSources
  BY ListCandidatesSources
<1>2. /\ UNCHANGED <<file, mem, call, mode, stale, overtaken>>
      /\ todo' = [todo EXCEPT ![s] = {CandidateOf(r) : r \in {q \in Run : Eligible(q)}}]
  BY DEF ListCandidates, engineVars
<1>3. \A t \in Scan : \A k \in todo'[t] : AtWork(k.run) => k.run \in overtaken'
  <2>1. \A k \in todo'[s] : k.run \in Run /\ Eligible(k.run)
    BY <1>2 DEF SourceInv, TypeOK, CandidateOf
  <2>2. \A t \in Scan : t # s => todo'[t] = todo[t]
    BY <1>2 DEF SourceInv, TypeOK
  <2> QED BY <1>2, <2>1, <2>2 DEF OverInv, CandidateIsOver, FailedIsOver, Eligible
<1>4. EngineOptimistic' /\ DispatcherCalls' /\ FailedIsOver' /\ CopyIsOver'
  BY <1>2 DEF OverInv, EngineOptimistic, DispatcherCalls, FailedIsOver, CopyIsOver, AtWork, Live
<1>5. \A r \in Run : (Live(r)' => Live(r)) /\ (AtWork(r)' => AtWork(r))
  BY <1>2 DEF AtWork, Live
<1> QED BY <1>1, <1>2, <1>3, <1>4, <1>5, KeptOver DEF OverInv, StaleIsOver

LEMMA PatchOver ==
  ASSUME SourceInv, OverInv, NEW s \in Scan, PatchEscalated(s) \/ PatchParent(s)
  PROVE  OverInv'
<1>1. SourceInv' /\ KeepsSources
  BY PatchEscalatedSources, PatchParentSources
<1>2. UNCHANGED <<mem, call, mode, stale, todo, overtaken>>
  BY DEF PatchEscalated, PatchParent
<1>3. \A r \in Run : file'[r].status = file[r].status
  <2>1. \A r \in Run, n \in Nat, b \in BOOLEAN :
          /\ [file[r] EXCEPT !.attempts = n, !.escalated = TRUE].status = file[r].status
          /\ [file[r] EXCEPT !.attempts = n, !.recovered = b].status = file[r].status
    BY PatchTyped DEF SourceInv, TypeOK
  <2> DEFINE k == doing[s]
  <2>2. at[s] \in {"request", "await"}
    BY DEF PatchEscalated, PatchParent
  <2>3. k.run \in Run /\ k.attempts \in Nat /\ k.attempts + 1 \in Nat
    BY <2>2 DEF SourceInv, CandidatesOriginal, Candidate
  <2>5. PICK rec : file' = [file EXCEPT ![k.run] = rec] /\ rec.status = file[k.run].status
    <3>1. CASE PatchEscalated(s)
      BY <2>1, <2>3, <3>1 DEF PatchEscalated, Write
    <3>2. CASE PatchParent(s)
      <4> DEFINE b == file[k.run].recovered \/ call[child[s]] = "good"
                 rec == [file[k.run] EXCEPT !.attempts = k.attempts + 1, !.recovered = b]
      <4>1. rec.status = file[k.run].status
        <5>1. b \in BOOLEAN
          OBVIOUS
        <5> HIDE DEF b
        <5> QED BY <2>1, <2>3, <5>1
      <4>2. file' = [file EXCEPT ![k.run] = rec]
        <5>1. file[k.run] \in Record
          BY <2>3 DEF SourceInv, TypeOK
        <5> QED BY <3>2, <5>1 DEF PatchParent, Write, Record
      <4> QED BY <4>1, <4>2
    <3> QED BY <3>1, <3>2
  <2> QED BY <2>5 DEF SourceInv, TypeOK
<1> QED BY <1>1, <1>2, <1>3, QuietOver

LEMMA StartOver ==
  ASSUME SourceInv, SourceInv', AttemptInv, OverInv, NEW r \in Run,
         NEW how \in {"dispatcher", "project", "coordinator"},
         NEW parent \in Run \cup {NoRun}, NEW attempt \in Nat,
         StartRun(r, how, parent, attempt),
         parent # NoRun /\ AtWork(parent) => parent \in overtaken,
         parent # NoRun => Exists(parent),
         UNCHANGED <<stale, overtaken>>,
         \A s \in Scan : todo'[s] \subseteq todo[s]
  PROVE  OverInv'
<1> DEFINE rec == NewRecord(parent, attempt)
<1>1. /\ ~Exists(r)
      /\ file' = [file EXCEPT ![r] = rec] /\ mem' = [mem EXCEPT ![r] = rec]
  BY DEF StartRun, IsNewId, Persist, Write
<1>2. PICK label \in {"advance", "park"} : call' = [call EXCEPT ![r] = label]
  BY DEF StartRun, Goto
<1>3. rec.status = "created" /\ rec.parent = parent
  BY DEF NewRecord
<1>4. \A q \in Run : q # r =>
        /\ file'[q] = file[q] /\ mem'[q] = mem[q]
        /\ call'[q] = call[q] /\ mode'[q] = mode[q]
  BY <1>1, <1>2 DEF SourceInv, TypeOK, StartRun
<1>11. call'[r] = label
  BY <1>2 DEF SourceInv, TypeOK
<1>5. file'[r] = rec /\ mem'[r] = rec
  BY <1>1 DEF SourceInv, TypeOK
<1> HIDE DEF rec
<1>6. EngineOptimistic' /\ DispatcherCalls'
  BY <1>3, <1>4, <1>5, <1>11 DEF OverInv, EngineOptimistic, DispatcherCalls, NonTerminal, InEngine
<1>7. FailedIsOver' /\ CopyIsOver'
  BY <1>3, <1>4, <1>5 DEF OverInv, FailedIsOver, CopyIsOver, AtWork, Live
<1>8. StaleIsOver'
  <2>1. \A s \in Scan : \A p \in stale'[s] : p[1] \in Run /\ p[1] # r
    BY <1>1 DEF SourceInv, SourcesKept, TypeOK
  <2> QED BY <1>4, <2>1 DEF OverInv, StaleIsOver, Live
<1>9. CandidateIsOver'
  <2>1. \A s \in Scan : \A k \in todo'[s] : k.run \in Run /\ k.run # r /\ k \in todo[s]
    BY <1>1 DEF SourceInv, CandidatesOriginal, TypeOK, Candidate
  <2> QED BY <1>4, <2>1 DEF OverInv, CandidateIsOver, AtWork, Live
<1>10. RetriedWhenOver'
  <2> SUFFICES ASSUME NEW q \in Run, AtWork(q)', NEW c \in Run,
                      file'[c].status # "unwritten", file'[c].parent = q
               PROVE  q \in overtaken
    BY DEF RetriedWhenOver, Children, Created, Exists
  <2>1. CASE c = r
    <3>1. q = parent /\ q # r /\ parent # NoRun
      BY <1>1, <1>3, <1>5, <2>1 DEF Run, NoRun
    <3> QED BY <1>4, <3>1 DEF AtWork, Live
  <2>2. CASE c # r
    <3>1. Exists(c) /\ file[c].parent = q /\ IsChild(c)
      BY <1>4, <2>2 DEF Exists, IsChild, Run, NoRun
    <3>2. q # r
      BY <1>1, <3>1 DEF AttemptInv, ParentsOriginal
    <3>3. AtWork(q) /\ c \in Children(q)
      BY <1>4, <3>1, <3>2 DEF AtWork, Live, Children, Created
    <3> QED BY <3>3 DEF OverInv, RetriedWhenOver
  <2> QED BY <2>1, <2>2
<1> QED BY <1>6, <1>7, <1>8, <1>9, <1>10 DEF OverInv

-----------------------------------------------------------------------------
LEMMA ScanStepOver ==
  ASSUME SourceInv, SourceInv', AttemptInv, OverInv, NEW s \in Scan, ScanStep(s)
  PROVE  OverInv'
<1>1. ASSUME NEW c \in Run, StartChild(s, c) PROVE OverInv'
  <2>1. PICK k \in todo[s], how \in {"project", "coordinator"} :
          /\ StartRun(c, how, k.run, k.attempts + 1)
          /\ todo' = [todo EXCEPT ![s] = @ \ {k}]
    BY <1>1 DEF StartChild
  <2>2. k.run \in Run \cup {NoRun} /\ k.attempts + 1 \in Nat /\ Exists(k.run)
        /\ (AtWork(k.run) => k.run \in overtaken)
    BY DEF SourceInv, TypeOK, Candidate, CandidatesOriginal, OverInv, CandidateIsOver
  <2>3. UNCHANGED <<stale, overtaken>> /\ \A t \in Scan : todo'[t] \subseteq todo[t]
    BY <1>1, <2>1 DEF StartChild, SourceInv, TypeOK
  <2> QED BY <2>1, <2>2, <2>3, StartOver
<1>2. CASE RequestApproval(s) \/ SkipCandidate(s) \/ EndScan(s)
  <2>1. SourceInv' /\ KeepsSources
    BY <1>2, RequestApprovalSources, SkipCandidateSources, EndScanSources
  <2>2. UNCHANGED <<file, mem, call, mode, stale, overtaken>>
        /\ \A t \in Scan : todo'[t] \subseteq todo[t]
    BY <1>2 DEF RequestApproval, SkipCandidate, EndScan, engineVars, SourceInv, TypeOK
  <2> QED BY <2>1, <2>2, QuietOver
<1> QED
  BY <1>1, <1>2, BeginScanOver, ReconcileOver, ListCandidatesOver, PatchOver DEF ScanStep

LEMMA StepOver ==
  ASSUME SourceInv, SourceInv', AttemptInv, OverInv, [Next]_vars
  PROVE  OverInv'
<1>1. ASSUME NEW r \in Run, StartOriginal(r) PROVE OverInv'
  <2>1. PICK how \in {"dispatcher", "project"} : StartRun(r, how, NoRun, 0)
    BY <1>1 DEF StartOriginal
  <2>2. UNCHANGED <<stale, todo, overtaken>>
    BY <1>1 DEF StartOriginal, scanVars
  <2> QED BY <2>1, <2>2, StartOver
<1>2. ASSUME NEW r \in Run, RunStep(r) PROVE OverInv'
  BY <1>2, RunStepOver
<1>3. ASSUME NEW r \in Run, FailOriginal(r) PROVE OverInv'
  <2>1. \A q \in Run : call'[q] = call[q] \/ call'[q] \in Over
    BY <1>3 DEF FailOriginal, Goto, SourceInv, TypeOK, Over
  <2> QED BY <1>3, <2>1, FailOriginalSources, QuietOver DEF FailOriginal, scanVars
<1>4. ASSUME NEW s \in Scan, ScanStep(s) PROVE OverInv'
  BY <1>4, ScanStepOver
<1>5. ASSUME NEW s \in Scan, ChildThrows(s) \/ ScanDies(s) PROVE OverInv'
  <2>1. \A q \in Run : call'[q] = call[q] \/ call'[q] \in Over
    BY <1>5 DEF ChildThrows, ScanDies, Throw, Goto, SourceInv, TypeOK, Over
  <2>2. UNCHANGED <<file, mem, mode, overtaken>>
        /\ \A t \in Scan : stale'[t] \subseteq stale[t] /\ todo'[t] \subseteq todo[t]
    BY <1>5 DEF ChildThrows, ScanDies, Throw, Abandon, SourceInv, TypeOK
  <2> QED BY <1>5, <2>1, <2>2, ChildThrowsSources, ScanDiesSources, QuietOver
<1>6. ASSUME Tick, UNCHANGED otherVars, UNCHANGED erased PROVE OverInv'
  BY <1>6, TickSources, QuietOver DEF Tick, otherVars, scanVars
<1>7. CASE UNCHANGED vars
  BY <1>7, UnchangedKeepsSources, QuietOver DEF vars, engineVars, scanVars
<1> QED BY <1>1, <1>2, <1>3, <1>4, <1>5, <1>6, <1>7 DEF Next, otherVars

(* A run is retried only when its own call is over, or has only a decision *)
(* to record, except after it was given up for stale: for any number of    *)
(* runs, scans and faults.                                                 *)
THEOREM RetriesWhenOver == Spec => []RetriedWhenOver
<1> DEFINE IInv == SourceInv /\ AttemptInv /\ OverInv
<1>1. Init => IInv
  BY InitSourceInv, InitOver
<1>2. IInv /\ [Next]_vars => IInv'
  BY StepSources, StepAttempts, StepOver
<1>3. IInv => RetriedWhenOver
  BY DEF OverInv
<1> QED BY <1>1, <1>2, <1>3, PTL DEF Spec

-----------------------------------------------------------------------------
(***************************************************************************)
(* SettledForAReason.                                                      *)
(*                                                                         *)
(* The argument: a record says `recovered` or `escalated` only because a   *)
(* patch said so - the engine's own record never does - and such a patch   *)
(* has its reason; the reconciler's snapshot can bring an old settlement   *)
(* back, but its reason does not go away: documents, good verdicts and     *)
(* requested approvals stay.  The owner is asked again only for a run that *)
(* is not settled, and a request that settles nothing costs a crash -      *)
(* unless a call that was given up for stale, or another scan, overwrites  *)
(* the settlement.  The link of a run's own decision may take a settlement *)
(* back, too, but it is the last thing its call does: that happens once.   *)
(***************************************************************************)

(* The record an engine call persists settles nothing. *)
EngineUnsettled ==
  \A r \in Run :
    /\ call[r] \in InEngine => ~mem[r].recovered /\ ~mem[r].escalated
    /\ ~Exists(r) => ~Settled(r)

Succeeded(r) == \E c \in Children(r) : call[c] = "good"

HasReason(r, rec) ==
  /\ rec.recovered => Succeeded(r)
  /\ rec.escalated => blockers[r] > 0

AwaitsItsChild ==
  \A s \in Scan : at[s] = "await" =>
    child[s] \in Run /\ Exists(child[s]) /\ file[child[s]].parent = doing[s].run

Reasons ==
  /\ \A r \in Run : HasReason(r, file[r])
  /\ \A r \in Run : call[r] \in Linking => HasReason(r, mem[r])
  /\ \A s \in Scan : \A p \in stale[s] : HasReason(p[1], p[2])
  /\ \A s \in Scan : at[s] = "request" => blockers[doing[s].run] > 0
  /\ AwaitsItsChild

(* Between the request for an approval and the patch that says so. *)
Asking(r) == \E s \in Scan : at[s] = "request" /\ doing[s].run = r

(* What is linked says no more than the document, and is linked once.      *)
CopiesHonest ==
  \A r \in Run : call[r] \in Linking =>
    /\ mem[r].recovered => file[r].recovered
    /\ mem[r].escalated => file[r].escalated

ErasedIsOver == \A r \in erased : Exists(r) /\ ~Live(r)

(* What the only scan relies on. *)
Alone ==
  /\ CopiesHonest /\ ErasedIsOver
  /\ \A r \in Run : Settled(r) => ~AtWork(r)
  /\ \A s \in Scan : at[s] # "reconcile" => stale[s] = {}
  /\ \A s \in Scan : \A p \in stale[s] : p[2] = file[p[1]] /\ ~Live(p[1])
  /\ \A s \in Scan : \A k \in todo[s] : ~Settled(k.run)
  /\ \A s \in Scan : at[s] \in {"request", "await"} =>
       /\ ~Settled(doing[s].run) /\ ~AtWork(doing[s].run)
       /\ \A k \in todo[s] : k.run # doing[s].run

(* The approvals that were requested for a run, at most. *)
Requests(r) ==
  (IF file[r].escalated \/ Asking(r) THEN 1 ELSE 0) + faults
    + (IF r \in erased THEN 1 ELSE 0)

AskedAtMostOnce == \A r \in Run : blockers[r] <= Requests(r)

ReasonInv == EngineUnsettled /\ Reasons
AloneInv == OneScanner /\ overtaken = {} => Alone /\ AskedAtMostOnce

-----------------------------------------------------------------------------
(* What a step does to the settlements. *)
LEMMA InitReasons ==
  ASSUME Init
  PROVE  ReasonInv /\ AloneInv
<1> USE DEF Init, EngineInit
<1>1. \A r \in Run : /\ ~file[r].recovered /\ ~file[r].escalated
                     /\ call[r] = "none" /\ blockers[r] = 0
  BY DEF Unwritten, NewRecord
<1>2. EngineUnsettled
  BY <1>1 DEF EngineUnsettled, Settled, InEngine
<1>3. Reasons
  BY <1>1 DEF Reasons, HasReason, AwaitsItsChild, Linking
<1>4. Alone
  BY <1>1 DEF Alone, CopiesHonest, ErasedIsOver, Settled, Linking
<1>5. AskedAtMostOnce
  BY <1>1 DEF AskedAtMostOnce, Requests
<1> QED BY <1>2, <1>3, <1>4, <1>5 DEF ReasonInv, AloneInv

(* A write of a run's own call takes a settlement back, leaves it, or puts *)
(* the copy its decision is linked in.                                     *)
LEMMA RunStepSettles ==
  ASSUME SourceInv, EngineUnsettled, NEW r \in Run, RunStep(r)
  PROVE  /\ Live(r)
         /\ \A q \in Run : q # r =>
              file'[q] = file[q] /\ call'[q] = call[q] /\ mem'[q] = mem[q]
         /\ file'[r].recovered => file[r].recovered \/ (call[r] \in Linking /\ mem[r].recovered)
         /\ file'[r].escalated => file[r].escalated \/ (call[r] \in Linking /\ mem[r].escalated)
         /\ call'[r] \in InEngine => ~mem'[r].recovered /\ ~mem'[r].escalated
         /\ call'[r] \in Linking => mem'[r] = file[r] /\ file'[r] = file[r]
<1>0. TypeOK
  BY DEF SourceInv
<1>1. mem[r] \in Record /\ file[r] \in Record
  BY DEF SourceInv, TypeOK
<1>2. call[r] \in InEngine => ~mem[r].recovered /\ ~mem[r].escalated
  BY DEF EngineUnsettled
<1>3. \A verdict \in {"good", "bad"} :
        /\ AfterStart(r, verdict) \notin InEngine \cup Linking
        /\ LinkAt(verdict) \notin InEngine /\ LinkAt(verdict) \in Linking
        /\ End(r, verdict) => \E label : Goto(r, label) /\ label \notin InEngine \cup Linking
  BY <1>0, EndLabel DEF InEngine, Linking, Holding, LinkAt
<1>4. Live(r)
  BY <1>0, RunStepLive DEF RunStep
<1>5. \A p \in Record, status \in Status, b \in BOOLEAN :
        /\ [p EXCEPT !.status = status].recovered = p.recovered
        /\ [p EXCEPT !.status = status].escalated = p.escalated
        /\ [p EXCEPT !.retryable = b].recovered = p.recovered
        /\ [p EXCEPT !.retryable = b].escalated = p.escalated
        /\ [[p EXCEPT !.status = status] EXCEPT !.retryable = b].recovered = p.recovered
        /\ [[p EXCEPT !.status = status] EXCEPT !.retryable = b].escalated = p.escalated
  BY DEF Record
<1>6. {"needs_human", "in_progress", "blocked", "failed", "completed"} \subseteq Status
  BY DEF Status, NonTerminal
<1>11. \A p \in Record, status \in Status, b \in BOOLEAN :
        [p EXCEPT !.status = status] \in Record /\ [p EXCEPT !.retryable = b] \in Record
  BY DEF Record
<1> DEFINE Settles(rec, label, kept) ==
      /\ file' = [file EXCEPT ![r] = rec] /\ call' = [call EXCEPT ![r] = label]
      /\ rec.recovered => file[r].recovered \/ (call[r] \in Linking /\ mem[r].recovered)
      /\ rec.escalated => file[r].escalated \/ (call[r] \in Linking /\ mem[r].escalated)
      /\ mem' = [mem EXCEPT ![r] = kept]
      /\ label \in InEngine => ~kept.recovered /\ ~kept.escalated
      /\ label \in Linking => kept = file[r] /\ rec = file[r]
<1>7. \E rec, label, kept : Settles(rec, label, kept)
  <2>1. CASE Park(r)
    <3> DEFINE rec == [mem[r] EXCEPT !.status = "needs_human"]
    <3>1. ~rec.recovered /\ ~rec.escalated
      BY <1>1, <1>2, <1>5, <1>6, <2>1 DEF Park, InEngine
    <3>2. PICK label : Goto(r, label) /\ label \notin InEngine \cup Linking
      BY <1>3, <2>1 DEF Park
    <3>3. Settles(rec, label, Unwritten)
      <4> HIDE DEF rec
      <4> QED BY <2>1, <3>1, <3>2 DEF Park, PersistLast, Write, Goto, rec
    <3> QED BY <3>3
  <2>2. CASE Advance(r)
    <3> DEFINE rec == [mem[r] EXCEPT !.status = "in_progress"]
               label == IF mode[r] = "dispatcher" THEN "dispatch" ELSE "complete"
    <3>1. ~rec.recovered /\ ~rec.escalated
      BY <1>1, <1>2, <1>5, <1>6, <2>2 DEF Advance, InEngine
    <3>2. Settles(rec, label, rec)
      <4>1. /\ file' = [file EXCEPT ![r] = rec] /\ mem' = [mem EXCEPT ![r] = rec]
            /\ call' = [call EXCEPT ![r] = label]
        BY <2>2 DEF Advance, Persist, Write, Goto
      <4>2. label \notin Linking
        BY DEF Linking
      <4> HIDE DEF rec, label
      <4> QED BY <3>1, <4>1, <4>2
    <3> QED BY <3>2
  <2>3. CASE Dispatch(r)
    <3>1. ~mem[r].recovered /\ ~mem[r].escalated
      BY <1>2, <2>3 DEF Dispatch, InEngine
    <3>2. CASE Persist(r, mem[r]) /\ Goto(r, "complete")
      <4>1. Settles(mem[r], "complete", mem[r])
        BY <3>1, <3>2 DEF Persist, Write, Goto, Linking
      <4> QED BY <4>1
    <3>3. ASSUME NEW b \in BOOLEAN,
                 Persist(r, [mem[r] EXCEPT !.retryable = b]), Goto(r, "settle")
          PROVE  \E rec, label, kept : Settles(rec, label, kept)
      <4> DEFINE rec == [mem[r] EXCEPT !.retryable = b]
      <4>1. ~rec.recovered /\ ~rec.escalated
        BY <1>1, <1>5, <3>1
      <4>2. /\ file' = [file EXCEPT ![r] = rec] /\ mem' = [mem EXCEPT ![r] = rec]
            /\ call' = [call EXCEPT ![r] = "settle"]
        BY <3>3 DEF Persist, Write, Goto
      <4>3. Settles(rec, "settle", rec)
        <5> HIDE DEF rec
        <5> QED BY <4>1, <4>2 DEF Linking
      <4> QED BY <4>3
    <3> QED BY <2>3, <3>2, <3>3 DEF Dispatch
  <2>4. CASE Settle(r)
    <3>1. PICK status \in {"blocked", "failed"} :
            PersistLast(r, [mem[r] EXCEPT !.status = status])
      BY <2>4 DEF Settle
    <3> DEFINE rec == [mem[r] EXCEPT !.status = status]
    <3>2. ~rec.recovered /\ ~rec.escalated
      BY <1>1, <1>2, <1>5, <1>6, <2>4, <3>1 DEF Settle, InEngine
    <3>3. PICK label : Goto(r, label) /\ label \notin InEngine \cup Linking
      BY <1>3, <2>4 DEF Settle
    <3>4. Settles(rec, label, Unwritten)
      <4> HIDE DEF rec
      <4> QED BY <2>4, <3>1, <3>2, <3>3 DEF Settle, PersistLast, Write, Goto, rec
    <3> QED BY <3>4
  <2>5. CASE Complete(r)
    <3> DEFINE rec == [mem[r] EXCEPT !.status = "completed"]
    <3>1. ~rec.recovered /\ ~rec.escalated
      BY <1>1, <1>2, <1>5, <1>6, <2>5 DEF Complete, InEngine
    <3>2. PICK label : Goto(r, label) /\ label \notin InEngine \cup Linking
      BY <1>3, <2>5 DEF Complete
    <3>3. Settles(rec, label, Unwritten)
      <4> HIDE DEF rec
      <4> QED BY <2>5, <3>1, <3>2 DEF Complete, PersistLast, Write, Goto, rec
    <3> QED BY <3>3
  <2>6. mem = [mem EXCEPT ![r] = mem[r]] /\ file = [file EXCEPT ![r] = file[r]]
    BY DEF SourceInv, TypeOK
  <2>7. CASE MarkRunning(r)
    <3> DEFINE rec == PatchedStatus(r, "in_progress")
    <3>1. rec.recovered = file[r].recovered /\ rec.escalated = file[r].escalated
      BY <1>1, <1>5, <1>6 DEF PatchedStatus
    <3>2. Settles(rec, "pipeline", mem[r])
      <4> HIDE DEF rec
      <4> QED BY <2>6, <2>7, <3>1 DEF MarkRunning, Write, Goto, InEngine, Linking, rec
    <3> QED BY <3>2
  <2>8. CASE FinishPipeline(r)
    <3>1. PICK rec \in Record, label \in {"good", "bad"} :
            /\ Write(r, rec) /\ Goto(r, label)
            /\ rec.recovered = file[r].recovered /\ rec.escalated = file[r].escalated
      <4>1. \A status \in Status :
              /\ PatchedStatus(r, status) \in Record
              /\ PatchedStatus(r, status).recovered = file[r].recovered
              /\ PatchedStatus(r, status).escalated = file[r].escalated
        BY <1>1, <1>5, <1>11 DEF PatchedStatus
      <4>2. \A b \in BOOLEAN :
              /\ [PatchedStatus(r, "blocked") EXCEPT !.retryable = b] \in Record
              /\ [PatchedStatus(r, "blocked") EXCEPT !.retryable = b].recovered = file[r].recovered
              /\ [PatchedStatus(r, "blocked") EXCEPT !.retryable = b].escalated = file[r].escalated
        <5> DEFINE p == PatchedStatus(r, "blocked")
        <5>1. p \in Record /\ p.recovered = file[r].recovered /\ p.escalated = file[r].escalated
          BY <1>6, <4>1
        <5> HIDE DEF p
        <5>2. \A b \in BOOLEAN :
                /\ [p EXCEPT !.retryable = b] \in Record
                /\ [p EXCEPT !.retryable = b].recovered = file[r].recovered
                /\ [p EXCEPT !.retryable = b].escalated = file[r].escalated
          BY <5>1 DEF Record
        <5> QED BY <5>2 DEF p
      <4> QED BY <1>1, <1>6, <2>8, <4>1, <4>2 DEF FinishPipeline
    <3>2. Settles(rec, label, mem[r])
      BY <2>6, <2>8, <3>1 DEF FinishPipeline, Write, Goto, InEngine, Linking
    <3> QED BY <3>2
  <2>9. CASE ReadDecided(r)
    <3>1. PICK verdict \in {"good", "bad"} : Goto(r, LinkAt(verdict))
      BY <2>9 DEF ReadDecided
    <3>2. Settles(file[r], LinkAt(verdict), file[r])
      BY <1>3, <2>6, <2>9, <3>1 DEF ReadDecided, Goto
    <3> QED BY <3>2
  <2>10. CASE LinkDecision(r)
    <3>1. PICK verdict \in {"good", "bad"} :
            call[r] = LinkAt(verdict) /\ Goto(r, AfterStart(r, verdict))
      BY <2>10 DEF LinkDecision
    <3>2. call[r] \in Linking /\ AfterStart(r, verdict) \notin InEngine \cup Linking
      BY <1>3, <3>1
    <3>3. CASE PersistLast(r, mem[r])
      <4>1. Settles(mem[r], AfterStart(r, verdict), Unwritten)
        BY <3>1, <3>2, <3>3 DEF PersistLast, Write, Goto
      <4> QED BY <4>1
    <3>4. CASE mem' = [mem EXCEPT ![r] = Unwritten] /\ UNCHANGED <<file, age>>
      <4>1. Settles(file[r], AfterStart(r, verdict), Unwritten)
        BY <2>6, <3>1, <3>2, <3>4 DEF Goto
      <4> QED BY <4>1
    <3> QED BY <2>10, <3>3, <3>4 DEF LinkDecision
  <2> QED BY <2>1, <2>2, <2>3, <2>4, <2>5, <2>7, <2>8, <2>9, <2>10 DEF RunStep, EngineStep
<1>8. PICK rec, label, kept : Settles(rec, label, kept)
  BY <1>7
<1>9. file'[r] = rec /\ call'[r] = label /\ mem'[r] = kept
  BY <1>8 DEF SourceInv, TypeOK
<1>10. \A q \in Run : q # r =>
         file'[q] = file[q] /\ call'[q] = call[q] /\ mem'[q] = mem[q]
  BY <1>8 DEF SourceInv, TypeOK
<1> QED BY <1>4, <1>8, <1>9, <1>10

(* Reasons do not go away: documents, good verdicts and requests stay. *)
ReasonsLast ==
  \A r \in Run : (Succeeded(r) => Succeeded(r)') /\ (blockers[r] > 0 => blockers'[r] > 0)

LEMMA StepReasonsLast ==
  ASSUME SourceInv, SourceInv',
         \A c \in Run : Exists(c) =>
           /\ Exists(c)' /\ file'[c].parent = file[c].parent
           /\ call[c] = "good" => call'[c] = "good",
         \A r \in Run : blockers'[r] >= blockers[r]
  PROVE  ReasonsLast
<1>1. ASSUME NEW r \in Run, Succeeded(r)
      PROVE  Succeeded(r)'
  <2>1. PICK c \in Run : Exists(c) /\ file[c].parent = r /\ call[c] = "good"
    BY <1>1 DEF Succeeded, Children, Created
  <2>2. Exists(c)' /\ file'[c].parent = r /\ call'[c] = "good"
    BY <2>1
  <2> QED BY <2>2 DEF Succeeded, Children, Created
<1>2. \A r \in Run : blockers[r] > 0 => blockers'[r] > 0
  BY DEF SourceInv, TypeOK
<1> QED BY <1>1, <1>2 DEF ReasonsLast

LEMMA KeptReasons ==
  ASSUME SourceInv', ReasonInv, ReasonsLast,
         \A r \in Run : HasReason(r, file'[r]) \/ HasReason(r, file[r])',
         \A r \in Run : call'[r] \in Linking => HasReason(r, mem'[r]),
         \A s \in Scan : \A p \in stale'[s] : HasReason(p[1], p[2]),
         \A s \in Scan : at'[s] = "request" => blockers'[doing'[s].run] > 0,
         AwaitsItsChild', EngineUnsettled'
  PROVE  ReasonInv'
<1>1. \A r \in Run : HasReason(r, file[r])'
  BY DEF ReasonsLast, HasReason
<1>2. \A s \in Scan : \A p \in stale'[s] :
        /\ p[2].recovered => Succeeded(p[1])'
        /\ p[2].escalated => blockers'[p[1]] > 0
  BY DEF ReasonsLast, HasReason, SourceInv, TypeOK
<1>3. \A r \in Run : call'[r] \in Linking => HasReason(r, mem[r])'
  BY DEF ReasonsLast, HasReason
<1> QED BY <1>1, <1>2, <1>3 DEF ReasonInv, Reasons, HasReason

(* A step that writes no document and asks for nothing. *)
LEMMA QuietReasons ==
  ASSUME SourceInv, SourceInv', ReasonInv, UNCHANGED <<file, mem, blockers>>,
         \A r \in Run : call'[r] = call[r] \/ (Live(r) /\ call'[r] \in Over),
         \A s \in Scan : stale'[s] \subseteq stale[s],
         \A s \in Scan : at'[s] \in {"request", "await"} =>
           at'[s] = at[s] /\ doing'[s] = doing[s] /\ child'[s] = child[s]
  PROVE  ReasonInv'
<1>1. ReasonsLast
  <2>1. \A r \in Run : call[r] = "good" => call'[r] = "good"
    BY DEF Live, Over
  <2> QED BY <2>1, StepReasonsLast DEF Exists, SourceInv, TypeOK
<1>2. EngineUnsettled'
  <2>1. Over \cap InEngine = {}
    BY DEF Over, InEngine
  <2> QED BY <2>1 DEF ReasonInv, EngineUnsettled, Exists, Settled
<1>3. AwaitsItsChild'
  BY DEF ReasonInv, Reasons, AwaitsItsChild, Exists
<1>4. \A s \in Scan : at'[s] = "request" => blockers'[doing'[s].run] > 0
  BY DEF ReasonInv, Reasons
<1>5. \A r \in Run : call'[r] \in Linking => HasReason(r, mem'[r])
  BY DEF ReasonInv, Reasons, Over, Linking
<1> QED BY <1>1, <1>2, <1>3, <1>4, <1>5, KeptReasons DEF ReasonInv, Reasons

LEMMA StartReasons ==
  ASSUME SourceInv, SourceInv', ReasonInv, NEW r \in Run,
         NEW how \in {"dispatcher", "project", "coordinator"},
         NEW parent \in Run \cup {NoRun}, NEW attempt \in Nat,
         StartRun(r, how, parent, attempt), UNCHANGED <<stale, blockers>>,
         \A s \in Scan : at'[s] \in {"request", "await"} =>
           \/ at'[s] = at[s] /\ doing'[s] = doing[s] /\ child'[s] = child[s]
           \/ at'[s] = "await" /\ child'[s] = r /\ doing'[s].run = parent
  PROVE  ReasonInv'
<1> DEFINE rec == NewRecord(parent, attempt)
<1>1. /\ ~Exists(r)
      /\ file' = [file EXCEPT ![r] = rec] /\ mem' = [mem EXCEPT ![r] = rec]
      /\ \E label \in {"advance", "park"} : call' = [call EXCEPT ![r] = label]
  BY DEF StartRun, IsNewId, Persist, Write, Goto
<1>2. \A q \in Run : q # r => file'[q] = file[q] /\ mem'[q] = mem[q] /\ call'[q] = call[q]
  BY <1>1 DEF SourceInv, TypeOK
<1>3. /\ file'[r] = rec /\ mem'[r] = rec
      /\ rec.status = "created" /\ rec.parent = parent
      /\ ~rec.recovered /\ ~rec.escalated
  BY <1>1 DEF SourceInv, TypeOK, NewRecord
<1> HIDE DEF rec
<1>4. \A c \in Run : Exists(c) => c # r /\ Exists(c)'
  BY <1>1, <1>2 DEF Exists
<1>5. ReasonsLast
  BY <1>2, <1>4, StepReasonsLast DEF SourceInv, TypeOK
<1>6. EngineUnsettled'
  BY <1>2, <1>3 DEF ReasonInv, EngineUnsettled, Exists, Settled
<1>7. \A q \in Run : HasReason(q, file'[q])
  BY <1>2, <1>3 DEF ReasonInv, Reasons, HasReason
<1>8. AwaitsItsChild'
  <2> SUFFICES ASSUME NEW s \in Scan, at'[s] = "await"
               PROVE  child'[s] \in Run /\ file'[child'[s]].status # "unwritten"
                      /\ file'[child'[s]].parent = doing'[s].run
    BY DEF AwaitsItsChild, Exists
  <2>1. CASE at'[s] = at[s] /\ doing'[s] = doing[s] /\ child'[s] = child[s]
    <3>1. child[s] \in Run /\ Exists(child[s]) /\ file[child[s]].parent = doing[s].run
      BY <2>1 DEF ReasonInv, Reasons, AwaitsItsChild
    <3> QED BY <1>2, <1>4, <2>1, <3>1 DEF Exists
  <2>2. CASE child'[s] = r /\ doing'[s].run = parent
    BY <1>3, <2>2
  <2> QED BY <2>1, <2>2
<1>9. \A s \in Scan : at'[s] = "request" => blockers'[doing'[s].run] > 0
  BY DEF ReasonInv, Reasons
<1>10. \A q \in Run : call'[q] \in Linking => HasReason(q, mem'[q])
  <2>1. call'[r] \notin Linking
    BY <1>1 DEF SourceInv, TypeOK, Linking
  <2> QED BY <1>2, <2>1 DEF ReasonInv, Reasons
<1> QED BY <1>5, <1>6, <1>7, <1>8, <1>9, <1>10, KeptReasons DEF ReasonInv, Reasons

LEMMA RunStepReasons ==
  ASSUME SourceInv, SourceInv', ReasonInv, NEW r \in Run, RunStep(r)
  PROVE  ReasonInv'
<1>1. /\ Live(r) /\ KeepsSources
      /\ \A q \in Run : q # r =>
           file'[q] = file[q] /\ call'[q] = call[q] /\ mem'[q] = mem[q]
      /\ file'[r].recovered => file[r].recovered \/ (call[r] \in Linking /\ mem[r].recovered)
      /\ file'[r].escalated => file[r].escalated \/ (call[r] \in Linking /\ mem[r].escalated)
      /\ call'[r] \in InEngine => ~mem'[r].recovered /\ ~mem'[r].escalated
      /\ call'[r] \in Linking => mem'[r] = file[r]
  BY RunStepSettles, RunStepSources DEF ReasonInv
<1>2. UNCHANGED <<stale, at, doing, child, blockers>>
  BY DEF RunStep, scanVars
<1>3. ReasonsLast
  <2>1. \A c \in Run : call[c] = "good" => call'[c] = "good"
    BY <1>1 DEF Live, Over
  <2> QED BY <1>1, <1>2, <2>1, StepReasonsLast DEF KeepsSources, SameSource, SourceInv, TypeOK
<1>4. EngineUnsettled'
  <2>1. Exists(r)' /\ \A q \in Run : Exists(q)' <=> Exists(q)
    BY <1>1 DEF KeepsSources, SourceInv, SourcesKept
  <2> QED BY <1>1, <2>1 DEF ReasonInv, EngineUnsettled, Exists, Settled
<1>5. \A q \in Run : HasReason(q, file'[q])
  BY <1>1 DEF ReasonInv, Reasons, HasReason
<1>6. AwaitsItsChild'
  <2>1. \A c \in Run : Exists(c) => file'[c].status # "unwritten" /\ file'[c].parent = file[c].parent
    BY <1>1 DEF KeepsSources, SameSource, Exists
  <2> QED BY <1>2, <2>1 DEF ReasonInv, Reasons, AwaitsItsChild, Exists
<1>7. \A q \in Run : call'[q] \in Linking => HasReason(q, mem'[q])
  BY <1>1 DEF ReasonInv, Reasons
<1> QED BY <1>2, <1>3, <1>4, <1>5, <1>6, <1>7, KeptReasons DEF ReasonInv, Reasons

LEMMA BeginScanReasons ==
  ASSUME SourceInv, SourceInv', ReasonInv, NEW s \in Scan, BeginScan(s)
  PROVE  ReasonInv'
<1> USE DEF BeginScan, engineVars
<1>1. ReasonsLast
  BY StepReasonsLast DEF Exists, SourceInv, TypeOK
<1>2. \A t \in Scan : \A p \in stale'[t] : HasReason(p[1], p[2])
  <2>1. \A p \in stale'[s] : p[1] \in Run /\ p[2] = file[p[1]]
    BY DEF SourceInv, TypeOK
  <2>2. \A t \in Scan : t # s => stale'[t] = stale[t]
    BY DEF SourceInv, TypeOK
  <2> QED BY <2>1, <2>2 DEF ReasonInv, Reasons
<1>3. \A t \in Scan : at'[t] \in {"request", "await"} => at'[t] = at[t]
  BY DEF SourceInv, TypeOK
<1>4. AwaitsItsChild'
  BY <1>3 DEF ReasonInv, Reasons, AwaitsItsChild, Exists
<1>5. \A t \in Scan : at'[t] = "request" => blockers'[doing'[t].run] > 0
  BY <1>3 DEF ReasonInv, Reasons
<1>6. EngineUnsettled'
  BY DEF ReasonInv, EngineUnsettled, Exists, Settled
<1> QED BY <1>1, <1>2, <1>4, <1>5, <1>6, KeptReasons DEF ReasonInv, Reasons

(* A document is written by a scan: the document existed. *)
LEMMA PatchReasons ==
  ASSUME SourceInv, SourceInv', KeepsSources, ReasonInv, UNCHANGED <<mem, call, blockers>>,
         NEW r \in Run, NEW rec, Exists(r), file' = [file EXCEPT ![r] = rec],
         HasReason(r, rec),
         \A s \in Scan : stale'[s] \subseteq stale[s],
         \A s \in Scan : at'[s] \in {"request", "await"} =>
           at'[s] = at[s] /\ doing'[s] = doing[s] /\ child'[s] = child[s]
  PROVE  ReasonInv'
<1>1. ReasonsLast
  BY StepReasonsLast DEF KeepsSources, SameSource, SourceInv, TypeOK
<1>2. \A q \in Run : HasReason(q, file'[q])
  BY DEF ReasonInv, Reasons, SourceInv, TypeOK
<1>3. AwaitsItsChild'
  <2>1. \A c \in Run : Exists(c) => file'[c].status # "unwritten" /\ file'[c].parent = file[c].parent
    BY DEF KeepsSources, SameSource, Exists
  <2> QED BY <2>1 DEF ReasonInv, Reasons, AwaitsItsChild, Exists
<1>4. EngineUnsettled'
  <2>1. \A q \in Run : Exists(q)' <=> Exists(q)
    BY DEF KeepsSources
  <2> QED BY <2>1 DEF ReasonInv, EngineUnsettled, Exists, Settled, SourceInv, TypeOK
<1>5. \A s \in Scan : at'[s] = "request" => blockers'[doing'[s].run] > 0
  BY DEF ReasonInv, Reasons
<1> QED BY <1>1, <1>2, <1>3, <1>4, <1>5, KeptReasons DEF ReasonInv, Reasons

LEMMA ReconcileReasons ==
  ASSUME SourceInv, SourceInv', ReasonInv, NEW s \in Scan, Reconcile(s)
  PROVE  ReasonInv'
<1>1. PICK p \in stale[s] :
        \E retryable \in BOOLEAN :
          /\ Write(p[1], Reconciled(p[2], retryable))
          /\ stale' = [stale EXCEPT ![s] = @ \ {p}]
  BY DEF Reconcile
<1> PICK b \in BOOLEAN : /\ Write(p[1], Reconciled(p[2], b))
                         /\ stale' = [stale EXCEPT ![s] = @ \ {p}]
  BY <1>1
<1>2. p[1] \in Run /\ p[2] \in Record /\ Exists(p[1]) /\ HasReason(p[1], p[2])
  BY DEF SourceInv, SourcesKept, TypeOK, ReasonInv, Reasons
<1>3. HasReason(p[1], Reconciled(p[2], b))
  BY <1>2 DEF Reconciled, Record, HasReason
<1>4. \A t \in Scan : stale'[t] \subseteq stale[t]
  BY DEF SourceInv, TypeOK
<1>5. UNCHANGED <<mem, call, blockers, at, doing, child>>
  BY DEF Reconcile
<1>6. file' = [file EXCEPT ![p[1]] = Reconciled(p[2], b)]
  BY DEF Write
<1> QED BY <1>2, <1>3, <1>4, <1>5, <1>6, ReconcileSources, PatchReasons

LEMMA RequestApprovalReasons ==
  ASSUME SourceInv, SourceInv', ReasonInv, NEW s \in Scan, RequestApproval(s)
  PROVE  ReasonInv'
<1>1. PICK k \in todo[s] :
        /\ doing' = [doing EXCEPT ![s] = k]
        /\ blockers' = [blockers EXCEPT ![k.run] = @ + 1]
  BY DEF RequestApproval
<1>2. k.run \in Run
  BY DEF SourceInv, TypeOK, Candidate, CandidatesOriginal
<1>3. UNCHANGED <<file, mem, call, stale, child>> /\ at' = [at EXCEPT ![s] = "request"]
  BY DEF RequestApproval, engineVars
<1>4. \A r \in Run : blockers'[r] >= blockers[r] /\ (r = k.run => blockers'[r] > 0)
  BY <1>1, <1>2 DEF SourceInv, TypeOK
<1>5. ReasonsLast
  BY <1>3, <1>4, StepReasonsLast DEF Exists
<1>6. \A t \in Scan : t # s => at'[t] = at[t] /\ doing'[t] = doing[t]
  BY <1>1, <1>3 DEF SourceInv, TypeOK
<1>7. at'[s] = "request" /\ doing'[s] = k
  BY <1>1, <1>3 DEF SourceInv, TypeOK
<1>8. \A t \in Scan : at'[t] = "request" => blockers'[doing'[t].run] > 0
  <2>1. ASSUME NEW t \in Scan, t # s, at'[t] = "request"
        PROVE  blockers'[doing'[t].run] > 0
    <3>1. doing[t].run \in Run /\ blockers[doing[t].run] > 0
      BY <1>6, <2>1 DEF ReasonInv, Reasons, SourceInv, CandidatesOriginal, Candidate
    <3> QED BY <1>4, <1>6, <2>1, <3>1 DEF SourceInv, TypeOK
  <2>2. blockers'[doing'[s].run] > 0
    BY <1>2, <1>4, <1>7
  <2> QED BY <2>1, <2>2
<1>9. AwaitsItsChild'
  BY <1>3, <1>6, <1>7 DEF ReasonInv, Reasons, AwaitsItsChild, Exists
<1>10. EngineUnsettled'
  BY <1>3 DEF ReasonInv, EngineUnsettled, Exists, Settled
<1> QED BY <1>3, <1>5, <1>8, <1>9, <1>10, KeptReasons DEF ReasonInv, Reasons

LEMMA PatchEscalatedReasons ==
  ASSUME SourceInv, SourceInv', ReasonInv, NEW s \in Scan, PatchEscalated(s)
  PROVE  ReasonInv'
<1> DEFINE k == doing[s]
           rec == [file[k.run] EXCEPT !.attempts = k.attempts, !.escalated = TRUE]
<1>1. k.run \in Run /\ Exists(k.run) /\ file[k.run] \in Record /\ blockers[k.run] > 0
  BY DEF PatchEscalated, SourceInv, CandidatesOriginal, Candidate, TypeOK, ReasonInv, Reasons
<1>2. file' = [file EXCEPT ![k.run] = rec]
  BY DEF PatchEscalated, Write
<1>3. HasReason(k.run, rec)
  <2>1. rec.recovered = file[k.run].recovered
    BY <1>1 DEF Record
  <2> HIDE DEF rec
  <2> QED BY <1>1, <2>1 DEF ReasonInv, Reasons, HasReason
<1>4. UNCHANGED <<mem, call, blockers, stale, child>>
      /\ at' = [at EXCEPT ![s] = "work"] /\ doing' = [doing EXCEPT ![s] = NoCandidate]
  BY DEF PatchEscalated
<1>5. \A t \in Scan : at'[t] \in {"request", "await"} =>
        at'[t] = at[t] /\ doing'[t] = doing[t] /\ child'[t] = child[t]
  BY <1>4 DEF SourceInv, TypeOK
<1> HIDE DEF rec
<1> QED BY <1>1, <1>2, <1>3, <1>4, <1>5, PatchEscalatedSources, PatchReasons

LEMMA PatchParentReasons ==
  ASSUME SourceInv, SourceInv', ReasonInv, NEW s \in Scan, PatchParent(s)
  PROVE  ReasonInv'
<1> DEFINE k == doing[s]
           b == file[k.run].recovered \/ call[child[s]] = "good"
           rec == [file[k.run] EXCEPT !.attempts = k.attempts + 1, !.recovered = b]
<1>1. k.run \in Run /\ Exists(k.run) /\ file[k.run] \in Record
  BY DEF PatchParent, SourceInv, CandidatesOriginal, Candidate, TypeOK
<1>2. call[child[s]] = "good" => Succeeded(k.run)
  <2>1. child[s] \in Children(k.run)
    BY DEF PatchParent, ReasonInv, Reasons, AwaitsItsChild, Children, Created
  <2> QED BY <2>1 DEF Succeeded
<1>3. file' = [file EXCEPT ![k.run] = rec]
  BY <1>1 DEF PatchParent, Write, Record
<1>4. HasReason(k.run, rec)
  <2>1. rec.recovered = b /\ rec.escalated = file[k.run].escalated
    <3> HIDE DEF b
    <3> QED BY <1>1 DEF Record
  <2>2. b => Succeeded(k.run)
    BY <1>1, <1>2 DEF ReasonInv, Reasons, HasReason
  <2> HIDE DEF rec, b
  <2> QED BY <1>1, <2>1, <2>2 DEF ReasonInv, Reasons, HasReason
<1>5. UNCHANGED <<mem, call, blockers, stale>>
      /\ at' = [at EXCEPT ![s] = "work"] /\ doing' = [doing EXCEPT ![s] = NoCandidate]
      /\ child' = [child EXCEPT ![s] = NoRun]
  BY DEF PatchParent
<1>6. \A t \in Scan : at'[t] \in {"request", "await"} =>
        at'[t] = at[t] /\ doing'[t] = doing[t] /\ child'[t] = child[t]
  BY <1>5 DEF SourceInv, TypeOK
<1> HIDE DEF rec
<1> QED BY <1>1, <1>3, <1>4, <1>5, <1>6, PatchParentSources, PatchReasons

LEMMA StepReasons ==
  ASSUME SourceInv, SourceInv', ReasonInv, [Next]_vars
  PROVE  ReasonInv'
<1>1. ASSUME NEW r \in Run, StartOriginal(r) PROVE ReasonInv'
  <2>1. PICK how \in {"dispatcher", "project"} : StartRun(r, how, NoRun, 0)
    BY <1>1 DEF StartOriginal
  <2>2. UNCHANGED <<scanVars, blockers>>
    BY <1>1 DEF StartOriginal
  <2> QED BY <2>1, <2>2, StartReasons DEF scanVars
<1>2. ASSUME NEW r \in Run, RunStep(r) PROVE ReasonInv'
  BY <1>2, RunStepReasons
<1>3. ASSUME NEW r \in Run, FailOriginal(r) PROVE ReasonInv'
  <2>1. \A q \in Run : call'[q] = call[q] \/ (Live(q) /\ call'[q] \in Over)
    BY <1>3 DEF FailOriginal, Goto, SourceInv, TypeOK, Over
  <2> QED BY <1>3, <2>1, QuietReasons DEF FailOriginal, scanVars
<1>4. ASSUME NEW s \in Scan, ScanStep(s) PROVE ReasonInv'
  <2>1. CASE ListCandidates(s) \/ SkipCandidate(s) \/ EndScan(s)
    <3>1. \A t \in Scan : at'[t] \in {"request", "await"} => at'[t] = at[t]
      BY <2>1 DEF ListCandidates, SkipCandidate, EndScan, SourceInv, TypeOK
    <3>2. UNCHANGED <<file, mem, call, stale, doing, child, blockers>>
      BY <2>1 DEF ListCandidates, SkipCandidate, EndScan, engineVars
    <3> QED BY <3>1, <3>2, QuietReasons
  <2>2. ASSUME NEW c \in Run, StartChild(s, c) PROVE ReasonInv'
    <3>1. PICK k \in todo[s], how \in {"project", "coordinator"} :
            StartRun(c, how, k.run, k.attempts + 1) /\ doing' = [doing EXCEPT ![s] = k]
      BY <2>2 DEF StartChild
    <3>2. k.run \in Run \cup {NoRun} /\ k.attempts + 1 \in Nat
      BY DEF SourceInv, TypeOK, Candidate
    <3>3. /\ at' = [at EXCEPT ![s] = "await"] /\ child' = [child EXCEPT ![s] = c]
          /\ UNCHANGED <<stale, blockers>>
      BY <2>2 DEF StartChild
    <3>4. \A t \in Scan : at'[t] \in {"request", "await"} =>
            \/ at'[t] = at[t] /\ doing'[t] = doing[t] /\ child'[t] = child[t]
            \/ at'[t] = "await" /\ child'[t] = c /\ doing'[t].run = k.run
      BY <3>1, <3>3 DEF SourceInv, TypeOK
    <3> QED BY <3>1, <3>2, <3>3, <3>4, StartReasons
  <2> QED
    BY <1>4, <2>1, <2>2, BeginScanReasons, ReconcileReasons, RequestApprovalReasons,
       PatchEscalatedReasons, PatchParentReasons DEF ScanStep
<1>5. ASSUME NEW s \in Scan, ChildThrows(s) \/ ScanDies(s) PROVE ReasonInv'
  <2>1. \A q \in Run : call'[q] = call[q] \/ (Live(q) /\ call'[q] \in Over)
    BY <1>5 DEF ChildThrows, ScanDies, Throw, Goto, SourceInv, TypeOK, Over, Live
  <2>2. UNCHANGED <<file, mem, blockers>> /\ Abandon(s)
    BY <1>5 DEF ChildThrows, ScanDies, Throw
  <2>3. \A t \in Scan :
          /\ stale'[t] \subseteq stale[t]
          /\ at'[t] \in {"request", "await"} =>
               at'[t] = at[t] /\ doing'[t] = doing[t] /\ child'[t] = child[t]
    BY <2>2 DEF Abandon, SourceInv, TypeOK
  <2> QED BY <2>1, <2>2, <2>3, QuietReasons
<1>6. ASSUME Tick, UNCHANGED otherVars, UNCHANGED erased PROVE ReasonInv'
  BY <1>6, QuietReasons DEF Tick, otherVars, scanVars
<1>7. CASE UNCHANGED vars
  BY <1>7, QuietReasons DEF vars, engineVars, scanVars
<1> QED BY <1>1, <1>2, <1>3, <1>4, <1>5, <1>6, <1>7 DEF Next, otherVars

-----------------------------------------------------------------------------
(* One scanner, and no run given up under its call. *)

OutcomesKept ==
  \A r \in Run :
    /\ file'[r].recovered <=> file[r].recovered
    /\ file'[r].escalated <=> file[r].escalated

OutcomesFade ==
  \A r \in Run :
    /\ file'[r].recovered => file[r].recovered
    /\ file'[r].escalated => file[r].escalated

(* What is taken back is noted. *)
LossesNoted ==
  /\ erased \subseteq erased'
  /\ \A r \in Run : file[r].escalated => file'[r].escalated \/ r \in erased' \ erased

(* No document goes away, and no call comes back to life or to work ... *)
CallsEnd ==
  \A r \in Run : Exists(r) =>
    /\ Exists(r)'
    /\ Live(r)' => Live(r)
    /\ AtWork(r)' => AtWork(r)

(* ... nor gets to hold what it will link. *)
CopiesKept ==
  \A r \in Run : call'[r] \in Linking => call[r] \in Linking /\ mem'[r] = mem[r]

LEMMA CopiesStayHonest ==
  ASSUME CopiesHonest, OutcomesKept, CopiesKept
  PROVE  CopiesHonest'
  BY DEF CopiesHonest, OutcomesKept, CopiesKept

LEMMA ErasedStaysOver ==
  ASSUME TypeOK, ErasedIsOver, UNCHANGED erased, CallsEnd
  PROVE  ErasedIsOver'
  BY DEF TypeOK, ErasedIsOver, CallsEnd

LEMMA SameOutcomes ==
  ASSUME UNCHANGED file
  PROVE  OutcomesKept
  BY DEF OutcomesKept

LEMMA SameCalls ==
  ASSUME UNCHANGED <<call, mem, mode>>, \A r \in Run : Exists(r) => Exists(r)'
  PROVE  CallsEnd /\ CopiesKept
  BY DEF CallsEnd, CopiesKept, Live, AtWork

(* A call goes on to its end or is given up. *)
LEMMA EndedCalls ==
  ASSUME UNCHANGED <<file, mem, mode>>,
         \A r \in Run : call'[r] = call[r] \/ call'[r] \in Over
  PROVE  CallsEnd /\ CopiesKept
<1>1. \A r \in Run : call'[r] \in Linking => call'[r] = call[r]
  BY DEF Linking, Over
<1> QED BY <1>1 DEF CallsEnd, CopiesKept, Exists, Live, AtWork

(* Only the link of its decision takes back what the scan said of a run:   *)
(* of one that a dispatcher executed, and its call is over then.           *)
LEMMA RunStepErases ==
  ASSUME SourceInv, Alone, NEW r \in Run, RunStep(r), Erases(r)
  PROVE  /\ r \in erased' /\ r \notin erased
         /\ erased' = erased \cup {r}
         /\ ~Live(r)'
<1>1. Live(r) /\ EngineStep(r)
  BY RunStepLive DEF RunStep, SourceInv
<1>2. mode[r] = "dispatcher" /\ call[r] \in Recording
  BY <1>1 DEF Alone, Erases, Settled, AtWork
<1>3. LinkDecision(r)
  BY <1>1, <1>2 DEF EngineStep, Park, Advance, Dispatch, Settle, Complete, MarkRunning,
                    FinishPipeline, ReadDecided, Erases, Recording, Linking
<1>4. call[r] \in Linking
  BY <1>3 DEF LinkDecision, LinkAt, Linking
<1>5. erased' = erased \cup {r} /\ r \notin erased
  BY <1>1, <1>4 DEF RunStep, Alone, ErasedIsOver
<1>6. call'[r] \in Over
  BY <1>2, <1>3 DEF LinkDecision, Goto, AfterStart, Over, SourceInv, TypeOK
<1> QED BY <1>5, <1>6 DEF Live

LEMMA RunStepOutcomes ==
  ASSUME SourceInv, EngineUnsettled, Alone, NEW r \in Run, RunStep(r)
  PROVE  /\ OutcomesFade /\ LossesNoted
         /\ erased' = erased => OutcomesKept
         /\ CallsEnd /\ CopiesHonest' /\ ErasedIsOver'
         /\ \A q \in Run : Exists(q) /\ ~Live(q) => file'[q] = file[q]
<1>1. /\ Live(r)
      /\ \A q \in Run : q # r =>
           file'[q] = file[q] /\ call'[q] = call[q] /\ mem'[q] = mem[q]
      /\ file'[r].recovered => file[r].recovered
      /\ file'[r].escalated => file[r].escalated
      /\ call'[r] \in Linking => mem'[r] = file[r] /\ file'[r] = file[r]
  BY RunStepSettles DEF Alone, CopiesHonest
<1>2. OutcomesFade
  BY <1>1 DEF OutcomesFade
<1>3. /\ ~Erases(r) => erased' = erased
      /\ Erases(r) => erased' = erased \cup {r} /\ r \notin erased /\ ~Live(r)'
  BY RunStepErases DEF RunStep
<1>4. erased' = erased => OutcomesKept
  BY <1>1, <1>3 DEF OutcomesKept, Erases
<1>5. LossesNoted
  BY <1>1, <1>3 DEF LossesNoted, Erases
<1>6. CallsEnd
  <2>1. \A q \in Run : Exists(q)' <=> Exists(q)
    BY RunStepSources DEF KeepsSources
  <2>2. AtWork(r)' => AtWork(r)
    BY RunStepLive DEF RunStep, SourceInv
  <2>3. \A q \in Run : mode'[q] = mode[q]
    BY DEF RunStep, EngineStep, Park, Advance, Dispatch, Settle, Complete, ReadDecided,
           LinkDecision, MarkRunning, FinishPipeline
  <2> QED BY <1>1, <2>1, <2>2, <2>3 DEF CallsEnd, Live, AtWork
<1>7. CopiesHonest'
  BY <1>1 DEF Alone, CopiesHonest
<1>8. ErasedIsOver'
  <2>1. \A q \in erased : q \in Run /\ Exists(q)' /\ ~Live(q)'
    BY <1>6 DEF Alone, ErasedIsOver, CallsEnd, SourceInv, TypeOK
  <2>2. Exists(r)'
    BY <1>1, <1>6 DEF CallsEnd, SourceInv, SourcesKept
  <2> QED BY <1>3, <2>1, <2>2 DEF ErasedIsOver
<1> QED BY <1>1, <1>2, <1>4, <1>5, <1>6, <1>7, <1>8

LEMMA StartOutcomes ==
  ASSUME SourceInv, EngineUnsettled, NEW r \in Run,
         NEW how \in {"dispatcher", "project", "coordinator"},
         NEW parent \in Run \cup {NoRun}, NEW attempt \in Nat,
         StartRun(r, how, parent, attempt)
  PROVE  /\ OutcomesKept /\ CallsEnd /\ CopiesKept
         /\ \A q \in Run : Exists(q) => file'[q] = file[q]
<1> DEFINE rec == NewRecord(parent, attempt)
<1>1. /\ ~Exists(r) /\ file' = [file EXCEPT ![r] = rec]
      /\ mem' = [mem EXCEPT ![r] = rec] /\ mode' = [mode EXCEPT ![r] = how]
      /\ \E label \in {"advance", "park"} : call' = [call EXCEPT ![r] = label]
  BY DEF StartRun, IsNewId, Persist, Write, Goto
<1>2. ~file[r].recovered /\ ~file[r].escalated /\ ~rec.recovered /\ ~rec.escalated
  BY <1>1 DEF EngineUnsettled, Settled, NewRecord
<1> HIDE DEF rec
<1>3. \A q \in Run : q # r => /\ file'[q] = file[q] /\ call'[q] = call[q]
                             /\ mem'[q] = mem[q] /\ mode'[q] = mode[q]
  BY <1>1 DEF SourceInv, TypeOK
<1>4. file'[r] = rec /\ call'[r] \notin Linking
  BY <1>1 DEF SourceInv, TypeOK, Linking
<1>5. OutcomesKept
  BY <1>2, <1>3, <1>4 DEF OutcomesKept
<1>6. CallsEnd
  BY <1>1, <1>3 DEF CallsEnd, Exists, Live, AtWork
<1>7. CopiesKept
  BY <1>3, <1>4 DEF CopiesKept
<1>8. \A q \in Run : Exists(q) => file'[q] = file[q]
  BY <1>1, <1>3
<1> QED BY <1>5, <1>6, <1>7, <1>8

LEMMA ReconcileOutcomes ==
  ASSUME SourceInv, Alone, NEW s \in Scan, Reconcile(s)
  PROVE  /\ OutcomesKept /\ CallsEnd /\ CopiesKept
         /\ \A p \in stale'[s] : file'[p[1]] = file[p[1]]
<1>1. PICK p \in stale[s] :
        \E retryable \in BOOLEAN :
          /\ Write(p[1], Reconciled(p[2], retryable))
          /\ stale' = [stale EXCEPT ![s] = @ \ {p}]
  BY DEF Reconcile
<1> PICK b \in BOOLEAN : /\ Write(p[1], Reconciled(p[2], b))
                         /\ stale' = [stale EXCEPT ![s] = @ \ {p}]
  BY <1>1
<1>2. p[1] \in Run /\ p[2] \in Record /\ p[2] = file[p[1]]
  BY DEF SourceInv, TypeOK, Alone
<1>3. /\ Reconciled(p[2], b).recovered = p[2].recovered
      /\ Reconciled(p[2], b).escalated = p[2].escalated
  BY <1>2 DEF Reconciled, Record
<1>4. file' = [file EXCEPT ![p[1]] = Reconciled(p[2], b)]
  BY DEF Write
<1>5. OutcomesKept
  BY <1>2, <1>3, <1>4 DEF OutcomesKept, SourceInv, TypeOK
<1>6. \A q \in stale'[s] : q[1] # p[1]
  <2>1. \A q \in stale[s] : q \in Run \X Record /\ q[2] = file[q[1]]
    BY DEF SourceInv, TypeOK, Alone
  <2>2. \A q \in stale[s] : q[1] = p[1] => q = p
    BY <2>1
  <2> QED BY <2>2 DEF SourceInv, TypeOK
<1>7. \A q \in stale'[s] : q[1] \in Run
  BY DEF SourceInv, TypeOK
<1>8. CallsEnd /\ CopiesKept
  BY ReconcileSources, SameCalls DEF Reconcile, KeepsSources
<1> QED BY <1>4, <1>5, <1>6, <1>7, <1>8 DEF SourceInv, TypeOK

LEMMA AskedKept ==
  ASSUME SourceInv, SourceInv', AskedAtMostOnce, UNCHANGED blockers, faults' >= faults,
         LossesNoted,
         \A r \in Run : Asking(r) => Asking(r)' \/ file'[r].escalated \/ faults' = faults + 1
  PROVE  AskedAtMostOnce'
<1> SUFFICES ASSUME NEW r \in Run
             PROVE  blockers[r] <= Requests(r)'
  BY DEF AskedAtMostOnce
<1> DEFINE before == IF file[r].escalated \/ Asking(r) THEN 1 ELSE 0
           after == IF file'[r].escalated \/ Asking(r)' THEN 1 ELSE 0
           lost == IF r \in erased THEN 1 ELSE 0
           lostNow == IF r \in erased' THEN 1 ELSE 0
<1>1. blockers[r] \in Nat /\ faults \in Nat /\ faults' \in Nat
  BY DEF SourceInv, TypeOK
<1>2. blockers[r] <= before + faults + lost
  BY DEF AskedAtMostOnce, Requests
<1>3. \/ before <= after /\ lost <= lostNow
      \/ lostNow = lost + 1
      \/ faults' = faults + 1 /\ lost <= lostNow
  BY DEF LossesNoted
<1>4. before \in 0 .. 1 /\ after \in 0 .. 1 /\ lost \in 0 .. 1 /\ lostNow \in 0 .. 1
  OBVIOUS
<1>5. Requests(r)' = after + faults' + lostNow
  BY DEF Requests
<1> HIDE DEF before, after, lost, lostNow
<1> QED BY <1>1, <1>2, <1>3, <1>4, <1>5

LEMMA SameLosses ==
  ASSUME OutcomesKept, UNCHANGED erased
  PROVE  LossesNoted /\ OutcomesFade
  BY DEF OutcomesKept, LossesNoted, OutcomesFade

(* A step of a run, of time, or none at all. *)
LEMMA QuietAlone ==
  ASSUME SourceInv, SourceInv', ReasonInv, Alone, AskedAtMostOnce,
         OutcomesFade, LossesNoted, CallsEnd, CopiesHonest', ErasedIsOver',
         UNCHANGED <<scanVars, blockers>>, faults' >= faults,
         \A r \in Run : Exists(r) /\ ~Live(r) => file'[r] = file[r]
  PROVE  Alone' /\ AskedAtMostOnce'
<1> USE DEF scanVars
<1>1. \A r \in Run : Settled(r)' => Settled(r)
  BY DEF OutcomesFade, Settled
<1>2. \A r \in Run : Settled(r) => Exists(r)
  BY DEF ReasonInv, EngineUnsettled
<1>3. \A r \in Run : Settled(r)' => ~AtWork(r)'
  BY <1>1, <1>2 DEF Alone, CallsEnd
<1>4. \A s \in Scan : \A p \in stale[s] : p[2] = file'[p[1]] /\ ~Live(p[1])'
  BY DEF Alone, CallsEnd, SourceInv, SourcesKept, TypeOK
<1>5. \A s \in Scan : \A k \in todo[s] : k.run \in Run
  BY DEF SourceInv, TypeOK, Candidate, CandidatesOriginal
<1>6. \A s \in Scan : at[s] \in {"request", "await"} =>
        doing[s].run \in Run /\ Exists(doing[s].run)
  BY DEF SourceInv, CandidatesOriginal, Candidate
<1>7. \A s \in Scan : \A k \in todo[s] :
        ~file'[k.run].recovered /\ ~file'[k.run].escalated
  BY <1>1, <1>5 DEF Alone, Settled
<1>8. \A s \in Scan : at[s] \in {"request", "await"} =>
        /\ ~file'[doing[s].run].recovered /\ ~file'[doing[s].run].escalated
        /\ Working(call'[doing[s].run], mode'[doing[s].run]) => FALSE
  BY <1>1, <1>6 DEF Alone, CallsEnd, Settled, AtWork, Live, Working
<1>9. Alone'
  BY <1>3, <1>4, <1>7, <1>8 DEF Alone, Settled, AtWork, Live, Working
<1>10. \A r \in Run : Asking(r)' <=> Asking(r)
  BY DEF Asking
<1> QED BY <1>9, <1>10, AskedKept

(* A step of the only scan that settles nothing. *)
LEMMA ScanAlone ==
  ASSUME SourceInv, SourceInv', ReasonInv, Alone,
         OutcomesKept, CallsEnd, CopiesKept, UNCHANGED erased,
         NEW s \in Scan, OneScanner,
         at'[s] # "reconcile" => stale'[s] = {},
         \A p \in stale'[s] : p[2] = file'[p[1]] /\ Exists(p[1]) /\ ~Live(p[1]),
         \A k \in todo'[s] : k.run \in Run /\ ~Settled(k.run),
         at'[s] \in {"request", "await"} =>
           /\ doing'[s].run \in Run /\ Exists(doing'[s].run)
           /\ ~Settled(doing'[s].run) /\ ~AtWork(doing'[s].run)
           /\ \A k \in todo'[s] : k.run # doing'[s].run
  PROVE  Alone'
<1>0. \A t \in Scan : t = s
  BY DEF OneScanner
<1>1. \A r \in Run : Settled(r)' <=> Settled(r)
  BY DEF OutcomesKept, Settled
<1>2. \A r \in Run : Settled(r)' => ~AtWork(r)'
  BY <1>1 DEF Alone, CallsEnd, ReasonInv, EngineUnsettled
<1>3. \A p \in stale'[s] : p[2] = file'[p[1]] /\ ~Live(p[1])'
  BY DEF CallsEnd, SourceInv, TypeOK
<1>4. \A k \in todo'[s] : ~file'[k.run].recovered /\ ~file'[k.run].escalated
  BY <1>1 DEF Settled
<1>5. at'[s] \in {"request", "await"} =>
        /\ ~file'[doing'[s].run].recovered /\ ~file'[doing'[s].run].escalated
        /\ Working(call'[doing'[s].run], mode'[doing'[s].run]) => FALSE
  BY <1>1 DEF CallsEnd, Settled, AtWork, Live, Working
<1>6. CopiesHonest' /\ ErasedIsOver'
  BY CopiesStayHonest, ErasedStaysOver DEF Alone, SourceInv
<1> QED BY <1>0, <1>2, <1>3, <1>4, <1>5, <1>6 DEF Alone, Settled, AtWork, Live, Working

(* The candidate the only scan takes up. *)
LEMMA TakenCandidate ==
  ASSUME SourceInv, AttemptInv, OverInv, Alone, OneScanner, overtaken = {},
         NEW s \in Scan, NEW k \in todo[s], at[s] = "work"
  PROVE  /\ k.run \in Run /\ Exists(k.run) /\ ~Settled(k.run) /\ ~AtWork(k.run)
         /\ \A l \in todo[s] \ {k} : l.run \in Run /\ ~Settled(l.run) /\ l.run # k.run
         /\ \A r \in Run : ~Asking(r)
<1>1. \A l \in todo[s] : l.run \in Run /\ Exists(l.run) /\ ~Settled(l.run) /\ ~AtWork(l.run)
  BY DEF SourceInv, TypeOK, Candidate, CandidatesOriginal, Alone, OverInv, CandidateIsOver
<1>2. \A l \in todo[s] \ {k} : l.run # k.run
  BY DEF AttemptInv, SourcesFree
<1>3. \A r \in Run : ~Asking(r)
  BY DEF Asking, OneScanner
<1> QED BY <1>1, <1>2, <1>3

LEMMA BeginScanAlone ==
  ASSUME SourceInv, SourceInv', ReasonInv, Alone, AskedAtMostOnce, OneScanner,
         overtaken' = {}, NEW s \in Scan, BeginScan(s)
  PROVE  Alone' /\ AskedAtMostOnce'
<1> USE DEF BeginScan, engineVars
<1>1. OutcomesKept /\ CallsEnd /\ CopiesKept /\ LossesNoted
  BY SameOutcomes, SameCalls, SameLosses DEF Exists
<1>2. at'[s] = "reconcile"
  BY DEF SourceInv, TypeOK
<1>3. \A p \in stale'[s] : p[2] = file'[p[1]] /\ Exists(p[1]) /\ ~Live(p[1])
  <2>1. \A p \in stale'[s] : p[1] \in Run /\ p[2] = file[p[1]] /\ IsStale(p[1])
    BY DEF SourceInv, TypeOK
  <2>2. \A r \in Run : IsStale(r) => ~Live(r) /\ Exists(r)
    BY DEF IsStale, NonTerminal, Exists
  <2> QED BY <2>1, <2>2
<1>4. \A k \in todo'[s] : k.run \in Run /\ ~Settled(k.run)
  BY DEF Alone, SourceInv, TypeOK, Candidate, CandidatesOriginal
<1>5. Alone'
  BY <1>1, <1>2, <1>3, <1>4, ScanAlone
<1>6. \A r \in Run : Asking(r) => Asking(r)'
  BY DEF Asking, SourceInv, TypeOK
<1> QED BY <1>1, <1>5, <1>6, AskedKept DEF SourceInv, TypeOK

LEMMA ReconcileAlone ==
  ASSUME SourceInv, SourceInv', ReasonInv, Alone, AskedAtMostOnce, OneScanner,
         NEW s \in Scan, Reconcile(s)
  PROVE  Alone' /\ AskedAtMostOnce'
<1>1. /\ OutcomesKept /\ CallsEnd /\ CopiesKept
      /\ \A p \in stale'[s] : file'[p[1]] = file[p[1]]
  BY ReconcileOutcomes
<1>2. /\ UNCHANGED <<at, todo, doing, blockers, faults, erased>>
      /\ at[s] = "reconcile" /\ stale'[s] \subseteq stale[s]
  BY DEF Reconcile, SourceInv, TypeOK
<1>3. \A p \in stale'[s] : p[2] = file'[p[1]] /\ Exists(p[1]) /\ ~Live(p[1])
  BY <1>1, <1>2 DEF Alone, SourceInv, SourcesKept
<1>4. \A k \in todo'[s] : k.run \in Run /\ ~Settled(k.run)
  BY <1>2 DEF Alone, SourceInv, TypeOK, Candidate, CandidatesOriginal
<1>5. Alone'
  BY <1>1, <1>2, <1>3, <1>4, ScanAlone
<1>6. \A r \in Run : Asking(r) => Asking(r)'
  BY <1>2 DEF Asking
<1> QED BY <1>1, <1>2, <1>5, <1>6, AskedKept, SameLosses DEF SourceInv, TypeOK

LEMMA ListCandidatesAlone ==
  ASSUME SourceInv, SourceInv', ReasonInv, Alone, AskedAtMostOnce, OneScanner,
         NEW s \in Scan, ListCandidates(s)
  PROVE  Alone' /\ AskedAtMostOnce'
<1> USE DEF ListCandidates, engineVars
<1>1. OutcomesKept /\ CallsEnd /\ CopiesKept /\ LossesNoted
  BY SameOutcomes, SameCalls, SameLosses DEF Exists
<1>2. at'[s] = "work" /\ stale'[s] = {}
  BY DEF SourceInv, TypeOK
<1>3. \A k \in todo'[s] : k.run \in Run /\ ~Settled(k.run)
  <2>1. todo'[s] = {CandidateOf(r) : r \in {q \in Run : Eligible(q)}}
    BY DEF SourceInv, TypeOK
  <2>2. \A r \in Run : CandidateOf(r).run = r /\ (Eligible(r) => ~Settled(r))
    BY DEF CandidateOf, Eligible, Settled
  <2> QED BY <2>1, <2>2
<1>4. Alone'
  BY <1>1, <1>2, <1>3, ScanAlone
<1>5. \A r \in Run : ~Asking(r)
  BY DEF Asking, OneScanner
<1> QED BY <1>1, <1>4, <1>5, AskedKept DEF SourceInv, TypeOK

LEMMA RequestApprovalAlone ==
  ASSUME SourceInv, SourceInv', AttemptInv, OverInv, ReasonInv, Alone, AskedAtMostOnce,
         OneScanner, overtaken = {}, NEW s \in Scan, RequestApproval(s)
  PROVE  Alone' /\ AskedAtMostOnce'
<1> USE DEF RequestApproval, engineVars
<1>1. OutcomesKept /\ CallsEnd /\ CopiesKept /\ LossesNoted
  BY SameOutcomes, SameCalls, SameLosses DEF Exists
<1>2. PICK k \in todo[s] :
        /\ todo' = [todo EXCEPT ![s] = @ \ {k}]
        /\ doing' = [doing EXCEPT ![s] = k]
        /\ blockers' = [blockers EXCEPT ![k.run] = @ + 1]
  OBVIOUS
<1>3. /\ k.run \in Run /\ Exists(k.run) /\ ~Settled(k.run) /\ ~AtWork(k.run)
      /\ \A l \in todo[s] \ {k} : l.run \in Run /\ ~Settled(l.run) /\ l.run # k.run
      /\ \A r \in Run : ~Asking(r)
  BY TakenCandidate
<1>4. /\ at'[s] = "request" /\ doing'[s] = k /\ todo'[s] = todo[s] \ {k}
      /\ stale'[s] = {}
  BY <1>2 DEF SourceInv, TypeOK, Alone
<1>5. Alone'
  BY <1>1, <1>3, <1>4, ScanAlone
<1>6. Asking(k.run)'
  BY <1>4 DEF Asking
<1>7. \A r \in Run : blockers'[r] = IF r = k.run THEN blockers[r] + 1 ELSE blockers[r]
  BY <1>2 DEF SourceInv, TypeOK
<1>8. AskedAtMostOnce'
  <2> SUFFICES ASSUME NEW r \in Run
               PROVE  blockers'[r] <= Requests(r)'
    BY DEF AskedAtMostOnce
  <2>1. /\ blockers[r] \in Nat /\ faults \in Nat
        /\ UNCHANGED <<faults, file, erased>>
    BY DEF SourceInv, TypeOK
  <2>2. /\ blockers[r] <= Requests(r) /\ ~Asking(r)
        /\ r = k.run => ~file[r].escalated
    BY <1>3 DEF AskedAtMostOnce, Settled
  <2>3. CASE r = k.run
    BY <1>6, <1>7, <2>1, <2>2, <2>3 DEF Requests
  <2>4. CASE r # k.run
    BY <1>7, <2>1, <2>2, <2>4 DEF Requests
  <2> QED BY <2>3, <2>4
<1> QED BY <1>5, <1>8

LEMMA PassOnAlone ==
  ASSUME SourceInv, SourceInv', ReasonInv, Alone, AskedAtMostOnce, OneScanner,
         NEW s \in Scan, SkipCandidate(s) \/ EndScan(s)
  PROVE  Alone' /\ AskedAtMostOnce'
<1>1. UNCHANGED <<file, mem, call, mode, stale, doing, blockers, faults, erased>>
  BY DEF SkipCandidate, EndScan, engineVars
<1>2. OutcomesKept /\ CallsEnd /\ CopiesKept /\ LossesNoted
  BY <1>1, SameOutcomes, SameCalls, SameLosses DEF Exists
<1>3. /\ at[s] = "work" /\ at'[s] \in {"work", "idle"} /\ todo'[s] \subseteq todo[s]
      /\ stale'[s] = {}
  BY <1>1 DEF SkipCandidate, EndScan, Alone, SourceInv, TypeOK
<1>4. \A k \in todo'[s] : k.run \in Run /\ ~Settled(k.run)
  BY <1>3 DEF Alone, SourceInv, TypeOK, Candidate, CandidatesOriginal
<1>5. Alone'
  BY <1>1, <1>2, <1>3, <1>4, ScanAlone
<1>6. \A r \in Run : ~Asking(r)
  BY <1>3 DEF Asking, OneScanner
<1> QED BY <1>1, <1>2, <1>5, <1>6, AskedKept DEF SourceInv, TypeOK

LEMMA StartChildAlone ==
  ASSUME SourceInv, SourceInv', AttemptInv, OverInv, ReasonInv, Alone, AskedAtMostOnce,
         OneScanner, overtaken = {}, NEW s \in Scan, NEW c \in Run, StartChild(s, c)
  PROVE  Alone' /\ AskedAtMostOnce' /\ OutcomesKept
<1>1. PICK k \in todo[s], how \in {"project", "coordinator"} :
        /\ StartRun(c, how, k.run, k.attempts + 1)
        /\ todo' = [todo EXCEPT ![s] = @ \ {k}]
        /\ doing' = [doing EXCEPT ![s] = k]
  BY DEF StartChild
<1>2. /\ at[s] = "work" /\ at' = [at EXCEPT ![s] = "await"]
      /\ UNCHANGED <<stale, blockers, faults, erased>>
  BY DEF StartChild
<1>3. /\ k.run \in Run /\ Exists(k.run) /\ ~Settled(k.run) /\ ~AtWork(k.run)
      /\ \A l \in todo[s] \ {k} : l.run \in Run /\ ~Settled(l.run) /\ l.run # k.run
      /\ \A r \in Run : ~Asking(r)
  BY <1>2, TakenCandidate
<1>4. OutcomesKept /\ CallsEnd /\ CopiesKept
  <2>1. k.run \in Run \cup {NoRun} /\ k.attempts + 1 \in Nat
    BY <1>3 DEF SourceInv, TypeOK, Candidate
  <2> QED BY <1>1, <2>1, StartOutcomes DEF ReasonInv
<1>5. /\ at'[s] = "await" /\ doing'[s] = k /\ todo'[s] = todo[s] \ {k}
      /\ stale'[s] = {}
  BY <1>1, <1>2 DEF SourceInv, TypeOK, Alone
<1>6. Alone'
  BY <1>2, <1>3, <1>4, <1>5, ScanAlone
<1> QED BY <1>2, <1>3, <1>4, <1>6, AskedKept, SameLosses DEF SourceInv, TypeOK

(* The settlement of the candidate that was taken up. *)
LEMMA PatchAlone ==
  ASSUME SourceInv, SourceInv', ReasonInv, Alone, OneScanner, NEW s \in Scan,
         PatchEscalated(s) \/ PatchParent(s)
  PROVE  Alone'
<1>1. /\ UNCHANGED <<mem, call, mode, stale, todo, erased>>
      /\ at[s] \in {"request", "await"} /\ at'[s] = "work"
  BY DEF PatchEscalated, PatchParent, SourceInv, TypeOK
<1>2. /\ doing[s].run \in Run /\ ~AtWork(doing[s].run)
      /\ \A k \in todo[s] : k.run \in Run /\ k.run # doing[s].run /\ ~Settled(k.run)
      /\ ~Settled(doing[s].run) /\ stale[s] = {}
  BY <1>1 DEF SourceInv, TypeOK, Candidate, CandidatesOriginal, Alone
<1>3. \A r \in Run : r # doing[s].run => file'[r] = file[r]
  BY DEF PatchEscalated, PatchParent, Write, SourceInv, TypeOK
<1>4. \A t \in Scan : t = s
  BY DEF OneScanner
<1>5. \A r \in Run : Settled(r)' => ~AtWork(r)'
  BY <1>1, <1>2, <1>3 DEF Alone, Settled, AtWork, Live
<1>6. \A k \in todo'[s] : ~file'[k.run].recovered /\ ~file'[k.run].escalated
  BY <1>1, <1>2, <1>3 DEF Settled
<1>7. CopiesHonest'
  BY <1>1, <1>2, <1>3 DEF Alone, CopiesHonest, Settled
<1>8. ErasedIsOver'
  <2>1. KeepsSources
    BY PatchEscalatedSources, PatchParentSources
  <2> QED BY <1>1, <2>1, SameCalls, ErasedStaysOver DEF KeepsSources, Alone, SourceInv
<1> QED BY <1>1, <1>2, <1>4, <1>5, <1>6, <1>7, <1>8 DEF Alone, Settled, AtWork, Live

LEMMA PatchEscalatedAlone ==
  ASSUME SourceInv, SourceInv', ReasonInv, Alone, AskedAtMostOnce, OneScanner,
         NEW s \in Scan, PatchEscalated(s)
  PROVE  Alone' /\ AskedAtMostOnce'
<1> DEFINE k == doing[s]
           rec == [file[k.run] EXCEPT !.attempts = k.attempts, !.escalated = TRUE]
<1>1. k.run \in Run /\ file[k.run] \in Record
  BY DEF PatchEscalated, SourceInv, CandidatesOriginal, Candidate, TypeOK
<1>2. file' = [file EXCEPT ![k.run] = rec] /\ UNCHANGED <<blockers, faults, erased>>
  BY DEF PatchEscalated, Write
<1>3. rec.escalated
  BY <1>1 DEF Record
<1>4. \A r \in Run : Asking(r) => r = k.run
  BY DEF Asking, OneScanner
<1>5. file'[k.run].escalated /\ \A r \in Run : r # k.run => file'[r] = file[r]
  <2> HIDE DEF rec
  <2> QED BY <1>1, <1>2, <1>3 DEF SourceInv, TypeOK
<1>6. LossesNoted
  BY <1>2, <1>5 DEF LossesNoted
<1> QED BY <1>2, <1>4, <1>5, <1>6, PatchAlone, AskedKept DEF SourceInv, TypeOK

LEMMA PatchParentAlone ==
  ASSUME SourceInv, SourceInv', ReasonInv, Alone, AskedAtMostOnce, OneScanner,
         NEW s \in Scan, PatchParent(s)
  PROVE  Alone' /\ AskedAtMostOnce'
<1> DEFINE k == doing[s]
           b == file[k.run].recovered \/ call[child[s]] = "good"
           rec == [file[k.run] EXCEPT !.attempts = k.attempts + 1, !.recovered = b]
<1>1. k.run \in Run /\ file[k.run] \in Record
  BY DEF PatchParent, SourceInv, CandidatesOriginal, Candidate, TypeOK
<1>2. file' = [file EXCEPT ![k.run] = rec] /\ UNCHANGED <<blockers, faults, erased>>
  BY <1>1 DEF PatchParent, Write, Record
<1>3. rec.escalated = file[k.run].escalated
  <2> HIDE DEF b
  <2> QED BY <1>1 DEF Record
<1>4. \A r \in Run : ~Asking(r)
  BY DEF PatchParent, Asking, OneScanner
<1>5. \A r \in Run : file[r].escalated => file'[r].escalated
  <2> HIDE DEF rec
  <2> QED BY <1>1, <1>2, <1>3 DEF SourceInv, TypeOK
<1>6. LossesNoted
  BY <1>2, <1>5 DEF LossesNoted
<1> QED BY <1>2, <1>4, <1>6, PatchAlone, AskedKept DEF SourceInv, TypeOK

LEMMA GiveUpAlone ==
  ASSUME SourceInv, SourceInv', ReasonInv, Alone, AskedAtMostOnce, OneScanner,
         NEW s \in Scan, ChildThrows(s) \/ ScanDies(s)
  PROVE  Alone' /\ AskedAtMostOnce'
<1>1. /\ UNCHANGED <<file, mem, mode, blockers, erased>>
      /\ faults' = faults + 1 /\ Abandon(s)
  BY DEF ChildThrows, ScanDies, Throw
<1>2. \A r \in Run : call'[r] = call[r] \/ call'[r] \in Over
  BY DEF ChildThrows, ScanDies, Throw, Goto, SourceInv, TypeOK, Over
<1>3. OutcomesKept /\ CallsEnd /\ CopiesKept /\ LossesNoted
  BY <1>1, <1>2, SameOutcomes, EndedCalls, SameLosses
<1>4. at'[s] = "idle" /\ stale'[s] = {} /\ todo'[s] = {}
  BY <1>1 DEF Abandon, SourceInv, TypeOK
<1>5. Alone'
  BY <1>1, <1>3, <1>4, ScanAlone
<1> QED BY <1>1, <1>3, <1>5, AskedKept DEF SourceInv, TypeOK

(* What a step does to the settlements, but for the two patches and a link *)
(* that takes one back.                                                    *)
LEMMA AloneStep ==
  ASSUME SourceInv, SourceInv', AttemptInv, OverInv, ReasonInv, Alone, AskedAtMostOnce,
         OneScanner, overtaken' = {}, [Next]_vars
  PROVE  /\ Alone' /\ AskedAtMostOnce'
         /\ erased' = erased =>
              OutcomesKept \/ \E s \in Scan : PatchEscalated(s) \/ PatchParent(s)
<1>1. ASSUME NEW r \in Run, StartOriginal(r)
      PROVE  Alone' /\ AskedAtMostOnce' /\ OutcomesKept
  <2>1. PICK how \in {"dispatcher", "project"} : StartRun(r, how, NoRun, 0)
    BY <1>1 DEF StartOriginal
  <2>2. /\ OutcomesKept /\ CallsEnd /\ CopiesKept
        /\ \A q \in Run : Exists(q) => file'[q] = file[q]
    BY <2>1, StartOutcomes DEF ReasonInv, NoRun
  <2>3. UNCHANGED <<scanVars, blockers, faults, erased>>
    BY <1>1 DEF StartOriginal
  <2>4. LossesNoted /\ OutcomesFade /\ CopiesHonest' /\ ErasedIsOver'
    BY <2>2, <2>3, SameLosses, CopiesStayHonest, ErasedStaysOver DEF Alone, SourceInv
  <2> QED BY <2>2, <2>3, <2>4, QuietAlone DEF SourceInv, TypeOK
<1>2. ASSUME NEW r \in Run, RunStep(r)
      PROVE  Alone' /\ AskedAtMostOnce' /\ (erased' = erased => OutcomesKept)
  <2>1. /\ OutcomesFade /\ LossesNoted /\ CallsEnd /\ CopiesHonest' /\ ErasedIsOver'
        /\ erased' = erased => OutcomesKept
        /\ \A q \in Run : Exists(q) /\ ~Live(q) => file'[q] = file[q]
    BY <1>2, RunStepOutcomes DEF ReasonInv
  <2>2. UNCHANGED <<scanVars, blockers, faults>>
    BY <1>2 DEF RunStep
  <2> QED BY <2>1, <2>2, QuietAlone DEF SourceInv, TypeOK
<1>3. ASSUME NEW r \in Run, FailOriginal(r)
      PROVE  Alone' /\ AskedAtMostOnce' /\ OutcomesKept
  <2>1. UNCHANGED <<file, mem, mode, scanVars, blockers, erased>> /\ faults' = faults + 1
    BY <1>3 DEF FailOriginal
  <2>2. \A q \in Run : call'[q] = call[q] \/ call'[q] \in Over
    BY <1>3 DEF FailOriginal, Goto, SourceInv, TypeOK, Over
  <2>3. /\ OutcomesKept /\ CallsEnd /\ LossesNoted /\ OutcomesFade
        /\ CopiesHonest' /\ ErasedIsOver'
    BY <2>1, <2>2, SameOutcomes, EndedCalls, SameLosses, CopiesStayHonest, ErasedStaysOver
    DEF Alone, SourceInv
  <2> QED BY <2>1, <2>3, QuietAlone DEF SourceInv, TypeOK
<1>4. ASSUME UNCHANGED <<file, mem, call, mode, scanVars, blockers, faults, erased>>
      PROVE  Alone' /\ AskedAtMostOnce' /\ OutcomesKept
  <2>1. /\ OutcomesKept /\ CallsEnd /\ LossesNoted /\ OutcomesFade
        /\ CopiesHonest' /\ ErasedIsOver'
    BY <1>4, SameOutcomes, SameCalls, SameLosses, CopiesStayHonest, ErasedStaysOver
    DEF Alone, SourceInv, Exists
  <2> QED BY <1>4, <2>1, QuietAlone DEF SourceInv, TypeOK
<1>5. ASSUME NEW s \in Scan, ScanStep(s)
      PROVE  /\ Alone' /\ AskedAtMostOnce'
             /\ OutcomesKept \/ PatchEscalated(s) \/ PatchParent(s)
  <2>1. overtaken = {}
    BY <1>5 DEF ScanStep, BeginScan, Reconcile, ListCandidates, RequestApproval,
                PatchEscalated, SkipCandidate, StartChild, PatchParent, EndScan
  <2>2. CASE BeginScan(s)
    BY <2>2, BeginScanAlone, SameOutcomes DEF BeginScan, engineVars
  <2>3. CASE Reconcile(s)
    BY <2>3, ReconcileAlone, ReconcileOutcomes
  <2>4. CASE ListCandidates(s)
    BY <2>4, ListCandidatesAlone, SameOutcomes DEF ListCandidates, engineVars
  <2>5. CASE RequestApproval(s)
    BY <2>1, <2>5, RequestApprovalAlone, SameOutcomes DEF RequestApproval, engineVars
  <2>6. CASE SkipCandidate(s) \/ EndScan(s)
    BY <2>6, PassOnAlone, SameOutcomes DEF SkipCandidate, EndScan, engineVars
  <2>7. CASE PatchEscalated(s)
    BY <2>7, PatchEscalatedAlone
  <2>8. CASE PatchParent(s)
    BY <2>8, PatchParentAlone
  <2>9. ASSUME NEW c \in Run, StartChild(s, c)
        PROVE  Alone' /\ AskedAtMostOnce' /\ OutcomesKept
    BY <2>1, <2>9, StartChildAlone
  <2> QED BY <1>5, <2>2, <2>3, <2>4, <2>5, <2>6, <2>7, <2>8, <2>9 DEF ScanStep
<1>6. ASSUME NEW s \in Scan, ChildThrows(s) \/ ScanDies(s)
      PROVE  Alone' /\ AskedAtMostOnce' /\ OutcomesKept
  BY <1>6, GiveUpAlone, SameOutcomes DEF ChildThrows, ScanDies, Throw
<1>7. CASE Tick /\ UNCHANGED <<scanVars, blockers, triage, faults, overtaken, erased>>
  BY <1>4, <1>7 DEF Tick
<1>8. CASE UNCHANGED vars
  BY <1>4, <1>8 DEF vars, engineVars
<1> QED BY <1>1, <1>2, <1>3, <1>5, <1>6, <1>7, <1>8 DEF Next

LEMMA OvertakenGrows ==
  ASSUME [Next]_vars
  PROVE  overtaken \subseteq overtaken'
<1>1. ASSUME NEW r \in Run, StartOriginal(r) \/ RunStep(r) \/ FailOriginal(r)
      PROVE  overtaken' = overtaken
  BY <1>1 DEF StartOriginal, RunStep, FailOriginal
<1>2. ASSUME NEW s \in Scan, ScanStep(s)
      PROVE  overtaken \subseteq overtaken'
  BY <1>2 DEF ScanStep, BeginScan, Reconcile, ListCandidates, RequestApproval,
              PatchEscalated, SkipCandidate, StartChild, PatchParent, EndScan
<1>3. ASSUME NEW s \in Scan, ChildThrows(s) \/ ScanDies(s)
      PROVE  overtaken' = overtaken
  BY <1>3 DEF ChildThrows, ScanDies
<1> QED BY <1>1, <1>2, <1>3 DEF Next, vars

LEMMA StepAlone ==
  ASSUME SourceInv, SourceInv', AttemptInv, OverInv, ReasonInv, AloneInv, [Next]_vars
  PROVE  AloneInv'
<1> SUFFICES ASSUME OneScanner, overtaken' = {}
             PROVE  Alone' /\ AskedAtMostOnce'
  BY DEF AloneInv, OneScanner
<1>1. overtaken = {}
  BY OvertakenGrows
<1> QED BY <1>1, AloneStep DEF AloneInv

RetryInv == SourceInv /\ AttemptInv /\ OverInv /\ ReasonInv /\ AloneInv

LEMMA AlwaysRetryInv == Spec => []RetryInv
<1>1. Init => RetryInv
  BY InitSourceInv, InitOver, InitReasons DEF RetryInv
<1>2. RetryInv /\ [Next]_vars => RetryInv'
  BY StepSources, StepAttempts, StepOver, StepReasons, StepAlone DEF RetryInv
<1> QED BY <1>1, <1>2, PTL DEF Spec

(* A run says recovered only when a child of it did all its work, and      *)
(* escalated only when the owner was asked - once, if one caller scans and *)
(* no run was given up under its call, once more for each crash, and once  *)
(* more if the link of the run's own decision took the escalation back.    *)
THEOREM SettledWithReason == Spec => []SettledForAReason
<1>1. RetryInv => SettledForAReason
  <2> SUFFICES ASSUME RetryInv, NEW r \in Run
               PROVE  /\ file[r].recovered => \E c \in Children(r) : call[c] = "good"
                      /\ file[r].escalated => blockers[r] > 0
                      /\ OneScanner /\ overtaken = {} =>
                           blockers[r] <= 1 + faults + (IF r \in erased THEN 1 ELSE 0)
    BY DEF SettledForAReason
  <2>1. HasReason(r, file[r])
    BY DEF RetryInv, ReasonInv, Reasons
  <2>2. ASSUME OneScanner, overtaken = {}
        PROVE  blockers[r] <= 1 + faults + (IF r \in erased THEN 1 ELSE 0)
    <3>1. AskedAtMostOnce /\ blockers[r] \in Nat /\ faults \in Nat
      BY <2>2 DEF RetryInv, AloneInv, SourceInv, TypeOK
    <3>2. blockers[r] <= Requests(r)
      BY <3>1 DEF AskedAtMostOnce
    <3> QED BY <3>1, <3>2 DEF Requests
  <2> QED BY <2>1, <2>2 DEF HasReason, Succeeded
<1> QED BY <1>1, AlwaysRetryInv, PTL

-----------------------------------------------------------------------------
(***************************************************************************)
(* The scan implements BoundedRetry.                                       *)
(*                                                                         *)
(* Each step is one of the contract's or leaves both of its variables      *)
(* alone: only StartChild adds a child, of a candidate that is open; the   *)
(* patches settle the candidate that was taken up, which is open, too; and *)
(* no other step changes an outcome (AloneStep), except the link that      *)
(* enters a run in `erased`.  The attempts are bounded because they are    *)
(* distinct and every one of them is between 1 and MaxAttempts.            *)
(***************************************************************************)

AttemptsPositive == \A c \in Run : IsChild(c) => file[c].attempt > 0

(* Only the two ways to start a run touch a source. *)
LEMMA SourcesStep ==
  ASSUME SourceInv, [Next]_vars
  PROVE  \/ KeepsSources
         \/ \E r \in Run : StartOriginal(r)
         \/ \E s \in Scan, c \in Run : StartChild(s, c)
<1>1. ASSUME NEW r \in Run, RunStep(r) \/ FailOriginal(r) PROVE KeepsSources
  BY <1>1, RunStepSources, FailOriginalSources
<1>2. ASSUME NEW s \in Scan, ScanStep(s)
      PROVE  KeepsSources \/ \E c \in Run : StartChild(s, c)
  BY <1>2, BeginScanSources, ReconcileSources, ListCandidatesSources,
     RequestApprovalSources, PatchEscalatedSources, SkipCandidateSources,
     PatchParentSources, EndScanSources DEF ScanStep
<1>3. ASSUME NEW s \in Scan, ChildThrows(s) \/ ScanDies(s) PROVE KeepsSources
  BY <1>3, ChildThrowsSources, ScanDiesSources
<1>4. CASE Tick \/ UNCHANGED vars
  BY <1>4, UnchangedKeepsSources DEF Tick, vars, engineVars
<1> QED BY <1>1, <1>2, <1>3, <1>4 DEF Next

(* What a new child does to the families. *)
LEMMA StartChildFamily ==
  ASSUME SourceInv, NEW s \in Scan, NEW c \in Run, NEW k \in todo[s],
         NEW how \in {"project", "coordinator"},
         StartRun(c, how, k.run, k.attempts + 1)
  PROVE  /\ k.run \in Run /\ c \notin Children(k.run)
         /\ Children(k.run)' = Children(k.run) \cup {c}
         /\ \A r \in Run : r # k.run => Children(r)' = Children(r)
         /\ file'[c].attempt = k.attempts + 1 /\ k.attempts \in Nat
         /\ \A d \in Run : d # c => file'[d] = file[d]
<1>1. k.run \in Run /\ k.attempts \in Nat
  BY DEF SourceInv, TypeOK, Candidate, CandidatesOriginal
<1>2. ~Exists(c) /\ file' = [file EXCEPT ![c] = NewRecord(k.run, k.attempts + 1)]
  BY DEF StartRun, IsNewId, Persist, Write
<1>3. /\ file'[c].status = "created" /\ file'[c].parent = k.run
      /\ file'[c].attempt = k.attempts + 1
  BY <1>2 DEF SourceInv, TypeOK, NewRecord
<1>4. \A d \in Run : d # c => file'[d] = file[d]
  BY <1>2 DEF SourceInv, TypeOK
<1>5. \A r \in Run : c \notin Children(r)
  BY <1>2 DEF Children, Created
<1>6. \A r \in Run : Children(r)' = IF r = k.run THEN Children(r) \cup {c} ELSE Children(r)
  <2> SUFFICES ASSUME NEW r \in Run, NEW d \in Run
               PROVE  d \in Children(r)' <=> d \in Children(r) \/ (r = k.run /\ d = c)
    BY DEF Children, Created
  <2>1. CASE d = c
    BY <1>3, <1>5, <2>1 DEF Children, Created, Exists
  <2>2. CASE d # c
    BY <1>4, <2>2 DEF Children, Created, Exists
  <2> QED BY <2>1, <2>2
<1> QED BY <1>1, <1>3, <1>4, <1>5, <1>6

LEMMA StartOriginalFamily ==
  ASSUME SourceInv, NEW r \in Run, StartOriginal(r)
  PROVE  /\ \A q \in Run : Children(q)' = Children(q)
         /\ file'[r].parent = NoRun
         /\ \A d \in Run : d # r => file'[d] = file[d]
<1>1. ~Exists(r) /\ file' = [file EXCEPT ![r] = NewRecord(NoRun, 0)]
  BY DEF StartOriginal, StartRun, IsNewId, Persist, Write
<1>2. file'[r].parent = NoRun /\ \A d \in Run : d # r => file'[d] = file[d]
  BY <1>1 DEF SourceInv, TypeOK, NewRecord
<1>3. NoRun \notin Run
  BY DEF NoRun, Run
<1>4. ASSUME NEW q \in Run, NEW d \in Run
      PROVE  d \in Children(q)' <=> d \in Children(q)
  <2>1. CASE d = r
    BY <1>1, <1>2, <1>3, <2>1 DEF Children, Created
  <2>2. CASE d # r
    BY <1>2, <2>2 DEF Children, Created, Exists
  <2> QED BY <2>1, <2>2
<1> QED BY <1>2, <1>4 DEF Children, Created

LEMMA StepPositive ==
  ASSUME SourceInv, AttemptsPositive, [Next]_vars
  PROVE  AttemptsPositive'
<1>1. CASE KeepsSources
  BY <1>1 DEF AttemptsPositive, KeepsSources, SameSource, IsChild
<1>2. ASSUME NEW r \in Run, StartOriginal(r) PROVE AttemptsPositive'
  BY <1>2, StartOriginalFamily DEF AttemptsPositive, IsChild
<1>3. ASSUME NEW s \in Scan, NEW c \in Run, StartChild(s, c) PROVE AttemptsPositive'
  <2>1. PICK k \in todo[s], how \in {"project", "coordinator"} :
          StartRun(c, how, k.run, k.attempts + 1)
    BY <1>3 DEF StartChild
  <2>2. file'[c].attempt > 0 /\ \A d \in Run : d # c => file'[d] = file[d]
    BY <2>1, StartChildFamily
  <2> QED BY <2>2 DEF AttemptsPositive, IsChild
<1> QED BY <1>1, <1>2, <1>3, SourcesStep

(* Distinct numbers from 1 to n are at most n. *)
LEMMA DistinctNumbers ==
  ASSUME NEW n \in Nat, NEW S, NEW f \in [S -> 1 .. n],
         \A a, b \in S : f[a] = f[b] => a = b
  PROVE  Cardinality(S) <= n
<1>1. f \in Injection(S, 1 .. n)
  BY Fun_IsInj
<1>2. IsFiniteSet(1 .. n) /\ Cardinality(1 .. n) = n
  BY FS_Interval
<1> QED BY <1>1, <1>2, FS_Injection

LEMMA FamiliesFinite ==
  ASSUME NEW r \in Run
  PROVE  IsFiniteSet(Children(r)) /\ Cardinality(Children(r)) \in Nat
<1>1. IsFiniteSet(Run)
  BY EngineAssumption, FS_Interval DEF EngineAssumption, Run
<1>2. Children(r) \subseteq Run
  BY DEF Children, Created
<1> QED BY <1>1, <1>2, FS_Subset, FS_CardinalityType

(* One more attempt was still within the limit. *)
LEMMA OneMoreTry ==
  ASSUME SourceInv, SourceInv', AttemptsPositive', AttemptInv', OneScanner,
         NEW r \in Run, NEW c \in Run, c \notin Children(r),
         Children(r)' = Children(r) \cup {c}
  PROVE  /\ Cardinality(Children(r)') = Cardinality(Children(r)) + 1
         /\ Cardinality(Children(r)) < MaxAttempts
<1> DEFINE S == Children(r)'
           f == [d \in S |-> file'[d].attempt]
<1>1. Distinct' /\ MaxAttempts \in Nat
  BY RetryAssumption DEF AttemptInv, OneScanner, RetryAssumption
<1>2. \A d \in S : d \in Run /\ file'[d].parent = r /\ file'[d].parent # NoRun
  BY DEF Children, Created, Run, NoRun
<1>3. f \in [S -> 1 .. MaxAttempts]
  <2>1. \A d \in S : file'[d].attempt \in 1 .. MaxAttempts
    BY <1>1, <1>2 DEF AttemptsPositive, Distinct, IsChild, SourceInv, TypeOK, Record
  <2> QED BY <2>1
<1>4. \A a, b \in S : f[a] = f[b] => a = b
  BY <1>1, <1>2 DEF Distinct, IsChild, SameSource
<1>5. Cardinality(S) <= MaxAttempts
  <2> HIDE DEF f, S
  <2> QED BY <1>1, <1>3, <1>4, DistinctNumbers
<1>6. Cardinality(S) = Cardinality(Children(r)) + 1
  BY FamiliesFinite, FS_AddElement
<1> QED BY <1>1, <1>5, <1>6, FamiliesFinite

-----------------------------------------------------------------------------
(* The steps of the contract. *)

ContractVars == <<triesOf, outcomeOf>>

LEMMA OutcomeKept ==
  ASSUME OutcomesKept
  PROVE  outcomeOf' = outcomeOf
  BY DEF OutcomesKept, outcomeOf

LEMMA TriesKept ==
  ASSUME \A r \in Run : Children(r)' = Children(r)
  PROVE  triesOf' = triesOf
  BY DEF triesOf

LEMMA FamiliesKept ==
  ASSUME KeepsSources
  PROVE  \A r \in Run : Children(r)' = Children(r)
  BY DEF KeepsSources, SameSource, Children, Created

(* A patch of an open run, the others staying as they are. *)
LEMMA OutcomeSettled ==
  ASSUME NEW r \in Run, ~Settled(r), \A q \in Run : q # r => file'[q] = file[q]
  PROVE  /\ outcomeOf[r] = "open"
         /\ file'[r].recovered =>
              outcomeOf' = [outcomeOf EXCEPT ![r] = "recovered"]
         /\ ~file'[r].recovered /\ file'[r].escalated =>
              outcomeOf' = [outcomeOf EXCEPT ![r] = "escalated"]
         /\ ~file'[r].recovered /\ ~file'[r].escalated => outcomeOf' = outcomeOf
<1> DEFINE new(q) == IF file'[q].recovered THEN "recovered"
                     ELSE IF file'[q].escalated THEN "escalated" ELSE "open"
<1>1. outcomeOf[r] = "open"
  BY DEF outcomeOf, Settled
<1>2. \A q \in Run : q # r => new(q) = outcomeOf[q]
  BY DEF outcomeOf
<1>3. outcomeOf' = [q \in Run |-> new(q)] /\ outcomeOf = [q \in Run |-> outcomeOf[q]]
  BY DEF outcomeOf
<1>4. outcomeOf' = [outcomeOf EXCEPT ![r] = new(r)]
  <2> HIDE DEF new
  <2> QED BY <1>2, <1>3
<1>5. ~file'[r].recovered /\ ~file'[r].escalated => outcomeOf' = outcomeOf
  BY <1>1, <1>3, <1>4
<1> QED BY <1>1, <1>4, <1>5

LEMMA StartChildImplements ==
  ASSUME SourceInv, SourceInv', AttemptInv, AttemptInv', OverInv, ReasonInv, AttemptsPositive',
         Alone, AskedAtMostOnce, OneScanner, overtaken = {},
         NEW s \in Scan, NEW c \in Run, StartChild(s, c)
  PROVE  \E r \in Run : Contract!Try(r)
<1>1. PICK k \in todo[s], how \in {"project", "coordinator"} :
        StartRun(c, how, k.run, k.attempts + 1)
  BY DEF StartChild
<1>2. /\ k.run \in Run /\ c \notin Children(k.run)
      /\ Children(k.run)' = Children(k.run) \cup {c}
      /\ \A r \in Run : r # k.run => Children(r)' = Children(r)
  <2>1. k.run \in Run /\ c \notin Children(k.run)
    BY <1>1, StartChildFamily
  <2>2. Children(k.run)' = Children(k.run) \cup {c}
    BY <1>1, StartChildFamily
  <2>3. \A r \in Run : r # k.run => Children(r)' = Children(r)
    BY <1>1, StartChildFamily
  <2> QED BY <2>1, <2>2, <2>3
<1>3. /\ Cardinality(Children(k.run)') = Cardinality(Children(k.run)) + 1
      /\ Cardinality(Children(k.run)) < MaxAttempts
  BY <1>2, OneMoreTry
<1>4. triesOf' = [triesOf EXCEPT ![k.run] = @ + 1] /\ triesOf[k.run] < MaxAttempts
  BY <1>2, <1>3 DEF triesOf
<1>5. outcomeOf[k.run] = "open"
  BY <1>2 DEF Alone, Settled, outcomeOf
<1>6. outcomeOf' = outcomeOf
  BY StartChildAlone, OutcomeKept
<1> QED BY <1>2, <1>4, <1>5, <1>6 DEF Contract!Try

LEMMA PatchEscalatedImplements ==
  ASSUME SourceInv, Alone, NEW s \in Scan, PatchEscalated(s)
  PROVE  \E r \in Run : Contract!Escalate(r)
<1> DEFINE k == doing[s]
           rec == [file[k.run] EXCEPT !.attempts = k.attempts, !.escalated = TRUE]
<1>1. k.run \in Run /\ file[k.run] \in Record /\ ~Settled(k.run)
  BY DEF PatchEscalated, SourceInv, CandidatesOriginal, Candidate, TypeOK, Alone
<1>2. file' = [file EXCEPT ![k.run] = rec]
  BY DEF PatchEscalated, Write
<1>3. rec.escalated /\ rec.recovered = file[k.run].recovered
  BY <1>1 DEF Record
<1>4. /\ file'[k.run].escalated /\ ~file'[k.run].recovered
      /\ \A r \in Run : r # k.run => file'[r] = file[r]
  <2> HIDE DEF rec
  <2> QED BY <1>1, <1>2, <1>3 DEF SourceInv, TypeOK, Settled
<1>5. triesOf' = triesOf
  BY PatchEscalatedSources, FamiliesKept, TriesKept
<1>6. outcomeOf[k.run] = "open" /\ outcomeOf' = [outcomeOf EXCEPT ![k.run] = "escalated"]
  BY <1>1, <1>4, OutcomeSettled
<1> QED BY <1>1, <1>5, <1>6 DEF Contract!Escalate

LEMMA PatchParentImplements ==
  ASSUME SourceInv, ReasonInv, Alone, NEW s \in Scan, PatchParent(s)
  PROVE  (\E r \in Run : Contract!Recover(r)) \/ UNCHANGED ContractVars
<1> DEFINE k == doing[s]
           b == file[k.run].recovered \/ call[child[s]] = "good"
           rec == [file[k.run] EXCEPT !.attempts = k.attempts + 1, !.recovered = b]
<1>1. k.run \in Run /\ file[k.run] \in Record /\ ~Settled(k.run)
  BY DEF PatchParent, SourceInv, CandidatesOriginal, Candidate, TypeOK, Alone
<1>2. file' = [file EXCEPT ![k.run] = rec]
  BY <1>1 DEF PatchParent, Write, Record
<1>3. rec.escalated = file[k.run].escalated
  <2> HIDE DEF b
  <2> QED BY <1>1 DEF Record
<1>4. ~file'[k.run].escalated /\ \A r \in Run : r # k.run => file'[r] = file[r]
  <2> HIDE DEF rec
  <2> QED BY <1>1, <1>2, <1>3 DEF SourceInv, TypeOK, Settled
<1>5. triesOf' = triesOf
  BY PatchParentSources, FamiliesKept, TriesKept
<1>6. triesOf[k.run] > 0
  <2>1. child[s] \in Children(k.run)
    BY DEF PatchParent, ReasonInv, Reasons, AwaitsItsChild, Children, Created
  <2>2. Cardinality(Children(k.run)) # 0 /\ Cardinality(Children(k.run)) \in Nat
    BY <1>1, <2>1, FamiliesFinite, FS_EmptySet
  <2> QED BY <1>1, <2>2 DEF triesOf
<1>7. /\ outcomeOf[k.run] = "open"
      /\ outcomeOf' = [outcomeOf EXCEPT ![k.run] = "recovered"] \/ outcomeOf' = outcomeOf
  BY <1>1, <1>4, OutcomeSettled
<1> QED BY <1>1, <1>5, <1>6, <1>7 DEF Contract!Recover, ContractVars

LEMMA StepImplements ==
  ASSUME RetryInv, RetryInv', AttemptsPositive', [Next]_vars,
         OneScanner, overtaken' = {}, erased' = erased
  PROVE  Contract!Next \/ UNCHANGED ContractVars
<1>1. overtaken = {}
  BY OvertakenGrows
<1>2. /\ SourceInv /\ SourceInv' /\ AttemptInv /\ AttemptInv' /\ OverInv /\ ReasonInv
      /\ Alone /\ AskedAtMostOnce
  BY <1>1 DEF RetryInv, AloneInv
<1>3. ASSUME NEW s \in Scan, PatchEscalated(s) \/ PatchParent(s)
      PROVE  Contract!Next \/ UNCHANGED ContractVars
  BY <1>2, <1>3, PatchEscalatedImplements, PatchParentImplements DEF Contract!Next
<1>4. ASSUME NEW s \in Scan, NEW c \in Run, StartChild(s, c)
      PROVE  Contract!Next
  BY <1>1, <1>2, <1>4, StartChildImplements DEF Contract!Next
<1>5. ASSUME OutcomesKept, KeepsSources \/ \E r \in Run : StartOriginal(r)
      PROVE  UNCHANGED ContractVars
  <2>1. \A r \in Run : Children(r)' = Children(r)
    BY <1>2, <1>5, FamiliesKept, StartOriginalFamily
  <2> QED BY <1>5, <2>1, OutcomeKept, TriesKept DEF ContractVars
<1>6. OutcomesKept \/ \E s \in Scan : PatchEscalated(s) \/ PatchParent(s)
  BY <1>2, AloneStep
<1> QED BY <1>2, <1>3, <1>4, <1>5, <1>6, SourcesStep

(* While one caller scans and no run is given up under its call: a failed  *)
(* run is tried again at most MaxAttempts times, recovers only after a     *)
(* try, and once it has recovered or was escalated nothing happens to it,  *)
(* whatever crashes and throws - except for the step in which the link of  *)
(* its own decision takes back what the scan had said of it.               *)
THEOREM BoundedRetryImplemented == Spec => ImplementsBoundedRetry
<1>1. Init => Contract!Init /\ AttemptsPositive
  <2> SUFFICES ASSUME Init
               PROVE  Contract!Init /\ AttemptsPositive
    OBVIOUS
  <2>1. \A r \in Run : file[r] = Unwritten
    BY DEF Init, EngineInit
  <2>2. \A r \in Run : Children(r) = {}
    BY <2>1 DEF Children, Created, Exists, Unwritten, NewRecord
  <2>3. triesOf = [r \in Run |-> 0]
    BY <2>2, FS_EmptySet DEF triesOf
  <2>4. outcomeOf = [r \in Run |-> "open"]
    BY <2>1 DEF outcomeOf, Unwritten, NewRecord
  <2>5. AttemptsPositive
    BY <2>1, UnwrittenTyped DEF AttemptsPositive, IsChild
  <2> QED BY <2>3, <2>4, <2>5 DEF Contract!Init
<1>2. RetryInv /\ AttemptsPositive /\ [Next]_vars => AttemptsPositive'
  BY StepPositive DEF RetryInv
<1>3. RetryInv /\ RetryInv' /\ AttemptsPositive' /\ [Next]_vars =>
        [OneScanner /\ overtaken' = {} /\ erased' = erased
           => [Contract!Next]_<<triesOf, outcomeOf>>]_vars
  BY StepImplements DEF ContractVars
<1>4. ImplementsBoundedRetry <=>
        /\ Contract!Init
        /\ [][OneScanner /\ overtaken' = {} /\ erased' = erased
                => [Contract!Next]_<<triesOf, outcomeOf>>]_vars
  BY DEF ImplementsBoundedRetry
<1> QED BY <1>1, <1>2, <1>3, <1>4, AlwaysRetryInv, PTL DEF Spec
=============================================================================
