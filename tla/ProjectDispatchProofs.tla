----------------------- MODULE ProjectDispatchProofs -----------------------
(***************************************************************************)
(* The safety of a dispatch, for any number of runs side by side, whatever *)
(* is asked of them and whatever fails, dies or is approved meanwhile.     *)
(*                                                                         *)
(* The argument: a run's branch, tree and local state are its own, so one  *)
(* run at a time is looked at.  What its dispatch carries from the end of  *)
(* the pipeline through commit, status, gates and push is what the roles   *)
(* found: failed is only set while the pipeline is under way, the status   *)
(* is written from it, and nothing is delivered unless it is FALSE.        *)
(***************************************************************************)
EXTENDS ProjectDispatch, TLAPS

(* Nothing was done for the run yet. *)
Untouched(r) ==
  d[r].pc \in Before \cup Setup =>
    /\ d[r].at = 1 /\ ~d[r].failed /\ ~d[r].thrown
    /\ r \notin trees /\ content[r] = {} /\ saved[r] = {}

(* The document is open while the dispatch sets up, works and finishes. *)
OpenWhileInside(r) == d[r].pc \in Setup \cup Inside => file[r] \in {"in_progress", "blocked"}

(* The roles were gone through, unless an exception ended the pipeline. *)
WentThrough(r) ==
  /\ d[r].pc = "work" => ~d[r].thrown
  /\ d[r].pc \in {"commit", "release"} /\ ~d[r].thrown => d[r].at > Len(Stages(r))
  /\ d[r].pc = "settle" => ~d[r].thrown /\ d[r].at > Len(Stages(r))

CommittedOnce(r) == d[r].pc \in Before \cup Setup \cup {"work", "commit"} => ~d[r].committed

(* What is delivered passed. *)
Passed(r) ==
  d[r].pc \in Delivery \/ r \in pushed =>
    /\ file[r] = "completed" \/ r \in overtaken
    /\ d[r].committed
    /\ ~d[r].failed /\ ~d[r].thrown

PushedLast(r) ==
  /\ d[r].pc \in Before \cup Setup \cup Inside \cup {"deliver", "provision", "link", "push"} =>
       r \notin pushed
  /\ d[r].pc \in {"publish", "report"} => r \in pushed
  /\ r \in pushed => remote[r] = saved[r]

RefusedFails(r) == r \in refused => d[r].failed

KeptInTree(r) ==
  d[r].pc = "release" /\ r \in trees => saved[r] = content[r] \/ r \in unsaved

(* A feature is tested after it was developed, and not changed after that. *)
TestedAfterwards(r) ==
  work[r].type = "feature" =>
    /\ d[r].pc = "work" /\ d[r].at <= 4 => content[r] \subseteq Written
    /\ d[r].pc \in {"work", "commit"} /\ d[r].at > 4 /\ ~d[r].failed /\ r \in trees =>
         content[r] \ {"leftover"} = tested[r]
    /\ d[r].committed /\ ~d[r].failed /\ ~d[r].thrown =>
         saved[r] \ {"leftover"} = tested[r]

Told(r) ==
  file[r] = "completed" /\ d[r].pc \notin Before \cup {"lost"} =>
    ~d[r].failed /\ ~d[r].thrown /\ d[r].at > Len(Stages(r))

Reviewed(r) ==
  r \in proposed =>
    /\ d[r].qa = "ready" /\ d[r].review = "approve" /\ d[r].security # "open"
    /\ r \in pushed

RunInv(r) ==
  /\ Untouched(r) /\ OpenWhileInside(r) /\ WentThrough(r) /\ CommittedOnce(r)
  /\ Passed(r) /\ PushedLast(r) /\ RefusedFails(r) /\ KeptInTree(r)
  /\ TestedAfterwards(r) /\ Told(r) /\ Reviewed(r)

DispatchInv == \A r \in Run : RunInv(r)

-----------------------------------------------------------------------------
(* Every variable keeps its type.                                          *)

Pcs == Before \cup Setup \cup Inside \cup Delivery \cup Over

LEMMA ResultsTyped ==
  ASSUME NEW runner \in Runner, NEW result \in RuntimeResults(runner)
  PROVE  /\ result.ok \in BOOLEAN /\ result.refused \in BOOLEAN
         /\ result.changed \subseteq Written
         /\ result.refused => ~result.ok
<1> DEFINE Plain(x) == x.ok \in BOOLEAN /\ x.changed \subseteq Written
<1>1. ASSUME NEW x \in HostResults PROVE Plain(x)
  <2>1. CASE x = [ok |-> FALSE, changed |-> {}, reported |-> {}]
    BY <2>1
  <2>2. ASSUME NEW c \in SUBSET Written,
               x \in [ok : BOOLEAN, changed : {c}, reported : Listings(c) \cup {{}}]
        PROVE  Plain(x)
    BY <2>2
  <2> QED BY <1>1, <2>1, <2>2 DEF HostResults
<1>2. ASSUME NEW x \in ProviderResults PROVE Plain(x)
  <2> DEFINE accepted == {w \in {Confined(e) : e \in Emitted} :
                            w # {} /\ Cardinality(w) <= MaxChanged}
  <2>1. \A w \in accepted : w \subseteq Written
    BY DEF Confined, Emitted
  <2> DEFINE wrote == UNION {[ok : {TRUE}, changed : {w}, reported : Listings(w)] : w \in accepted}
             broke == {[ok |-> FALSE, changed |-> part, reported |-> {}] :
                         part \in UNION {SUBSET w : w \in accepted}}
  <2>2. ProviderResults =
          {[ok |-> FALSE, changed |-> {}, reported |-> {}]} \cup broke \cup wrote
    BY DEF ProviderResults
  <2>3. x \in wrote =>
          \E w \in accepted : x \in [ok : {TRUE}, changed : {w}, reported : Listings(w)]
    BY Zenon
  <2>4. x \in broke =>
          \E part \in UNION {SUBSET w : w \in accepted} :
            x = [ok |-> FALSE, changed |-> part, reported |-> {}]
    BY Zenon
  <2> HIDE DEF accepted, wrote, broke
  <2>5. CASE x \in wrote
    BY <2>1, <2>3, <2>5
  <2>6. CASE x \in broke
    <3>1. PICK part \in UNION {SUBSET w : w \in accepted} :
            x = [ok |-> FALSE, changed |-> part, reported |-> {}]
      BY <2>4, <2>6
    <3>2. part \subseteq Written
      BY <2>1
    <3> QED BY <3>1, <3>2
  <2>7. CASE x = [ok |-> FALSE, changed |-> {}, reported |-> {}]
    BY <2>7
  <2> QED BY <1>2, <2>2, <2>5, <2>6, <2>7
<1>3. CASE result = [ok |-> FALSE, refused |-> TRUE, changed |-> {}]
  BY <1>3
<1>4. ASSUME NEW x \in HostResults \cup ProviderResults, result = Judged(x)
      PROVE  /\ result.ok \in BOOLEAN /\ result.refused \in BOOLEAN
             /\ result.changed \subseteq Written
             /\ result.refused => ~result.ok
  <2>1. Plain(x)
    BY <1>1, <1>2
  <2>2. SafetyBlocked(x.reported) \in BOOLEAN
    BY DEF SafetyBlocked
  <2> QED BY <1>4, <2>1, <2>2 DEF Judged
<1> QED BY <1>3, <1>4 DEF RuntimeResults

LEMMA StagesShort ==
  ASSUME NEW t \in RunType
  PROVE  Len(PipelineForRunType(t)) \in 2 .. 6
<1>1. CASE t = "feature" BY <1>1 DEF PipelineForRunType
<1>2. CASE t = "bug" BY <1>2 DEF PipelineForRunType
<1>3. CASE t = "review" BY <1>3 DEF PipelineForRunType
<1>4. CASE t = "release" BY <1>4 DEF PipelineForRunType
<1>5. CASE t = "planning" BY <1>5 DEF PipelineForRunType
<1> QED BY <1>1, <1>2, <1>3, <1>4, <1>5 DEF RunType

LEMMA FeatureStages ==
  /\ Len(PipelineForRunType("feature")) = 6
  /\ \A i \in 1 .. 6 : PipelineForRunType("feature")[i] = "development" <=> i = 3
  /\ \A i \in 1 .. 6 : PipelineForRunType("feature")[i] = "qa" <=> i = 4
<1> DEFINE s == <<"product", "ux", "development", "qa", "security", "reviewer">>
<1>1. PipelineForRunType("feature") = s
  BY DEF PipelineForRunType
<1>2. Len(s) = 6 /\ s[1] = "product" /\ s[2] = "ux" /\ s[3] = "development"
        /\ s[4] = "qa" /\ s[5] = "security" /\ s[6] = "reviewer"
  OBVIOUS
<1> HIDE DEF s
<1> QED BY <1>1, <1>2

(* What one step leaves of the local state of its dispatch. *)
Carries(r) ==
  /\ d'[r].at = d[r].at /\ d'[r].failed = d[r].failed /\ d'[r].thrown = d[r].thrown
  /\ d'[r].committed = d[r].committed
  /\ d'[r].qa = d[r].qa /\ d'[r].review = d[r].review /\ d'[r].security = d[r].security

OthersGoOn(r) == \A q \in Run \ {r} : d'[q] = d[q]

LEMMA MovedLocal ==
  ASSUME NEW x \in Local, NEW pc \in Pcs, NEW y, y = [x EXCEPT !.pc = pc]
  PROVE  /\ y \in Local /\ y.pc = pc /\ y.at = x.at /\ y.failed = x.failed
         /\ y.thrown = x.thrown /\ y.committed = x.committed
         /\ y.qa = x.qa /\ y.review = x.review /\ y.security = x.security
BY DEF Local, Pcs

LEMMA GotoDoes ==
  ASSUME d \in [Run -> Local], NEW r \in Run, NEW pc \in Pcs, Goto(r, pc)
  PROVE  d' \in [Run -> Local] /\ d'[r].pc = pc /\ Carries(r) /\ OthersGoOn(r)
<1>1. d'[r] = [d[r] EXCEPT !.pc = pc] /\ OthersGoOn(r)
  BY DEF Goto, OthersGoOn
<1>2. d' = [d EXCEPT ![r] = [d[r] EXCEPT !.pc = pc]]
  BY DEF Goto
<1>3. d'[r] \in Local /\ d'[r].pc = pc /\ Carries(r)
  BY <1>1, MovedLocal DEF Carries
<1> QED BY <1>1, <1>2, <1>3

(* A verdict is added to the turn of its role. *)
LEMMA JudgedLocal ==
  ASSUME NEW x \in Local
  PROVE  /\ \A v \in QaVerdictValue :
              LET y == [x EXCEPT !.qa = v] IN
              /\ y \in Local /\ y.pc = x.pc /\ y.at = x.at /\ y.failed = x.failed
              /\ y.thrown = x.thrown /\ y.committed = x.committed
         /\ \A v \in ReviewVerdictValue :
              LET y == [x EXCEPT !.review = v] IN
              /\ y \in Local /\ y.pc = x.pc /\ y.at = x.at /\ y.failed = x.failed
              /\ y.thrown = x.thrown /\ y.committed = x.committed
         /\ \A v \in SecurityVerdictValue :
              LET y == [x EXCEPT !.security = v] IN
              /\ y \in Local /\ y.pc = x.pc /\ y.at = x.at /\ y.failed = x.failed
              /\ y.thrown = x.thrown /\ y.committed = x.committed
BY DEF Local

(* What a role's turn does to the local state: the next role, and a failure *)
(* that sticks.                                                             *)
TakesTurn(r, ok) ==
  /\ d' \in [Run -> Local] /\ OthersGoOn(r)
  /\ d[r].pc = "work" /\ d[r].at <= Len(Stages(r))
  /\ d'[r].pc = "work" /\ d'[r].at = d[r].at + 1
  /\ d'[r].failed = (d[r].failed \/ ~ok)
  /\ d'[r].thrown = d[r].thrown /\ d'[r].committed = d[r].committed

LEMMA TurnShort ==
  ASSUME TypeOK, NEW r \in Run, NEW roles, AtRole(r, roles)
  PROVE  d[r].at <= 6 /\ d[r].pc = "work" /\ d[r].at <= Len(Stages(r))
<1>1. work[r].type \in RunType /\ d[r].at \in 1 .. 7
  BY DEF TypeOK, Work, Local
<1>2. Len(Stages(r)) \in 2 .. 6
  BY <1>1, StagesShort DEF Stages
<1> QED BY <1>1, <1>2 DEF AtRole

LEMMA StepDoes ==
  ASSUME TypeOK, NEW r \in Run, NEW roles, AtRole(r, roles), NEW ok \in BOOLEAN
  PROVE  /\ Step(r, ok) \in Local /\ Step(r, ok).pc = "work"
         /\ Step(r, ok).at = d[r].at + 1 /\ Step(r, ok).failed = (d[r].failed \/ ~ok)
         /\ Step(r, ok).thrown = d[r].thrown /\ Step(r, ok).committed = d[r].committed
<1>1. d[r] \in Local /\ d[r].at <= 6 /\ d[r].pc = "work"
  BY TurnShort DEF TypeOK
<1>2. Step(r, ok) = [d[r] EXCEPT !.at = @ + 1, !.failed = @ \/ ~ok]
  BY DEF Step
<1>3. d[r].at + 1 \in 1 .. 7 /\ (d[r].failed \/ ~ok) \in BOOLEAN
  BY <1>1 DEF Local
<1> QED BY <1>1, <1>2, <1>3 DEF Local

LEMMA PlainTurn ==
  ASSUME TypeOK, NEW r \in Run, NEW roles, AtRole(r, roles), NEW ok \in BOOLEAN,
         d' = [d EXCEPT ![r] = Step(r, ok)]
  PROVE  TakesTurn(r, ok)
<1>1. d'[r] = Step(r, ok) /\ OthersGoOn(r)
  BY DEF TypeOK, OthersGoOn
<1>2. d' \in [Run -> Local]
  BY StepDoes DEF TypeOK
<1> QED BY <1>1, <1>2, StepDoes, TurnShort DEF TakesTurn

LEMMA VerifyTurn ==
  ASSUME TypeOK, NEW r \in Run, Verify(r)
  PROVE  \E criteria \in Criteria, tests \in Tests, left \in SUBSET {"leftover"} :
           /\ (tests = "none") <=> r \notin trees
           /\ EditTree(r, left)
           /\ tested' = [tested EXCEPT ![r] =
                           IF tests # "none" /\ ~TestsBlocked(tests) THEN content[r] ELSE @]
           /\ TakesTurn(r, QaOk(QaVerdict(criteria, tests)))
<1>1. PICK criteria \in Criteria, tests \in Tests, left \in SUBSET {"leftover"} :
        /\ (tests = "none") <=> r \notin trees
        /\ EditTree(r, left)
        /\ tested' = [tested EXCEPT ![r] =
                        IF tests # "none" /\ ~TestsBlocked(tests) THEN content[r] ELSE @]
        /\ d' = [d EXCEPT ![r] = [Step(r, QaOk(QaVerdict(criteria, tests)))
                                    EXCEPT !.qa = QaVerdict(criteria, tests)]]
  BY DEF Verify
<1> DEFINE verdict == QaVerdict(criteria, tests)
           ok == QaOk(verdict)
           y == [Step(r, ok) EXCEPT !.qa = verdict]
<1>2. verdict \in QaVerdictValue /\ ok \in BOOLEAN
  BY DEF QaVerdict, QaVerdictValue, QaOk
<1>3. AtRole(r, {"qa"})
  BY DEF Verify
<1> HIDE DEF verdict, ok
<1>4. y \in Local /\ y.pc = Step(r, ok).pc /\ y.at = Step(r, ok).at
        /\ y.failed = Step(r, ok).failed /\ y.thrown = Step(r, ok).thrown
        /\ y.committed = Step(r, ok).committed
  BY <1>2, <1>3, StepDoes, JudgedLocal
<1>5. d' = [d EXCEPT ![r] = y]
  BY <1>1 DEF verdict, ok
<1>6. d'[r] = y /\ OthersGoOn(r) /\ d' \in [Run -> Local]
  BY <1>4, <1>5 DEF TypeOK, OthersGoOn
<1>7. TakesTurn(r, ok)
  BY <1>2, <1>3, <1>4, <1>6, StepDoes, TurnShort DEF TakesTurn
<1> QED BY <1>1, <1>7 DEF verdict, ok

LEMMA ReviewTurn ==
  ASSUME TypeOK, NEW r \in Run, Review(r)
  PROVE  \E ok \in BOOLEAN : TakesTurn(r, ok)
<1>1. PICK findings \in Findings :
        d' = [d EXCEPT ![r] = [Step(r, ReviewOk(ReviewVerdict(findings)))
                                 EXCEPT !.review = ReviewVerdict(findings)]]
  BY DEF Review
<1> DEFINE verdict == ReviewVerdict(findings)
           ok == ReviewOk(verdict)
           y == [Step(r, ok) EXCEPT !.review = verdict]
<1>2. verdict \in ReviewVerdictValue /\ ok \in BOOLEAN
  BY DEF ReviewVerdict, ReviewVerdictValue, ReviewOk
<1>3. AtRole(r, {"reviewer"})
  BY DEF Review
<1> HIDE DEF verdict, ok
<1>4. y \in Local /\ y.pc = Step(r, ok).pc /\ y.at = Step(r, ok).at
        /\ y.failed = Step(r, ok).failed /\ y.thrown = Step(r, ok).thrown
        /\ y.committed = Step(r, ok).committed
  BY <1>2, <1>3, StepDoes, JudgedLocal
<1>5. d' = [d EXCEPT ![r] = y]
  BY <1>1 DEF verdict, ok
<1>6. d'[r] = y /\ OthersGoOn(r) /\ d' \in [Run -> Local]
  BY <1>4, <1>5 DEF TypeOK, OthersGoOn
<1>7. TakesTurn(r, ok)
  BY <1>2, <1>3, <1>4, <1>6, StepDoes, TurnShort DEF TakesTurn
<1> QED BY <1>2, <1>7

LEMMA SecureTurn ==
  ASSUME TypeOK, NEW r \in Run, Secure(r)
  PROVE  \E ok \in BOOLEAN : TakesTurn(r, ok)
<1>1. PICK high \in BOOLEAN :
        d' = [d EXCEPT ![r] = [Step(r, SecurityOk(SecurityVerdict(high)))
                                 EXCEPT !.security = SecurityVerdict(high)]]
  BY DEF Secure
<1> DEFINE verdict == SecurityVerdict(high)
           ok == SecurityOk(verdict)
           y == [Step(r, ok) EXCEPT !.security = verdict]
<1>2. verdict \in SecurityVerdictValue /\ ok \in BOOLEAN
  BY DEF SecurityVerdict, SecurityVerdictValue, SecurityOk
<1>3. AtRole(r, {"security"})
  BY DEF Secure
<1> HIDE DEF verdict, ok
<1>4. y \in Local /\ y.pc = Step(r, ok).pc /\ y.at = Step(r, ok).at
        /\ y.failed = Step(r, ok).failed /\ y.thrown = Step(r, ok).thrown
        /\ y.committed = Step(r, ok).committed
  BY <1>2, <1>3, StepDoes, JudgedLocal
<1>5. d' = [d EXCEPT ![r] = y]
  BY <1>1 DEF verdict, ok
<1>6. d'[r] = y /\ OthersGoOn(r) /\ d' \in [Run -> Local]
  BY <1>4, <1>5 DEF TypeOK, OthersGoOn
<1>7. TakesTurn(r, ok)
  BY <1>2, <1>3, <1>4, <1>6, StepDoes, TurnShort DEF TakesTurn
<1> QED BY <1>2, <1>7

-----------------------------------------------------------------------------
LEMMA SettingUpTyped ==
  ASSUME TypeOK, NEW r \in Run, SettingUp(r)
  PROVE  TypeOK'
<1> USE DEF TypeOK, GitTypeOK, gitVars, historyVars, runVars, documentVars
<1>1. CASE Start(r)
  <2>1. work' \in [Run -> Work]
    <3>1. PICK asked \in Requests[r] : work' = [work EXCEPT ![r] = asked]
      BY <1>1 DEF Start, Request
    <3>2. asked \in Work
      BY <3>1, DispatchAssumption DEF DispatchAssumption
    <3> QED BY <3>1, <3>2
  <2>2. PICK y : y = [d[r] EXCEPT !.pc = "started", !.knows = linked]
    OBVIOUS
  <2>3. y \in Local
    <3>1. d[r] \in Local /\ linked \in BOOLEAN
      OBVIOUS
    <3>2. [d[r] EXCEPT !.pc = "started"] \in Local
      BY <3>1, MovedLocal DEF Pcs, Before
    <3> QED BY <2>2, <3>1, <3>2 DEF Local, Before
  <2>4. d' = [d EXCEPT ![r] = y]
    BY <1>1, <2>2 DEF Start
  <2>5. d' \in [Run -> Local]
    BY <2>3, <2>4
  <2>6. file' \in [Run -> {"absent", "completed", "needs_human", "in_progress", "blocked"}]
    BY <1>1 DEF Start, SetFile
  <2> QED BY <1>1, <2>1, <2>5, <2>6 DEF Start, SetFile
<1>2. CASE MarkRunning(r)
  <2>1. d' \in [Run -> Local]
    BY <1>2, GotoDoes DEF MarkRunning, Pcs, Setup
  <2>2. file' \in [Run -> {"absent", "completed", "needs_human", "in_progress", "blocked"}]
    BY <1>2 DEF MarkRunning, SetFile
  <2> QED BY <1>2, <2>1, <2>2 DEF MarkRunning, SetFile
<1>3. CASE WritePacket(r)
  <2>1. d' \in [Run -> Local]
    BY <1>3, GotoDoes DEF WritePacket, Pcs, Setup, Inside
  <2> QED BY <1>3, <2>1 DEF WritePacket
<1>4. CASE LookForRepo(r)
  <2>1. d' \in [Run -> Local]
    BY <1>4, GotoDoes DEF LookForRepo, Pcs, Setup
  <2> QED BY <1>4, <2>1 DEF LookForRepo
<1>5. CASE InitialiseRepo(r)
  <2>1. d' \in [Run -> Local]
    BY <1>5, GotoDoes DEF InitialiseRepo, Pcs, Setup
  <2> QED BY <1>5, <2>1 DEF InitialiseRepo, InitRepo
<1>6. CASE CommitFirst(r)
  <2>1. d' \in [Run -> Local]
    BY <1>6, GotoDoes DEF CommitFirst, Pcs, Setup
  <2> QED BY <1>6, <2>1 DEF CommitFirst, CommitBase
<1>7. CASE AddWorktree(r)
  <2>1. d' \in [Run -> Local]
    BY <1>7, GotoDoes DEF AddWorktree, Pcs, Inside
  <2> QED BY <1>7, <2>1 DEF AddWorktree, AddTree
<1>8. CASE NoBase(r)
  <2>1. d' \in [Run -> Local]
    BY <1>8, GotoDoes DEF NoBase, Pcs, Over
  <2> QED BY <1>8, <2>1 DEF NoBase
<1> QED BY <1>1, <1>2, <1>3, <1>4, <1>5, <1>6, <1>7, <1>8 DEF SettingUp

LEMMA WorkingTyped ==
  ASSUME TypeOK, NEW r \in Run, Working(r)
  PROVE  TypeOK'
<1> USE DEF TypeOK, GitTypeOK, gitVars, historyVars, runVars, documentVars
<1>1. CASE Refuse(r)
  <2>1. d' \in [Run -> Local]
    BY <1>1, PlainTurn DEF Refuse, TakesTurn
  <2> QED BY <1>1, <2>1 DEF Refuse
<1>2. CASE Draft(r)
  <2>1. d' \in [Run -> Local]
    BY <1>2, PlainTurn DEF Draft, TakesTurn
  <2> QED BY <1>2, <2>1 DEF Draft
<1>3. CASE Plan(r)
  <2>1. d' \in [Run -> Local]
    BY <1>3, PlainTurn DEF Plan, TakesTurn
  <2> QED BY <1>3, <2>1 DEF Plan
<1>4. CASE Develop(r)
  <2>1. work[r].runtime \in Runner
    BY <1>4 DEF Develop, MayEdit, Work
  <2>2. PICK result \in RuntimeResults(work[r].runtime) :
          /\ EditTree(r, result.changed)
          /\ refused' = IF result.refused THEN refused \cup {r} ELSE refused
          /\ d' = [d EXCEPT ![r] = Step(r, result.ok)]
    BY <1>4 DEF Develop
  <2>3. result.ok \in BOOLEAN /\ result.changed \subseteq File
    BY <2>1, <2>2, ResultsTyped DEF Written, File
  <2>4. d' \in [Run -> Local]
    BY <1>4, <2>2, <2>3, PlainTurn DEF Develop, TakesTurn
  <2>5. content' \in [Run -> SUBSET File]
    BY <2>2, <2>3 DEF EditTree
  <2>6. refused' \subseteq Run
    BY <2>2
  <2> QED BY <1>4, <2>2, <2>4, <2>5, <2>6 DEF Develop, EditTree
<1>5. CASE Verify(r)
  <2>1. PICK criteria \in Criteria, tests \in Tests, left \in SUBSET {"leftover"} :
          /\ EditTree(r, left)
          /\ tested' = [tested EXCEPT ![r] =
                          IF tests # "none" /\ ~TestsBlocked(tests) THEN content[r] ELSE @]
          /\ TakesTurn(r, QaOk(QaVerdict(criteria, tests)))
    BY <1>5, VerifyTurn
  <2>2. d' \in [Run -> Local]
    BY <2>1 DEF TakesTurn
  <2>3. content' \in [Run -> SUBSET File]
    BY <2>1 DEF EditTree, File
  <2>4. tested' \in [Run -> SUBSET File]
    BY <2>1
  <2> QED BY <1>5, <2>1, <2>2, <2>3, <2>4 DEF Verify, EditTree
<1>6. CASE Review(r)
  <2>1. d' \in [Run -> Local]
    BY <1>6, ReviewTurn DEF TakesTurn
  <2> QED BY <1>6, <2>1 DEF Review
<1>7. CASE Secure(r)
  <2>1. d' \in [Run -> Local]
    BY <1>7, SecureTurn DEF TakesTurn
  <2> QED BY <1>7, <2>1 DEF Secure
<1>8. CASE EndPipeline(r)
  <2>1. d' \in [Run -> Local]
    BY <1>8, GotoDoes DEF EndPipeline, Pcs, Inside
  <2> QED BY <1>8, <2>1 DEF EndPipeline
<1> QED BY <1>1, <1>2, <1>3, <1>4, <1>5, <1>6, <1>7, <1>8 DEF Working

LEMMA CommitDoes ==
  ASSUME TypeOK, NEW r \in Run, CommitWork(r)
  PROVE  /\ d' \in [Run -> Local] /\ OthersGoOn(r) /\ d'[r].pc = "release"
         /\ d'[r].at = d[r].at /\ d'[r].failed = d[r].failed /\ d'[r].thrown = d[r].thrown
         /\ d'[r].qa = d[r].qa /\ d'[r].review = d[r].review /\ d'[r].security = d[r].security
         /\ r \in trees => d'[r].committed = Staged(r)
         /\ r \notin trees => d'[r].committed = d[r].committed
<1>1. CASE r \in trees
  <2>1. d' = [d EXCEPT ![r].pc = "release", ![r].committed = Staged(r)]
    BY <1>1 DEF CommitWork
  <2>2. Staged(r) \in BOOLEAN
    BY DEF Staged
  <2>3. PICK x : x = [d[r] EXCEPT !.pc = "release", !.committed = Staged(r)]
    OBVIOUS
  <2>4. d[r] \in Local
    BY DEF TypeOK
  <2>5. /\ x \in Local /\ x.pc = "release" /\ x.committed = Staged(r)
        /\ x.at = d[r].at /\ x.failed = d[r].failed /\ x.thrown = d[r].thrown
        /\ x.qa = d[r].qa /\ x.review = d[r].review /\ x.security = d[r].security
    BY <2>2, <2>3, <2>4 DEF Local, Inside
  <2>6. d' = [d EXCEPT ![r] = x]
    BY <2>1, <2>3
  <2> QED BY <1>1, <2>5, <2>6 DEF TypeOK, OthersGoOn
<1>2. CASE r \notin trees
  BY <1>2, GotoDoes DEF CommitWork, TypeOK, Carries, Pcs, Inside
<1> QED BY <1>1, <1>2

LEMMA ThrowDoes ==
  ASSUME TypeOK, NEW r \in Run, AgentThrows(r)
  PROVE  /\ d' \in [Run -> Local] /\ OthersGoOn(r)
         /\ d'[r].pc = "commit" /\ d'[r].thrown = TRUE
         /\ d'[r].at = d[r].at /\ d'[r].failed = d[r].failed
         /\ d'[r].committed = d[r].committed
<1>1. PICK x : x = [d[r] EXCEPT !.thrown = TRUE, !.pc = "commit"]
  OBVIOUS
<1>2. d[r] \in Local
  BY DEF TypeOK
<1>3. /\ x \in Local /\ x.pc = "commit" /\ x.thrown = TRUE
      /\ x.at = d[r].at /\ x.failed = d[r].failed /\ x.committed = d[r].committed
  BY <1>1, <1>2 DEF Local, Inside
<1>4. d' = [d EXCEPT ![r] = x]
  BY <1>1 DEF AgentThrows
<1> QED BY <1>3, <1>4 DEF TypeOK, OthersGoOn

(* Where a step of the end of a dispatch goes, and that it goes nowhere    *)
(* else.                                                                   *)
Moves(r, pcs) ==
  /\ d' \in [Run -> Local] /\ OthersGoOn(r) /\ Carries(r)
  /\ d'[r].pc \in pcs

LEMMA Moving ==
  ASSUME TypeOK, NEW r \in Run, NEW pc \in Pcs, Goto(r, pc)
  PROVE  Moves(r, {pc})
BY GotoDoes DEF Moves, TypeOK

LEMMA FaultCounted == TypeOK /\ Fault => faults' \in 0 .. MaxFaults
BY DispatchAssumption DEF TypeOK, Fault, DispatchAssumption

LEMMA SpentTyped ==
  ASSUME TypeOK, NEW action, Spent(action)
  PROVE  permits' \subseteq Action
BY DEF TypeOK, Spent

LEMMA TellTyped ==
  ASSUME TypeOK, NEW r \in Run, NEW what \in {"blocked", "delivered"}, Tell(r, what)
  PROVE  Moves(r, {"done"}) /\ told' \in [Run -> {"nothing", "blocked", "delivered"}]
<1>1. Moves(r, {"done"})
  BY Moving DEF Tell, Pcs, Over
<1> QED BY <1>1 DEF Tell, TypeOK

LEMMA FinishingTyped ==
  ASSUME TypeOK, NEW r \in Run, Finishing(r)
  PROVE  TypeOK'
<1> USE DEF GitTypeOK, gitVars, historyVars, runVars, documentVars
<1>1. CASE CommitWork(r)
  <2>1. d' \in [Run -> Local]
    BY <1>1, CommitDoes
  <2> QED BY <1>1, <2>1 DEF TypeOK, CommitWork, CommitTree
<1>2. CASE Release(r)
  <2>1. d' \in [Run -> Local]
    BY <1>2, Moving DEF Release, Moves, Pcs, Inside, Over
  <2> QED BY <1>2, <2>1 DEF TypeOK, Release, RemoveTree
<1>3. CASE Settle(r)
  <2>1. d' \in [Run -> Local]
    BY <1>3, Moving DEF Settle, Moves, Pcs, Delivery, Over
  <2>2. file' \in [Run -> {"absent", "completed", "needs_human", "in_progress", "blocked"}]
    BY <1>3 DEF Settle, SettledStatus, SetFile, TypeOK
  <2> QED BY <1>3, <2>1, <2>2 DEF TypeOK, Settle, SetFile
<1> QED BY <1>1, <1>2, <1>3 DEF Finishing

LEMMA DeliveringTyped ==
  ASSUME TypeOK, NEW r \in Run, Delivering(r)
  PROVE  TypeOK'
<1> USE DEF GitTypeOK, gitVars, historyVars, documentVars
<1>1. CASE Deliver(r)
  <2>1. Moves(r, {"provision", "push", "done"}) /\ told' \in [Run -> {"nothing", "blocked", "delivered"}]
    BY <1>1, Moving, TellTyped DEF Deliver, Moves, Pcs, Delivery, TypeOK
  <2> QED BY <1>1, <2>1 DEF TypeOK, Deliver, Moves
<1>2. CASE Provision(r)
  <2>1. Moves(r, {"link", "done"}) /\ told' \in [Run -> {"nothing", "blocked", "delivered"}]
    BY <1>2, Moving, TellTyped DEF Provision, Moves, Pcs, Delivery, TypeOK
  <2> QED BY <1>2, <2>1 DEF TypeOK, Provision, Moves
<1>3. CASE LinkRepository(r)
  <2>1. d' \in [Run -> Local] /\ permits' \subseteq Action
    BY <1>3, Moving, SpentTyped DEF LinkRepository, Moves, Pcs, Delivery
  <2> QED BY <1>3, <2>1 DEF TypeOK, LinkRepository
<1>4. CASE Push(r)
  <2>1. Moves(r, {"publish", "done"}) /\ told' \in [Run -> {"nothing", "blocked", "delivered"}]
    BY <1>4, Moving, TellTyped DEF Push, Moves, Pcs, Delivery, TypeOK
  <2>2. permits' \subseteq Action
    BY <1>4, SpentTyped DEF Push, TypeOK
  <2>3. pushed' \subseteq Run /\ remote' \in [Run -> SUBSET File]
    BY <1>4 DEF Push, PushBranch, TypeOK
  <2> QED BY <1>4, <2>1, <2>2, <2>3 DEF TypeOK, Push, PushBranch, Moves
<1>5. CASE Publish(r)
  <2>1. Moves(r, {"report", "done"}) /\ told' \in [Run -> {"nothing", "blocked", "delivered"}]
    BY <1>5, Moving, TellTyped DEF Publish, Moves, Pcs, Delivery, TypeOK
  <2>2. permits' \subseteq Action
    BY <1>5, SpentTyped DEF Publish
  <2> QED BY <1>5, <2>1, <2>2 DEF TypeOK, Publish, Moves
<1>6. CASE Report(r)
  <2>1. Moves(r, {"done"}) /\ told' \in [Run -> {"nothing", "blocked", "delivered"}]
    BY <1>6, TellTyped DEF Report
  <2> QED BY <1>6, <2>1 DEF TypeOK, Report, Moves
<1> QED BY <1>1, <1>2, <1>3, <1>4, <1>5, <1>6 DEF Delivering

LEMMA FailingTyped ==
  ASSUME TypeOK, NEW r \in Run, Failing(r)
  PROVE  TypeOK'
<1> USE FaultCounted DEF GitTypeOK, gitVars, historyVars, runVars, documentVars
<1>1. CASE SetupFails(r)
  <2>1. d' \in [Run -> Local]
    BY <1>1, Moving DEF SetupFails, Moves, Pcs, Over
  <2> QED BY <1>1, <2>1 DEF TypeOK, SetupFails
<1>2. CASE AgentThrows(r)
  <2>1. d' \in [Run -> Local]
    BY <1>2, ThrowDoes
  <2> QED BY <1>2, <2>1 DEF TypeOK, AgentThrows
<1>3. CASE CommitFails(r)
  <2>1. d' \in [Run -> Local]
    BY <1>3, Moving DEF CommitFails, Moves, Pcs, Inside
  <2> QED BY <1>3, <2>1 DEF TypeOK, CommitFails
<1>4. CASE ReleaseFails(r)
  <2>1. d' \in [Run -> Local]
    BY <1>4, Moving DEF ReleaseFails, Moves, Pcs, Inside, Over
  <2> QED BY <1>4, <2>1 DEF TypeOK, ReleaseFails
<1>5. CASE SettleFails(r)
  <2>1. d' \in [Run -> Local]
    BY <1>5, Moving DEF SettleFails, Moves, Pcs, Over
  <2> QED BY <1>5, <2>1 DEF TypeOK, SettleFails
<1>6. CASE LinkFails(r)
  <2>1. Moves(r, {"done"}) /\ told' \in [Run -> {"nothing", "blocked", "delivered"}]
    BY <1>6, TellTyped DEF LinkFails
  <2> QED BY <1>6, <2>1 DEF TypeOK, LinkFails, Moves
<1>7. CASE PushFails(r)
  <2>1. Moves(r, {"done"}) /\ told' \in [Run -> {"nothing", "blocked", "delivered"}]
    BY <1>7, TellTyped DEF PushFails
  <2>2. permits' \subseteq Action
    BY <1>7, SpentTyped DEF PushFails
  <2> QED BY <1>7, <2>1, <2>2 DEF TypeOK, PushFails, Moves
<1>8. CASE PublishFails(r)
  <2>1. Moves(r, {"done"}) /\ told' \in [Run -> {"nothing", "blocked", "delivered"}]
    BY <1>8, TellTyped DEF PublishFails
  <2>2. permits' \subseteq Action
    BY <1>8, SpentTyped DEF PublishFails
  <2> QED BY <1>8, <2>1, <2>2 DEF TypeOK, PublishFails, Moves
<1>9. CASE ReportFails(r)
  <2>1. Moves(r, {"done"}) /\ told' \in [Run -> {"nothing", "blocked", "delivered"}]
    BY <1>9, TellTyped DEF ReportFails
  <2> QED BY <1>9, <2>1 DEF TypeOK, ReportFails, Moves
<1>10. CASE Crash(r)
  <2>1. d' \in [Run -> Local]
    BY <1>10, Moving DEF Crash, Moves, Pcs, Over
  <2> QED BY <1>10, <2>1 DEF TypeOK, Crash
<1> QED BY <1>1, <1>2, <1>3, <1>4, <1>5, <1>6, <1>7, <1>8, <1>9, <1>10 DEF Failing

LEMMA NextTyped == TypeOK /\ [Next]_vars => TypeOK'
<1> SUFFICES ASSUME TypeOK, [Next]_vars PROVE TypeOK'
  OBVIOUS
<1>1. ASSUME NEW r \in Run, Reconciling(r) PROVE TypeOK'
  BY <1>1 DEF TypeOK, GitTypeOK, Reconciling, Age, ListStale, PersistStale, SetFile,
       gitVars, historyVars
<1>2. ASSUME NEW action \in Action, Grant(action) PROVE TypeOK'
  BY <1>2, DispatchAssumption
     DEF DispatchAssumption, TypeOK, GitTypeOK, Grant, gitVars, historyVars, documentVars
<1>3. CASE UNCHANGED vars
  BY <1>3 DEF TypeOK, GitTypeOK, vars, gitVars
<1> QED
  BY <1>1, <1>2, <1>3, SettingUpTyped, WorkingTyped, FinishingTyped, DeliveringTyped,
     FailingTyped DEF Next

LEMMA InitTyped == Init => TypeOK
<1> SUFFICES ASSUME Init PROVE TypeOK
  OBVIOUS
<1>1. GitTypeOK
  BY WorktreeAssumption DEF WorktreeAssumption, Init, GitInit, GitTypeOK
<1>2. work \in [Run -> Work]
  BY DEF Init, Unasked, Work, RunType, Item
<1>3. d \in [Run -> Local]
  BY DEF Init, Local, Before, QaVerdictValue, ReviewVerdictValue, SecurityVerdictValue
<1>4. faults \in 0 .. MaxFaults /\ grants \in 0 .. MaxGrants
  BY DispatchAssumption DEF DispatchAssumption, Init
<1> QED BY <1>1, <1>2, <1>3, <1>4 DEF Init, TypeOK

(* Every variable of a dispatch keeps its type; in particular no dispatch  *)
(* goes past the last role of its pipeline and the bounds on faults and    *)
(* approvals are kept.                                                     *)
THEOREM DispatchTypeCorrect == Spec => []TypeOK
BY InitTyped, NextTyped, PTL DEF Spec

(* What the roles of a feature are. *)
LEMMA FeatureTurn ==
  ASSUME TypeOK, NEW r \in Run, NEW roles, AtRole(r, roles), work[r].type = "feature"
  PROVE  /\ roles = {"development"} => d[r].at = 3
         /\ roles = {"qa"} => d[r].at = 4
         /\ "qa" \notin roles => d[r].at # 4
<1>1. d[r].at \in 1 .. 6
  BY TurnShort DEF TypeOK, Local
<1>2. PipelineForRunType("feature")[d[r].at] \in roles
  BY DEF AtRole, Stages
<1> QED BY <1>1, <1>2, FeatureStages

LEMMA DevelopTurn ==
  ASSUME TypeOK, NEW r \in Run, Develop(r)
  PROVE  \E ok \in BOOLEAN, written \in SUBSET Written :
           /\ TakesTurn(r, ok)
           /\ EditTree(r, written)
           /\ r \in refused' => r \in refused \/ ~ok
<1>1. work[r].runtime \in Runner
  BY DEF Develop, MayEdit, TypeOK, Work
<1>2. PICK result \in RuntimeResults(work[r].runtime) :
        /\ EditTree(r, result.changed)
        /\ refused' = IF result.refused THEN refused \cup {r} ELSE refused
        /\ d' = [d EXCEPT ![r] = Step(r, result.ok)]
  BY DEF Develop
<1>3. /\ result.ok \in BOOLEAN /\ result.changed \subseteq Written
      /\ result.refused => ~result.ok
  BY <1>1, <1>2, ResultsTyped
<1>4. AtRole(r, {"development"})
  BY DEF Develop
<1>5. TakesTurn(r, result.ok)
  BY <1>2, <1>3, <1>4, PlainTurn
<1> QED BY <1>2, <1>3, <1>5

-----------------------------------------------------------------------------
(* One run at a time.                                                      *)

Same(q) ==
  /\ d'[q] = d[q] /\ file'[q] = file[q] /\ work'[q] = work[q]
  /\ content'[q] = content[q] /\ saved'[q] = saved[q] /\ remote'[q] = remote[q]
  /\ tested'[q] = tested[q]
  /\ q \in trees' <=> q \in trees
  /\ q \in pushed' <=> q \in pushed
  /\ q \in proposed' <=> q \in proposed
  /\ q \in refused' <=> q \in refused
  /\ q \in unsaved' <=> q \in unsaved
  /\ q \in overtaken' <=> q \in overtaken

Only(r) == \A q \in Run \ {r} : Same(q)

LEMMA SameKeeps ==
  ASSUME NEW q \in Run, RunInv(q), Same(q)
  PROVE  RunInv(q)'
BY DEF RunInv, Same, Untouched, OpenWhileInside, WentThrough, CommittedOnce, Passed,
       PushedLast, RefusedFails, KeptInTree, TestedAfterwards, Told, Reviewed, Stages

(* A step of a run changes nothing of the other runs. *)
LEMMA StepsApart ==
  ASSUME TypeOK, NEW r \in Run,
         SettingUp(r) \/ Working(r) \/ Finishing(r) \/ Delivering(r) \/ Failing(r)
           \/ Reconciling(r)
  PROVE  Only(r)
<1> USE DEF TypeOK, GitTypeOK, Only, Same, gitVars, historyVars, runVars, documentVars
<1>1. CASE SettingUp(r)
  BY <1>1 DEF SettingUp, Start, MarkRunning, WritePacket, LookForRepo, InitialiseRepo,
       InitRepo, CommitFirst, CommitBase, AddWorktree, AddTree, NoBase, Goto, SetFile
<1>2. CASE Working(r)
  BY ZenonT(60), <1>2 DEF Working, Refuse, Draft, Plan, Develop, Verify, Review, Secure,
       EndPipeline, EditTree, Goto
<1>3. CASE Finishing(r)
  BY <1>3 DEF Finishing, CommitWork, CommitTree, Release, RemoveTree, Settle, Goto, SetFile
<1>4. CASE Delivering(r)
  BY <1>4 DEF Delivering, Deliver, Provision, LinkRepository, Push, PushBranch, Publish,
       Report, Tell, Goto
<1>5. CASE Failing(r)
  BY <1>5 DEF Failing, SetupFails, AgentThrows, CommitFails, ReleaseFails, SettleFails,
       LinkFails, PushFails, PublishFails, ReportFails, Crash, Tell, Goto
<1>6. CASE Reconciling(r)
  BY <1>6 DEF Reconciling, Age, ListStale, PersistStale, SetFile
<1> QED BY <1>1, <1>2, <1>3, <1>4, <1>5, <1>6

LEMMA InitRunInv == Init => DispatchInv
BY DEF Init, GitInit, DispatchInv, RunInv, Untouched, OpenWhileInside, WentThrough, CommittedOnce,
       Passed, PushedLast, RefusedFails, KeptInTree, TestedAfterwards, Told, Reviewed,
       Before, Setup, Inside, Delivery

LEMMA SettingUpKeeps ==
  ASSUME TypeOK, NEW r \in Run, RunInv(r), SettingUp(r)
  PROVE  RunInv(r)'
<1> USE DEF TypeOK, GitTypeOK, RunInv, Untouched, OpenWhileInside, WentThrough, CommittedOnce,
            Passed, PushedLast, RefusedFails, KeptInTree, TestedAfterwards, Told, Reviewed,
            Stages, Before, Setup, Inside, Delivery, gitVars, historyVars, runVars,
            documentVars
<1>1. CASE Start(r)
  <2>1. d[r] \in Local
    OBVIOUS
  <2>2. /\ d'[r].pc = "started" /\ Carries(r)
    BY <1>1, <2>1 DEF Start, Carries, Local
  <2> QED BY <1>1, <2>2 DEF Start, SetFile, Carries
<1>2. CASE MarkRunning(r)
  <2>1. Moves(r, {"packet"})
    BY <1>2, Moving DEF MarkRunning, Pcs
  <2> QED BY <1>2, <2>1 DEF MarkRunning, SetFile, Moves, Carries
<1>3. CASE WritePacket(r)
  <2>1. Moves(r, {"look", "work"})
    BY <1>3, Moving DEF WritePacket, Pcs, Moves
  <2> QED BY <1>3, <2>1 DEF WritePacket, Moves, Carries
<1>4. CASE LookForRepo(r)
  <2>1. Moves(r, {"add", "init"})
    BY <1>4, Moving DEF LookForRepo, Pcs, Over, Moves
  <2> QED BY <1>4, <2>1 DEF LookForRepo, Moves, Carries
<1>5. CASE InitialiseRepo(r)
  <2>1. Moves(r, {"first_commit"})
    BY <1>5, Moving DEF InitialiseRepo, Pcs, Over, Moves
  <2> QED BY <1>5, <2>1 DEF InitialiseRepo, Moves, Carries, InitRepo
<1>6. CASE CommitFirst(r)
  <2>1. Moves(r, {"add"})
    BY <1>6, Moving DEF CommitFirst, Pcs, Over, Moves
  <2> QED BY <1>6, <2>1 DEF CommitFirst, Moves, Carries, CommitBase
<1>7. CASE AddWorktree(r)
  <2>1. Moves(r, {"work"})
    BY <1>7, Moving DEF AddWorktree, Pcs, Moves
  <2>2. content'[r] = saved[r]
    BY <1>7 DEF AddWorktree, AddTree
  <2> QED BY <1>7, <2>1, <2>2 DEF AddWorktree, AddTree, Moves, Carries
<1>8. CASE NoBase(r)
  <2>1. Moves(r, {"thrown"})
    BY <1>8, Moving DEF NoBase, Pcs, Over, Moves
  <2> QED BY <1>8, <2>1 DEF NoBase, Moves, Carries
<1> QED BY <1>1, <1>2, <1>3, <1>4, <1>5, <1>6, <1>7, <1>8 DEF SettingUp

LEMMA WorkingKeeps ==
  ASSUME TypeOK, NEW r \in Run, RunInv(r), Working(r)
  PROVE  RunInv(r)'
<1> DEFINE Turn(ok) ==
      /\ TakesTurn(r, ok)
      /\ file' = file /\ work' = work /\ trees' = trees /\ saved' = saved
      /\ remote' = remote /\ pushed' = pushed /\ proposed' = proposed
<1>a. ASSUME NEW ok \in BOOLEAN, Turn(ok), content' = content, tested' = tested, refused' = refused,
             ~ok \/ (work[r].type = "feature" => d[r].at # 4)
      PROVE  RunInv(r)'
  BY <1>a DEF TakesTurn, TypeOK, Local, RunInv, Untouched, OpenWhileInside, WentThrough,
       CommittedOnce, Passed, PushedLast, RefusedFails, KeptInTree, TestedAfterwards,
       Told, Reviewed, Stages, Before, Setup, Inside, Delivery
<1>1. CASE Refuse(r)
  <2>1. TakesTurn(r, FALSE)
    BY <1>1, PlainTurn DEF Refuse
  <2> QED BY <1>1, <1>a, <2>1 DEF Refuse, gitVars, historyVars, runVars, documentVars
<1>2. CASE Draft(r)
  <2>1. PICK ok \in BOOLEAN : TakesTurn(r, ok)
    BY <1>2, PlainTurn DEF Draft
  <2>2. work[r].type = "feature" => d[r].at # 4
    BY <1>2, FeatureTurn DEF Draft
  <2> QED BY <1>2, <1>a, <2>1, <2>2 DEF Draft, gitVars, historyVars, runVars, documentVars
<1>3. CASE Plan(r)
  <2>1. PICK ok \in BOOLEAN : TakesTurn(r, ok)
    BY <1>3, PlainTurn DEF Plan
  <2>2. work[r].type = "feature" => d[r].at # 4
    BY <1>3, FeatureTurn DEF Plan
  <2> QED BY <1>3, <1>a, <2>1, <2>2 DEF Plan, gitVars, historyVars, runVars, documentVars
<1>4. CASE Develop(r)
  <2>1. PICK ok \in BOOLEAN, written \in SUBSET Written :
          /\ TakesTurn(r, ok)
          /\ EditTree(r, written)
          /\ r \in refused' => r \in refused \/ ~ok
    BY <1>4, DevelopTurn
  <2>2. work[r].type = "feature" => d[r].at = 3
    BY <1>4, FeatureTurn DEF Develop
  <2>3. content'[r] = content[r] \cup written /\ Turn(ok) /\ tested' = tested
    BY <1>4, <2>1 DEF EditTree, Develop, TypeOK, GitTypeOK, runVars, documentVars
  <2> QED
    BY <2>1, <2>2, <2>3
    DEF TakesTurn, TypeOK, Local, RunInv, Untouched, OpenWhileInside, WentThrough,
        CommittedOnce, Passed, PushedLast, RefusedFails, KeptInTree, TestedAfterwards,
        Told, Reviewed, Stages, Before, Setup, Inside, Delivery
<1>5. CASE Verify(r)
  <2>1. PICK criteria \in Criteria, tests \in Tests, left \in SUBSET {"leftover"} :
          /\ (tests = "none") <=> r \notin trees
          /\ EditTree(r, left)
          /\ tested' = [tested EXCEPT ![r] =
                          IF tests # "none" /\ ~TestsBlocked(tests) THEN content[r] ELSE @]
          /\ TakesTurn(r, QaOk(QaVerdict(criteria, tests)))
    BY <1>5, VerifyTurn
  <2> DEFINE ok == QaOk(QaVerdict(criteria, tests))
  <2>2. TestsBlocked(tests) => ~ok
    BY DEF QaVerdict, QaOk
  <2>3. work[r].type = "feature" => d[r].at = 4
    BY <1>5, FeatureTurn DEF Verify
  <2>4. content'[r] = content[r] \cup left /\ Turn(ok) /\ refused' = refused
    BY <1>5, <2>1 DEF EditTree, Verify, TypeOK, GitTypeOK, runVars, documentVars
  <2>5. content[r] \subseteq Written => content'[r] \ {"leftover"} = content[r]
    BY <2>4 DEF Written
  <2>6. r \in trees /\ ~TestsBlocked(tests) => tested'[r] = content[r]
    BY <2>1 DEF TypeOK
  <2>7. ok \in BOOLEAN
    BY DEF QaOk
  <2> HIDE DEF ok
  <2> QED
    BY <2>2, <2>3, <2>4, <2>5, <2>6, <2>7
    DEF TakesTurn, TypeOK, Local, RunInv, Untouched, OpenWhileInside, WentThrough,
        CommittedOnce, Passed, PushedLast, RefusedFails, KeptInTree, TestedAfterwards,
        Told, Reviewed, Stages, Before, Setup, Inside, Delivery
<1>6. CASE Review(r)
  <2>1. PICK ok \in BOOLEAN : TakesTurn(r, ok)
    BY <1>6, ReviewTurn
  <2>2. work[r].type = "feature" => d[r].at # 4
    BY <1>6, FeatureTurn DEF Review
  <2> QED BY <1>6, <1>a, <2>1, <2>2 DEF Review, gitVars, historyVars, runVars, documentVars
<1>7. CASE Secure(r)
  <2>1. PICK ok \in BOOLEAN : TakesTurn(r, ok)
    BY <1>7, SecureTurn
  <2>2. work[r].type = "feature" => d[r].at # 4
    BY <1>7, FeatureTurn DEF Secure
  <2> QED BY <1>7, <1>a, <2>1, <2>2 DEF Secure, gitVars, historyVars, runVars, documentVars
<1>8. CASE EndPipeline(r)
  <2>1. Moves(r, {"commit"})
    BY <1>8, Moving DEF EndPipeline, Pcs, Inside
  <2> QED
    BY <1>8, <2>1
    DEF EndPipeline, Moves, Carries, TypeOK, Local, RunInv, Untouched, OpenWhileInside,
        WentThrough, CommittedOnce, Passed, PushedLast, RefusedFails, KeptInTree,
        TestedAfterwards, Told, Reviewed, Stages, Before, Setup, Inside, Delivery,
        gitVars, historyVars, runVars, documentVars
<1> QED BY <1>1, <1>2, <1>3, <1>4, <1>5, <1>6, <1>7, <1>8 DEF Working

LEMMA FinishingKeeps ==
  ASSUME TypeOK, NEW r \in Run, RunInv(r), Finishing(r)
  PROVE  RunInv(r)'
<1> USE DEF TypeOK, GitTypeOK, RunInv, Untouched, OpenWhileInside, WentThrough, CommittedOnce,
            Passed, PushedLast, RefusedFails, KeptInTree, TestedAfterwards, Told, Reviewed,
            Stages, Before, Setup, Inside, Delivery, gitVars, historyVars, runVars,
            documentVars
<1>1. CASE CommitWork(r)
  <2>1. /\ d'[r].pc = "release" /\ d'[r].at = d[r].at /\ d'[r].failed = d[r].failed
        /\ d'[r].thrown = d[r].thrown
        /\ r \in trees => d'[r].committed = Staged(r) /\ saved'[r] = content[r]
        /\ r \notin trees => d'[r].committed = d[r].committed /\ saved'[r] = saved[r]
    BY <1>1, CommitDoes DEF CommitWork, CommitTree
  <2>2. work[r].type = "feature" => Len(Stages(r)) = 6
    BY FeatureStages
  <2> QED BY <1>1, <2>1, <2>2 DEF CommitWork, CommitTree, Local
<1>2. CASE Release(r)
  <2>1. Moves(r, {IF d[r].thrown THEN "thrown" ELSE "settle"})
    BY <1>2, Moving DEF Release, Pcs, Over, Moves
  <2> QED BY <1>2, <2>1 DEF Release, Moves, Carries, RemoveTree
<1>3. CASE Settle(r)
  <2>1. Moves(r, {IF ~d[r].failed /\ d[r].committed THEN "deliver" ELSE "done"})
    BY <1>3, Moving DEF Settle, Pcs, Over, Moves
  <2> QED BY <1>3, <2>1 DEF Settle, Moves, Carries, SetFile, SettledStatus
<1> QED BY <1>1, <1>2, <1>3 DEF Finishing

LEMMA DeliveringKeeps ==
  ASSUME TypeOK, NEW r \in Run, RunInv(r), Delivering(r)
  PROVE  RunInv(r)'
<1> USE DEF TypeOK, GitTypeOK, RunInv, Untouched, OpenWhileInside, WentThrough, CommittedOnce,
            Passed, PushedLast, RefusedFails, KeptInTree, TestedAfterwards, Told, Reviewed,
            Stages, Before, Setup, Inside, Delivery, gitVars, historyVars, runVars,
            documentVars
<1>1. CASE Deliver(r)
  <2>1. Moves(r, {"provision", "push", "done"})
    BY <1>1, Moving, TellTyped DEF Deliver, Pcs, Over, Moves
  <2> QED BY <1>1, <2>1 DEF Deliver, Moves, Carries
<1>2. CASE Provision(r)
  <2>1. Moves(r, {"link", "done"})
    BY <1>2, Moving, TellTyped DEF Provision, Pcs, Over, Moves
  <2> QED BY <1>2, <2>1 DEF Provision, Moves, Carries
<1>3. CASE LinkRepository(r)
  <2>1. Moves(r, {"push"})
    BY <1>3, Moving DEF LinkRepository, Pcs, Over, Moves
  <2> QED BY <1>3, <2>1 DEF LinkRepository, Moves, Carries
<1>4. CASE Push(r)
  <2>1. CASE Allowed("push_commits")
    <3>1. Moves(r, {"publish"})
      BY <1>4, <2>1, Moving DEF Push, Pcs
    <3> QED BY <1>4, <2>1, <3>1 DEF Push, Moves, Carries, PushBranch
  <2>2. CASE ~Allowed("push_commits")
    <3>1. Moves(r, {"done"})
      BY <1>4, <2>2, TellTyped DEF Push
    <3> QED BY <1>4, <2>2, <3>1 DEF Push, Moves, Carries
  <2> QED BY <2>1, <2>2
<1>5. CASE Publish(r)
  <2>1. Moves(r, {"report", "done"})
    BY <1>5, Moving, TellTyped DEF Publish, Pcs, Over, Moves
  <2> QED BY <1>5, <2>1 DEF Publish, Moves, Carries, Publishable, EvidenceSuffices
<1>6. CASE Report(r)
  <2>1. Moves(r, {"done"})
    BY <1>6, TellTyped DEF Report, Pcs, Over, Moves
  <2> QED BY <1>6, <2>1 DEF Report, Moves, Carries
<1> QED BY <1>1, <1>2, <1>3, <1>4, <1>5, <1>6 DEF Delivering

LEMMA FailingKeeps ==
  ASSUME TypeOK, NEW r \in Run, RunInv(r), Failing(r)
  PROVE  RunInv(r)'
<1> USE DEF TypeOK, GitTypeOK, RunInv, Untouched, OpenWhileInside, WentThrough, CommittedOnce,
            Passed, PushedLast, RefusedFails, KeptInTree, TestedAfterwards, Told, Reviewed,
            Stages, Before, Setup, Inside, Delivery, gitVars, historyVars, runVars,
            documentVars
<1>1. CASE SetupFails(r)
  <2>1. Moves(r, {"thrown"})
    BY <1>1, Moving DEF SetupFails, Pcs, Over, Moves
  <2> QED BY <1>1, <2>1 DEF SetupFails, Moves, Carries
<1>2. CASE AgentThrows(r)
  BY <1>2, ThrowDoes DEF AgentThrows
<1>3. CASE CommitFails(r)
  <2>1. Moves(r, {"release"})
    BY <1>3, Moving DEF CommitFails, Pcs, Over, Moves
  <2> QED BY <1>3, <2>1 DEF CommitFails, Moves, Carries
<1>4. CASE ReleaseFails(r)
  <2>1. Moves(r, {IF d[r].thrown THEN "thrown" ELSE "settle"})
    BY <1>4, Moving DEF ReleaseFails, Pcs, Over, Moves
  <2> QED BY <1>4, <2>1 DEF ReleaseFails, Moves, Carries
<1>5. CASE SettleFails(r)
  <2>1. Moves(r, {"thrown"})
    BY <1>5, Moving DEF SettleFails, Pcs, Over, Moves
  <2> QED BY <1>5, <2>1 DEF SettleFails, Moves, Carries
<1>6. CASE LinkFails(r)
  <2>1. Moves(r, {"done"})
    BY <1>6, TellTyped DEF LinkFails, Pcs, Over, Moves
  <2> QED BY <1>6, <2>1 DEF LinkFails, Moves, Carries
<1>7. CASE PushFails(r)
  <2>1. Moves(r, {"done"})
    BY <1>7, TellTyped DEF PushFails, Pcs, Over, Moves
  <2> QED BY <1>7, <2>1 DEF PushFails, Moves, Carries
<1>8. CASE PublishFails(r)
  <2>1. Moves(r, {"done"})
    BY <1>8, TellTyped DEF PublishFails, Pcs, Over, Moves
  <2> QED BY <1>8, <2>1 DEF PublishFails, Moves, Carries
<1>9. CASE ReportFails(r)
  <2>1. Moves(r, {"done"})
    BY <1>9, TellTyped DEF ReportFails, Pcs, Over, Moves
  <2> QED BY <1>9, <2>1 DEF ReportFails, Moves, Carries
<1>10. CASE Crash(r)
  <2>1. Moves(r, {IF d[r].pc = "started" THEN "lost" ELSE "dead"})
    BY <1>10, Moving DEF Crash, Pcs, Over, Moves
  <2> QED BY <1>10, <2>1 DEF Crash, Moves, Carries, Local, Over
<1> QED BY <1>1, <1>2, <1>3, <1>4, <1>5, <1>6, <1>7, <1>8, <1>9, <1>10 DEF Failing

LEMMA NextRunInv == TypeOK /\ DispatchInv /\ [Next]_vars => DispatchInv'
<1> SUFFICES ASSUME TypeOK, DispatchInv, [Next]_vars PROVE DispatchInv'
  OBVIOUS
<1>1. ASSUME NEW r \in Run, RunInv(r)', Only(r) PROVE DispatchInv'
  <2>1. ASSUME NEW q \in Run, q # r PROVE RunInv(q)'
    BY <1>1, <2>1, SameKeeps DEF DispatchInv, Only
  <2> QED BY <1>1, <2>1 DEF DispatchInv
<1>2. ASSUME NEW r \in Run,
             SettingUp(r) \/ Working(r) \/ Finishing(r) \/ Delivering(r) \/ Failing(r)
      PROVE  DispatchInv'
  <2>1. Only(r)
    BY <1>2, StepsApart
  <2>2. RunInv(r)
    BY DEF DispatchInv
  <2>3. RunInv(r)'
    BY <1>2, <2>2, SettingUpKeeps, WorkingKeeps, FinishingKeeps, DeliveringKeeps, FailingKeeps
  <2> QED BY <1>1, <2>1, <2>3
<1>3. ASSUME NEW r \in Run, Reconciling(r) PROVE DispatchInv'
  <2>1. Only(r)
    BY <1>3, StepsApart
  <2>2. RunInv(r)'
    BY <1>3
    DEF Reconciling, Age, ListStale, PersistStale, SetFile, DispatchInv, TypeOK, gitVars,
        historyVars, documentVars, RunInv, Untouched, OpenWhileInside, WentThrough, CommittedOnce,
        Passed, PushedLast, RefusedFails, KeptInTree, TestedAfterwards, Told, Reviewed,
        Stages
  <2> QED BY <1>1, <2>1, <2>2
<1>4. CASE (\E action \in Action : Grant(action)) \/ UNCHANGED vars
  <2>1. \A q \in Run : Same(q)
    BY <1>4 DEF Grant, vars, gitVars, historyVars, documentVars, Same
  <2> QED BY <2>1, SameKeeps DEF DispatchInv
<1> QED BY <1>2, <1>3, <1>4 DEF Next

LEMMA AlwaysDispatchInv == Spec => [](TypeOK /\ DispatchInv)
<1>1. Init => TypeOK /\ DispatchInv
  BY InitTyped, InitRunInv
<1>2. TypeOK /\ DispatchInv /\ [Next]_vars => (TypeOK /\ DispatchInv)'
  BY NextTyped, NextRunInv
<1> QED BY <1>1, <1>2, PTL DEF Spec

-----------------------------------------------------------------------------
(* A diff the runtime refused stays on the machine: the refusal fails the  *)
(* role, the failure the run, and a failed run is not delivered, whatever  *)
(* the later roles find and whatever the owner approves meanwhile.         *)
THEOREM RefusedNeverLeaves == Spec => []RefusedStaysHome
<1>1. TypeOK /\ DispatchInv => RefusedStaysHome
  BY DEF TypeOK, DispatchInv, RunInv, RefusedFails, Passed, RefusedStaysHome
<1> QED BY <1>1, AlwaysDispatchInv, PTL

(* The verdicts behind a pull request are those of the run as it was       *)
(* committed and pushed, two gates and several steps later.                *)
THEOREM ProposalsReviewed == Spec => []ProposedMeansReviewed
<1>1. TypeOK /\ DispatchInv => ProposedMeansReviewed
  BY DEF TypeOK, DispatchInv, RunInv, Reviewed, Passed, PushedLast, ProposedMeansReviewed
<1> QED BY <1>1, AlwaysDispatchInv, PTL

(* What a feature run pushes is the tree QA tested, but for what the tests *)
(* left there.                                                             *)
THEOREM FeaturesShipTested == Spec => []FeatureShipsWhatWasTested
<1>1. TypeOK /\ DispatchInv => FeatureShipsWhatWasTested
  BY DEF TypeOK, GitTypeOK, DispatchInv, RunInv, TestedAfterwards, Passed, PushedLast,
         FeatureShipsWhatWasTested
<1> QED BY <1>1, AlwaysDispatchInv, PTL

(* A document that says completed tells of a pipeline that ended with      *)
(* every role ok, however the dispatch ends, is reconciled or dies.        *)
THEOREM StatusTrue == Spec => []StatusTellsOutcome
<1>1. TypeOK /\ DispatchInv => StatusTellsOutcome
  BY DEF DispatchInv, RunInv, Told, StatusTellsOutcome
<1> QED BY <1>1, AlwaysDispatchInv, PTL

(* A working tree is removed by force only after its edits are on the      *)
(* run's branch, or after their commit failed.                             *)
THEOREM WorkKept == Spec => WorkIsKept
<1> DEFINE Keeps == \A r \in trees \ trees' : saved[r] = content[r] \/ r \in unsaved
<1>1. TypeOK /\ DispatchInv /\ [Next]_vars => Keeps
  <2> SUFFICES ASSUME TypeOK, DispatchInv, [Next]_vars, NEW q \in trees \ trees'
               PROVE  saved[q] = content[q] \/ q \in unsaved
    OBVIOUS
  <2>1. q \in Run
    BY DEF TypeOK, GitTypeOK
  <2>2. PICK r \in Run : Release(r)
    <3>1. ASSUME NEW r \in Run, SettingUp(r) \/ Reconciling(r) PROVE trees \subseteq trees'
      BY <3>1 DEF SettingUp, Start, MarkRunning, WritePacket, LookForRepo, InitialiseRepo,
           InitRepo, CommitFirst, CommitBase, AddWorktree, AddTree, NoBase, Reconciling, Age,
           ListStale, PersistStale, gitVars
    <3>2. ASSUME NEW r \in Run, Working(r) PROVE trees' = trees
      BY <3>2 DEF Working, Refuse, Draft, Plan, Develop, Verify, Review, Secure,
           EndPipeline, EditTree, gitVars
    <3>3. ASSUME NEW r \in Run, CommitWork(r) \/ Settle(r) PROVE trees' = trees
      BY <3>3 DEF CommitWork, CommitTree, Settle, gitVars
    <3>4. ASSUME NEW r \in Run, Delivering(r) PROVE trees' = trees
      BY <3>4 DEF Delivering, Deliver, Provision, LinkRepository, Push, PushBranch, Publish,
           Report, gitVars
    <3>5. ASSUME NEW r \in Run, Failing(r) PROVE trees' = trees
      BY <3>5 DEF Failing, SetupFails, AgentThrows, CommitFails, ReleaseFails, SettleFails,
           LinkFails, PushFails, PublishFails, ReportFails, Crash, gitVars
    <3>6. CASE (\E action \in Action : Grant(action)) \/ UNCHANGED vars
      BY <3>6 DEF Grant, vars, gitVars
    <3> QED BY <3>1, <3>2, <3>3, <3>4, <3>5, <3>6 DEF Next, Finishing
  <2>3. q = r /\ d[r].pc = "release"
    BY <2>2 DEF Release, RemoveTree
  <2> QED BY <2>1, <2>3 DEF DispatchInv, RunInv, KeptInTree
<1>2. Spec => [](TypeOK /\ DispatchInv)
  BY AlwaysDispatchInv
<1>3. WorkIsKept <=> [][Keeps]_vars
  BY DEF WorkIsKept
<1> QED BY <1>1, <1>2, <1>3, PTL DEF Spec
=============================================================================
