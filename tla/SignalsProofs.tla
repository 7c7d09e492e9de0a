--------------------------- MODULE SignalsProofs ---------------------------
(***************************************************************************)
(* What holds of the reactions to signals, for any number of requests      *)
(* beside the daemon, any subjects and policies, and wherever the calls    *)
(* are cut off.                                                            *)
(*                                                                         *)
(* The argument: a call works with what it knew when it looked.  That is   *)
(* every entry the store had then, and every entry of its own since; what  *)
(* it does not know was entered after it looked, by another.               *)
(***************************************************************************)
EXTENDS Signals, TLAPS, SequenceTheorems

Triaging == {"triage", "fulfil", "dispatch"}

RunsSeen(a) ==
  me[a].pc \in Triaging =>
    /\ me[a].from <= Len(runs)
    /\ \A i \in DOMAIN runs :
         i <= me[a].from \/ runs[i].by = a => runs[i].source \in me[a].known

OppsSeen(a) ==
  me[a].pc = "import" =>
    /\ me[a].from <= Len(opps)
    /\ \A i \in DOMAIN opps :
         i <= me[a].from \/ opps[i].by = a => opps[i].source \in me[a].known

Seen == \A a \in Actor : RunsSeen(a) /\ OppsSeen(a)

SignalInv == Seen /\ OneRunPerSignal /\ OneOpportunityPerIssue /\ NoRunIsForgotten

-----------------------------------------------------------------------------
(* What the operators of the model give.                                   *)

LEMMA StampsThere == 0 \in Stamps /\ \A k \in Kind : 0 .. MaxStamp[k] \subseteq Stamps
<1>1. "issue" \in Kind /\ \A k \in Kind : MaxStamp[k] \in Nat
  BY SignalAssumption DEF SignalAssumption, Kind
<1> QED BY <1>1 DEF Stamps

LEMMA WhatTyped ==
  ASSUME TypeOK
  PROVE  Subjects \subseteq Subject /\ \A s \in Subjects : what[s] \in Kind
<1>1. PICK S \in SUBSET Subject : what \in [S -> Kind]
  BY SignalAssumption DEF SignalAssumption, TypeOK
<1> QED BY <1>1 DEF Subjects

LEMMA SourcesTyped ==
  ASSUME TypeOK, NEW s \in Subjects
  PROVE  Source(s) \in Sources /\ OpportunitySource(s) \in Sources
<1>1. s \in Subject /\ stamp[s] \in Stamps
  BY WhatTyped DEF TypeOK
<1> QED BY <1>1, StampsThere DEF Source, OpportunitySource, Sources

LEMMA CandidatesTyped ==
  ASSUME TypeOK, NEW call
  PROVE  Candidates(call) \subseteq Sources
BY SourcesTyped DEF Candidates

LEMMA ChangeTyped ==
  ASSUME TypeOK, NEW S, S \subseteq Subjects, Change(S)
  PROVE  stamp' \in [Subject -> Stamps] /\ age' \in [Subject -> 0 .. Threshold]
<1>1. \A s \in S : Later(s) \in Stamps
  <2>1. ASSUME NEW s \in S PROVE Later(s) \in Stamps
    <3>1. s \in Subject /\ stamp[s] \in Stamps /\ what[s] \in Kind
      BY WhatTyped DEF TypeOK
    <3>2. MaxStamp[what[s]] \in Nat /\ 0 .. MaxStamp[what[s]] \subseteq Stamps
      BY <3>1, StampsThere, SignalAssumption DEF SignalAssumption
    <3>3. stamp[s] \in Nat
      <4>1. PICK k \in Kind : stamp[s] \in 0 .. MaxStamp[k]
        BY <3>1 DEF Stamps
      <4>2. MaxStamp[k] \in Nat
        BY SignalAssumption DEF SignalAssumption
      <4> QED BY <4>1, <4>2
    <3> QED BY <3>1, <3>2, <3>3 DEF Later, Changes
  <2> QED BY <2>1
<1>2. 0 \in 0 .. Threshold
  BY SignalAssumption DEF SignalAssumption
<1> QED BY <1>1, <1>2 DEF Change, TypeOK

LEMMA KnownTyped ==
  ASSUME TypeOK
  PROVE  /\ KnownSources \subseteq Sources /\ SourcesOf(opps) \subseteq Sources
         /\ Len(runs) \in Nat /\ Len(opps) \in Nat
<1>1. \A i \in DOMAIN runs : runs[i] \in RunEntry
  BY DEF TypeOK
<1>2. \A i \in DOMAIN opps : opps[i] \in Entry
  BY DEF TypeOK
<1>3. Len(runs) \in Nat /\ Len(opps) \in Nat
  BY DEF TypeOK
<1> QED BY <1>1, <1>2, <1>3 DEF KnownSources, SourcesOf, RunEntry, Entry

(* The local state a step leaves behind.                                   *)
OthersStay(a) == \A b \in Actor \ {a} : me'[b] = me[b]

LEMMA BecomeDoes ==
  ASSUME me \in [Actor -> Local], NEW a \in Actor, NEW new \in Local, Become(a, new)
  PROVE  me' \in [Actor -> Local] /\ me'[a] = new /\ OthersStay(a)
BY DEF Become, OthersStay

LEMMA IdleTyped == Idle \in Local /\ Idle.pc = "idle"
BY DEF Idle, Local, Pc, Call

Goes(a, pc) ==
  /\ me' \in [Actor -> Local] /\ OthersStay(a) /\ me'[a].pc = pc
  /\ me'[a].call = me[a].call /\ me'[a].seen = me[a].seen /\ me'[a].known = me[a].known
  /\ me'[a].from = me[a].from /\ me'[a].run = me[a].run

LEMMA GotoGoes ==
  ASSUME me \in [Actor -> Local], NEW a \in Actor, NEW pc \in Pc, Goto(a, pc)
  PROVE  Goes(a, pc)
<1> DEFINE x == [me[a] EXCEPT !.pc = pc]
<1>1. /\ x \in Local /\ x.pc = pc /\ x.call = me[a].call /\ x.seen = me[a].seen
      /\ x.known = me[a].known /\ x.from = me[a].from /\ x.run = me[a].run
  BY DEF Local
<1>2. Become(a, x)
  BY DEF Goto, Become
<1> HIDE DEF x
<1> QED BY <1>1, <1>2, BecomeDoes DEF Goes

LEMMA DoneGoes ==
  ASSUME me \in [Actor -> Local], NEW a \in Actor, NEW y, Become(a, Done(a, y))
  PROVE  Goes(a, me[a].pc)
<1> DEFINE x == [me[a] EXCEPT !.todo = me[a].todo \ {y}]
<1>1. /\ x \in Local /\ x.pc = me[a].pc /\ x.call = me[a].call /\ x.seen = me[a].seen
      /\ x.known = me[a].known /\ x.from = me[a].from /\ x.run = me[a].run
  BY DEF Local
<1>2. Become(a, x)
  BY DEF Done
<1> HIDE DEF x
<1> QED BY <1>1, <1>2, BecomeDoes DEF Goes

(* A call that begins to work through what it found.                       *)
Looks(a, pc, from) ==
  /\ me' \in [Actor -> Local] /\ OthersStay(a) /\ me'[a].pc = pc /\ me'[a].from = from

LEMMA ScanLooks ==
  ASSUME TypeOK, NEW a \in Actor, NEW call \in {"operational", "memory"}, ScanBegins(a, call)
  PROVE  Looks(a, "triage", Len(runs)) /\ me'[a].known = KnownSources
<1> DEFINE x == [Idle EXCEPT !.pc = "triage", !.call = call, !.known = KnownSources,
                             !.from = Len(runs), !.todo = Candidates(call)]
<1>1. x \in Local /\ x.pc = "triage" /\ x.from = Len(runs) /\ x.known = KnownSources
  BY IdleTyped, KnownTyped, CandidatesTyped DEF Local, Pc, Call, Idle
<1>2. Become(a, x)
  BY DEF ScanBegins
<1> HIDE DEF x
<1> QED BY <1>1, <1>2, BecomeDoes DEF Looks, TypeOK

LEMMA TriggerLooks ==
  ASSUME TypeOK, NEW a \in Actor, TriggerBegins(a)
  PROVE  Looks(a, "triage", Len(runs)) /\ me'[a].known = KnownSources
<1> DEFINE x == [me[a] EXCEPT !.pc = "triage", !.known = KnownSources, !.from = Len(runs),
                              !.todo = me[a].seen \ Issues(me[a].seen)]
<1>1. x \in Local /\ x.pc = "triage" /\ x.from = Len(runs) /\ x.known = KnownSources
  BY KnownTyped DEF TypeOK, Local, Pc
<1>2. Become(a, x)
  BY DEF TriggerBegins
<1> HIDE DEF x
<1> QED BY <1>1, <1>2, BecomeDoes DEF Looks, TypeOK

LEMMA ImportLooks ==
  ASSUME TypeOK, NEW a \in Actor, LookUp(a)
  PROVE  Looks(a, "import", Len(opps)) /\ me'[a].known = SourcesOf(opps)
<1> DEFINE x == [me[a] EXCEPT !.pc = "import", !.known = SourcesOf(opps), !.from = Len(opps)]
<1>1. x \in Local /\ x.pc = "import" /\ x.from = Len(opps) /\ x.known = SourcesOf(opps)
  BY KnownTyped DEF TypeOK, Local, Pc
<1>2. Become(a, x)
  BY DEF LookUp
<1> HIDE DEF x
<1> QED BY <1>1, <1>2, BecomeDoes DEF Looks, TypeOK

LEMMA SyncLooks ==
  ASSUME TypeOK, NEW a \in Actor, SyncBegins(a)
  PROVE  me' \in [Actor -> Local] /\ OthersStay(a) /\ me'[a].pc = "look_up"
<1> DEFINE x == [Idle EXCEPT !.pc = "look_up", !.seen = Candidates("sync")]
<1>1. x \in Local /\ x.pc = "look_up"
  BY IdleTyped, CandidatesTyped DEF Local, Pc, Idle
<1>2. Become(a, x)
  BY DEF SyncBegins
<1> HIDE DEF x
<1> QED BY <1>1, <1>2, BecomeDoes DEF TypeOK

LEMMA DeliveryLooks ==
  ASSUME TypeOK, NEW a \in Actor, NEW y \in Sources, DeliveryArrives(a, y)
  PROVE  me' \in [Actor -> Local] /\ OthersStay(a) /\ me'[a].pc = "dedupe"
<1> DEFINE x == [Idle EXCEPT !.pc = "dedupe", !.call = "webhook", !.seen = {y}]
<1>1. x \in Local /\ x.pc = "dedupe"
  BY IdleTyped DEF Local, Pc, Call, Idle
<1>2. Become(a, x)
  BY DEF DeliveryArrives
<1> HIDE DEF x
<1> QED BY <1>1, <1>2, BecomeDoes DEF TypeOK

LEMMA ImportDoes ==
  ASSUME TypeOK, NEW a \in Actor, Import(a)
  PROVE  \E source \in Sources :
           /\ source \notin me[a].known /\ me[a].pc = "import"
           /\ opps' = Append(opps, [source |-> source, by |-> a, from |-> me[a].from])
           /\ me' \in [Actor -> Local] /\ OthersStay(a) /\ me'[a].pc = "import"
           /\ me'[a].from = me[a].from /\ me'[a].known = me[a].known \cup {source}
<1>1. PICK y \in Unknown(a) :
        /\ opps' = Append(opps, [source |-> OpportunitySource(y[1]), by |-> a, from |-> me[a].from])
        /\ Become(a, [me[a] EXCEPT !.known = @ \cup {OpportunitySource(y[1])}])
  BY DEF Import
<1> DEFINE source == OpportunitySource(y[1])
           x == [me[a] EXCEPT !.known = me[a].known \cup {source}]
<1>2. source \in Sources /\ source \notin me[a].known
  <2>1. y \in me[a].seen /\ me[a].seen \subseteq Sources
    BY DEF Unknown, Issues, TypeOK, Local
  <2>2. y[1] \in Subject
    BY <2>1 DEF Sources
  <2> QED BY <2>2, StampsThere DEF Unknown, OpportunitySource, Sources
<1>3. Become(a, x) /\ opps' = Append(opps, [source |-> source, by |-> a, from |-> me[a].from])
  BY <1>1
<1> HIDE DEF source
<1>4. x \in Local /\ x.pc = me[a].pc /\ x.from = me[a].from /\ x.known = me[a].known \cup {source}
  BY <1>2 DEF TypeOK, Local
<1>5. me[a].pc = "import"
  BY DEF Import
<1> HIDE DEF x
<1> QED BY <1>2, <1>3, <1>4, <1>5, BecomeDoes DEF TypeOK

LEMMA StartRunDoes ==
  ASSUME TypeOK, NEW a \in Actor, StartRun(a)
  PROVE  \E x \in Sources, state \in {"started", "parked"} :
           /\ x \notin me[a].known /\ me[a].pc = "triage"
           /\ runs' = Append(runs, [source |-> x, by |-> a, from |-> me[a].from, state |-> state])
           /\ me' \in [Actor -> Local] /\ OthersStay(a) /\ me'[a].pc \in {"fulfil", "dispatch"}
           /\ me'[a].from = me[a].from /\ me'[a].known = me[a].known \cup {x}
           /\ me'[a].run = Len(runs) + 1
<1> DEFINE next == IF me[a].call \in {"operational", "memory"} THEN "fulfil" ELSE "dispatch"
<1>1. PICK x \in me[a].todo \ me[a].known, state \in {"started", "parked"} :
        /\ runs' = Append(runs, [source |-> x, by |-> a, from |-> me[a].from, state |-> state])
        /\ Become(a, [Done(a, x) EXCEPT !.known = @ \cup {x}, !.run = Len(runs) + 1, !.pc = next])
  BY DEF StartRun
<1>2. next \in {"fulfil", "dispatch"}
  OBVIOUS
<1> HIDE DEF next
<1> DEFINE y == [me[a] EXCEPT !.todo = me[a].todo \ {x}, !.known = me[a].known \cup {x},
                              !.run = Len(runs) + 1, !.pc = next]
<1>3. /\ me[a] \in Local /\ x \in Sources /\ Len(runs) + 1 \in Nat
  BY KnownTyped DEF TypeOK, Local
<1>4. /\ y \in Local /\ y.pc = next /\ y.from = me[a].from /\ y.known = me[a].known \cup {x}
      /\ y.run = Len(runs) + 1
  BY <1>2, <1>3 DEF Local, Pc
<1>5. Become(a, y)
  BY <1>1, <1>3 DEF Done, Local
<1>6. me[a].pc = "triage" /\ x \notin me[a].known
  BY DEF StartRun
<1> HIDE DEF y
<1> QED BY <1>1, <1>2, <1>3, <1>4, <1>5, <1>6, BecomeDoes DEF TypeOK

(* Entries are only added, and a run only changes its state.               *)
LEMMA Appended ==
  ASSUME NEW S, NEW list \in Seq(S), NEW e \in S
  PROVE  /\ Append(list, e) \in Seq(S) /\ Len(Append(list, e)) = Len(list) + 1
         /\ DOMAIN Append(list, e) = DOMAIN list \cup {Len(list) + 1}
         /\ Len(list) + 1 \notin DOMAIN list
         /\ \A i \in DOMAIN list : Append(list, e)[i] = list[i] /\ i <= Len(list)
         /\ Append(list, e)[Len(list) + 1] = e
BY AppendProperties

LEMMA DispatchDoes ==
  ASSUME TypeOK, NEW a \in Actor, Dispatch(a)
  PROVE  /\ runs' \in Seq(RunEntry) /\ Len(runs') = Len(runs) /\ DOMAIN runs' = DOMAIN runs
         /\ runs'[me[a].run].state = "dispatched" /\ me[a].run \in DOMAIN runs
         /\ \A i \in DOMAIN runs :
              /\ runs'[i].source = runs[i].source /\ runs'[i].by = runs[i].by
              /\ runs'[i].from = runs[i].from
              /\ i # me[a].run => runs'[i].state = runs[i].state
<1> DEFINE n == me[a].run
           e == [runs[n] EXCEPT !.state = "dispatched"]
<1>1. n \in DOMAIN runs /\ n \in 1 .. Len(runs) /\ runs[n] \in RunEntry
  BY DEF Dispatch, TypeOK
<1>2. /\ e \in RunEntry /\ e.source = runs[n].source /\ e.by = runs[n].by
      /\ e.from = runs[n].from /\ e.state = "dispatched"
  BY <1>1 DEF RunEntry
<1>3. runs' = [runs EXCEPT ![n] = e]
  BY DEF Dispatch
<1> HIDE DEF e
<1>4. runs' \in Seq(RunEntry) /\ Len(runs') = Len(runs)
  BY <1>1, <1>2, <1>3, ExceptSeq DEF TypeOK
<1>5. runs'[n] = e /\ \A i \in DOMAIN runs : i # n => runs'[i] = runs[i]
  BY <1>1, <1>3 DEF TypeOK
<1>6. DOMAIN runs' = DOMAIN runs
  BY <1>3
<1> QED BY <1>1, <1>2, <1>4, <1>5, <1>6

-----------------------------------------------------------------------------
(* The types.                                                              *)

Hands == {"fulfil", "dispatch"}

LEMMA InitTyped == Init => TypeOK
<1> SUFFICES ASSUME Init PROVE TypeOK
  OBVIOUS
<1>1. what \in Worlds /\ permitted \in Policies /\ raised \in [Subject -> BOOLEAN]
  BY DEF Init
<1>2. age \in [Subject -> 0 .. Threshold] /\ stamp \in [Subject -> Stamps]
  BY StampsThere, SignalAssumption DEF Init, SignalAssumption
<1>3. runs \in Seq(RunEntry) /\ opps \in Seq(Entry)
  BY EmptySeq DEF Init
<1>4. sent \subseteq Sources /\ reported \subseteq Sources /\ lost \subseteq Sources
  BY DEF Init
<1>5. me \in [Actor -> Local]
  BY IdleTyped DEF Init
<1>6. \A a \in Actor : me[a].pc \in {"fulfil", "dispatch"} => me[a].run \in DOMAIN runs
  BY IdleTyped DEF Init
<1>7. resends \in 0 .. MaxResends /\ faults \in 0 .. MaxFaults
  BY SignalAssumption DEF Init, SignalAssumption
<1> QED BY <1>1, <1>2, <1>3, <1>4, <1>5, <1>6, <1>7 DEF TypeOK

(* What one call does to its own state, when the rest stays well typed.    *)
LEMMA CallTyped ==
  ASSUME TypeOK, NEW a \in Actor, me' \in [Actor -> Local], OthersStay(a),
         me'[a].pc \in Hands => me'[a].run \in DOMAIN runs',
         DOMAIN runs \subseteq DOMAIN runs',
         UNCHANGED <<what, permitted, raised>>,
         stamp' \in [Subject -> Stamps], age' \in [Subject -> 0 .. Threshold],
         runs' \in Seq(RunEntry), opps' \in Seq(Entry),
         sent' \subseteq Sources, reported' \subseteq Sources, lost' \subseteq Sources,
         resends' \in 0 .. MaxResends, faults' \in 0 .. MaxFaults
  PROVE  TypeOK'
<1>1. \A b \in Actor : me'[b].pc \in {"fulfil", "dispatch"} => me'[b].run \in DOMAIN runs'
  BY DEF OthersStay, Hands, TypeOK
<1>2. what' \in Worlds /\ permitted' \in Policies /\ raised' \in [Subject -> BOOLEAN]
  BY DEF TypeOK
<1> QED BY <1>1, <1>2 DEF TypeOK

LEMMA OnlyMeTyped ==
  ASSUME TypeOK, NEW a \in Actor, me' \in [Actor -> Local], OthersStay(a),
         me'[a].pc \in Hands => me'[a].run \in DOMAIN runs,
         UNCHANGED <<worldVars, storeVars, sent, lost, resends, faults>>
  PROVE  TypeOK'
<1>1. UNCHANGED <<what, permitted, raised, age, stamp, runs, opps, reported, sent, lost,
                  resends, faults>>
  BY DEF worldVars, storeVars
<1> QED BY <1>1, CallTyped DEF TypeOK

LEMMA GoesTyped ==
  ASSUME TypeOK, NEW a \in Actor, NEW pc \in Pc, Goes(a, pc), pc \in Hands => me[a].pc \in Hands,
         UNCHANGED <<worldVars, storeVars, sent, lost, resends, faults>>
  PROVE  TypeOK'
<1>1. me'[a].pc \in Hands => me'[a].run \in DOMAIN runs
  BY DEF Goes, Hands, TypeOK
<1> QED BY <1>1, OnlyMeTyped DEF Goes

LEMMA BecomesIdle ==
  ASSUME TypeOK, NEW a \in Actor, Become(a, Idle)
  PROVE  me' \in [Actor -> Local] /\ OthersStay(a) /\ me'[a] = Idle /\ me'[a].pc = "idle"
BY BecomeDoes, IdleTyped DEF TypeOK

LEMMA WorldTyped ==
  ASSUME TypeOK,
         (\E s \in Subjects : Raise(s) \/ Clear(s)) \/ TimePasses
  PROVE  TypeOK'
<1>1. UNCHANGED <<what, permitted, runs, opps, reported, sent, me, lost, resends, faults>>
  BY DEF Raise, Clear, TimePasses, storeVars
<1>2. raised' \in [Subject -> BOOLEAN]
  BY WhatTyped DEF Raise, Clear, TimePasses, TypeOK
<1>3. stamp' \in [Subject -> Stamps] /\ age' \in [Subject -> 0 .. Threshold]
  <2>1. CASE \E s \in Subjects : Raise(s)
    BY <2>1, ChangeTyped DEF Raise
  <2>2. CASE \E s \in Subjects : Clear(s)
    BY <2>2 DEF Clear, TypeOK
  <2>3. CASE TimePasses
    <3>1. \A s \in Subject : age[s] \in 0 .. Threshold
      BY DEF TypeOK
    <3>2. \A s \in Subject : age[s] < Threshold => age[s] + 1 \in 0 .. Threshold
      BY <3>1, SignalAssumption DEF SignalAssumption
    <3>3. age' = [s \in Subject |-> IF s \in Subjects /\ age[s] < Threshold
                                    THEN age[s] + 1 ELSE age[s]]
      BY <2>3 DEF TimePasses
    <3>4. stamp' = stamp
      BY <2>3 DEF TimePasses
    <3> QED BY <3>1, <3>2, <3>3, <3>4 DEF TypeOK
  <2> QED BY <2>1, <2>2, <2>3
<1> QED BY <1>1, <1>2, <1>3 DEF TypeOK

LEMMA BeginningTyped ==
  ASSUME TypeOK, NEW a \in Actor,
         \/ \E call \in {"operational", "memory"} : ScanBegins(a, call)
         \/ SyncBegins(a)
         \/ \E x \in Sources : DeliveryArrives(a, x)
         \/ TriggerBegins(a) \/ LookUp(a)
  PROVE  TypeOK'
<1>1. CASE \E call \in {"operational", "memory"} : ScanBegins(a, call)
  <2>1. PICK call \in {"operational", "memory"} : ScanBegins(a, call)
    BY <1>1
  <2>2. UNCHANGED <<worldVars, storeVars, sent, lost, resends, faults>>
    BY <2>1 DEF ScanBegins
  <2> QED BY <2>1, <2>2, ScanLooks, OnlyMeTyped DEF Looks, Hands
<1>2. CASE SyncBegins(a)
  <2>1. UNCHANGED <<worldVars, storeVars, sent, lost, resends, faults>>
    BY <1>2 DEF SyncBegins
  <2> QED BY <1>2, <2>1, SyncLooks, OnlyMeTyped DEF Hands
<1>3. CASE \E x \in Sources : DeliveryArrives(a, x)
  <2>1. PICK x \in Sources : DeliveryArrives(a, x)
    BY <1>3
  <2>2. UNCHANGED <<what, permitted, raised, age, stamp, runs, opps, reported, lost, faults>>
    BY <2>1 DEF DeliveryArrives, worldVars, storeVars
  <2>3. sent' \subseteq Sources
    BY <2>1 DEF DeliveryArrives, TypeOK
  <2>4. resends' \in 0 .. MaxResends
    <3>1. resends \in 0 .. MaxResends /\ MaxResends \in Nat
      BY SignalAssumption DEF SignalAssumption, TypeOK
    <3>2. /\ x \in sent => resends < MaxResends
          /\ x \in sent => resends' = resends + 1
          /\ x \notin sent => resends' = resends
      BY <2>1 DEF DeliveryArrives
    <3> QED BY <3>1, <3>2
  <2>5. me' \in [Actor -> Local] /\ OthersStay(a) /\ me'[a].pc = "dedupe"
    BY <2>1, DeliveryLooks
  <2> QED BY <2>2, <2>3, <2>4, <2>5, CallTyped DEF Hands, TypeOK
<1>4. CASE TriggerBegins(a)
  <2>1. UNCHANGED <<worldVars, storeVars, sent, lost, resends, faults>>
    BY <1>4 DEF TriggerBegins
  <2> QED BY <1>4, <2>1, TriggerLooks, OnlyMeTyped DEF Looks, Hands
<1>5. CASE LookUp(a)
  <2>1. UNCHANGED <<worldVars, storeVars, sent, lost, resends, faults>>
    BY <1>5 DEF LookUp
  <2> QED BY <1>5, <2>1, ImportLooks, OnlyMeTyped DEF Looks, Hands
<1> QED BY <1>1, <1>2, <1>3, <1>4, <1>5

LEMMA IngestTyped ==
  ASSUME TypeOK, NEW a \in Actor,
         \/ SkipDuplicate(a) \/ AcceptDelivery(a) \/ Import(a) \/ Imported(a)
         \/ WriteReport(a) \/ Remember(a)
  PROVE  TypeOK'
<1>0. me \in [Actor -> Local] /\ me[a] \in Local
  BY DEF TypeOK
<1>1. CASE SkipDuplicate(a)
  <2>1. Become(a, Idle) /\ UNCHANGED <<worldVars, storeVars, sent, lost, resends, faults>>
    BY <1>1 DEF SkipDuplicate
  <2> QED BY <2>1, BecomesIdle, OnlyMeTyped DEF Hands
<1>2. CASE AcceptDelivery(a)
  <2>1. \E pc \in {"look_up", "report"} : Goto(a, pc)
    BY <1>2 DEF AcceptDelivery
  <2>2. UNCHANGED <<worldVars, storeVars, sent, lost, resends, faults>>
    BY <1>2 DEF AcceptDelivery
  <2> QED BY <1>0, <2>1, <2>2, GotoGoes, GoesTyped DEF Pc, Hands
<1>3. CASE Import(a)
  <2>1. PICK source \in Sources :
          /\ opps' = Append(opps, [source |-> source, by |-> a, from |-> me[a].from])
          /\ me' \in [Actor -> Local] /\ OthersStay(a) /\ me'[a].pc = "import"
    BY <1>3, ImportDoes
  <2>2. [source |-> source, by |-> a, from |-> me[a].from] \in Entry
    BY <1>0 DEF Entry, Local
  <2>3. opps' \in Seq(Entry)
    BY <2>1, <2>2, Appended DEF TypeOK
  <2>4. UNCHANGED <<what, permitted, raised, age, stamp, runs, reported, sent, lost, resends, faults>>
    BY <1>3 DEF Import, worldVars
  <2> QED BY <2>1, <2>3, <2>4, CallTyped DEF Hands, TypeOK
<1>4. CASE Imported(a)
  <2>1. Goto(a, "report") /\ UNCHANGED <<worldVars, storeVars, sent, lost, resends, faults>>
    BY <1>4 DEF Imported
  <2> QED BY <1>0, <2>1, GotoGoes, GoesTyped DEF Pc, Hands
<1>5. CASE WriteReport(a)
  <2>1. \E pc \in {"remember", "snapshot"} : Goto(a, pc)
    BY <1>5 DEF WriteReport
  <2>2. me' \in [Actor -> Local] /\ OthersStay(a) /\ me'[a].pc \in {"remember", "snapshot"}
    BY <1>0, <2>1, GotoGoes DEF Goes, Pc
  <2>3. UNCHANGED <<what, permitted, raised, age, stamp, runs, opps, sent, lost, resends, faults>>
    BY <1>5 DEF WriteReport, worldVars
  <2>4. reported' \subseteq Sources
    BY <1>0, <1>5 DEF WriteReport, TypeOK, Local
  <2> QED BY <2>2, <2>3, <2>4, CallTyped DEF Hands, TypeOK
<1>6. CASE Remember(a)
  <2>1. /\ Change({s \in Subjects : what[s] = "synced_project"}) /\ Goto(a, "snapshot")
        /\ UNCHANGED <<what, permitted, raised, runs, opps, reported, sent, lost, resends, faults>>
    BY <1>6 DEF Remember, storeVars
  <2>2. me' \in [Actor -> Local] /\ OthersStay(a) /\ me'[a].pc = "snapshot"
    BY <1>0, <2>1, GotoGoes DEF Goes, Pc
  <2>3. stamp' \in [Subject -> Stamps] /\ age' \in [Subject -> 0 .. Threshold]
    BY <2>1, ChangeTyped
  <2> QED BY <2>1, <2>2, <2>3, CallTyped DEF Hands, TypeOK
<1> QED BY <1>1, <1>2, <1>3, <1>4, <1>5, <1>6

LEMMA TriageTyped ==
  ASSUME TypeOK, NEW a \in Actor,
         \/ SkipKnown(a) \/ SkipBlocked(a) \/ StartRun(a) \/ Fulfil(a) \/ FulfilFails(a)
         \/ Dispatch(a) \/ LeaveParked(a) \/ EndCall(a) \/ Interrupt(a)
  PROVE  TypeOK'
<1>0. me \in [Actor -> Local] /\ me[a] \in Local
  BY DEF TypeOK
<1>1. CASE SkipKnown(a) \/ SkipBlocked(a)
  <2>1. \E x : Become(a, Done(a, x))
    BY <1>1 DEF SkipKnown, SkipBlocked
  <2>2. me[a].pc = "triage" /\ UNCHANGED <<worldVars, storeVars, sent, lost, resends, faults>>
    BY <1>1 DEF SkipKnown, SkipBlocked
  <2>3. Goes(a, "triage")
    BY <1>0, <2>1, <2>2, DoneGoes
  <2> QED BY <2>2, <2>3, GoesTyped DEF Pc, Hands
<1>2. CASE StartRun(a)
  <2>1. PICK x \in Sources, state \in {"started", "parked"} :
          /\ runs' = Append(runs, [source |-> x, by |-> a, from |-> me[a].from, state |-> state])
          /\ me' \in [Actor -> Local] /\ OthersStay(a)
          /\ me'[a].run = Len(runs) + 1
    BY <1>2, StartRunDoes
  <2>2. [source |-> x, by |-> a, from |-> me[a].from, state |-> state] \in RunEntry
    BY <1>0 DEF RunEntry, Local
  <2>3. runs' \in Seq(RunEntry) /\ DOMAIN runs' = DOMAIN runs \cup {Len(runs) + 1}
    BY <2>1, <2>2, Appended DEF TypeOK
  <2>4. UNCHANGED <<what, permitted, raised, age, stamp, opps, reported, sent, lost, resends, faults>>
    BY <1>2 DEF StartRun, worldVars
  <2> QED BY <2>1, <2>3, <2>4, CallTyped DEF TypeOK
<1>3. CASE Fulfil(a)
  <2>1. /\ me[a].pc = "fulfil" /\ Change(Drafted(a)) /\ Goto(a, "dispatch")
        /\ UNCHANGED <<what, permitted, raised, runs, opps, reported, sent, lost, resends, faults>>
    BY <1>3 DEF Fulfil, storeVars
  <2>2. /\ me' \in [Actor -> Local] /\ OthersStay(a) /\ me'[a].pc = "dispatch"
        /\ me'[a].run = me[a].run
    BY <1>0, <2>1, GotoGoes DEF Goes, Pc
  <2>3. stamp' \in [Subject -> Stamps] /\ age' \in [Subject -> 0 .. Threshold]
    BY <2>1, ChangeTyped DEF Drafted
  <2> QED BY <2>1, <2>2, <2>3, CallTyped DEF Hands, TypeOK
<1>4. CASE FulfilFails(a)
  <2>1. /\ me[a].pc = "fulfil" /\ Goto(a, "dispatch")
        /\ UNCHANGED <<worldVars, storeVars, sent, lost, resends, faults>>
    BY <1>4 DEF FulfilFails
  <2> QED BY <1>0, <2>1, GotoGoes, GoesTyped DEF Pc, Hands
<1>5. CASE Dispatch(a)
  <2>1. /\ Change(Drafted(a)) /\ Goto(a, "triage")
        /\ UNCHANGED <<what, permitted, raised, opps, reported, sent, lost, resends, faults>>
    BY <1>5 DEF Dispatch
  <2>2. me' \in [Actor -> Local] /\ OthersStay(a) /\ me'[a].pc = "triage"
    BY <1>0, <2>1, GotoGoes DEF Goes, Pc
  <2>3. stamp' \in [Subject -> Stamps] /\ age' \in [Subject -> 0 .. Threshold]
    BY <2>1, ChangeTyped DEF Drafted
  <2>4. runs' \in Seq(RunEntry) /\ DOMAIN runs' = DOMAIN runs
    BY <1>5, DispatchDoes
  <2> QED BY <2>1, <2>2, <2>3, <2>4, CallTyped DEF Hands, TypeOK
<1>6. CASE LeaveParked(a)
  <2>1. /\ Goto(a, "triage") /\ UNCHANGED <<worldVars, storeVars, sent, lost, resends, faults>>
    BY <1>6 DEF LeaveParked
  <2> QED BY <1>0, <2>1, GotoGoes, GoesTyped DEF Pc, Hands
<1>7. CASE EndCall(a)
  <2>1. Become(a, Idle) /\ UNCHANGED <<worldVars, storeVars, sent, lost, resends, faults>>
    BY <1>7 DEF EndCall
  <2> QED BY <2>1, BecomesIdle, OnlyMeTyped DEF Hands
<1>8. CASE Interrupt(a)
  <2>1. /\ Become(a, Idle)
        /\ UNCHANGED <<what, permitted, raised, age, stamp, runs, opps, reported, sent, resends>>
    BY <1>8 DEF Interrupt, worldVars, storeVars
  <2>2. faults' \in 0 .. MaxFaults
    <3>1. faults \in 0 .. MaxFaults /\ MaxFaults \in Nat
      BY SignalAssumption DEF SignalAssumption, TypeOK
    <3> QED BY <1>8, <3>1 DEF Interrupt
  <2>3. lost' \subseteq Sources
    <3>1. me[a].seen \subseteq Sources /\ lost \subseteq Sources
      BY <1>0 DEF Local, TypeOK
    <3>2. me[a].pc \in {"fulfil", "dispatch"} => runs[me[a].run].source \in Sources
      <4>1. \A i \in DOMAIN runs : runs[i] \in RunEntry
        BY DEF TypeOK
      <4> QED BY <4>1 DEF RunEntry, TypeOK
    <3> QED BY <1>8, <3>1, <3>2 DEF Interrupt
  <2> QED BY <2>1, <2>2, <2>3, BecomesIdle, CallTyped DEF Hands, TypeOK
<1> QED BY <1>1, <1>2, <1>3, <1>4, <1>5, <1>6, <1>7, <1>8

LEMMA NextTyped == TypeOK /\ [Next]_vars => TypeOK'
<1> SUFFICES ASSUME TypeOK, [Next]_vars PROVE TypeOK'
  OBVIOUS
<1>1. CASE (\E s \in Subjects : Raise(s) \/ Clear(s)) \/ TimePasses
  BY <1>1, WorldTyped
<1>2. ASSUME NEW a \in Actor,
             \/ \E call \in {"operational", "memory"} : ScanBegins(a, call)
             \/ SyncBegins(a)
             \/ \E x \in Sources : DeliveryArrives(a, x)
             \/ Steps(a)
             \/ Interrupt(a)
      PROVE  TypeOK'
  BY <1>2, BeginningTyped, IngestTyped, TriageTyped DEF Steps
<1>3. CASE UNCHANGED vars
  BY <1>3 DEF vars, worldVars, storeVars, TypeOK
<1> QED BY <1>1, <1>2, <1>3 DEF Next

(* Every document, report and local state of the calls has the form the    *)
(* services give it, and a call that has a run in hand has one that is in  *)
(* the store.                                                              *)
THEOREM SignalsTypeCorrect == Spec => []TypeOK
<1> QED BY InitTyped, NextTyped, PTL DEF Spec

-----------------------------------------------------------------------------
(* What a call knows.                                                      *)

(* A list after a step of a: what was there is there, what is new is a's.  *)
Grows(list, new, a) ==
  /\ Len(list) \in Nat /\ Len(new) \in Nat /\ Len(list) <= Len(new)
  /\ DOMAIN list = 1 .. Len(list) /\ DOMAIN new = 1 .. Len(new)
  /\ \A i \in DOMAIN list :
       new[i].source = list[i].source /\ new[i].by = list[i].by /\ new[i].from = list[i].from
  /\ \A i \in DOMAIN new : i \notin DOMAIN list => new[i].by = a

LEMMA StaysGrows ==
  ASSUME NEW S, NEW list \in Seq(S), NEW a
  PROVE  Grows(list, list, a)
BY DEF Grows

LEMMA AppendGrows ==
  ASSUME NEW S, NEW list \in Seq(S), NEW e \in S
  PROVE  Grows(list, Append(list, e), e.by)
<1>1. /\ Append(list, e) \in Seq(S) /\ Len(Append(list, e)) = Len(list) + 1
      /\ DOMAIN Append(list, e) = DOMAIN list \cup {Len(list) + 1}
      /\ \A i \in DOMAIN list : Append(list, e)[i] = list[i]
      /\ Append(list, e)[Len(list) + 1] = e
  BY Appended
<1>2. DOMAIN list = 1 .. Len(list) /\ Len(list) \in Nat
  OBVIOUS
<1>3. DOMAIN Append(list, e) = 1 .. Len(Append(list, e))
  BY <1>1
<1> QED BY <1>1, <1>2, <1>3 DEF Grows

(* A call of another is not told of what a does, and need not be.          *)
LEMMA OthersView ==
  ASSUME TypeOK, Seen, NEW a \in Actor, OthersStay(a),
         Grows(runs, runs', a), Grows(opps, opps', a)
  PROVE  \A b \in Actor \ {a} : RunsSeen(b)' /\ OppsSeen(b)'
<1> SUFFICES ASSUME NEW b \in Actor, b # a
             PROVE  RunsSeen(b)' /\ OppsSeen(b)'
  OBVIOUS
<1>1. me'[b] = me[b] /\ me[b].from \in Nat
  BY DEF OthersStay, TypeOK, Local
<1>2. RunsSeen(b) /\ OppsSeen(b)
  BY DEF Seen
<1>3. RunsSeen(b)'
  BY <1>1, <1>2 DEF RunsSeen, Grows
<1>4. OppsSeen(b)'
  BY <1>1, <1>2 DEF OppsSeen, Grows
<1> QED BY <1>3, <1>4

LEMMA SeenKept ==
  ASSUME TypeOK, Seen, NEW a \in Actor, OthersStay(a),
         Grows(runs, runs', a), Grows(opps, opps', a), RunsSeen(a)', OppsSeen(a)'
  PROVE  Seen'
BY OthersView DEF Seen

(* No entry of a list changes what it is of.                               *)
LEMMA SameOnce ==
  ASSUME NEW list, NEW new, NEW a, Grows(list, new, a), DOMAIN new = DOMAIN list,
         OnceUnlessOverlapping(list)
  PROVE  OnceUnlessOverlapping(new)
BY DEF Grows, OnceUnlessOverlapping

(* What a call enters, it did not know: whoever entered it before it, did  *)
(* so after the call looked.                                               *)
LEMMA AppendOnce ==
  ASSUME NEW S, NEW list \in Seq(S), NEW e \in S, e.from \in Nat, NEW known,
         OnceUnlessOverlapping(list), e.source \notin known,
         \A i \in DOMAIN list : i <= e.from \/ list[i].by = e.by => list[i].source \in known
  PROVE  OnceUnlessOverlapping(Append(list, e))
<1> DEFINE new == Append(list, e)
           n == Len(list) + 1
<1>1. /\ DOMAIN new = DOMAIN list \cup {n} /\ n \notin DOMAIN list
      /\ \A i \in DOMAIN list : new[i] = list[i] /\ i <= Len(list)
      /\ new[n] = e
  BY Appended
<1>2. Len(list) \in Nat /\ DOMAIN list = 1 .. Len(list)
  OBVIOUS
<1> HIDE DEF new
<1>3. ASSUME NEW i \in DOMAIN new, NEW j \in DOMAIN new, i < j, new[i].source = new[j].source
      PROVE  new[i].by # new[j].by /\ new[j].from < i
  <2>1. i \in DOMAIN list
    BY <1>1, <1>2, <1>3
  <2>2. CASE j \in DOMAIN list
    BY <1>1, <1>3, <2>1, <2>2 DEF OnceUnlessOverlapping
  <2>3. CASE j = n
    <3>1. list[i].source \notin known
      BY <1>1, <1>3, <2>1, <2>3
    <3>2. ~(i <= e.from) /\ list[i].by # e.by
      BY <2>1, <3>1
    <3>3. i \in Nat
      BY <1>2, <2>1
    <3> QED BY <1>1, <2>1, <2>3, <3>2, <3>3
  <2> QED BY <1>1, <2>2, <2>3
<1> QED BY <1>3 DEF OnceUnlessOverlapping, new

(* A call that looks knows all there is.                                   *)
LEMMA AllKnown ==
  ASSUME NEW list
  PROVE  \A i \in DOMAIN list : list[i].source \in SourcesOf(list)
BY DEF SourcesOf

-----------------------------------------------------------------------------
(* The invariant is kept.                                                  *)

InHand(i) == \E a \in Actor : me[a].pc \in Hands /\ me[a].run = i

(* What becomes of the run a call had in hand.                             *)
HandKept(a) ==
  me[a].pc \in Hands =>
    \/ me'[a].pc \in Hands /\ me'[a].run = me[a].run
    \/ runs'[me[a].run].state # "started"
    \/ runs'[me[a].run].source \in lost'

(* A step that enters nothing, and after which a works with what it worked *)
(* with, or with nothing.                                                  *)
Quiet(a) ==
  /\ OthersStay(a) /\ runs' = runs /\ opps' = opps /\ lost \subseteq lost'
  /\ me'[a].pc \in Triaging =>
       me[a].pc \in Triaging /\ me'[a].from = me[a].from /\ me'[a].known = me[a].known
  /\ me'[a].pc = "import" =>
       me[a].pc = "import" /\ me'[a].from = me[a].from /\ me'[a].known = me[a].known
  /\ HandKept(a)

LEMMA NothingForgotten ==
  ASSUME TypeOK, NoRunIsForgotten, NEW a \in Actor, OthersStay(a), HandKept(a),
         lost \subseteq lost', NEW i \in DOMAIN runs,
         runs'[i].source = runs[i].source,
         runs'[i].state = "started" => runs[i].state = "started"
  PROVE  runs'[i].state = "started" => runs'[i].source \in lost' \/ InHand(i)'
<1> SUFFICES ASSUME runs'[i].state = "started", runs'[i].source \notin lost'
             PROVE  InHand(i)'
  OBVIOUS
<1>1. PICK b \in Actor : me[b].pc \in Hands /\ me[b].run = i
  BY DEF NoRunIsForgotten, Hands
<1>2. CASE b = a
  <2>1. me'[a].pc \in Hands /\ me'[a].run = i
    BY <1>1, <1>2 DEF HandKept
  <2> QED BY <2>1 DEF InHand
<1>3. CASE b # a
  <2>1. me'[b].pc \in Hands /\ me'[b].run = i
    BY <1>1, <1>3 DEF OthersStay
  <2> QED BY <2>1 DEF InHand
<1> QED BY <1>2, <1>3

LEMMA ForgottenNone ==
  ASSUME \A i \in DOMAIN runs' :
           runs'[i].state = "started" => runs'[i].source \in lost' \/ InHand(i)'
  PROVE  NoRunIsForgotten'
BY DEF NoRunIsForgotten, InHand, Hands

LEMMA QuietKeeps ==
  ASSUME TypeOK, SignalInv, NEW a \in Actor, Quiet(a)
  PROVE  SignalInv'
<1>1. Grows(runs, runs', a) /\ Grows(opps, opps', a)
  BY StaysGrows DEF Quiet, TypeOK
<1>2. RunsSeen(a) /\ OppsSeen(a)
  BY DEF SignalInv, Seen
<1>3. RunsSeen(a)'
  BY <1>2 DEF RunsSeen, Quiet
<1>4. OppsSeen(a)'
  BY <1>2 DEF OppsSeen, Quiet
<1>5. Seen'
  BY <1>1, <1>3, <1>4, SeenKept DEF SignalInv, Quiet
<1>6. OneRunPerSignal' /\ OneOpportunityPerIssue'
  BY DEF SignalInv, OneRunPerSignal, OneOpportunityPerIssue, Quiet
<1>7. \A i \in DOMAIN runs' :
        runs'[i].state = "started" => runs'[i].source \in lost' \/ InHand(i)'
  BY NothingForgotten DEF Quiet, SignalInv
<1>8. NoRunIsForgotten'
  BY <1>7, ForgottenNone
<1> QED BY <1>5, <1>6, <1>8 DEF SignalInv

LEMMA WorldKeeps ==
  ASSUME SignalInv,
         UNCHANGED <<runs, opps, me, lost>>
  PROVE  SignalInv'
<1>1. Seen'
  BY DEF SignalInv, Seen, RunsSeen, OppsSeen
<1>2. OneRunPerSignal' /\ OneOpportunityPerIssue'
  BY DEF SignalInv, OneRunPerSignal, OneOpportunityPerIssue
<1>3. NoRunIsForgotten'
  BY DEF SignalInv, NoRunIsForgotten
<1> QED BY <1>1, <1>2, <1>3 DEF SignalInv

(* The calls that look at the runs, and at the opportunities.              *)
LEMMA LookKeeps ==
  ASSUME TypeOK, SignalInv, NEW a \in Actor, UNCHANGED <<runs, opps, lost>>,
         me[a].pc \notin Hands,
         \/ Looks(a, "triage", Len(runs)) /\ me'[a].known = KnownSources
         \/ Looks(a, "import", Len(opps)) /\ me'[a].known = SourcesOf(opps)
  PROVE  SignalInv'
<1>1. Grows(runs, runs', a) /\ Grows(opps, opps', a)
  BY StaysGrows DEF TypeOK
<1>2. OthersStay(a)
  BY DEF Looks
<1>3. RunsSeen(a)'
  <2>1. CASE me'[a].pc = "import"
    BY <2>1 DEF RunsSeen, Triaging
  <2>2. CASE Looks(a, "triage", Len(runs)) /\ me'[a].known = KnownSources
    <3>1. Len(runs) \in Nat /\ \A i \in DOMAIN runs : runs[i].source \in KnownSources
      BY AllKnown, KnownTyped DEF KnownSources
    <3> QED BY <2>2, <3>1 DEF RunsSeen, Looks
  <2> QED BY <2>1, <2>2 DEF Looks
<1>4. OppsSeen(a)'
  <2>1. CASE me'[a].pc = "triage"
    BY <2>1 DEF OppsSeen
  <2>2. CASE Looks(a, "import", Len(opps)) /\ me'[a].known = SourcesOf(opps)
    <3>1. Len(opps) \in Nat /\ \A i \in DOMAIN opps : opps[i].source \in SourcesOf(opps)
      BY AllKnown, KnownTyped
    <3> QED BY <2>2, <3>1 DEF OppsSeen, Looks
  <2> QED BY <2>1, <2>2 DEF Looks
<1>5. Seen'
  BY <1>1, <1>2, <1>3, <1>4, SeenKept DEF SignalInv
<1>6. OneRunPerSignal' /\ OneOpportunityPerIssue'
  BY DEF SignalInv, OneRunPerSignal, OneOpportunityPerIssue
<1>7. \A i \in DOMAIN runs' :
        runs'[i].state = "started" => runs'[i].source \in lost' \/ InHand(i)'
  BY <1>2, NothingForgotten DEF HandKept, SignalInv
<1>8. NoRunIsForgotten'
  BY <1>7, ForgottenNone
<1> QED BY <1>5, <1>6, <1>8 DEF SignalInv

LEMMA ImportKeeps ==
  ASSUME TypeOK, SignalInv, NEW a \in Actor, Import(a)
  PROVE  SignalInv'
<1>1. PICK source \in Sources :
        /\ source \notin me[a].known /\ me[a].pc = "import"
        /\ opps' = Append(opps, [source |-> source, by |-> a, from |-> me[a].from])
        /\ me' \in [Actor -> Local] /\ OthersStay(a) /\ me'[a].pc = "import"
        /\ me'[a].from = me[a].from /\ me'[a].known = me[a].known \cup {source}
  BY ImportDoes
<1> DEFINE e == [source |-> source, by |-> a, from |-> me[a].from]
<1>2. e \in Entry /\ e.source = source /\ e.by = a /\ e.from = me[a].from /\ me[a].from \in Nat
  BY DEF Entry, TypeOK, Local
<1> HIDE DEF e
<1>3. opps' = Append(opps, e) /\ opps \in Seq(Entry) /\ runs \in Seq(RunEntry)
  BY <1>1 DEF e, TypeOK
<1>4. runs' = runs /\ lost' = lost
  BY DEF Import
<1>5. Grows(runs, runs', a)
  BY <1>3, <1>4, StaysGrows
<1>6. Grows(opps, opps', a)
  BY <1>2, <1>3, AppendGrows
<1>7. /\ me[a].from <= Len(opps)
      /\ \A i \in DOMAIN opps :
           i <= me[a].from \/ opps[i].by = a => opps[i].source \in me[a].known
  BY <1>1 DEF SignalInv, Seen, OppsSeen
<1>8. OnceUnlessOverlapping(Append(opps, e))
  BY <1>1, <1>2, <1>3, <1>7, AppendOnce DEF SignalInv, OneOpportunityPerIssue
<1>9. OppsSeen(a)'
  <2>1. /\ DOMAIN opps' = DOMAIN opps \cup {Len(opps) + 1} /\ Len(opps') = Len(opps) + 1
        /\ \A i \in DOMAIN opps : opps'[i] = opps[i]
        /\ opps'[Len(opps) + 1] = e /\ Len(opps) \in Nat
    BY <1>2, <1>3, Appended
  <2>2. me'[a].from <= Len(opps')
    BY <1>1, <1>2, <1>7, <2>1
  <2>3. \A i \in DOMAIN opps' :
          i <= me'[a].from \/ opps'[i].by = a => opps'[i].source \in me'[a].known
    BY <1>1, <1>2, <1>7, <2>1
  <2> QED BY <2>2, <2>3 DEF OppsSeen
<1>10. RunsSeen(a)'
  BY <1>1 DEF RunsSeen, Triaging
<1>11. Seen'
  BY <1>1, <1>5, <1>6, <1>9, <1>10, SeenKept DEF SignalInv
<1>12. OneRunPerSignal' /\ OneOpportunityPerIssue'
  BY <1>3, <1>4, <1>8 DEF SignalInv, OneRunPerSignal, OneOpportunityPerIssue
<1>13. \A i \in DOMAIN runs' :
         runs'[i].state = "started" => runs'[i].source \in lost' \/ InHand(i)'
  BY <1>1, <1>4, NothingForgotten DEF HandKept, Hands, SignalInv
<1>14. NoRunIsForgotten'
  BY <1>13, ForgottenNone
<1> QED BY <1>11, <1>12, <1>14 DEF SignalInv

LEMMA StartRunKeeps ==
  ASSUME TypeOK, SignalInv, NEW a \in Actor, StartRun(a)
  PROVE  SignalInv'
<1>1. PICK x \in Sources, state \in {"started", "parked"} :
        /\ x \notin me[a].known /\ me[a].pc = "triage"
        /\ runs' = Append(runs, [source |-> x, by |-> a, from |-> me[a].from, state |-> state])
        /\ me' \in [Actor -> Local] /\ OthersStay(a) /\ me'[a].pc \in {"fulfil", "dispatch"}
        /\ me'[a].from = me[a].from /\ me'[a].known = me[a].known \cup {x}
        /\ me'[a].run = Len(runs) + 1
  BY StartRunDoes
<1> DEFINE e == [source |-> x, by |-> a, from |-> me[a].from, state |-> state]
<1>0. PICK n \in Nat : n = Len(runs) + 1
  BY KnownTyped
<1>2. /\ e \in RunEntry /\ e.source = x /\ e.by = a /\ e.from = me[a].from
      /\ me[a].from \in Nat
  BY DEF RunEntry, TypeOK, Local
<1> HIDE DEF e
<1>3. runs' = Append(runs, e) /\ opps \in Seq(Entry) /\ runs \in Seq(RunEntry)
  BY <1>1 DEF e, TypeOK
<1>4. opps' = opps /\ lost' = lost
  BY DEF StartRun
<1>5. Grows(opps, opps', a)
  BY <1>3, <1>4, StaysGrows
<1>6. Grows(runs, runs', a)
  BY <1>2, <1>3, AppendGrows
<1>7. /\ me[a].from <= Len(runs)
      /\ \A i \in DOMAIN runs :
           i <= me[a].from \/ runs[i].by = a => runs[i].source \in me[a].known
  BY <1>1 DEF SignalInv, Seen, RunsSeen, Triaging
<1>8. OnceUnlessOverlapping(Append(runs, e))
  BY <1>1, <1>2, <1>3, <1>7, AppendOnce DEF SignalInv, OneRunPerSignal
<1>9. /\ DOMAIN runs' = DOMAIN runs \cup {n} /\ Len(runs') = n
      /\ \A i \in DOMAIN runs : runs'[i] = runs[i]
      /\ runs'[n] = e /\ Len(runs) \in Nat
  BY <1>0, <1>2, <1>3, Appended
<1>10. RunsSeen(a)'
  <2>1. me'[a].from <= Len(runs')
    BY <1>0, <1>1, <1>2, <1>7, <1>9
  <2>2. \A i \in DOMAIN runs' :
          i <= me'[a].from \/ runs'[i].by = a => runs'[i].source \in me'[a].known
    BY <1>0, <1>1, <1>2, <1>7, <1>9
  <2> QED BY <2>1, <2>2 DEF RunsSeen
<1>11. OppsSeen(a)'
  BY <1>1 DEF OppsSeen
<1>12. Seen'
  BY <1>1, <1>5, <1>6, <1>10, <1>11, SeenKept DEF SignalInv
<1>13. OneRunPerSignal' /\ OneOpportunityPerIssue'
  BY <1>3, <1>4, <1>8 DEF SignalInv, OneRunPerSignal, OneOpportunityPerIssue
<1>14. InHand(n)'
  BY <1>0, <1>1 DEF InHand, Hands
<1>15. ASSUME NEW i \in DOMAIN runs
       PROVE  runs'[i].state = "started" => runs'[i].source \in lost' \/ InHand(i)'
  <2>1. HandKept(a) /\ runs'[i] = runs[i]
    BY <1>1, <1>9 DEF HandKept, Hands
  <2> QED BY <1>1, <1>4, <2>1, NothingForgotten DEF SignalInv
<1>16. \A i \in DOMAIN runs' :
         runs'[i].state = "started" => runs'[i].source \in lost' \/ InHand(i)'
  BY <1>9, <1>14, <1>15
<1>17. NoRunIsForgotten'
  BY <1>16, ForgottenNone
<1> QED BY <1>12, <1>13, <1>17 DEF SignalInv

LEMMA DispatchKeeps ==
  ASSUME TypeOK, SignalInv, NEW a \in Actor, Dispatch(a)
  PROVE  SignalInv'
<1>1. /\ runs' \in Seq(RunEntry) /\ Len(runs') = Len(runs) /\ DOMAIN runs' = DOMAIN runs
      /\ runs'[me[a].run].state = "dispatched" /\ me[a].run \in DOMAIN runs
      /\ \A i \in DOMAIN runs :
           /\ runs'[i].source = runs[i].source /\ runs'[i].by = runs[i].by
           /\ runs'[i].from = runs[i].from
           /\ i # me[a].run => runs'[i].state = runs[i].state
  BY DispatchDoes
<1>2. opps' = opps /\ lost' = lost /\ me[a].pc = "dispatch"
  BY DEF Dispatch
<1>3. Goes(a, "triage")
  BY GotoGoes DEF Dispatch, TypeOK, Pc
<1>4. Grows(opps, opps', a)
  BY <1>2, StaysGrows DEF TypeOK
<1>5. Grows(runs, runs', a)
  <2>1. Len(runs) \in Nat /\ DOMAIN runs = 1 .. Len(runs)
    BY DEF TypeOK
  <2> QED BY <1>1, <2>1 DEF Grows
<1>6. RunsSeen(a)
  BY DEF SignalInv, Seen
<1>7. RunsSeen(a)'
  BY <1>1, <1>2, <1>3, <1>6 DEF RunsSeen, Goes, Triaging
<1>8. OppsSeen(a)'
  BY <1>3 DEF OppsSeen, Goes
<1>9. Seen'
  BY <1>3, <1>4, <1>5, <1>7, <1>8, SeenKept DEF SignalInv, Goes
<1>10. OneRunPerSignal'
  <2>1. OnceUnlessOverlapping(runs')
    BY <1>1, <1>5, SameOnce DEF SignalInv, OneRunPerSignal
  <2> QED BY <2>1 DEF OneRunPerSignal
<1>11. OneOpportunityPerIssue'
  BY <1>2 DEF SignalInv, OneOpportunityPerIssue
<1>12. ASSUME NEW i \in DOMAIN runs'
       PROVE  runs'[i].state = "started" => runs'[i].source \in lost' \/ InHand(i)'
  <2>1. HandKept(a)
    BY <1>1 DEF HandKept
  <2>2. i \in DOMAIN runs /\ runs'[i].source = runs[i].source
    BY <1>1, <1>12
  <2>3. runs'[i].state = "started" => runs[i].state = "started"
    BY <1>1, <2>2
  <2> QED BY <1>2, <1>3, <2>1, <2>2, <2>3, NothingForgotten DEF Goes, SignalInv
<1>13. NoRunIsForgotten'
  BY <1>12, ForgottenNone
<1> QED BY <1>9, <1>10, <1>11, <1>13 DEF SignalInv

-----------------------------------------------------------------------------
(* The quiet steps.                                                        *)

LEMMA GoesQuiet ==
  ASSUME NEW a \in Actor, NEW pc, Goes(a, pc), UNCHANGED <<runs, opps, lost>>,
         pc \in Triaging => me[a].pc \in Triaging,
         pc # "import" \/ me[a].pc = "import",
         me[a].pc \in Hands => pc \in Hands \/ runs[me[a].run].state # "started"
  PROVE  Quiet(a)
<1>1. HandKept(a)
  BY DEF HandKept, Goes
<1> QED BY <1>1 DEF Quiet, Goes

LEMMA IdleQuiet ==
  ASSUME TypeOK, NEW a \in Actor, Become(a, Idle), UNCHANGED <<runs, opps>>,
         lost \subseteq lost',
         me[a].pc \in Hands => runs[me[a].run].source \in lost'
  PROVE  Quiet(a)
<1>1. OthersStay(a) /\ me'[a].pc = "idle"
  BY BecomesIdle
<1> QED BY <1>1 DEF Quiet, HandKept, Triaging

LEMMA QuietSteps ==
  ASSUME TypeOK, NEW a \in Actor,
         \/ SkipDuplicate(a) \/ AcceptDelivery(a) \/ Imported(a) \/ WriteReport(a)
         \/ Remember(a) \/ SkipKnown(a) \/ SkipBlocked(a) \/ Fulfil(a) \/ FulfilFails(a)
         \/ LeaveParked(a) \/ EndCall(a) \/ Interrupt(a) \/ SyncBegins(a)
         \/ \E x \in Sources : DeliveryArrives(a, x)
  PROVE  Quiet(a)
<1>0. me \in [Actor -> Local]
  BY DEF TypeOK
<1>1. CASE SkipDuplicate(a) \/ EndCall(a)
  <2>1. /\ Become(a, Idle) /\ UNCHANGED <<runs, opps, lost>> /\ me[a].pc \in {"dedupe", "triage"}
    BY <1>1 DEF SkipDuplicate, EndCall, storeVars
  <2> QED BY <2>1, IdleQuiet DEF Hands
<1>2. CASE AcceptDelivery(a) \/ Imported(a) \/ WriteReport(a) \/ Remember(a)
  <2>1. \E pc \in {"look_up", "report", "remember", "snapshot"} : Goto(a, pc)
    BY <1>2 DEF AcceptDelivery, Imported, WriteReport, Remember
  <2>2. \E pc \in {"look_up", "report", "remember", "snapshot"} : Goes(a, pc)
    BY <1>0, <2>1, GotoGoes DEF Pc
  <2>3. UNCHANGED <<runs, opps, lost>>
    BY <1>2 DEF AcceptDelivery, Imported, WriteReport, Remember, storeVars
  <2>4. me[a].pc \notin Hands
    BY <1>2 DEF AcceptDelivery, Imported, WriteReport, Remember, Hands
  <2> QED BY <2>2, <2>3, <2>4, GoesQuiet DEF Triaging
<1>3. CASE SkipKnown(a) \/ SkipBlocked(a)
  <2>1. \E x : Become(a, Done(a, x))
    BY <1>3 DEF SkipKnown, SkipBlocked
  <2>2. me[a].pc = "triage" /\ UNCHANGED <<runs, opps, lost>>
    BY <1>3 DEF SkipKnown, SkipBlocked, storeVars
  <2>3. Goes(a, "triage")
    BY <1>0, <2>1, <2>2, DoneGoes
  <2> QED BY <2>2, <2>3, GoesQuiet DEF Triaging, Hands
<1>4. CASE Fulfil(a) \/ FulfilFails(a)
  <2>1. me[a].pc = "fulfil" /\ Goto(a, "dispatch") /\ UNCHANGED <<runs, opps, lost>>
    BY <1>4 DEF Fulfil, FulfilFails, storeVars
  <2>2. Goes(a, "dispatch")
    BY <1>0, <2>1, GotoGoes DEF Pc
  <2> QED BY <2>1, <2>2, GoesQuiet DEF Triaging, Hands
<1>5. CASE LeaveParked(a)
  <2>1. /\ me[a].pc = "dispatch" /\ runs[me[a].run].state = "parked" /\ Goto(a, "triage")
        /\ UNCHANGED <<runs, opps, lost>>
    BY <1>5 DEF LeaveParked, storeVars
  <2>2. Goes(a, "triage")
    BY <1>0, <2>1, GotoGoes DEF Pc
  <2> QED BY <2>1, <2>2, GoesQuiet DEF Triaging
<1>6. CASE Interrupt(a)
  <2>1. Become(a, Idle) /\ UNCHANGED <<runs, opps>>
    BY <1>6 DEF Interrupt, storeVars
  <2>2. lost \subseteq lost' /\ (me[a].pc \in Hands => runs[me[a].run].source \in lost')
    BY <1>6 DEF Interrupt, Hands
  <2> QED BY <2>1, <2>2, IdleQuiet
<1>7. CASE SyncBegins(a) \/ \E x \in Sources : DeliveryArrives(a, x)
  <2>1. me[a].pc = "idle" /\ UNCHANGED <<runs, opps, lost>>
    BY <1>7 DEF SyncBegins, DeliveryArrives, storeVars
  <2>2. OthersStay(a) /\ me'[a].pc \in {"look_up", "dedupe"}
    BY <1>7, SyncLooks, DeliveryLooks
  <2> QED BY <2>1, <2>2 DEF Quiet, HandKept, Triaging, Hands
<1> QED BY <1>1, <1>2, <1>3, <1>4, <1>5, <1>6, <1>7

LEMMA InitKnows == Init => SignalInv
<1> SUFFICES ASSUME Init PROVE SignalInv
  OBVIOUS
<1>1. runs = <<>> /\ opps = <<>> /\ \A a \in Actor : me[a].pc = "idle"
  BY IdleTyped DEF Init
<1>2. DOMAIN runs = {} /\ DOMAIN opps = {}
  BY <1>1
<1>3. Seen
  BY <1>1 DEF Seen, RunsSeen, OppsSeen, Triaging
<1>4. OneRunPerSignal /\ OneOpportunityPerIssue
  BY <1>2 DEF OneRunPerSignal, OneOpportunityPerIssue, OnceUnlessOverlapping
<1>5. NoRunIsForgotten
  BY <1>2 DEF NoRunIsForgotten
<1> QED BY <1>3, <1>4, <1>5 DEF SignalInv

LEMMA NextKnows == TypeOK /\ SignalInv /\ [Next]_vars => SignalInv'
<1> SUFFICES ASSUME TypeOK, SignalInv, [Next]_vars PROVE SignalInv'
  OBVIOUS
<1>1. CASE \/ \E s \in Subjects : Raise(s) \/ Clear(s)
           \/ TimePasses
           \/ UNCHANGED vars
  <2>1. UNCHANGED <<runs, opps, me, lost>>
    BY <1>1 DEF Raise, Clear, TimePasses, vars, storeVars
  <2> QED BY <2>1, WorldKeeps
<1>2. ASSUME NEW a \in Actor,
             \/ \E call \in {"operational", "memory"} : ScanBegins(a, call)
             \/ TriggerBegins(a) \/ LookUp(a)
      PROVE  SignalInv'
  <2>1. UNCHANGED <<runs, opps, lost>> /\ me[a].pc \notin Hands
    BY <1>2 DEF ScanBegins, TriggerBegins, LookUp, storeVars, Hands
  <2>2. \/ Looks(a, "triage", Len(runs)) /\ me'[a].known = KnownSources
        \/ Looks(a, "import", Len(opps)) /\ me'[a].known = SourcesOf(opps)
    BY <1>2, ScanLooks, TriggerLooks, ImportLooks
  <2> QED BY <2>1, <2>2, LookKeeps
<1>3. ASSUME NEW a \in Actor, Import(a) \/ StartRun(a) \/ Dispatch(a)
      PROVE  SignalInv'
  BY <1>3, ImportKeeps, StartRunKeeps, DispatchKeeps
<1>4. ASSUME NEW a \in Actor,
             \/ SyncBegins(a)
             \/ \E x \in Sources : DeliveryArrives(a, x)
             \/ SkipDuplicate(a) \/ AcceptDelivery(a) \/ Imported(a) \/ WriteReport(a)
             \/ Remember(a) \/ SkipKnown(a) \/ SkipBlocked(a) \/ Fulfil(a) \/ FulfilFails(a)
             \/ LeaveParked(a) \/ EndCall(a) \/ Interrupt(a)
      PROVE  SignalInv'
  BY <1>4, QuietSteps, QuietKeeps
<1> QED BY <1>1, <1>2, <1>3, <1>4 DEF Next, Steps

(* The strengthening: what calls at work know of the two stores, and what  *)
(* follows from it for what they enter and for the runs in their hands.    *)
THEOREM SignalInvariant == Spec => [](TypeOK /\ SignalInv)
<1> QED BY InitTyped, NextTyped, InitKnows, NextKnows, PTL DEF Spec

(* A signal - a subject, with the time of its last change - gets a second  *)
(* run only from a call that had looked before the first run was there:    *)
(* no retry, failed call, repeated delivery or later scan starts another.  *)
THEOREM SignalsRunOnce == Spec => []OneRunPerSignal
<1> QED BY SignalInvariant, PTL DEF SignalInv

(* An issue becomes a second opportunity only by a call that had listed    *)
(* the opportunities before the first was there, through whichever of the  *)
(* webhook and the sync it comes and however often.                        *)
THEOREM IssuesImportedOnce == Spec => []OneOpportunityPerIssue
<1> QED BY SignalInvariant, PTL DEF SignalInv

(* A run that is neither parked nor dispatched is in the hands of a call   *)
(* that has still to dispatch it, or that call was interrupted.            *)
THEOREM NoRunLeftBehind == Spec => []NoRunIsForgotten
<1> QED BY SignalInvariant, PTL DEF SignalInv
=============================================================================
