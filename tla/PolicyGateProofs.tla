-------------------------- MODULE PolicyGateProofs --------------------------
(***************************************************************************)
(* Theorems about PolicyGate, for any number of approvals, calls,          *)
(* processes, crashes and clock ticks, and any configuration: its types    *)
(* and the lock, what the owner's decision is worth, that a one-off is     *)
(* burned once, that who is told to wait waits for something the owner can *)
(* decide, and that the registry implements ApprovalLifecycle.             *)
(***************************************************************************)
EXTENDS PolicyGate, SequenceTheorems, TLAPS

-----------------------------------------------------------------------------
(* The promise chains.                                                     *)

Queues == [Process -> [Approval -> Seq(Call)]]

LEMMA CallProcess == \A c \in Call : ProcOf[c] \in Process
  BY RegistryAssumption DEF RegistryAssumption

(* Queueing behind a chain adds to its end and to no other chain. *)
LEMMA EnqueueChain ==
  ASSUME queue \in Queues, NEW c \in Call, NEW a \in Approval, Enqueue(c, a)
  PROVE  /\ queue' \in Queues
         /\ \A p \in Process, b \in Approval :
              queue'[p][b] = IF p = ProcOf[c] /\ b = a THEN Append(queue[p][b], c)
                             ELSE queue[p][b]
  BY CallProcess DEF Queues, Enqueue

(* Whoever is at the head of a chain stays there while others queue up. *)
LEMMA EnqueueHolds ==
  ASSUME queue \in Queues, NEW c \in Call, NEW a \in Approval, Enqueue(c, a),
         NEW d \in Call, by[d] \in Approval, by'[d] = by[d], Holds(d)
  PROVE  Holds(d)'
<1>1. /\ Chain(d, by[d]) \in Seq(Call)
      /\ \/ Chain(d, by[d])' = Chain(d, by[d])
         \/ Chain(d, by[d])' = Append(Chain(d, by[d]), c)
  <2>1. ProcOf[d] \in Process
    BY CallProcess
  <2>2. queue'[ProcOf[d]][by[d]] = IF ProcOf[d] = ProcOf[c] /\ by[d] = a
                                   THEN Append(queue[ProcOf[d]][by[d]], c)
                                   ELSE queue[ProcOf[d]][by[d]]
    BY <2>1, EnqueueChain
  <2> QED BY <2>1, <2>2 DEF Chain, Queues
<1>2. Append(Chain(d, by[d]), c) # <<>>
  BY <1>1, AppendProperties
<1>3. Chain(d, by[d]) # <<>> => Head(Append(Chain(d, by[d]), c)) = Head(Chain(d, by[d]))
  BY <1>1, HeadTailAppend
<1> QED BY <1>1, <1>2, <1>3 DEF Holds, Chain

(* The call at the head leaves its own chain and disturbs no other. *)
LEMMA ReleaseChain ==
  ASSUME queue \in Queues, NEW c \in Call, by[c] \in Approval, Holds(c), Release(c)
  PROVE  /\ queue' \in Queues
         /\ \A p \in Process, b \in Approval :
              ~(p = ProcOf[c] /\ b = by[c]) => queue'[p][b] = queue[p][b]
<1>1. Chain(c, by[c]) \in Seq(Call) /\ Chain(c, by[c]) # <<>>
  BY CallProcess DEF Queues, Holds, Chain
<1>2. Tail(Chain(c, by[c])) \in Seq(Call)
  BY <1>1
<1>3. queue' = [queue EXCEPT ![ProcOf[c]][by[c]] = Tail(Chain(c, by[c]))]
  BY CallProcess DEF Release, Chain, Queues
<1> QED BY <1>2, <1>3, CallProcess DEF Queues

(* ... so the head of every other chain stays where it is. *)
LEMMA ReleaseHolds ==
  ASSUME queue \in Queues, NEW c \in Call, by[c] \in Approval, Holds(c), Release(c),
         NEW d \in Call, by[d] \in Approval, by'[d] = by[d], Holds(d), d # c
  PROVE  Holds(d)'
<1>1. ~(ProcOf[d] = ProcOf[c] /\ by[d] = by[c])
  BY DEF Holds, Chain
<1>2. Chain(d, by[d])' = Chain(d, by[d])
  BY <1>1, ReleaseChain, CallProcess DEF Chain
<1> QED BY <1>2 DEF Holds, Chain

-----------------------------------------------------------------------------
(* The inductive invariant behind the types and the lock.                  *)

(* Between Evaluate and its end a call serves an ask. *)
Serving == {"burn", "consume", "stamp", "audit", "allowed", "blocked", "act",
            "list", "find", "file"}

(* A call that is inside the lock of an approval, or about to ask for it,  *)
(* names the approval, and the one inside is at the head of the chain.     *)
PlacedCall(c) ==
  /\ pc[c] \in {"burn", "consume", "read"} \cup Inside => by[c] \in Approval
  /\ pc[c] \in Serving => ask[c] \in Ask
  /\ pc[c] \in Inside => Holds(c)

TypeInv == TypeOK /\ \A c \in Call : PlacedCall(c)

(* A step of c leaves every other call where it is. *)
Others(c) ==
  \A d \in Call \ {c} :
    /\ pc'[d] = pc[d] /\ ask'[d] = ask[d] /\ by'[d] = by[d]
    /\ decision'[d] = decision[d] /\ seen'[d] = seen[d]
    /\ listed'[d] = listed[d] /\ verdict'[d] = verdict[d]

LEMMA OthersStay ==
  ASSUME TypeOK, NEW c \in Call, StartCall(c) \/ Step(c)
  PROVE  Others(c)
<1> USE DEF Others, TypeOK, Goto
<1>1. ASSUME NEW k \in Ask, Evaluate(c, k) PROVE Others(c)
  BY <1>1 DEF Evaluate
<1>2. ASSUME NEW a \in Approval, NEW d \in {"approved", "rejected"}, StartResolve(c, a, d)
      PROVE Others(c)
  BY <1>2 DEF StartResolve
<1>3. CASE ReadPendingDoc(c)
  BY <1>3 DEF ReadPendingDoc, callVars
<1>4. CASE WriteResolved(c)
  BY <1>4 DEF WriteResolved, callVars
<1>5. CASE ArchivePending(c)
  BY <1>5 DEF ArchivePending, callVars
<1>6. CASE UnlinkArchived(c)
  BY <1>6 DEF UnlinkArchived, callVars
<1>7. CASE StartConsume(c)
  BY <1>7 DEF StartConsume, callVars
<1>8. CASE ReadResolvedDoc(c, AfterConsume(c))
  BY <1>8 DEF ReadResolvedDoc
<1>9. CASE StampConsumed(c)
  BY <1>9 DEF StampConsumed
<1>10. CASE AuditConsumed(c, AfterConsume(c))
  BY <1>10 DEF AuditConsumed, callVars
<1>11. CASE ReviewCapabilityUse(c)
  BY <1>11 DEF ReviewCapabilityUse
<1>12. CASE CheckPublishGates(c)
  BY <1>12 DEF CheckPublishGates, callVars
<1>13. CASE CheckProvisionGates(c)
  BY <1>13 DEF CheckProvisionGates
<1>14. CASE CheckDirect(c)
  BY <1>14 DEF CheckDirect, callVars
<1>15. CASE Act(c)
  BY <1>15 DEF Act, callVars
<1>16. CASE ListPending(c)
  BY <1>16 DEF ListPending
<1>17. CASE ReadPending(c, SameRequests(c))
  BY <1>17 DEF ReadPending
<1>18. CASE FindPending(c)
  BY <1>18 DEF FindPending, callVars
<1>19. CASE FileRequest(c, RequestFor(ask[c]))
  BY <1>19 DEF FileRequest
<1> QED
  BY <1>1, <1>2, <1>3, <1>4, <1>5, <1>6, <1>7, <1>8, <1>9, <1>10, <1>11, <1>12, <1>13,
     <1>14, <1>15, <1>16, <1>17, <1>18, <1>19
  DEF StartCall, Step, ResolveStep, ConsumeStep, ServiceStep, RequestStep

(* ... and keeps the head of every chain another call is inside of. *)
HeadsKept(c) ==
  \A d \in Call \ {c} : by[d] \in Approval /\ Holds(d) => Holds(d)'

LEMMA OthersPlaced ==
  ASSUME TypeInv, NEW c \in Call, Others(c), HeadsKept(c), TypeOK', PlacedCall(c)'
  PROVE  TypeInv'
<1>1. ASSUME NEW d \in Call, d # c PROVE PlacedCall(d)'
  BY <1>1 DEF TypeInv, PlacedCall, Others, HeadsKept, Inside
<1> QED BY <1>1 DEF TypeInv

LEMMA HeadsKeptByIdle ==
  ASSUME NEW c \in Call, Others(c), UNCHANGED queue
  PROVE  HeadsKept(c)
  BY DEF Others, HeadsKept, Holds, Chain

LEMMA HeadsKeptByEnqueue ==
  ASSUME TypeOK, NEW c \in Call, NEW a \in Approval, Others(c), Enqueue(c, a)
  PROVE  HeadsKept(c)
  BY EnqueueHolds DEF Others, HeadsKept, TypeOK, Queues

LEMMA HeadsKeptByRelease ==
  ASSUME TypeOK, NEW c \in Call, Others(c), by[c] \in Approval, Holds(c), Release(c)
  PROVE  HeadsKept(c)
  BY ReleaseHolds DEF Others, HeadsKept, TypeOK, Queues

LEMMA EvaluateTypeInv ==
  ASSUME TypeInv, NEW c \in Call, NEW k \in Ask, Evaluate(c, k)
  PROVE  TypeInv'
<1>1. Others(c)
  BY OthersStay DEF TypeInv, StartCall
<1>2. TypeOK'
  <2>1. verdict' \in [Call -> {"allow", "require_approval", "escalate"}]
    BY DEF TypeInv, TypeOK, Evaluate, Denial
  <2>2. by' \in [Call -> Approval \cup {None}]
    BY DEF TypeInv, TypeOK, Evaluate, Newest, Candidates
  <2>3. pc' \in [Call -> PC] /\ ask' \in [Call -> Ask \cup {None}]
    BY DEF TypeInv, TypeOK, Evaluate, Goto, PC, Terminal, Locked
  <2> QED BY <2>1, <2>2, <2>3 DEF TypeInv, TypeOK, Evaluate, registryVars
<1>3. PlacedCall(c)'
  <2>1. pc'[c] \in {"allowed", "burn", "blocked"} /\ ask'[c] \in Ask
    BY DEF TypeInv, TypeOK, Evaluate, Goto
  <2>2. pc'[c] = "burn" => by'[c] \in Approval
    BY DEF TypeInv, TypeOK, Evaluate, Newest, Candidates, Goto
  <2> QED BY <2>1, <2>2 DEF PlacedCall, Inside
<1> QED BY <1>1, <1>2, <1>3, HeadsKeptByIdle, OthersPlaced DEF Evaluate

(* The steps of resolve(). *)
LEMMA ResolveTypeInv ==
  ASSUME TypeInv, NEW c \in Call,
         \/ \E a \in Approval, d \in {"approved", "rejected"} : StartResolve(c, a, d)
         \/ ResolveStep(c)
  PROVE  TypeInv'
<1> USE DEF PC, Terminal, Locked, Goto
<1>0. Others(c) /\ TypeOK /\ PlacedCall(c) /\ queue \in Queues
  BY OthersStay DEF TypeInv, StartCall, Step, TypeOK, Queues
<1>1. ASSUME NEW a \in Approval, NEW d \in {"approved", "rejected"}, StartResolve(c, a, d)
      PROVE  TypeInv'
  <2>1. queue' \in Queues /\ HeadsKept(c)
    BY <1>0, <1>1, EnqueueChain, HeadsKeptByEnqueue DEF StartResolve
  <2>2. TypeOK'
    BY <1>0, <1>1, <2>1 DEF TypeOK, StartResolve, Queues, registryVars
  <2>3. PlacedCall(c)'
    BY <1>0, <1>1 DEF TypeOK, StartResolve, PlacedCall, Inside, Serving
  <2> QED BY <1>0, <2>1, <2>2, <2>3, OthersPlaced
<1>2. CASE ReadPendingDoc(c)
  <2>1. by[c] \in Approval /\ Holds(c)
    BY <1>0, <1>2 DEF PlacedCall, ReadPendingDoc
  <2>2. queue' \in Queues /\ HeadsKept(c)
    BY <1>0, <1>2, <2>1, ReleaseChain, HeadsKeptByRelease, HeadsKeptByIdle DEF ReadPendingDoc
  <2>3. TypeOK'
    BY <1>0, <1>2, <2>2 DEF TypeOK, ReadPendingDoc, Queues, registryVars, callVars
  <2>4. PlacedCall(c)'
    BY <1>0, <1>2, <2>1 DEF TypeOK, ReadPendingDoc, PlacedCall, Inside, Serving, callVars,
                            Holds, Chain
  <2> QED BY <1>0, <2>2, <2>3, <2>4, OthersPlaced
<1>3. CASE WriteResolved(c)
  <2>1. resolved' \in [Approval -> Resolved]
    BY <1>0, <1>3 DEF TypeOK, WriteResolved, Resolved
  <2>2. TypeOK'
    BY <1>0, <1>3, <2>1 DEF TypeOK, WriteResolved, callVars
  <2>3. PlacedCall(c)'
    BY <1>0, <1>3 DEF TypeOK, WriteResolved, PlacedCall, Inside, Serving, callVars, Holds, Chain
  <2> QED BY <1>0, <1>3, <2>2, <2>3, HeadsKeptByIdle, OthersPlaced DEF WriteResolved
<1>4. CASE ArchivePending(c)
  <2>1. pendingDir' \in SUBSET PendingFile /\ faults' \in Nat
    BY <1>0, <1>4 DEF TypeOK, ArchivePending, PendingFile, PlacedCall, Inside
  <2>2. TypeOK'
    BY <1>0, <1>4, <2>1 DEF TypeOK, ArchivePending, callVars
  <2>3. PlacedCall(c)'
    BY <1>0, <1>4 DEF TypeOK, ArchivePending, PlacedCall, Inside, Serving, callVars, Holds, Chain
  <2> QED BY <1>0, <1>4, <2>2, <2>3, HeadsKeptByIdle, OthersPlaced DEF ArchivePending
<1>5. CASE UnlinkArchived(c)
  <2>1. by[c] \in Approval /\ Holds(c)
    BY <1>0, <1>5 DEF PlacedCall, UnlinkArchived, Inside
  <2>2. queue' \in Queues /\ HeadsKept(c)
    BY <1>0, <1>5, <2>1, ReleaseChain, HeadsKeptByRelease DEF UnlinkArchived
  <2>3. pendingDir' \in SUBSET PendingFile /\ faults' \in Nat
    BY <1>0, <1>5 DEF TypeOK, UnlinkArchived
  <2>4. TypeOK'
    BY <1>0, <1>5, <2>2, <2>3 DEF TypeOK, UnlinkArchived, Queues, callVars
  <2>5. PlacedCall(c)'
    BY <1>0, <1>5 DEF TypeOK, UnlinkArchived, PlacedCall, Inside, Serving
  <2> QED BY <1>0, <2>2, <2>4, <2>5, OthersPlaced
<1> QED BY <1>1, <1>2, <1>3, <1>4, <1>5 DEF ResolveStep

(* The steps of consume(). *)
LEMMA ConsumeTypeInv ==
  ASSUME TypeInv, NEW c \in Call, ConsumeStep(c)
  PROVE  TypeInv'
<1> USE DEF PC, Terminal, Locked, Goto
<1>0. Others(c) /\ TypeOK /\ PlacedCall(c) /\ queue \in Queues
  BY OthersStay DEF TypeInv, StartCall, Step, TypeOK, Queues
<1>1. AfterConsume(c) \in {"done", "allowed"}
  BY DEF AfterConsume
<1>2. CASE StartConsume(c)
  <2>1. by[c] \in Approval
    BY <1>0, <1>2 DEF StartConsume, PlacedCall
  <2>2. queue' \in Queues /\ HeadsKept(c)
    BY <1>0, <1>2, <2>1, EnqueueChain, HeadsKeptByEnqueue DEF StartConsume
  <2>3. TypeOK'
    BY <1>0, <1>2, <2>2 DEF TypeOK, StartConsume, Queues, registryVars, callVars
  <2>4. PlacedCall(c)'
    BY <1>0, <1>2, <2>1 DEF TypeOK, StartConsume, PlacedCall, Inside, Serving, callVars
  <2> QED BY <1>0, <2>2, <2>3, <2>4, OthersPlaced
<1>3. CASE ReadResolvedDoc(c, AfterConsume(c))
  <2>1. by[c] \in Approval /\ ask[c] \in Ask /\ Holds(c)
    BY <1>0, <1>3 DEF ReadResolvedDoc, PlacedCall, Serving
  <2>2. queue' \in Queues /\ HeadsKept(c)
    BY <1>0, <1>3, <2>1, ReleaseChain, HeadsKeptByRelease, HeadsKeptByIdle DEF ReadResolvedDoc
  <2>3. seen' \in [Call -> Resolved]
    <3>1. resolved[by[c]] \in Resolved /\ seen \in [Call -> Resolved]
      BY <1>0, <2>1 DEF TypeOK
    <3>2. seen' = seen \/ seen' = [seen EXCEPT ![c] = resolved[by[c]]]
      BY <1>3 DEF ReadResolvedDoc
    <3> QED BY <3>1, <3>2
  <2>4. TypeOK'
    BY <1>0, <1>1, <1>3, <2>2, <2>3 DEF TypeOK, ReadResolvedDoc, Queues, registryVars
  <2>5. PlacedCall(c)'
    BY <1>0, <1>1, <1>3, <2>1 DEF TypeOK, ReadResolvedDoc, PlacedCall, Inside, Serving, Holds, Chain
  <2> QED BY <1>0, <2>2, <2>4, <2>5, OthersPlaced
<1>4. CASE StampConsumed(c)
  <2>1. Absent \in Resolved /\ [seen[c] EXCEPT !.consumed = TRUE] \in Resolved
    BY ZenonT(60), <1>0 DEF TypeOK, Resolved, Absent
  <2>2. TypeOK'
    BY <1>0, <1>4, <2>1 DEF TypeOK, StampConsumed
  <2>3. PlacedCall(c)'
    BY <1>0, <1>4 DEF TypeOK, StampConsumed, PlacedCall, Inside, Serving, Holds, Chain
  <2> QED BY <1>0, <1>4, <2>2, <2>3, HeadsKeptByIdle, OthersPlaced DEF StampConsumed
<1>5. CASE AuditConsumed(c, AfterConsume(c))
  <2>1. by[c] \in Approval /\ ask[c] \in Ask /\ Holds(c)
    BY <1>0, <1>5 DEF AuditConsumed, PlacedCall, Inside, Serving
  <2>2. queue' \in Queues /\ HeadsKept(c)
    BY <1>0, <1>5, <2>1, ReleaseChain, HeadsKeptByRelease DEF AuditConsumed
  <2>3. TypeOK'
    BY <1>0, <1>1, <1>5, <2>1, <2>2 DEF TypeOK, AuditConsumed, Queues, callVars
  <2>4. PlacedCall(c)'
    BY <1>0, <1>1, <1>5, <2>1 DEF TypeOK, AuditConsumed, PlacedCall, Inside, Serving, callVars
  <2> QED BY <1>0, <2>2, <2>3, <2>4, OthersPlaced
<1> QED BY <1>2, <1>3, <1>4, <1>5 DEF ConsumeStep

(* The steps of the callers after their evaluation. *)
LEMMA ServiceTypeInv ==
  ASSUME TypeInv, NEW c \in Call, ServiceStep(c)
  PROVE  TypeInv'
<1> USE DEF PC, Terminal, Locked, Goto
<1>0. Others(c) /\ TypeOK /\ PlacedCall(c)
  BY OthersStay DEF TypeInv, Step
<1>1. CASE ReviewCapabilityUse(c)
  <2>1. by' \in [Call -> Approval \cup {None}] /\ pc'[c] \in {"permitted", "list", "refused"}
    BY <1>0, <1>1 DEF TypeOK, ReviewCapabilityUse, Newest, Candidates
  <2>2. TypeOK'
    BY ZenonT(60), <1>0, <1>1, <2>1 DEF TypeOK, ReviewCapabilityUse, registryVars
  <2>3. PlacedCall(c)'
    BY <1>0, <1>1, <2>1 DEF TypeOK, ReviewCapabilityUse, PlacedCall, Inside, Serving
  <2> QED BY <1>0, <1>1, <2>2, <2>3, HeadsKeptByIdle, OthersPlaced DEF ReviewCapabilityUse
<1>2. CASE CheckPublishGates(c)
  <2>1. TypeOK'
    BY <1>0, <1>2 DEF TypeOK, CheckPublishGates, registryVars, callVars
  <2>2. PlacedCall(c)'
    BY <1>0, <1>2 DEF TypeOK, CheckPublishGates, PlacedCall, Inside, Serving, callVars
  <2> QED BY <1>0, <1>2, <2>1, <2>2, HeadsKeptByIdle, OthersPlaced DEF CheckPublishGates
<1>3. CASE CheckProvisionGates(c)
  <2>1. by' \in [Call -> Approval \cup {None}] /\ pc'[c] \in {"act", "list"}
    BY <1>0, <1>3 DEF TypeOK, CheckProvisionGates, Newest, Candidates
  <2>2. TypeOK'
    BY ZenonT(60), <1>0, <1>3, <2>1 DEF TypeOK, CheckProvisionGates, registryVars
  <2>3. PlacedCall(c)'
    BY <1>0, <1>3, <2>1 DEF TypeOK, CheckProvisionGates, PlacedCall, Inside, Serving
  <2> QED BY <1>0, <1>3, <2>2, <2>3, HeadsKeptByIdle, OthersPlaced DEF CheckProvisionGates
<1>4. CASE CheckDirect(c)
  <2>1. pc'[c] \in {"done", "act", "refused"}
    BY <1>0, <1>4 DEF TypeOK, CheckDirect
  <2>2. TypeOK'
    BY ZenonT(60), <1>0, <1>4, <2>1 DEF TypeOK, CheckDirect, registryVars, callVars
  <2>3. PlacedCall(c)'
    BY <1>0, <1>4, <2>1 DEF TypeOK, CheckDirect, PlacedCall, Inside, Serving, callVars
  <2> QED BY <1>0, <1>4, <2>2, <2>3, HeadsKeptByIdle, OthersPlaced DEF CheckDirect
<1>5. CASE Act(c)
  <2>1. pc'[c] \in {"failed", "permitted", "done", "burn"}
    BY <1>0, <1>5 DEF TypeOK, Act
  <2>2. pc'[c] = "burn" => by[c] # None
    BY <1>0, <1>5 DEF TypeOK, Act
  <2>3. TypeOK'
    BY ZenonT(60), <1>0, <1>5, <2>1 DEF TypeOK, Act, registryVars, callVars
  <2>4. PlacedCall(c)'
    BY <1>0, <1>5, <2>1, <2>2 DEF TypeOK, Act, PlacedCall, Inside, Serving, callVars
  <2> QED BY <1>0, <1>5, <2>3, <2>4, HeadsKeptByIdle, OthersPlaced DEF Act
<1> QED BY <1>1, <1>2, <1>3, <1>4, <1>5 DEF ServiceStep

(* The steps that look for a pending request and file one. *)
LEMMA RequestTypeInv ==
  ASSUME TypeInv, NEW c \in Call, RequestStep(c)
  PROVE  TypeInv'
<1> USE DEF PC, Terminal, Locked, Goto
<1>0. Others(c) /\ TypeOK /\ PlacedCall(c)
  BY OthersStay DEF TypeInv, Step
<1>1. CASE ListPending(c)
  <2>1. TypeOK'
    BY <1>0, <1>1 DEF TypeOK, ListPending, registryVars
  <2>2. PlacedCall(c)'
    BY <1>0, <1>1 DEF TypeOK, ListPending, PlacedCall, Inside, Serving
  <2> QED BY <1>0, <1>1, <2>1, <2>2, HeadsKeptByIdle, OthersPlaced DEF ListPending
<1>2. CASE ReadPending(c, SameRequests(c))
  <2>1. by' = by \/ \E f \in listed[c] : by' = [by EXCEPT ![c] = f[1]]
    BY <1>2 DEF ReadPending
  <2>2. \A f \in listed[c] : f[1] \in Approval
    BY <1>0 DEF TypeOK, PendingFile
  <2>3. by' \in [Call -> Approval \cup {None}]
    BY <1>0, <2>1, <2>2 DEF TypeOK
  <2>4. listed' \in [Call -> SUBSET PendingFile] /\ pc' \in [Call -> PC]
    BY <1>0, <1>2 DEF TypeOK, ReadPending
  <2>5. TypeOK'
    BY <1>0, <1>2, <2>3, <2>4 DEF TypeOK, ReadPending, registryVars
  <2>6. PlacedCall(c)'
    BY <1>0, <1>2 DEF TypeOK, ReadPending, PlacedCall, Inside, Serving
  <2> QED BY <1>0, <1>2, <2>5, <2>6, HeadsKeptByIdle, OthersPlaced DEF ReadPending
<1>3. CASE FindPending(c)
  <2>1. TypeOK'
    BY <1>0, <1>3 DEF TypeOK, FindPending, registryVars, callVars
  <2>2. PlacedCall(c)'
    BY <1>0, <1>3 DEF TypeOK, FindPending, PlacedCall, Inside, Serving, callVars
  <2> QED BY <1>0, <1>3, <2>1, <2>2, HeadsKeptByIdle, OthersPlaced DEF FindPending
<1>4. CASE pc[c] = "file" /\ FileRequest(c, RequestFor(ask[c]))
  <2>1. RequestFor(ask[c]) \in Grant
    BY <1>0, <1>4, PolicyAssumption DEF PolicyAssumption, PlacedCall, Serving
  <2>2. PICK a \in Approval :
          /\ request' = [request EXCEPT ![a] = RequestFor(ask[c])]
          /\ pendingDir' = pendingDir \cup {<<a, "open">>}
          /\ by' = [by EXCEPT ![c] = a]
    BY <1>4 DEF FileRequest
  <2>3. request' \in [Approval -> Grant \cup {None}] /\ pendingDir' \in SUBSET PendingFile
    BY <1>0, <2>1, <2>2 DEF TypeOK, PendingFile
  <2>4. TypeOK'
    BY <1>0, <1>4, <2>2, <2>3 DEF TypeOK, FileRequest
  <2>5. PlacedCall(c)'
    BY <1>0, <1>4 DEF TypeOK, FileRequest, PlacedCall, Inside, Serving
  <2> QED BY <1>0, <1>4, <2>4, <2>5, HeadsKeptByIdle, OthersPlaced DEF FileRequest
<1> QED BY <1>1, <1>2, <1>3, <1>4 DEF RequestStep

LEMMA TickTypeInv ==
  ASSUME TypeInv, Tick
  PROVE  TypeInv'
<1>1. TypeOK'
  BY DEF TypeInv, TypeOK, Tick, callVars
<1>2. \A c \in Call : PlacedCall(c)'
  BY DEF TypeInv, PlacedCall, Tick, callVars, Holds, Chain
<1> QED BY <1>1, <1>2 DEF TypeInv

LEMMA CrashTypeInv ==
  ASSUME TypeInv, NEW p \in Process, Crash(p)
  PROVE  TypeInv'
<1>1. TypeOK'
  <2>1. pc' \in [Call -> PC]
    BY DEF TypeInv, TypeOK, Crash, PC, Terminal
  <2>2. queue' \in Queues
    BY EmptySeq DEF TypeInv, TypeOK, Crash, Queues
  <2> QED BY <2>1, <2>2 DEF TypeInv, TypeOK, Crash, Queues, registryVars, callVars
<1>2. ASSUME NEW c \in Call PROVE PlacedCall(c)'
  <2>1. CASE ProcOf[c] = p
    <3>1. pc'[c] \in Terminal \cup {"idle"}
      BY <2>1 DEF Crash, Terminal
    <3> QED BY <3>1 DEF PlacedCall, Serving, Inside, Terminal
  <2>2. CASE ProcOf[c] # p
    <3>1. pc'[c] = pc[c] /\ queue'[ProcOf[c]] = queue[ProcOf[c]]
      BY <2>2, CallProcess DEF Crash, TypeInv, TypeOK
    <3> QED BY <3>1 DEF TypeInv, PlacedCall, Crash, callVars, Holds, Chain, Inside
  <2> QED BY <2>1, <2>2
<1> QED BY <1>1, <1>2 DEF TypeInv

LEMMA InitTypeInv == Init => TypeInv
<1> SUFFICES ASSUME Init PROVE TypeInv
  OBVIOUS
<1>1. queue \in Queues
  BY EmptySeq DEF Init, Queues
<1>2. resolved \in [Approval -> Resolved] /\ seen \in [Call -> Resolved]
  BY DEF Init, Resolved, Absent
<1>3. pendingDir \in SUBSET PendingFile
  BY RegistryAssumption DEF RegistryAssumption, Init, PendingFile
<1>4. TypeOK
  BY <1>1, <1>2, <1>3 DEF Init, TypeOK, Queues, PC
<1>5. \A c \in Call : PlacedCall(c)
  BY DEF Init, PlacedCall, Serving, Inside
<1> QED BY <1>4, <1>5 DEF TypeInv

LEMMA NextTypeInv == TypeInv /\ [Next]_vars => TypeInv'
<1> SUFFICES ASSUME TypeInv, [Next]_vars PROVE TypeInv'
  OBVIOUS
<1>1. ASSUME NEW c \in Call, StartCall(c) PROVE TypeInv'
  BY <1>1, EvaluateTypeInv, ResolveTypeInv DEF StartCall
<1>2. ASSUME NEW c \in Call, Step(c) PROVE TypeInv'
  BY <1>2, ResolveTypeInv, ConsumeTypeInv, ServiceTypeInv, RequestTypeInv DEF Step
<1>3. CASE Tick
  BY <1>3, TickTypeInv
<1>4. ASSUME NEW p \in Process, Crash(p) PROVE TypeInv'
  BY <1>4, CrashTypeInv
<1>5. CASE UNCHANGED vars
  BY <1>5 DEF vars, registryVars, callVars, TypeInv, TypeOK, PlacedCall, Holds, Chain
<1> QED BY <1>1, <1>2, <1>3, <1>4, <1>5 DEF Next

LEMMA AlwaysTypeInv == Spec => []TypeInv
  BY InitTypeInv, NextTypeInv, PTL DEF Spec

(* Every variable keeps its type: in particular a chain is only left by a  *)
(* call that is in it, and a request is only filed for an ask.             *)
THEOREM TypeCorrect == Spec => []TypeOK
<1>1. TypeInv => TypeOK
  BY DEF TypeInv
<1> QED BY <1>1, AlwaysTypeInv, PTL

(* withFileLock excludes: at most one call of a process is inside the lock *)
(* of an approval, for any number of calls, processes and crashes.         *)
THEOREM LockCorrect == Spec => []LockExclusive
<1>1. TypeInv => LockExclusive
  BY DEF TypeInv, PlacedCall, LockExclusive, Holds, Chain
<1> QED BY <1>1, AlwaysTypeInv, PTL

-----------------------------------------------------------------------------
(***************************************************************************)
(* What the owner's decision is worth: nothing the configuration does not  *)
(* enable goes ahead without it, for any number of calls, processes,       *)
(* crashes and failed renames.                                             *)
(***************************************************************************)

(* Requests are never rewritten, and every id in use has one.              *)

FiledInv ==
  /\ \A a \in Approval : resolved[a].status # "absent" => request[a] # None
  /\ \A c \in Call : by[c] # None => request[by[c]] # None
  /\ \A f \in pendingDir : request[f[1]] # None
  /\ \A c \in Call : \A f \in listed[c] : request[f[1]] # None

RequestsKept == \A a \in Approval : request[a] # None => request'[a] = request[a]

LEMMA StepKeepsRequests ==
  ASSUME TypeInv, [Next]_vars
  PROVE  RequestsKept
<1> USE DEF RequestsKept, registryVars
<1>1. ASSUME NEW c \in Call, StartCall(c) PROVE RequestsKept
  BY <1>1 DEF StartCall, Evaluate, StartResolve
<1>2. ASSUME NEW c \in Call, ResolveStep(c) PROVE RequestsKept
  BY <1>2 DEF ResolveStep, ReadPendingDoc, WriteResolved, ArchivePending, UnlinkArchived
<1>3. ASSUME NEW c \in Call, ConsumeStep(c) PROVE RequestsKept
  BY <1>3 DEF ConsumeStep, StartConsume, ReadResolvedDoc, StampConsumed, AuditConsumed
<1>4. ASSUME NEW c \in Call, ServiceStep(c) PROVE RequestsKept
  BY <1>4 DEF ServiceStep, ReviewCapabilityUse, CheckPublishGates, CheckProvisionGates,
              CheckDirect, Act
<1>5. ASSUME NEW c \in Call, RequestStep(c) PROVE RequestsKept
  BY <1>5 DEF RequestStep, ListPending, ReadPending, FindPending, FileRequest, TypeInv, TypeOK
<1>6. CASE Tick
  BY <1>6 DEF Tick
<1>7. ASSUME NEW p \in Process, Crash(p) PROVE RequestsKept
  BY <1>7 DEF Crash
<1>8. CASE UNCHANGED vars
  BY <1>8 DEF vars
<1> QED BY <1>1, <1>2, <1>3, <1>4, <1>5, <1>6, <1>7, <1>8 DEF Next, Step

LEMMA InitFiledInv == Init => FiledInv
<1> SUFFICES ASSUME Init PROVE FiledInv
  OBVIOUS
<1>1. \A f \in pendingDir : request[f[1]] # None
  BY RegistryAssumption DEF RegistryAssumption, Init
<1> QED BY <1>1 DEF Init, FiledInv, Absent

(* A decision is only written for an approval a call resolved or consumed. *)
LEMMA ResolvedStaysFiled ==
  ASSUME TypeInv, FiledInv, [Next]_vars
  PROVE  \A a \in Approval : resolved'[a].status # "absent" => request'[a] # None
<1>1. RequestsKept
  BY StepKeepsRequests
<1>2. ASSUME NEW c \in Call, WriteResolved(c) \/ StampConsumed(c)
      PROVE  \A a \in Approval : a # by[c] => resolved'[a] = resolved[a]
  BY <1>2 DEF TypeInv, TypeOK, WriteResolved, StampConsumed
<1>3. ASSUME NEW c \in Call, WriteResolved(c) \/ StampConsumed(c)
      PROVE  \A a \in Approval : resolved'[a].status # "absent" => request'[a] # None
  <2>1. by[c] \in Approval => request[by[c]] # None
    BY RegistryAssumption DEF FiledInv, RegistryAssumption
  <2> QED BY <1>1, <1>2, <1>3, <2>1 DEF FiledInv, RequestsKept
<1>4. resolved' = resolved \/ \E c \in Call : WriteResolved(c) \/ StampConsumed(c)
  <2> USE DEF registryVars
  <2>1. ASSUME NEW c \in Call, StartCall(c) PROVE resolved' = resolved
    BY <2>1 DEF StartCall, Evaluate, StartResolve
  <2>2. ASSUME NEW c \in Call, ResolveStep(c), ~WriteResolved(c) PROVE resolved' = resolved
    BY <2>2 DEF ResolveStep, ReadPendingDoc, ArchivePending, UnlinkArchived
  <2>3. ASSUME NEW c \in Call, ConsumeStep(c), ~StampConsumed(c) PROVE resolved' = resolved
    BY <2>3 DEF ConsumeStep, StartConsume, ReadResolvedDoc, AuditConsumed
  <2>4. ASSUME NEW c \in Call, ServiceStep(c) PROVE resolved' = resolved
    BY <2>4 DEF ServiceStep, ReviewCapabilityUse, CheckPublishGates, CheckProvisionGates,
                CheckDirect, Act
  <2>5. ASSUME NEW c \in Call, RequestStep(c) PROVE resolved' = resolved
    BY <2>5 DEF RequestStep, ListPending, ReadPending, FindPending, FileRequest
  <2>6. CASE Tick \/ \E p \in Process : Crash(p)
    BY <2>6 DEF Tick, Crash
  <2>7. CASE UNCHANGED vars
    BY <2>7 DEF vars
  <2> QED BY <2>1, <2>2, <2>3, <2>4, <2>5, <2>6, <2>7 DEF Next, Step
<1> QED BY <1>1, <1>3, <1>4 DEF FiledInv, RequestsKept

LEMMA NextFiledInv == TypeInv /\ FiledInv /\ [Next]_vars => FiledInv'
<1> SUFFICES ASSUME TypeInv, FiledInv, [Next]_vars PROVE FiledInv'
  OBVIOUS
<1>1. RequestsKept
  BY StepKeepsRequests
<1>2. \A a \in Approval : resolved'[a].status # "absent" => request'[a] # None
  BY ResolvedStaysFiled
<1>3. TypeOK /\ TypeOK'
  BY NextTypeInv DEF TypeInv
<1>4. \A S \in SUBSET PendingFile : \A f \in S : f[1] \in Approval
  BY DEF PendingFile
<1> DEFINE NamesKept == \A c \in Call : by'[c] # None => request'[by'[c]] # None
           FilesKept == /\ \A f \in pendingDir' : request'[f[1]] # None
                        /\ \A c \in Call : \A f \in listed'[c] : request'[f[1]] # None
<1>5. ASSUME by' = by PROVE NamesKept
  BY <1>1, <1>3, <1>5 DEF FiledInv, RequestsKept, TypeOK
<1>6. ASSUME NEW c \in Call, NEW a \in Approval, by' = [by EXCEPT ![c] = a], request'[a] # None
      PROVE  NamesKept
  BY <1>1, <1>3, <1>6 DEF FiledInv, RequestsKept, TypeOK
<1>7. ASSUME pendingDir' \subseteq pendingDir, listed' = listed PROVE FilesKept
  BY <1>1, <1>3, <1>4, <1>7 DEF FiledInv, RequestsKept, TypeOK
<1>8. ASSUME NEW c \in Call, StartCall(c) PROVE NamesKept /\ FilesKept
  <2>1. pendingDir' \subseteq pendingDir /\ listed' = listed
    BY <1>8 DEF StartCall, Evaluate, StartResolve, registryVars
  <2>2. ASSUME NEW k \in Ask, Evaluate(c, k) PROVE NamesKept
    <3>1. \A a \in Newest(Candidates(k, k.action \in StandingOnly)) :
             a \in Approval /\ request'[a] # None
      BY <2>2 DEF Evaluate, registryVars, Newest, Candidates, FiledInv
    <3>2. by' = by \/ \E a \in Newest(Candidates(k, k.action \in StandingOnly)) :
                       by' = [by EXCEPT ![c] = a]
      BY <2>2 DEF Evaluate
    <3> QED BY <3>1, <3>2, <1>5, <1>6
  <2>3. ASSUME NEW a \in Approval, NEW d \in {"approved", "rejected"}, StartResolve(c, a, d)
        PROVE NamesKept
    <3>1. request'[a] # None
      BY <2>3 DEF StartResolve, FiledInv, registryVars
    <3> QED BY <2>3, <3>1, <1>6 DEF StartResolve
  <2> QED BY <1>7, <1>8, <2>1, <2>2, <2>3 DEF StartCall
<1>9. ASSUME NEW c \in Call, ResolveStep(c) \/ ConsumeStep(c) PROVE NamesKept /\ FilesKept
  <2>1. by' = by /\ listed' = listed
    BY <1>9 DEF ResolveStep, ReadPendingDoc, WriteResolved, ArchivePending, UnlinkArchived,
                ConsumeStep, StartConsume, ReadResolvedDoc, StampConsumed, AuditConsumed,
                callVars
  <2>2. CASE ArchivePending(c)
    <3>1. \A f \in pendingDir' : \E g \in pendingDir : f[1] = g[1]
      BY <2>2 DEF ArchivePending
    <3>2. \A f \in pendingDir' : request'[f[1]] # None
      BY <1>1, <1>3, <1>4, <3>1 DEF FiledInv, RequestsKept, TypeOK
    <3>3. \A d \in Call : \A f \in listed'[d] : request'[f[1]] # None
      BY <1>1, <1>3, <1>4, <2>1 DEF FiledInv, RequestsKept, TypeOK
    <3> QED BY <1>5, <2>1, <3>2, <3>3
  <2>3. CASE ~ArchivePending(c)
    <3>1. pendingDir' \subseteq pendingDir
      BY <1>9, <2>3 DEF ResolveStep, ReadPendingDoc, WriteResolved, UnlinkArchived,
                ConsumeStep, StartConsume, ReadResolvedDoc, StampConsumed, AuditConsumed,
                registryVars
    <3> QED BY <1>5, <1>7, <2>1, <3>1
  <2> QED BY <2>2, <2>3
<1>10. ASSUME NEW c \in Call, ServiceStep(c) PROVE NamesKept /\ FilesKept
  <2>1. pendingDir' = pendingDir /\ listed' = listed /\ resolved' = resolved /\ request' = request
    BY <1>10 DEF ServiceStep, ReviewCapabilityUse, CheckPublishGates, CheckProvisionGates,
                 CheckDirect, Act, registryVars, callVars
  <2>2. by' = by \/ \E k, a : a \in Newest(Candidates(k, FALSE)) /\ by' = [by EXCEPT ![c] = a]
    BY <1>10 DEF ServiceStep, ReviewCapabilityUse, CheckPublishGates, CheckProvisionGates,
                 CheckDirect, Act, callVars
  <2>3. \A k, a : a \in Newest(Candidates(k, FALSE)) => a \in Approval /\ request'[a] # None
    BY <1>2, <2>1 DEF Newest, Candidates
  <2> QED BY <1>5, <1>6, <1>7, <2>1, <2>2, <2>3
<1>11. ASSUME NEW c \in Call, ListPending(c) PROVE NamesKept /\ FilesKept
  <2>1. /\ by' = [by EXCEPT ![c] = None] /\ pendingDir' = pendingDir
        /\ listed' = [listed EXCEPT ![c] = pendingDir]
    BY <1>11 DEF ListPending, registryVars
  <2>2. FilesKept
    BY <1>1, <1>3, <1>4, <2>1 DEF FiledInv, RequestsKept, TypeOK
  <2>3. NamesKept
    BY <1>1, <1>3, <2>1 DEF FiledInv, RequestsKept, TypeOK
  <2> QED BY <2>2, <2>3
<1>12. ASSUME NEW c \in Call, ReadPending(c, SameRequests(c)) \/ FindPending(c)
       PROVE  NamesKept /\ FilesKept
  <2>1. /\ pendingDir' = pendingDir /\ request' = request
        /\ \E S \in SUBSET listed[c] : listed' = [listed EXCEPT ![c] = S]
    <3>1. CASE ReadPending(c, SameRequests(c))
      BY <3>1 DEF ReadPending, registryVars
    <3>2. CASE FindPending(c)
      BY <1>3, <3>2 DEF FindPending, registryVars, callVars, TypeOK
    <3> QED BY <1>12, <3>1, <3>2
  <2>2. by' = by \/ \E f \in listed[c] : by' = [by EXCEPT ![c] = f[1]]
    BY <1>12 DEF ReadPending, FindPending, callVars
  <2>3. \A f \in listed[c] : f[1] \in Approval /\ request'[f[1]] # None
    BY <1>3, <1>4, <2>1 DEF FiledInv, TypeOK
  <2>4. FilesKept
    BY <1>3, <2>1 DEF FiledInv, TypeOK
  <2> QED BY <1>5, <1>6, <2>2, <2>3, <2>4
<1>13. ASSUME NEW c \in Call, pc[c] = "file", FileRequest(c, RequestFor(ask[c]))
       PROVE  NamesKept /\ FilesKept
  <2>1. PICK a \in Approval :
          /\ request' = [request EXCEPT ![a] = RequestFor(ask[c])]
          /\ pendingDir' = pendingDir \cup {<<a, "open">>}
          /\ by' = [by EXCEPT ![c] = a]
    BY <1>13 DEF FileRequest
  <2>2. ask[c] \in Ask
    BY <1>13 DEF TypeInv, PlacedCall, Serving
  <2>3. request'[a] = RequestFor(ask[c])
    BY <1>3, <2>1 DEF TypeOK
  <2>4. request'[a] # None
    BY <2>2, <2>3, RegistryAssumption, PolicyAssumption DEF RegistryAssumption, PolicyAssumption
  <2>5. listed' = listed
    BY <1>13 DEF FileRequest
  <2>6. FilesKept
    BY <1>1, <1>3, <1>4, <2>1, <2>4, <2>5 DEF FiledInv, RequestsKept, TypeOK
  <2> QED BY <1>6, <2>1, <2>4, <2>6
<1>14. CASE Tick \/ (\E p \in Process : Crash(p)) \/ UNCHANGED vars
  <2>1. by' = by /\ pendingDir' = pendingDir /\ listed' = listed
    BY <1>14 DEF Tick, Crash, vars, registryVars, callVars
  <2>2. NamesKept
    BY <1>5, <2>1
  <2>3. FilesKept
    BY <1>7, <2>1
  <2> QED BY <1>2, <2>2, <2>3 DEF FiledInv
<1> QED
  BY <1>2, <1>8, <1>9, <1>10, <1>11, <1>12, <1>13, <1>14
  DEF Next, Step, RequestStep, FiledInv

-----------------------------------------------------------------------------
(* Every decision in the registry, and every grant a call acts on, goes    *)
(* back to a resolve call that carried the owner's approval.               *)

Granting == {"burn", "consume", "stamp", "audit", "allowed", "act", "permitted"}

ResolveOnly == {"idle", "read", "decide", "archive", "unlink"}

(* What a call knows of the owner at each place it can be.                 *)
OwnerCall(c) ==
  /\ pc[c] = "idle" => by[c] = None
  /\ pc[c] \in ResolveOnly => ask[c] = None
  /\ pc[c] = "stamp" /\ seen[c].status = "approved" => OwnerApproved(by[c])
  /\ pc[c] = "blocked" => verdict[c] # "allow"
  /\ pc[c] = "act" => ask[c].service # "capability"
  /\ pc[c] \in Granting =>
       /\ ask[c] \in Ask
       /\ verdict[c] = "allow"
       /\ by[c] # None => OwnerApproved(by[c])
       /\ ask[c].action \notin Enabled =>
            /\ by[c] # None
            /\ Covers(request[by[c]], ask[c])
            /\ ask[c].action \in StandingOnly => ~OneOff(by[c])
  /\ pc[c] = "permitted" /\ ask[c].service = "capability" /\ ask[c].action \in Gated
       => by[c] # None

OwnerInv ==
  /\ \A a \in Approval : resolved[a].status = "approved" => OwnerApproved(a)
  /\ \A c \in Call : OwnerCall(c)

(* A resolve call's decision is there to stay.                             *)
DecisionsKept == \A a \in Approval \cup {None} : OwnerApproved(a) => OwnerApproved(a)'

LEMMA StepKeepsDecisions ==
  ASSUME TypeInv, NEW c \in Call, Others(c), pc'[c] # "idle",
         \/ pc[c] = "idle"
         \/ ask[c] \in Ask
         \/ ask'[c] = ask[c] /\ by'[c] = by[c] /\ decision'[c] = decision[c]
  PROVE  DecisionsKept
<1> SUFFICES ASSUME NEW a \in Approval \cup {None}, NEW d \in Call, pc[d] # "idle",
                    ask[d] = None, by[d] = a, decision[d] = "approved"
             PROVE  /\ pc'[d] # "idle" /\ ask'[d] = None /\ by'[d] = a
                    /\ decision'[d] = "approved"
  BY DEF DecisionsKept, OwnerApproved
<1> QED BY RegistryAssumption DEF RegistryAssumption, Others

(* What the other calls know does not change when the registry only grows. *)
LEMMA OthersOwner ==
  ASSUME TypeInv, FiledInv, OwnerInv, NEW c \in Call, Others(c), DecisionsKept,
         RequestsKept, OwnerCall(c)',
         \A a \in Approval : resolved'[a].status = "approved" => OwnerApproved(a)'
  PROVE  OwnerInv'
<1> SUFFICES ASSUME NEW d \in Call, d # c PROVE OwnerCall(d)'
  BY DEF OwnerInv
<1>1. OwnerCall(d) /\ by[d] \in Approval \cup {None}
  BY DEF OwnerInv, TypeInv, TypeOK
<1>2. /\ pc'[d] = pc[d] /\ ask'[d] = ask[d] /\ by'[d] = by[d]
      /\ seen'[d] = seen[d] /\ verdict'[d] = verdict[d]
  BY DEF Others
<1>3. OwnerApproved(by[d]) => OwnerApproved(by[d])'
  BY <1>1, <1>2 DEF DecisionsKept, OwnerApproved
<1>4. by[d] # None => request'[by'[d]] = request[by[d]]
  BY <1>1, <1>2 DEF FiledInv, RequestsKept
<1>5. /\ Covers(request[by[d]], ask[d]) /\ by[d] # None => Covers(request[by[d]], ask[d])'
      /\ by[d] # None => OneOff(by[d])' = OneOff(by[d])
  BY <1>2, <1>4 DEF Covers, OneOff
<1> QED BY <1>1, <1>2, <1>3, <1>5 DEF OwnerCall

(* The steps that write no decision.                                       *)
LEMMA NoDecisionWritten ==
  ASSUME OwnerInv, DecisionsKept, UNCHANGED resolved
  PROVE  \A a \in Approval : resolved'[a].status = "approved" => OwnerApproved(a)'
  BY DEF OwnerInv, DecisionsKept

(* The approvals evaluate() may be granted by. *)
Found(k) == Newest(Candidates(k, k.action \in StandingOnly))

LEMMA EvaluateOwner ==
  ASSUME TypeInv, FiledInv, OwnerInv, NEW c \in Call, NEW k \in Ask, Evaluate(c, k),
         RequestsKept
  PROVE  OwnerInv'
<1>1. Others(c)
  BY OthersStay DEF TypeInv, StartCall
<1>2. pc[c] = "idle" /\ pc'[c] \in {"allowed", "burn", "blocked"} /\ ask'[c] = k
  BY DEF TypeInv, TypeOK, Evaluate, Goto
<1>3. DecisionsKept
  BY <1>1, <1>2, StepKeepsDecisions
<1>4. /\ resolved' = resolved /\ request' = request
  BY DEF Evaluate, registryVars
<1>5. OwnerCall(c)'
  <2>1. ASSUME NEW a \in Found(k)
        PROVE  /\ a \in Approval /\ OwnerApproved(a)
               /\ Covers(request[a], k)
               /\ k.action \in StandingOnly => ~OneOff(a)
    BY <2>1 DEF Found, Newest, Candidates, Usable, OwnerInv
  <2>2. CASE pc'[c] = "blocked"
    BY <1>2, <2>2 DEF OwnerCall, ResolveOnly, Granting, Evaluate, Denial, TypeInv, TypeOK, Goto
  <2>3. CASE k.action \in Enabled /\ pc'[c] = "allowed" /\ by' = by
    <3>1. by'[c] = None /\ verdict'[c] = "allow"
      BY <1>2, <2>3 DEF OwnerInv, OwnerCall, Evaluate, TypeInv, TypeOK, Goto
    <3> QED BY <1>2, <2>3, <3>1 DEF OwnerCall, ResolveOnly, Granting
  <2>4. ASSUME NEW a \in Found(k), by' = [by EXCEPT ![c] = a], pc'[c] # "blocked"
        PROVE  OwnerCall(c)'
    <3>0. a \in Approval /\ a # None
      BY <2>1, <2>4, RegistryAssumption DEF RegistryAssumption
    <3>1. by'[c] = a /\ verdict'[c] = "allow"
      BY <2>4 DEF Evaluate, TypeInv, TypeOK, Goto
    <3>2. OwnerApproved(by[c])'
      BY <1>3, <2>1, <2>4, <3>1 DEF OwnerApproved, DecisionsKept
    <3>3. Covers(request[by[c]], ask[c])' /\ (k.action \in StandingOnly => ~OneOff(by[c])')
      BY <1>2, <1>4, <2>1, <2>4, <3>1 DEF Covers, OneOff
    <3> QED BY <1>2, <2>4, <3>0, <3>1, <3>2, <3>3 DEF OwnerCall, ResolveOnly, Granting
  <2>5. \/ pc'[c] = "blocked"
        \/ k.action \in Enabled /\ pc'[c] = "allowed" /\ by' = by
        \/ pc'[c] # "blocked" /\ \E a \in Found(k) : by' = [by EXCEPT ![c] = a]
    BY DEF Evaluate, Goto, TypeInv, TypeOK, Found
  <2> QED BY <2>2, <2>3, <2>4, <2>5
<1> QED BY <1>1, <1>3, <1>4, <1>5, OthersOwner, NoDecisionWritten

LEMMA ResolveOwner ==
  ASSUME TypeInv, FiledInv, OwnerInv, NEW c \in Call, RequestsKept,
         \/ \E a \in Approval, d \in {"approved", "rejected"} : StartResolve(c, a, d)
         \/ ResolveStep(c)
  PROVE  OwnerInv'
<1> USE DEF Goto
<1>1. Others(c) /\ TypeOK /\ OwnerCall(c) /\ PlacedCall(c)
  BY OthersStay DEF TypeInv, OwnerInv, StartCall, Step
<1>2. ASSUME NEW a \in Approval, NEW d \in {"approved", "rejected"}, StartResolve(c, a, d)
      PROVE  OwnerInv'
  <2>1. pc[c] = "idle" /\ pc'[c] = "read" /\ ask'[c] = None /\ resolved' = resolved
    BY <1>1, <1>2 DEF StartResolve, TypeOK, OwnerCall, ResolveOnly, registryVars
  <2>2. DecisionsKept
    BY <1>1, <2>1, StepKeepsDecisions
  <2>3. OwnerCall(c)'
    BY <2>1 DEF OwnerCall, ResolveOnly, Granting
  <2> QED BY <1>1, <2>1, <2>2, <2>3, OthersOwner, NoDecisionWritten
<1>3. CASE ResolveStep(c)
  <2>1. /\ pc[c] \in {"read", "decide", "archive", "unlink"}
        /\ pc'[c] \in {"decide", "failed", "archive", "unlink", "done"}
        /\ ask' = ask /\ by' = by /\ decision' = decision
    BY <1>1, <1>3 DEF ResolveStep, ReadPendingDoc, WriteResolved, ArchivePending,
                      UnlinkArchived, TypeOK, callVars
  <2>2. DecisionsKept
    BY <1>1, <2>1, StepKeepsDecisions
  <2>3. ask[c] = None
    BY <1>1, <2>1 DEF OwnerCall, ResolveOnly
  <2>4. OwnerCall(c)'
    BY <2>1, <2>3 DEF OwnerCall, ResolveOnly, Granting
  <2>5. CASE WriteResolved(c)
    <3>1. /\ by[c] \in Approval
          /\ resolved' = [resolved EXCEPT ![by[c]] =
                            [status |-> decision[c], consumed |-> FALSE, at |-> now]]
      BY <1>1, <2>5 DEF WriteResolved, PlacedCall, Inside
    <3>2. decision[c] = "approved" => OwnerApproved(by[c])
      BY <2>1, <2>3 DEF OwnerApproved
    <3>3. ASSUME NEW a \in Approval, resolved'[a].status = "approved" PROVE OwnerApproved(a)
      BY <1>1, <3>1, <3>2, <3>3 DEF OwnerInv, TypeOK
    <3>4. ASSUME NEW a \in Approval, resolved'[a].status = "approved" PROVE OwnerApproved(a)'
      BY <2>2, <3>3, <3>4 DEF DecisionsKept
    <3> QED BY <1>1, <2>2, <2>4, <3>4, OthersOwner
  <2>6. CASE ~WriteResolved(c)
    <3>1. resolved' = resolved
      BY <1>3, <2>6 DEF ResolveStep, ReadPendingDoc, ArchivePending, UnlinkArchived, registryVars
    <3> QED BY <1>1, <2>2, <2>4, <3>1, OthersOwner, NoDecisionWritten
  <2> QED BY <2>5, <2>6
<1> QED BY <1>2, <1>3

LEMMA ConsumeOwner ==
  ASSUME TypeInv, FiledInv, OwnerInv, NEW c \in Call, RequestsKept, ConsumeStep(c)
  PROVE  OwnerInv'
<1> USE DEF Goto
<1>1. Others(c) /\ TypeOK /\ OwnerCall(c) /\ PlacedCall(c)
  BY OthersStay DEF TypeInv, OwnerInv, StartCall, Step
<1>2. /\ pc[c] \in {"burn", "consume", "stamp", "audit"}
      /\ pc'[c] \in {"consume", "stamp", "audit", "allowed", "done"}
      /\ ask' = ask /\ by' = by /\ decision' = decision /\ verdict' = verdict
      /\ request' = request
  BY <1>1 DEF ConsumeStep, StartConsume, ReadResolvedDoc, StampConsumed, AuditConsumed,
              AfterConsume, TypeOK, callVars, registryVars
<1>3. ask[c] \in Ask /\ by[c] \in Approval
  BY <1>1, <1>2 DEF PlacedCall, Serving, Inside
<1>4. DecisionsKept
  BY <1>1, <1>2, <1>3, StepKeepsDecisions
<1>5. pc'[c] = "stamp" => seen'[c] = resolved[by[c]]
  BY <1>1, <1>2 DEF ConsumeStep, StartConsume, ReadResolvedDoc, StampConsumed, AuditConsumed,
              AfterConsume, TypeOK, callVars
<1>6. OwnerCall(c)'
  <2>1. OwnerApproved(by[c]) => OwnerApproved(by[c])'
    BY <1>2, <1>3, <1>4 DEF DecisionsKept, OwnerApproved
  <2>2. pc'[c] = "stamp" /\ seen'[c].status = "approved" => OwnerApproved(by[c])
    BY <1>3, <1>5 DEF OwnerInv
  <2>3. /\ Covers(request[by[c]], ask[c]) => Covers(request[by[c]], ask[c])'
        /\ OneOff(by[c])' = OneOff(by[c])
    BY <1>2 DEF Covers, OneOff
  <2> QED BY <1>1, <1>2, <2>1, <2>2, <2>3 DEF OwnerCall, ResolveOnly, Granting
<1>7. ASSUME NEW a \in Approval, resolved'[a].status = "approved" PROVE OwnerApproved(a)'
  <2>1. CASE resolved' = resolved
    BY <1>4, <1>7, <2>1 DEF OwnerInv, DecisionsKept
  <2>2. CASE StampConsumed(c)
    <3>1. resolved'[a].status = IF a = by[c] THEN seen[c].status ELSE resolved[a].status
      BY <1>1, <1>3, <2>2 DEF StampConsumed, TypeOK, Resolved
    <3>2. pc[c] = "stamp"
      BY <2>2 DEF StampConsumed
    <3>3. OwnerApproved(a)
      BY <1>1, <1>7, <3>1, <3>2 DEF OwnerInv, OwnerCall
    <3> QED BY <1>4, <3>3 DEF DecisionsKept
  <2> QED BY <2>1, <2>2 DEF ConsumeStep, StartConsume, ReadResolvedDoc, AuditConsumed,
                            registryVars
<1> QED BY <1>1, <1>4, <1>6, <1>7, OthersOwner

LEMMA ServiceOwner ==
  ASSUME TypeInv, FiledInv, OwnerInv, NEW c \in Call, RequestsKept, ServiceStep(c)
  PROVE  OwnerInv'
<1> USE DEF Goto
<1>1. Others(c) /\ TypeOK /\ OwnerCall(c) /\ PlacedCall(c)
  BY OthersStay DEF TypeInv, OwnerInv, Step
<1>2. /\ pc[c] \in {"allowed", "blocked", "act"}
      /\ pc'[c] \in {"act", "permitted", "list", "refused", "done", "failed", "burn"}
      /\ ask' = ask /\ decision' = decision /\ verdict' = verdict
      /\ request' = request /\ resolved' = resolved /\ seen' = seen
  BY <1>1 DEF ServiceStep, ReviewCapabilityUse, CheckPublishGates, CheckProvisionGates,
              CheckDirect, Act, TypeOK, callVars, registryVars
<1>3. ask[c] \in Ask
  BY <1>1, <1>2 DEF PlacedCall, Serving
<1>4. DecisionsKept
  BY <1>1, <1>2, <1>3, StepKeepsDecisions
<1>5. ASSUME NEW k, NEW a \in Newest(Candidates(k, FALSE))
      PROVE  a \in Approval /\ OwnerApproved(a) /\ Covers(request[a], k)
  BY <1>5 DEF Newest, Candidates, Usable, OwnerInv
<1>6. ASSUME by' = by, pc'[c] \in Granting =>
                          /\ pc[c] \in {"allowed", "act"}
                          /\ pc'[c] = "act" => ask[c].service # "capability"
                          /\ pc'[c] = "permitted" /\ ask[c].service = "capability"
                               /\ ask[c].action \in Gated => by[c] # None
      PROVE  OwnerCall(c)'
  <2>0. by' = by /\ by[c] \in Approval \cup {None}
    BY <1>1, <1>6 DEF TypeOK
  <2>1. OwnerApproved(by[c]) => OwnerApproved(by[c])'
    BY <1>4, <2>0 DEF DecisionsKept, OwnerApproved
  <2>2. /\ Covers(request[by[c]], ask[c]) => Covers(request[by[c]], ask[c])'
        /\ OneOff(by[c])' = OneOff(by[c])
    BY <1>2, <1>6 DEF Covers, OneOff
  <2> QED BY <1>1, <1>2, <1>3, <1>6, <2>1, <2>2 DEF OwnerCall, ResolveOnly, Granting
<1>7. ASSUME NEW a \in Approval, by' = [by EXCEPT ![c] = a], OwnerApproved(a),
             pc[c] = "allowed", ask[c].action \in Enabled \/ by[c] # None,
             pc'[c] \in {"act", "permitted"},
             pc'[c] = "act" => ask[c].service # "capability",
             by[c] = None
      PROVE  OwnerCall(c)'
  <2>1. by'[c] = a /\ a # None
    BY <1>1, <1>7, RegistryAssumption DEF TypeOK, RegistryAssumption
  <2>2. OwnerApproved(by[c])'
    BY <1>4, <1>7, <2>1 DEF DecisionsKept, OwnerApproved
  <2> QED BY <1>1, <1>2, <1>3, <1>7, <2>1, <2>2 DEF OwnerCall, ResolveOnly, Granting
<1>8. CASE ReviewCapabilityUse(c)
  <2>1. /\ pc'[c] # "act" /\ pc'[c] # "burn"
        /\ pc'[c] = "permitted" => pc[c] = "allowed" /\ verdict[c] = "allow"
    BY <1>1, <1>2, <1>8 DEF ReviewCapabilityUse, OwnerCall, TypeOK
  <2>2. ASSUME by' = by PROVE OwnerCall(c)'
    <3>1. pc'[c] = "permitted" /\ ask[c].action \in Gated => by[c] # None
      <4>1. ASSUME NEW a \in Newest(Candidates(ask[c], FALSE)), by' = [by EXCEPT ![c] = a]
            PROVE  by[c] # None
        <5>1. a \in Approval /\ a # None
          BY <1>5, <4>1, RegistryAssumption DEF RegistryAssumption
        <5> QED BY <1>1, <2>2, <4>1, <5>1 DEF TypeOK
      <4> QED BY <1>1, <1>8, <2>1, <4>1 DEF ReviewCapabilityUse, ReviewRequired, TypeOK
    <3> QED BY <1>2, <1>6, <2>1, <2>2, <3>1 DEF Granting
  <2>3. ASSUME by' # by PROVE OwnerCall(c)'
    <3>1. PICK a \in Newest(Candidates(ask[c], FALSE)) : by' = [by EXCEPT ![c] = a]
      BY <1>8, <2>3 DEF ReviewCapabilityUse
    <3>2. pc'[c] = "permitted" /\ by[c] = None
      BY <1>1, <1>8, <2>3 DEF ReviewCapabilityUse, ReviewRequired, TypeOK
    <3>3. ask[c].action \in Enabled
      BY <1>1, <2>1, <3>2 DEF OwnerCall, Granting
    <3> QED BY <1>5, <1>7, <2>1, <3>1, <3>2, <3>3
  <2>4. OwnerCall(c)'
    BY <2>2, <2>3
  <2> QED BY <1>1, <1>2, <1>4, <2>4, OthersOwner, NoDecisionWritten
<1>9. CASE CheckPublishGates(c) \/ CheckDirect(c) \/ Act(c)
  <2>1. by' = by
    BY <1>9 DEF CheckPublishGates, CheckDirect, Act, callVars
  <2>2. /\ pc'[c] \in Granting => pc[c] \in {"allowed", "act"}
        /\ ask[c].service # "capability"
    BY <1>1, <1>9 DEF CheckPublishGates, CheckDirect, Act, Granting, TypeOK, OwnerCall
  <2>3. OwnerCall(c)'
    <3>1. pc'[c] \in Granting =>
             /\ pc[c] \in {"allowed", "act"}
             /\ pc'[c] = "act" => ask[c].service # "capability"
             /\ (pc'[c] = "permitted" /\ ask[c].service = "capability"
                   /\ ask[c].action \in Gated) => by[c] # None
      BY <2>2
    <3> QED BY <1>6, <2>1, <3>1
  <2> QED BY <1>1, <1>2, <1>4, <2>3, OthersOwner, NoDecisionWritten
<1>10. CASE CheckProvisionGates(c)
  <2>1. /\ pc'[c] \in {"act", "list"}
        /\ pc'[c] = "act" => pc[c] = "allowed"
        /\ ask[c].service # "capability"
    BY <1>1, <1>10 DEF CheckProvisionGates, TypeOK
  <2>2. ASSUME by' = by PROVE OwnerCall(c)'
    BY <1>6, <2>1, <2>2 DEF Granting
  <2>3. ASSUME by' # by PROVE OwnerCall(c)'
    <3>1. PICK a \in Newest(Candidates([ask[c] EXCEPT !.scope = NoScope], FALSE)) :
            by' = [by EXCEPT ![c] = a]
      BY <1>10, <2>3 DEF CheckProvisionGates
    <3>2. pc'[c] = "act" /\ by[c] = None
      BY <1>1, <1>10, <2>3 DEF CheckProvisionGates, TypeOK
    <3>3. ask[c].action \in Enabled
      BY <1>1, <2>1, <3>2 DEF OwnerCall, Granting
    <3>4. a \in Approval /\ OwnerApproved(a)
      BY <1>5, <3>1
    <3> QED BY <1>7, <2>1, <3>1, <3>2, <3>3, <3>4
  <2>4. OwnerCall(c)'
    BY <2>2, <2>3
  <2> QED BY <1>1, <1>2, <1>4, <2>4, OthersOwner, NoDecisionWritten
<1> QED BY <1>8, <1>9, <1>10 DEF ServiceStep

LEMMA RequestOwner ==
  ASSUME TypeInv, FiledInv, OwnerInv, NEW c \in Call, RequestsKept, RequestStep(c)
  PROVE  OwnerInv'
<1>1. Others(c) /\ TypeOK /\ PlacedCall(c)
  BY OthersStay DEF TypeInv, Step
<1>2. /\ pc[c] \in {"list", "find", "file"}
      /\ pc'[c] \in {"find", "file", "failed", "refused"}
      /\ resolved' = resolved
  BY <1>1 DEF RequestStep, ListPending, ReadPending, FindPending, FileRequest, Goto, TypeOK, registryVars
<1>3. ask[c] \in Ask
  BY <1>1, <1>2 DEF PlacedCall, Serving
<1>4. DecisionsKept
  BY <1>1, <1>2, <1>3, StepKeepsDecisions
<1>5. OwnerCall(c)'
  BY <1>2 DEF OwnerCall, ResolveOnly, Granting
<1> QED BY <1>1, <1>2, <1>4, <1>5, OthersOwner, NoDecisionWritten

(* A dead process forgets its calls; the decisions are in the files.       *)
LEMMA EnvironmentOwner ==
  ASSUME TypeInv, FiledInv, OwnerInv, RequestsKept,
         Tick \/ (\E p \in Process : Crash(p)) \/ UNCHANGED vars
  PROVE  OwnerInv'
<1>1. /\ resolved' = resolved /\ request' = request /\ ask' = ask /\ by' = by
      /\ decision' = decision /\ seen' = seen /\ verdict' = verdict
  BY DEF Tick, Crash, vars, registryVars, callVars
<1>2. \A c \in Call : pc'[c] = pc[c] \/ (pc[c] # "idle" /\ pc'[c] = "crashed")
  BY DEF Tick, Crash, vars, TypeInv, TypeOK
<1>3. \A a : OwnerApproved(a) => \E d \in Call :
         pc'[d] # "idle" /\ ask'[d] = None /\ by'[d] = a /\ decision'[d] = "approved"
  BY <1>1, <1>2 DEF OwnerApproved
<1>4. ASSUME NEW a \in Approval, resolved'[a].status = "approved" PROVE OwnerApproved(a)'
  BY <1>1, <1>3, <1>4 DEF OwnerInv, OwnerApproved
<1>5. ASSUME NEW c \in Call PROVE OwnerCall(c)'
  <2>1. OwnerCall(c)
    BY DEF OwnerInv
  <2>2. CASE pc'[c] = "crashed"
    BY <2>2 DEF OwnerCall, ResolveOnly, Granting
  <2>3. CASE pc'[c] = pc[c]
    <3>1. OwnerApproved(by[c]) => OwnerApproved(by[c])'
      BY <1>1, <1>3 DEF OwnerApproved
    <3>2. /\ Covers(request[by[c]], ask[c]) => Covers(request[by[c]], ask[c])'
          /\ OneOff(by[c])' = OneOff(by[c])
      BY <1>1 DEF Covers, OneOff
    <3> QED BY <1>1, <2>1, <2>3, <3>1, <3>2 DEF OwnerCall
  <2> QED BY <1>2, <2>2, <2>3
<1> QED BY <1>4, <1>5 DEF OwnerInv

-----------------------------------------------------------------------------
OwnerIInv == TypeInv /\ FiledInv /\ OwnerInv

LEMMA InitOwnerIInv == Init => OwnerIInv
<1> SUFFICES ASSUME Init PROVE OwnerIInv
  OBVIOUS
<1>1. TypeInv /\ FiledInv
  BY InitTypeInv, InitFiledInv
<1>2. OwnerInv
  BY DEF Init, OwnerInv, OwnerCall, ResolveOnly, Granting, Absent
<1> QED BY <1>1, <1>2 DEF OwnerIInv

LEMMA NextOwnerIInv == OwnerIInv /\ [Next]_vars => OwnerIInv'
<1> SUFFICES ASSUME TypeInv, FiledInv, OwnerInv, [Next]_vars PROVE OwnerIInv'
  BY DEF OwnerIInv
<1>1. TypeInv' /\ FiledInv' /\ RequestsKept
  BY NextTypeInv, NextFiledInv, StepKeepsRequests
<1>2. ASSUME NEW c \in Call, StartCall(c) PROVE OwnerInv'
  BY <1>1, <1>2, EvaluateOwner, ResolveOwner DEF StartCall
<1>3. ASSUME NEW c \in Call, Step(c) PROVE OwnerInv'
  BY <1>1, <1>3, ResolveOwner, ConsumeOwner, ServiceOwner, RequestOwner DEF Step
<1>4. CASE Tick \/ (\E p \in Process : Crash(p)) \/ UNCHANGED vars
  BY <1>1, <1>4, EnvironmentOwner DEF OwnerIInv
<1> QED BY <1>1, <1>2, <1>3, <1>4 DEF Next, OwnerIInv

LEMMA AlwaysOwnerIInv == Spec => []OwnerIInv
  BY InitOwnerIInv, NextOwnerIInv, PTL DEF Spec

(* No action the configuration does not enable goes ahead without an       *)
(* approval of the owner that covers its action, target and scope.         *)
THEOREM OwnerControl == Spec => []ActsUnderOwnerApproval
<1>1. OwnerIInv => ActsUnderOwnerApproval
  BY RegistryAssumption
  DEF OwnerIInv, OwnerInv, OwnerCall, Granting, ActsUnderOwnerApproval, TypeInv, TypeOK
<1> QED BY <1>1, AlwaysOwnerIInv, PTL

(* No capability use that a security or human review gates is permitted    *)
(* without an approval of the owner.                                       *)
THEOREM ReviewControl == Spec => []ReviewedByOwner
<1>1. OwnerIInv => ReviewedByOwner
  BY DEF OwnerIInv, OwnerInv, OwnerCall, Granting, ReviewedByOwner
<1> QED BY <1>1, AlwaysOwnerIInv, PTL

-----------------------------------------------------------------------------
(***************************************************************************)
(* What one process that neither crashes nor fails a rename gives besides: *)
(* an approval is decided once and burned once.  The lock is held across   *)
(* the whole of resolve() and of consume(), so what a call read when it    *)
(* came to the head of the chain is still so when it writes.               *)
(***************************************************************************)

SpentOrNot(a) ==
  /\ <<a, "open">> \in pendingDir =>
       \/ resolved[a].status = "absent"
       \/ \E c \in Call : pc[c] = "archive" /\ by[c] = a
  /\ resolved[a].status = "absent" => ~resolved[a].consumed
  /\ burns[a] <= 1
  /\ burns[a] > 0 => resolved[a].consumed

AtWork(c) ==
  /\ pc[c] = "decide" => resolved[by[c]].status = "absent"
  /\ pc[c] \in {"stamp", "audit"} => OneOff(by[c])
  /\ pc[c] = "stamp" => seen[c] = resolved[by[c]] /\ ~resolved[by[c]].consumed
  /\ pc[c] = "audit" => resolved[by[c]].consumed /\ burns[by[c]] = 0
  /\ pc[c] \in {"burn", "consume", "stamp", "audit", "allowed", "act"} /\ by[c] # None =>
       resolved[by[c]].status = "approved"

AllOnce == (\A a \in Approval : SpentOrNot(a)) /\ \A c \in Call : AtWork(c)

OnceInv == Undisturbed => AllOnce

(* A process that was disturbed stays so.                                  *)
LEMMA CalmBefore ==
  ASSUME TypeInv, [Next]_vars, Undisturbed'
  PROVE  Undisturbed
<1>1. ASSUME NEW c \in Call, StartCall(c) \/ Step(c)
      PROVE  faults \in Nat /\ faults' >= faults /\ pc'[c] # "idle" /\ Others(c)
  <2> USE DEF Goto, TypeInv, TypeOK
  <2>1. Others(c)
    BY <1>1, OthersStay
  <2>2. faults' \in {faults, faults + 1}
    BY <1>1 DEF StartCall, Evaluate, StartResolve, Step, ResolveStep, ReadPendingDoc,
                WriteResolved, ArchivePending, UnlinkArchived, ConsumeStep, StartConsume,
                ReadResolvedDoc, StampConsumed, AuditConsumed, ServiceStep,
                ReviewCapabilityUse, CheckPublishGates, CheckProvisionGates, CheckDirect,
                Act, RequestStep, ListPending, ReadPending, FindPending, FileRequest
  <2>3. faults \in Nat /\ faults' >= faults
    BY <2>2
  <2>4. CASE \E k \in Ask : Evaluate(c, k)
    <3>1. pc'[c] \in {"allowed", "burn", "blocked"}
      BY <2>4 DEF Evaluate
    <3> QED BY <2>1, <2>3, <3>1
  <2>5. CASE \E a \in Approval, d \in {"approved", "rejected"} : StartResolve(c, a, d)
    <3>1. pc'[c] = "read"
      BY <2>5 DEF StartResolve
    <3> QED BY <2>1, <2>3, <3>1
  <2>6. CASE ResolveStep(c)
    <3>1. pc'[c] \in {"decide", "failed", "archive", "unlink", "done"}
      BY <2>6 DEF ResolveStep, ReadPendingDoc, WriteResolved, ArchivePending, UnlinkArchived
    <3> QED BY <2>1, <2>3, <3>1
  <2>7. CASE ConsumeStep(c)
    <3>1. pc'[c] \in {"consume", "stamp", "audit", "done", "allowed"}
      BY <2>7 DEF ConsumeStep, StartConsume, ReadResolvedDoc, StampConsumed,
                  AuditConsumed, AfterConsume
    <3> QED BY <2>1, <2>3, <3>1
  <2>8. CASE ServiceStep(c)
    <3>1. pc'[c] \in {"permitted", "list", "refused", "done", "failed", "act", "burn"}
      BY <2>8 DEF ServiceStep, ReviewCapabilityUse, CheckPublishGates, CheckProvisionGates,
                  CheckDirect, Act
    <3> QED BY <2>1, <2>3, <3>1
  <2>9. CASE RequestStep(c)
    <3>1. pc'[c] \in {"find", "failed", "file", "refused"}
      BY <2>9 DEF RequestStep, ListPending, ReadPending, FindPending, FileRequest
    <3> QED BY <2>1, <2>3, <3>1
  <2> QED BY <1>1, <2>4, <2>5, <2>6, <2>7, <2>8, <2>9 DEF StartCall, Step
<1>2. CASE \E c \in Call : StartCall(c) \/ Step(c)
  <2>1. PICK c \in Call : faults \in Nat /\ faults' >= faults /\ pc'[c] # "idle" /\ Others(c)
    BY <1>1, <1>2
  <2>2. \A d \in Call : pc[d] # "idle" => pc'[d] # "idle"
    BY <2>1 DEF Others
  <2>3. faults' = 0 => faults = 0
    BY <2>1
  <2> QED BY <2>2, <2>3 DEF Undisturbed
<1>3. CASE Tick \/ UNCHANGED vars
  BY <1>3 DEF Tick, vars, Undisturbed
<1>4. ASSUME NEW p \in Process, Crash(p) PROVE FALSE
  BY <1>4 DEF Crash, Undisturbed, TypeInv, TypeOK
<1> QED BY <1>2, <1>3, <1>4 DEF Next

(* With one process, the head of a chain is the only call at its approval. *)
LEMMA OneHolder ==
  ASSUME TypeInv, Undisturbed, NEW c \in Call, NEW d \in Call,
         pc[c] \in Inside \/ (pc[c] \in {"read", "consume"} /\ Holds(c)),
         pc[d] \in Inside, by[c] = by[d]
  PROVE  c = d
<1>1. ProcOf[c] = ProcOf[d]
  BY DEF Undisturbed, Inside
<1>2. Holds(c) /\ Holds(d)
  BY DEF TypeInv, PlacedCall
<1> QED BY <1>1, <1>2 DEF Holds, Chain

(* What a step of c does to the registry, at most.                         *)
OnlyOwn(c) ==
  /\ \A a \in Approval :
       \/ resolved'[a] = resolved[a] /\ burns'[a] = burns[a]
       \/ a = by[c] /\ pc[c] \in Inside
  /\ \A a \in Approval :
       resolved[a].status = "approved" => resolved'[a].status = "approved"

LEMMA OthersAtWork ==
  ASSUME TypeInv, FiledInv, RequestsKept, Undisturbed, AllOnce, NEW c \in Call, Others(c),
         OnlyOwn(c), NEW d \in Call, d # c
  PROVE  AtWork(d)'
<1>1. AtWork(d) /\ by[d] \in Approval \cup {None} /\ PlacedCall(d)
  BY DEF AllOnce, TypeInv, TypeOK
<1>2. pc'[d] = pc[d] /\ by'[d] = by[d] /\ seen'[d] = seen[d]
  BY DEF Others
<1>3. CASE pc[d] \in Inside
  <2>1. by[d] \in Approval /\ by[d] # None
    BY <1>1, <1>3, RegistryAssumption DEF PlacedCall, RegistryAssumption
  <2>2. ~(by[d] = by[c] /\ pc[c] \in Inside)
    BY <1>3, OneHolder
  <2>3. resolved'[by[d]] = resolved[by[d]] /\ burns'[by[d]] = burns[by[d]]
    BY <2>1, <2>2 DEF OnlyOwn
  <2>4. request'[by[d]] = request[by[d]]
    BY <2>1 DEF FiledInv, RequestsKept
  <2> QED BY <1>1, <1>2, <2>3, <2>4 DEF AtWork, OneOff
<1>4. CASE pc[d] \notin Inside
  <2>1. /\ pc[d] \notin {"decide", "stamp", "audit"}
        /\ by[d] # None => by[d] \in Approval
    BY <1>1, <1>4 DEF Inside
  <2> QED BY <1>1, <1>2, <2>1 DEF AtWork, OnlyOwn
<1> QED BY <1>3, <1>4

LEMMA StepOnce ==
  ASSUME TypeInv, FiledInv, RequestsKept, Undisturbed, AllOnce, NEW c \in Call, Others(c),
         OnlyOwn(c), AtWork(c)', \A a \in Approval : SpentOrNot(a)'
  PROVE  AllOnce'
<1>1. \A d \in Call : AtWork(d)'
  BY OthersAtWork
<1> QED BY <1>1 DEF AllOnce

(* The steps that write no decision and burn nothing.                      *)
LEMMA PlainOnce ==
  ASSUME TypeInv, FiledInv, RequestsKept, Undisturbed, AllOnce, NEW c \in Call, Others(c),
         resolved' = resolved, burns' = burns,
         \A a \in Approval : <<a, "open">> \in pendingDir' => <<a, "open">> \in pendingDir,
         pc[c] = "archive" => <<by[c], "open">> \notin pendingDir',
         AtWork(c)'
  PROVE  AllOnce'
<1>1. ASSUME NEW a \in Approval PROVE SpentOrNot(a)'
  <2>1. SpentOrNot(a)
    BY DEF AllOnce
  <2>2. ASSUME NEW d \in Call, pc[d] = "archive", by[d] = a, <<a, "open">> \in pendingDir'
        PROVE  \E e \in Call : pc'[e] = "archive" /\ by'[e] = a
    <3>1. d # c
      BY <2>2
    <3>2. pc'[d] = "archive" /\ by'[d] = a
      BY <2>2, <3>1 DEF Others
    <3> QED BY <3>2
  <2>3. <<a, "open">> \in pendingDir' =>
          \/ resolved'[a].status = "absent"
          \/ \E e \in Call : pc'[e] = "archive" /\ by'[e] = a
    BY <2>1, <2>2 DEF SpentOrNot
  <2> QED BY <2>1, <2>3 DEF SpentOrNot
<1>2. OnlyOwn(c)
  BY DEF OnlyOwn
<1> QED BY <1>1, <1>2, StepOnce

LEMMA EvaluateOnce ==
  ASSUME TypeInv, FiledInv, OwnerInv, RequestsKept, Undisturbed, AllOnce, NEW c \in Call,
         NEW k \in Ask, Evaluate(c, k)
  PROVE  AllOnce'
<1>1. Others(c) /\ pc[c] = "idle" /\ by[c] = None
  BY OthersStay DEF TypeInv, StartCall, Evaluate, OwnerInv, OwnerCall
<1>2. resolved' = resolved /\ burns' = burns /\ pendingDir' = pendingDir
  BY DEF Evaluate, registryVars
<1>3. pc'[c] \in {"allowed", "burn", "blocked"}
  BY DEF Evaluate, Goto, TypeInv, TypeOK
<1>4. by' = by \/ \E a \in Newest(Candidates(k, k.action \in StandingOnly)) :
                    by' = [by EXCEPT ![c] = a]
  BY DEF Evaluate
<1>5. by'[c] # None => resolved[by'[c]].status = "approved"
  BY <1>1, <1>4 DEF Newest, Candidates, Usable, TypeInv, TypeOK
<1>6. AtWork(c)'
  BY <1>2, <1>3, <1>5 DEF AtWork
<1> QED BY <1>1, <1>2, <1>6, PlainOnce

LEMMA ResolveOnce ==
  ASSUME TypeInv, FiledInv, RequestsKept, Undisturbed, Undisturbed', AllOnce, NEW c \in Call,
         \/ \E a \in Approval, d \in {"approved", "rejected"} : StartResolve(c, a, d)
         \/ ResolveStep(c)
  PROVE  AllOnce'
<1> USE DEF Goto
<1>0. Others(c) /\ TypeOK /\ PlacedCall(c)
  BY OthersStay DEF TypeInv, StartCall, Step
<1>1. ASSUME NEW a \in Approval, NEW d \in {"approved", "rejected"}, StartResolve(c, a, d)
      PROVE  AllOnce'
  <2>1. /\ resolved' = resolved /\ burns' = burns /\ pendingDir' = pendingDir
        /\ pc[c] = "idle" /\ pc'[c] = "read"
    BY <1>0, <1>1 DEF StartResolve, registryVars, TypeOK
  <2>2. AtWork(c)'
    BY <2>1 DEF AtWork
  <2> QED BY <1>0, <2>1, <2>2, PlainOnce
<1>2. CASE ReadPendingDoc(c)
  <2>1. /\ resolved' = resolved /\ burns' = burns /\ pendingDir' = pendingDir /\ by' = by
        /\ pc[c] = "read" /\ Holds(c) /\ pc'[c] \in {"decide", "failed"}
        /\ pc'[c] = "decide" => <<by[c], "open">> \in pendingDir
    BY <1>0, <1>2 DEF ReadPendingDoc, registryVars, callVars, TypeOK
  <2>2. by[c] \in Approval
    BY <1>0, <2>1 DEF PlacedCall
  <2>3. ~\E d \in Call : pc[d] = "archive" /\ by[d] = by[c]
    BY <2>1, OneHolder DEF Inside
  <2>4. pc'[c] = "decide" => resolved[by[c]].status = "absent"
    BY <2>1, <2>2, <2>3 DEF AllOnce, SpentOrNot
  <2>5. AtWork(c)'
    BY <2>1, <2>4 DEF AtWork
  <2> QED BY <1>0, <2>1, <2>5, PlainOnce
<1>3. CASE WriteResolved(c)
  <2>1. /\ pc[c] = "decide" /\ pc'[c] = "archive" /\ by' = by /\ burns' = burns
        /\ pendingDir' = pendingDir
        /\ resolved' = [resolved EXCEPT ![by[c]] =
                          [status |-> decision[c], consumed |-> FALSE, at |-> now]]
    BY <1>0, <1>3 DEF WriteResolved, callVars, TypeOK
  <2>2. by[c] \in Approval /\ resolved[by[c]].status = "absent"
    BY <1>0, <2>1 DEF PlacedCall, Inside, AllOnce, AtWork
  <2>3. burns[by[c]] = 0
    <3>1. SpentOrNot(by[c]) /\ burns[by[c]] \in Nat
      BY <1>0, <2>2 DEF AllOnce, TypeOK
    <3>2. ~(burns[by[c]] > 0)
      BY <2>2, <3>1 DEF SpentOrNot
    <3> QED BY <3>1, <3>2
  <2>4. \A a \in Approval : a # by[c] => resolved'[a] = resolved[a]
    BY <1>0, <2>1, <2>2 DEF TypeOK
  <2>5. resolved'[by[c]] = [status |-> decision[c], consumed |-> FALSE, at |-> now]
    BY <1>0, <2>1, <2>2 DEF TypeOK
  <2>6. OnlyOwn(c)
    BY <2>1, <2>2, <2>4 DEF OnlyOwn, Inside
  <2>7. AtWork(c)'
    BY <2>1 DEF AtWork
  <2>8. ASSUME NEW a \in Approval PROVE SpentOrNot(a)'
    <3>1. CASE a = by[c]
      <4>1. pc'[c] = "archive" /\ by'[c] = a
        BY <2>1, <3>1
      <4>2. decision[c] # "absent"
        BY <1>0 DEF TypeOK
      <4> QED BY <2>1, <2>3, <2>5, <3>1, <4>1, <4>2 DEF SpentOrNot
    <3>2. CASE a # by[c]
      <4>1. SpentOrNot(a) /\ resolved'[a] = resolved[a]
        BY <2>4, <3>2 DEF AllOnce
      <4>2. \A d \in Call : pc[d] = "archive" => pc'[d] = "archive" /\ by'[d] = by[d]
        BY <1>0, <2>1 DEF Others
      <4>3. (\E d \in Call : pc[d] = "archive" /\ by[d] = a) =>
              \E d \in Call : pc'[d] = "archive" /\ by'[d] = a
        BY <4>2
      <4> QED BY <2>1, <4>1, <4>3 DEF SpentOrNot
    <3> QED BY <3>1, <3>2
  <2> QED BY <1>0, <2>6, <2>7, <2>8, StepOnce
<1>4. CASE ArchivePending(c) \/ UnlinkArchived(c)
  <2>1. faults = 0 /\ faults' = 0
    BY DEF Undisturbed
  <2>2. /\ resolved' = resolved /\ burns' = burns /\ pc'[c] \in {"unlink", "done"}
        /\ \A a \in Approval : <<a, "open">> \in pendingDir' => <<a, "open">> \in pendingDir
    BY <1>0, <1>4 DEF ArchivePending, UnlinkArchived, TypeOK
  <2>3. pc[c] = "archive" => <<by[c], "open">> \notin pendingDir'
    BY <1>4, <2>1 DEF ArchivePending, UnlinkArchived
  <2>4. AtWork(c)'
    BY <2>2 DEF AtWork
  <2> QED BY <1>0, <2>2, <2>3, <2>4, PlainOnce
<1> QED BY <1>1, <1>2, <1>3, <1>4 DEF ResolveStep

LEMMA ConsumeOnce ==
  ASSUME TypeInv, FiledInv, RequestsKept, Undisturbed, AllOnce, NEW c \in Call, ConsumeStep(c)
  PROVE  AllOnce'
<1> USE DEF Goto
<1>0. Others(c) /\ TypeOK /\ PlacedCall(c) /\ AtWork(c)
  BY OthersStay DEF TypeInv, Step, AllOnce
<1>1. pc[c] \in {"burn", "consume", "stamp", "audit"} /\ by' = by /\ request' = request
  BY DEF ConsumeStep, StartConsume, ReadResolvedDoc, StampConsumed, AuditConsumed,
         registryVars, callVars
<1>2. by[c] \in Approval /\ by[c] # None
  BY <1>0, <1>1, RegistryAssumption DEF PlacedCall, Inside, RegistryAssumption
<1>3. resolved[by[c]].status = "approved" /\ resolved[by[c]] \in Resolved
  BY <1>0, <1>1, <1>2 DEF AtWork, TypeOK
<1>4. OneOff(by[c])' = OneOff(by[c])
  BY <1>1 DEF OneOff
<1>5. CASE StartConsume(c) \/ ReadResolvedDoc(c, AfterConsume(c))
  <2>1. resolved' = resolved /\ burns' = burns /\ pendingDir' = pendingDir /\ pc[c] # "archive"
    BY <1>5 DEF StartConsume, ReadResolvedDoc, registryVars
  <2>2. CASE StartConsume(c)
    <3>1. pc'[c] = "consume"
      BY <1>0, <2>2 DEF StartConsume, TypeOK
    <3>2. AtWork(c)'
      BY <1>1, <1>3, <2>1, <3>1 DEF AtWork
    <3> QED BY <1>0, <2>1, <3>2, PlainOnce
  <2>3. CASE ReadResolvedDoc(c, AfterConsume(c))
    <3>1. \/ /\ pc'[c] = "stamp" /\ seen'[c] = resolved[by[c]]
             /\ OneOff(by[c]) /\ ~resolved[by[c]].consumed
          \/ pc'[c] \in {"done", "allowed"}
      BY <1>0, <2>3 DEF ReadResolvedDoc, AfterConsume, TypeOK
    <3>2. AtWork(c)'
      BY <1>1, <1>3, <1>4, <2>1, <3>1 DEF AtWork
    <3> QED BY <1>0, <2>1, <3>2, PlainOnce
  <2> QED BY <1>5, <2>2, <2>3
<1>6. CASE StampConsumed(c)
  <2>1. /\ pc[c] = "stamp" /\ pc'[c] = "audit" /\ burns' = burns /\ pendingDir' = pendingDir
        /\ resolved' = [resolved EXCEPT ![by[c]] = [seen[c] EXCEPT !.consumed = TRUE]]
    BY <1>0, <1>6 DEF StampConsumed, TypeOK
  <2>2. seen[c] = resolved[by[c]] /\ ~resolved[by[c]].consumed /\ OneOff(by[c])
    BY <1>0, <2>1 DEF AtWork
  <2>3. resolved'[by[c]].status = "approved" /\ resolved'[by[c]].consumed
    BY <1>0, <1>2, <1>3, <2>1, <2>2 DEF TypeOK, Resolved
  <2>4. \A a \in Approval : a # by[c] => resolved'[a] = resolved[a]
    BY <1>0, <2>1 DEF TypeOK
  <2>5. burns[by[c]] = 0
    <3>1. SpentOrNot(by[c]) /\ burns[by[c]] \in Nat
      BY <1>0, <1>2 DEF AllOnce, TypeOK
    <3>2. ~(burns[by[c]] > 0)
      BY <2>2, <3>1 DEF SpentOrNot
    <3> QED BY <3>1, <3>2
  <2>6. OnlyOwn(c)
    BY <2>1, <2>3, <2>4 DEF OnlyOwn, Inside
  <2>7. AtWork(c)'
    BY <1>1, <1>4, <2>1, <2>2, <2>3, <2>5 DEF AtWork
  <2>8. \A a : (\E d \in Call : pc[d] = "archive" /\ by[d] = a) =>
              \E d \in Call : pc'[d] = "archive" /\ by'[d] = a
    BY <1>0, <2>1 DEF Others
  <2>9. ASSUME NEW a \in Approval PROVE SpentOrNot(a)'
    <3>1. SpentOrNot(a)
      BY DEF AllOnce
    <3>2. CASE a = by[c]
      BY <1>3, <2>1, <2>3, <2>5, <2>8, <3>1, <3>2 DEF SpentOrNot
    <3>3. CASE a # by[c]
      <4>1. resolved'[a] = resolved[a]
        BY <2>4, <3>3
      <4> QED BY <2>1, <2>8, <3>1, <4>1 DEF SpentOrNot
    <3> QED BY <3>2, <3>3
  <2> QED BY <1>0, <2>6, <2>7, <2>9, StepOnce
<1>7. CASE AuditConsumed(c, AfterConsume(c))
  <2>1. /\ pc[c] = "audit" /\ pc'[c] \in {"done", "allowed"} /\ resolved' = resolved
        /\ pendingDir' = pendingDir /\ burns' = [burns EXCEPT ![by[c]] = burns[by[c]] + 1]
    BY <1>0, <1>7 DEF AuditConsumed, AfterConsume, TypeOK
  <2>2. resolved[by[c]].consumed /\ burns[by[c]] = 0
    BY <1>0, <2>1 DEF AtWork
  <2>3. burns'[by[c]] = 1 /\ \A a \in Approval : a # by[c] => burns'[a] = burns[a]
    BY <1>0, <1>2, <2>1, <2>2 DEF TypeOK
  <2>4. OnlyOwn(c)
    BY <2>1, <2>3 DEF OnlyOwn, Inside
  <2>5. AtWork(c)'
    BY <1>1, <1>3, <2>1 DEF AtWork
  <2>6. \A a : (\E d \in Call : pc[d] = "archive" /\ by[d] = a) =>
              \E d \in Call : pc'[d] = "archive" /\ by'[d] = a
    BY <1>0, <2>1 DEF Others
  <2>7. ASSUME NEW a \in Approval PROVE SpentOrNot(a)'
    <3>1. SpentOrNot(a)
      BY DEF AllOnce
    <3>2. CASE a = by[c]
      BY <1>3, <2>1, <2>2, <2>3, <2>6, <3>1, <3>2 DEF SpentOrNot
    <3>3. CASE a # by[c]
      <4>1. burns'[a] = burns[a]
        BY <2>3, <3>3
      <4> QED BY <2>1, <2>6, <3>1, <4>1 DEF SpentOrNot
    <3> QED BY <3>2, <3>3
  <2> QED BY <1>0, <2>4, <2>5, <2>7, StepOnce
<1> QED BY <1>5, <1>6, <1>7 DEF ConsumeStep

LEMMA ServiceOnce ==
  ASSUME TypeInv, FiledInv, RequestsKept, Undisturbed, AllOnce, NEW c \in Call, ServiceStep(c)
  PROVE  AllOnce'
<1> USE DEF Goto
<1>0. Others(c) /\ TypeOK /\ AtWork(c)
  BY OthersStay DEF TypeInv, Step, AllOnce
<1>1. /\ resolved' = resolved /\ burns' = burns /\ pendingDir' = pendingDir
      /\ pc[c] \in {"allowed", "blocked", "act"}
      /\ pc'[c] \in {"permitted", "list", "refused", "done", "failed", "act", "burn"}
      /\ pc'[c] \in {"act", "burn"} => pc[c] \in {"allowed", "act"}
  BY <1>0 DEF ServiceStep, ReviewCapabilityUse, CheckPublishGates, CheckProvisionGates,
              CheckDirect, Act, registryVars, TypeOK
<1>2. by' = by \/ \E k, a : a \in Newest(Candidates(k, FALSE)) /\ by' = [by EXCEPT ![c] = a]
  BY DEF ServiceStep, ReviewCapabilityUse, CheckPublishGates, CheckProvisionGates,
         CheckDirect, Act, callVars
<1>3. pc'[c] \in {"act", "burn"} /\ by'[c] # None => resolved[by'[c]].status = "approved"
  <2>1. CASE by' = by
    BY <1>0, <1>1, <2>1 DEF AtWork
  <2>2. ASSUME NEW k, NEW a \in Newest(Candidates(k, FALSE)), by' = [by EXCEPT ![c] = a]
        PROVE  resolved[by'[c]].status = "approved"
    BY <1>0, <2>2 DEF Newest, Candidates, Usable, TypeOK
  <2> QED BY <1>2, <2>1, <2>2
<1>4. AtWork(c)'
  BY <1>1, <1>3 DEF AtWork
<1> QED BY <1>0, <1>1, <1>4, PlainOnce

LEMMA RequestOnce ==
  ASSUME TypeInv, FiledInv, RequestsKept, Undisturbed, AllOnce, NEW c \in Call, RequestStep(c)
  PROVE  AllOnce'
<1> USE DEF Goto
<1>0. Others(c) /\ TypeOK
  BY OthersStay DEF TypeInv, Step
<1>1. /\ resolved' = resolved /\ burns' = burns /\ pc[c] \in {"list", "find", "file"}
      /\ pc'[c] \in {"find", "failed", "file", "refused"}
  BY <1>0 DEF RequestStep, ListPending, ReadPending, FindPending, FileRequest, registryVars, TypeOK
<1>2. AtWork(c)'
  BY <1>1 DEF AtWork
<1>3. CASE ListPending(c) \/ ReadPending(c, SameRequests(c)) \/ FindPending(c)
  <2>1. pendingDir' = pendingDir
    BY <1>3 DEF ListPending, ReadPending, FindPending, registryVars
  <2> QED BY <1>0, <1>1, <1>2, <2>1, PlainOnce
<1>4. CASE FileRequest(c, RequestFor(ask[c]))
  <2>1. PICK b \in Approval : request[b] = None /\ pendingDir' = pendingDir \cup {<<b, "open">>}
    BY <1>4 DEF FileRequest
  <2>2. resolved[b].status = "absent"
    BY <2>1 DEF FiledInv
  <2>3. \A a : (\E d \in Call : pc[d] = "archive" /\ by[d] = a) =>
              \E d \in Call : pc'[d] = "archive" /\ by'[d] = a
    BY <1>0, <1>1 DEF Others
  <2>4. ASSUME NEW a \in Approval PROVE SpentOrNot(a)'
    <3>1. SpentOrNot(a)
      BY DEF AllOnce
    <3> QED BY <1>1, <2>1, <2>2, <2>3, <3>1 DEF SpentOrNot
  <2>5. OnlyOwn(c)
    BY <1>1 DEF OnlyOwn
  <2> QED BY <1>0, <1>2, <2>4, <2>5, StepOnce
<1> QED BY <1>3, <1>4 DEF RequestStep

LEMMA NextOnce ==
  ASSUME OwnerIInv, OnceInv, [Next]_vars
  PROVE  OnceInv'
<1> SUFFICES ASSUME Undisturbed' PROVE AllOnce'
  BY DEF OnceInv
<1>0. TypeInv /\ FiledInv /\ OwnerInv /\ RequestsKept
  BY StepKeepsRequests DEF OwnerIInv
<1>1. Undisturbed /\ AllOnce
  BY <1>0, CalmBefore DEF OnceInv
<1>2. ASSUME NEW c \in Call, StartCall(c) PROVE AllOnce'
  BY <1>0, <1>1, <1>2, EvaluateOnce, ResolveOnce DEF StartCall
<1>3. ASSUME NEW c \in Call, Step(c) PROVE AllOnce'
  BY <1>0, <1>1, <1>3, ResolveOnce, ConsumeOnce, ServiceOnce, RequestOnce DEF Step
<1>4. CASE Tick \/ UNCHANGED vars
  <2>1. UNCHANGED <<pendingDir, resolved, burns, request, pc, by, seen>>
    BY <1>4 DEF Tick, vars, registryVars, callVars
  <2>2. \A a \in Approval : SpentOrNot(a)'
    BY <1>1, <2>1 DEF AllOnce, SpentOrNot
  <2>3. \A c \in Call : AtWork(c)'
    BY <1>1, <2>1 DEF AllOnce, AtWork, OneOff
  <2> QED BY <2>2, <2>3 DEF AllOnce
<1>5. ASSUME NEW p \in Process, Crash(p) PROVE FALSE
  BY <1>0, <1>5 DEF Crash, Undisturbed, TypeInv, TypeOK
<1> QED BY <1>2, <1>3, <1>4, <1>5 DEF Next

LEMMA InitOnce == Init => OnceInv
<1> SUFFICES ASSUME Init PROVE AllOnce
  BY DEF OnceInv
<1>1. ASSUME NEW a \in Approval PROVE SpentOrNot(a)
  <2>1. resolved[a] = Absent /\ burns[a] = 0
    BY DEF Init
  <2>2. Absent.status = "absent" /\ ~Absent.consumed
    BY DEF Absent
  <2> QED BY <2>1, <2>2 DEF SpentOrNot
<1>2. \A c \in Call : AtWork(c)
  BY DEF Init, AtWork
<1> QED BY <1>1, <1>2 DEF AllOnce

LEMMA AlwaysOnce == Spec => [](OwnerIInv /\ OnceInv)
  BY InitOwnerIInv, NextOwnerIInv, InitOnce, NextOnce, PTL DEF Spec

(* In a process that neither crashes nor fails a rename, an approval is    *)
(* burned at most once, however many calls it has granted.                 *)
THEOREM BurnsOnce == Spec => []BurnedOnce
<1>1. OnceInv => BurnedOnce
  BY DEF OnceInv, AllOnce, SpentOrNot, BurnedOnce
<1> QED BY <1>1, AlwaysOnce, PTL

-----------------------------------------------------------------------------
(***************************************************************************)
(* A blocked call is sent to the owner with a request that is on file: a   *)
(* copy that was archived still counts as pending, and is there only while *)
(* the resolve() that archived it has yet to remove it, or was cut short.  *)
(***************************************************************************)

ArchivedInv ==
  \A a \in Approval : <<a, "archived">> \in pendingDir => BeingRemoved(a) \/ LeftBehind(a)

(* The step of another call takes no removal away. *)
LEMMA RemovalStays ==
  ASSUME NEW c \in Call, Others(c), NEW a, BeingRemoved(a), pc[c] # "unlink" \/ by[c] # a
  PROVE  BeingRemoved(a)'
<1>1. PICK d \in Call : pc[d] = "unlink" /\ by[d] = a
  BY DEF BeingRemoved
<1>2. pc'[d] = "unlink" /\ by'[d] = a
  BY <1>1 DEF Others
<1> QED BY <1>2 DEF BeingRemoved

(* A call that is over takes no step, and no fault is forgotten.           *)
LEMMA OverStays ==
  ASSUME TypeOK, NEW c \in Call, StartCall(c) \/ Step(c)
  PROVE  pc[c] \notin {"done", "crashed"} /\ faults' \in {faults, faults + 1}
<1>1. CASE StartCall(c)
  BY <1>1 DEF StartCall, Evaluate, StartResolve
<1>2. CASE ResolveStep(c)
  BY <1>2 DEF ResolveStep, ReadPendingDoc, WriteResolved, ArchivePending, UnlinkArchived
<1>3. CASE ConsumeStep(c)
  BY <1>3 DEF ConsumeStep, StartConsume, ReadResolvedDoc, StampConsumed, AuditConsumed
<1>4. CASE ServiceStep(c)
  BY <1>4 DEF ServiceStep, ReviewCapabilityUse, CheckPublishGates, CheckProvisionGates,
              CheckDirect, Act
<1>5. CASE RequestStep(c)
  BY <1>5 DEF RequestStep, ListPending, ReadPending, FindPending, FileRequest
<1> QED BY <1>1, <1>2, <1>3, <1>4, <1>5 DEF Step

LEMMA LeftBehindStays ==
  ASSUME TypeOK, NEW c \in Call, StartCall(c) \/ Step(c), NEW a, LeftBehind(a)
  PROVE  LeftBehind(a)'
<1>1. PICK d \in Call : ask[d] = None /\ by[d] = a /\ pc[d] \in {"done", "crashed"}
  BY DEF LeftBehind
<1>2. d # c
  BY <1>1, OverStays
<1>3. Others(c)
  BY OthersStay
<1>4. faults' > 0
  <2>1. faults' \in {faults, faults + 1} /\ faults \in Nat /\ faults > 0
    BY OverStays DEF LeftBehind, TypeOK
  <2> QED BY <2>1
<1> QED BY <1>1, <1>2, <1>3, <1>4 DEF Others, LeftBehind

LEMMA NextArchived ==
  ASSUME OwnerIInv, ArchivedInv, [Next]_vars
  PROVE  ArchivedInv'
<1> SUFFICES ASSUME NEW a \in Approval, <<a, "archived">> \in pendingDir'
             PROVE  BeingRemoved(a)' \/ LeftBehind(a)'
  BY DEF ArchivedInv
<1>0. TypeOK /\ OwnerInv
  BY DEF OwnerIInv, TypeInv
<1>1. <<a, "archived">> \in pendingDir => BeingRemoved(a) \/ LeftBehind(a)
  BY DEF ArchivedInv
<1>2. ASSUME NEW c \in Call, StartCall(c) \/ Step(c)
      PROVE  BeingRemoved(a)' \/ LeftBehind(a)'
  <2>1. Others(c)
    BY <1>0, <1>2, OthersStay
  <2>2. CASE ArchivePending(c)
    <3>1. pc[c] = "archive" /\ pc'[c] = "unlink" /\ by' = by
      BY <1>0, <2>2 DEF ArchivePending, Goto, callVars, TypeOK
    <3>2. CASE a = by[c]
      BY <3>1, <3>2 DEF BeingRemoved
    <3>3. CASE a # by[c]
      <4>1. <<a, "archived">> \in pendingDir
        BY <2>2, <3>3 DEF ArchivePending
      <4> QED BY <1>0, <1>1, <1>2, <2>1, <3>1, <4>1, RemovalStays, LeftBehindStays
    <3> QED BY <3>2, <3>3
  <2>3. CASE UnlinkArchived(c)
    <3>1. <<a, "archived">> \in pendingDir
      BY <2>3 DEF UnlinkArchived
    <3>2. CASE a # by[c]
      BY <1>0, <1>1, <1>2, <2>1, <3>1, <3>2, RemovalStays, LeftBehindStays
    <3>3. CASE a = by[c]
      <4>1. faults' = faults + 1 /\ faults \in Nat
        BY <1>0, <2>3, <3>3 DEF UnlinkArchived, TypeOK
      <4>2. pc[c] = "unlink" /\ pc'[c] = "done" /\ by' = by /\ ask' = ask
        BY <1>0, <2>3 DEF UnlinkArchived, Goto, callVars, TypeOK
      <4>3. ask[c] = None
        BY <1>0, <4>2 DEF OwnerInv, OwnerCall, ResolveOnly
      <4> QED BY <3>3, <4>1, <4>2, <4>3 DEF LeftBehind
    <3> QED BY <3>2, <3>3
  <2>4. CASE ~ArchivePending(c) /\ ~UnlinkArchived(c)
    <3>1. /\ pc[c] # "unlink"
          /\ <<a, "archived">> \in pendingDir' => <<a, "archived">> \in pendingDir
      <4>1. CASE StartCall(c) \/ ReadPendingDoc(c) \/ WriteResolved(c)
        BY <4>1 DEF StartCall, Evaluate, StartResolve, ReadPendingDoc, WriteResolved,
                    registryVars
      <4>2. CASE ConsumeStep(c)
        BY <4>2 DEF ConsumeStep, StartConsume, ReadResolvedDoc, StampConsumed,
                    AuditConsumed, registryVars
      <4>3. CASE ServiceStep(c)
        BY <4>3 DEF ServiceStep, ReviewCapabilityUse, CheckPublishGates,
                    CheckProvisionGates, CheckDirect, Act, registryVars
      <4>4. CASE ListPending(c) \/ ReadPending(c, SameRequests(c)) \/ FindPending(c)
        BY <4>4 DEF ListPending, ReadPending, FindPending, registryVars
      <4>5. CASE pc[c] = "file" /\ FileRequest(c, RequestFor(ask[c]))
        BY <4>5 DEF FileRequest
      <4> QED BY <1>2, <2>4, <4>1, <4>2, <4>3, <4>4, <4>5
              DEF Step, ResolveStep, RequestStep
    <3> QED BY <1>0, <1>1, <1>2, <2>1, <3>1, RemovalStays, LeftBehindStays
  <2> QED BY <2>2, <2>3, <2>4
<1>3. CASE Tick \/ UNCHANGED vars
  <2>1. UNCHANGED <<pendingDir, pc, by, ask, faults>>
    BY <1>3 DEF Tick, vars, registryVars, callVars
  <2> QED BY <1>1, <2>1 DEF BeingRemoved, LeftBehind
<1>4. ASSUME NEW p \in Process, Crash(p) PROVE BeingRemoved(a)' \/ LeftBehind(a)'
  <2>1. /\ pendingDir' = pendingDir /\ by' = by /\ ask' = ask
        /\ faults' > 0
        /\ \A d \in Call : pc'[d] \in {pc[d], "crashed"}
        /\ \A d \in Call : pc[d] \in {"done", "crashed"} => pc'[d] = pc[d]
    BY <1>0, <1>4 DEF Crash, registryVars, callVars, TypeOK, Terminal
  <2>2. CASE LeftBehind(a)
    BY <2>1, <2>2 DEF LeftBehind
  <2>3. CASE BeingRemoved(a)
    <3>1. PICK d \in Call : pc[d] = "unlink" /\ by[d] = a
      BY <2>3 DEF BeingRemoved
    <3>2. ask[d] = None
      BY <1>0, <3>1 DEF OwnerInv, OwnerCall, ResolveOnly
    <3> QED BY <2>1, <3>1, <3>2 DEF BeingRemoved, LeftBehind
  <2> QED BY <1>1, <2>1, <2>2, <2>3
<1> QED BY <1>2, <1>3, <1>4 DEF Next

(* What a call takes from the list is in the directory when it is read.    *)
LEMMA FoundPending ==
  ASSUME TypeOK, ArchivedInv, Next, NEW c \in Call,
         pc[c] = "find", by[c] = None, by'[c] # None
  PROVE  <<by'[c], "open">> \in pendingDir \/ BeingRemoved(by'[c]) \/ LeftBehind(by'[c])
<1>1. ReadPending(c, SameRequests(c))
  <2>1. ASSUME NEW e \in Call, StartCall(e) \/ Step(e) PROVE e = c
    BY <2>1, OthersStay DEF Others
  <2>2. ~Tick /\ \A p \in Process : ~Crash(p)
    BY DEF Tick, Crash, callVars
  <2>3. StartCall(c) \/ Step(c)
    BY <2>1, <2>2 DEF Next
  <2> QED BY <2>3
          DEF StartCall, Evaluate, StartResolve, Step, ResolveStep, ReadPendingDoc,
              WriteResolved, ArchivePending, UnlinkArchived, ConsumeStep, StartConsume,
              ReadResolvedDoc, StampConsumed, AuditConsumed, ServiceStep,
              ReviewCapabilityUse, CheckPublishGates, CheckProvisionGates, CheckDirect,
              Act, RequestStep, ListPending, FindPending, FileRequest, callVars
<1>2. PICK f \in listed[c] : by'[c] = f[1] /\ f \in pendingDir
  BY <1>1 DEF ReadPending, TypeOK
<1>3. f = <<f[1], f[2]>> /\ f[1] \in Approval /\ f[2] \in {"open", "archived"}
  BY <1>2 DEF TypeOK, PendingFile
<1> QED BY <1>2, <1>3 DEF ArchivedInv

(* A blocked call that is told to wait for a request it found pending read *)
(* it while the owner could decide it or was deciding it, for any number   *)
(* of calls, processes and faults - unless a crash or a failed unlink cut  *)
(* short the decision of that very request.                                *)
THEOREM OwnerIsAsked == Spec => WaitsForTheOwner
<1>1. Init => ArchivedInv
  BY DEF Init, ArchivedInv
<1>2. Spec => [](OwnerIInv /\ ArchivedInv)
  BY <1>1, NextArchived, InitOwnerIInv, NextOwnerIInv, PTL DEF Spec
<1>3. OwnerIInv /\ ArchivedInv /\ [Next]_vars =>
        [\A c \in Call :
           pc[c] = "find" /\ by[c] = None /\ by'[c] # None
           => \/ <<by'[c], "open">> \in pendingDir
              \/ BeingRemoved(by'[c])
              \/ LeftBehind(by'[c])]_vars
  BY FoundPending DEF OwnerIInv, TypeInv
<1> QED BY <1>2, <1>3, PTL DEF Spec, WaitsForTheOwner

-----------------------------------------------------------------------------
(***************************************************************************)
(* The registry implements ApprovalLifecycle: writing a decision decides,  *)
(* stamping spends, filing files, and every other step changes no phase.   *)
(***************************************************************************)

Phases == <<phaseOf, standingOnes>>

LEMMA SamePhases ==
  ASSUME request' = request, resolved' = resolved
  PROVE  Phases' = Phases
BY DEF Phases, phaseOf, standingOnes, OneOff

LEMMA InitImplements == Init => Lifecycle!Init
<1> SUFFICES ASSUME Init PROVE Lifecycle!Init
  OBVIOUS
<1>1. \A a \in Approval : resolved[a].status = "absent"
  BY DEF Init, Absent
<1>2. \A a \in Approval : phaseOf[a] = IF request[a] = None THEN "unfiled" ELSE "pending"
  BY <1>1 DEF phaseOf
<1>3. phaseOf \in [Approval -> {"unfiled", "pending"}]
  BY <1>2 DEF phaseOf
<1>4. standingOnes \in SUBSET Approval /\ \A a \in standingOnes : phaseOf[a] = "pending"
  BY <1>2 DEF standingOnes
<1> QED BY <1>3, <1>4 DEF Lifecycle!Init

(* One entry of a function changes.                                        *)
LEMMA PhaseChanges ==
  ASSUME NEW b \in Approval, NEW p, phaseOf'[b] = p,
         \A a \in Approval : a # b => phaseOf'[a] = phaseOf[a]
  PROVE  phaseOf' = [phaseOf EXCEPT ![b] = p]
BY DEF phaseOf

LEMMA DecisionDecides ==
  ASSUME OwnerIInv, Undisturbed, AllOnce, NEW c \in Call, WriteResolved(c)
  PROVE  Lifecycle!Decide(by[c])
<1> DEFINE b == by[c]
           doc == [status |-> decision[c], consumed |-> FALSE, at |-> now]
<1>1. pc[c] = "decide" /\ resolved' = [resolved EXCEPT ![b] = doc] /\ request' = request
  BY DEF WriteResolved
<1>2. /\ b \in Approval /\ b # None /\ resolved[b].status = "absent"
      /\ decision[c] \in {"approved", "rejected"}
  BY <1>1, RegistryAssumption
  DEF OwnerIInv, TypeInv, TypeOK, PlacedCall, Inside, AllOnce, AtWork, RegistryAssumption
<1>3. request[b] # None
  BY <1>2 DEF OwnerIInv, FiledInv
<1>4. resolved'[b] = doc /\ \A a \in Approval : a # b => resolved'[a] = resolved[a]
  BY <1>1, <1>2 DEF OwnerIInv, TypeInv, TypeOK
<1>5. doc.status = decision[c] /\ ~doc.consumed
  OBVIOUS
<1> HIDE DEF doc, b
<1>6. phaseOf[b] = "pending"
  BY <1>2, <1>3 DEF phaseOf
<1>7. phaseOf'[b] = decision[c]
  BY <1>1, <1>2, <1>3, <1>4, <1>5 DEF phaseOf
<1>8. \A a \in Approval : a # b => phaseOf'[a] = phaseOf[a]
  BY <1>1, <1>4 DEF phaseOf
<1>9. phaseOf' = [phaseOf EXCEPT ![b] = decision[c]]
  BY <1>2, <1>7, <1>8, PhaseChanges
<1>10. standingOnes' = standingOnes
  BY <1>1 DEF standingOnes, OneOff
<1> QED BY <1>2, <1>6, <1>9, <1>10 DEF Lifecycle!Decide, b

LEMMA StampSpends ==
  ASSUME OwnerIInv, Undisturbed, AllOnce, NEW c \in Call, StampConsumed(c)
  PROVE  Lifecycle!Spend(by[c])
<1> DEFINE b == by[c]
           doc == [seen[c] EXCEPT !.consumed = TRUE]
<1>1. pc[c] = "stamp" /\ resolved' = [resolved EXCEPT ![b] = doc] /\ request' = request
  BY DEF StampConsumed
<1>2. b \in Approval /\ b # None
  BY <1>1, RegistryAssumption
  DEF OwnerIInv, TypeInv, PlacedCall, Inside, RegistryAssumption
<1>3. /\ resolved[b].status = "approved" /\ ~resolved[b].consumed /\ OneOff(b)
      /\ seen[c] = resolved[b] /\ resolved[b] \in Resolved
  BY <1>1, <1>2 DEF AllOnce, AtWork, OwnerIInv, TypeInv, TypeOK
<1>4. request[b] # None
  BY <1>2 DEF OwnerIInv, FiledInv
<1>5. resolved'[b] = doc /\ \A a \in Approval : a # b => resolved'[a] = resolved[a]
  BY <1>1, <1>2 DEF OwnerIInv, TypeInv, TypeOK
<1>6. doc.status = "approved" /\ doc.consumed
  BY <1>3 DEF Resolved
<1> HIDE DEF doc, b
<1>7. phaseOf[b] = "approved" /\ b \notin standingOnes
  BY <1>2, <1>3, <1>4 DEF phaseOf, standingOnes
<1>8. phaseOf'[b] = "spent"
  BY <1>1, <1>2, <1>4, <1>5, <1>6 DEF phaseOf
<1>9. \A a \in Approval : a # b => phaseOf'[a] = phaseOf[a]
  BY <1>1, <1>5 DEF phaseOf
<1>10. phaseOf' = [phaseOf EXCEPT ![b] = "spent"]
  BY <1>2, <1>8, <1>9, PhaseChanges
<1>11. standingOnes' = standingOnes
  BY <1>1 DEF standingOnes, OneOff
<1> QED BY <1>7, <1>10, <1>11 DEF Lifecycle!Spend, b

LEMMA RequestFiles ==
  ASSUME OwnerIInv, NEW c \in Call, pc[c] = "file", FileRequest(c, RequestFor(ask[c]))
  PROVE  \E a \in Approval : Lifecycle!File(a)
<1> DEFINE g == RequestFor(ask[c])
<1>1. PICK b \in Approval : request[b] = None /\ request' = [request EXCEPT ![b] = g]
  BY DEF FileRequest
<1>2. resolved' = resolved
  BY DEF FileRequest
<1>3. ask[c] \in Ask
  BY DEF OwnerIInv, TypeInv, PlacedCall, Serving
<1>4. g # None /\ g.oneOff
  BY <1>3, RegistryAssumption, PolicyAssumption
  DEF RegistryAssumption, PolicyAssumption, RequestFor
<1> HIDE DEF g
<1>5. request'[b] = g /\ \A a \in Approval : a # b => request'[a] = request[a]
  BY <1>1 DEF OwnerIInv, TypeInv, TypeOK
<1>6. resolved[b].status = "absent"
  BY <1>1 DEF OwnerIInv, FiledInv
<1>7. phaseOf[b] = "unfiled"
  BY <1>1 DEF phaseOf
<1>8. phaseOf'[b] = "pending"
  BY <1>2, <1>4, <1>5, <1>6 DEF phaseOf
<1>9. \A a \in Approval : a # b => phaseOf'[a] = phaseOf[a]
  BY <1>2, <1>5 DEF phaseOf
<1>10. phaseOf' = [phaseOf EXCEPT ![b] = "pending"]
  BY <1>8, <1>9, PhaseChanges
<1>11. standingOnes' = standingOnes
  BY <1>1, <1>4, <1>5 DEF standingOnes, OneOff
<1> QED BY <1>7, <1>10, <1>11 DEF Lifecycle!File

LEMMA NextImplements ==
  ASSUME OwnerIInv, OnceInv, [Next]_vars, Undisturbed'
  PROVE  [Lifecycle!Next]_Phases
<1>0. Undisturbed /\ AllOnce
  BY CalmBefore DEF OwnerIInv, OnceInv
<1> USE DEF registryVars
<1>1. ASSUME NEW c \in Call, StartCall(c) \/ ServiceStep(c)
      PROVE  [Lifecycle!Next]_Phases
  <2>1. request' = request /\ resolved' = resolved
    BY <1>1 DEF StartCall, Evaluate, StartResolve, ServiceStep, ReviewCapabilityUse,
                CheckPublishGates, CheckProvisionGates, CheckDirect, Act
  <2> QED BY <2>1, SamePhases
<1>2. ASSUME NEW c \in Call, ResolveStep(c)
      PROVE  [Lifecycle!Next]_Phases
  <2>1. CASE WriteResolved(c)
    <3>1. by[c] \in Approval
      BY <2>1 DEF OwnerIInv, TypeInv, PlacedCall, Inside, WriteResolved
    <3> QED BY <1>0, <2>1, <3>1, DecisionDecides DEF Lifecycle!Next
  <2>2. CASE ~WriteResolved(c)
    <3>1. request' = request /\ resolved' = resolved
      BY <1>2, <2>2 DEF ResolveStep, ReadPendingDoc, ArchivePending, UnlinkArchived
    <3> QED BY <3>1, SamePhases
  <2> QED BY <2>1, <2>2
<1>3. ASSUME NEW c \in Call, ConsumeStep(c)
      PROVE  [Lifecycle!Next]_Phases
  <2>1. CASE StampConsumed(c)
    <3>1. by[c] \in Approval
      BY <2>1 DEF OwnerIInv, TypeInv, PlacedCall, Inside, StampConsumed
    <3> QED BY <1>0, <2>1, <3>1, StampSpends DEF Lifecycle!Next
  <2>2. CASE ~StampConsumed(c)
    <3>1. request' = request /\ resolved' = resolved
      BY <1>3, <2>2 DEF ConsumeStep, StartConsume, ReadResolvedDoc, AuditConsumed
    <3> QED BY <3>1, SamePhases
  <2> QED BY <2>1, <2>2
<1>4. ASSUME NEW c \in Call, RequestStep(c)
      PROVE  [Lifecycle!Next]_Phases
  <2>1. CASE pc[c] = "file" /\ FileRequest(c, RequestFor(ask[c]))
    BY <2>1, RequestFiles DEF Lifecycle!Next
  <2>2. CASE ListPending(c) \/ ReadPending(c, SameRequests(c)) \/ FindPending(c)
    <3>1. request' = request /\ resolved' = resolved
      BY <2>2 DEF ListPending, ReadPending, FindPending
    <3> QED BY <3>1, SamePhases
  <2> QED BY <1>4, <2>1, <2>2 DEF RequestStep
<1>5. CASE Tick \/ (\E p \in Process : Crash(p)) \/ UNCHANGED vars
  <2>1. request' = request /\ resolved' = resolved
    BY <1>5 DEF Tick, Crash, vars
  <2> QED BY <2>1, SamePhases
<1> QED BY <1>1, <1>2, <1>3, <1>4, <1>5 DEF Next, Step

(* Through any interleaving of reads, renames, writes and stamps of any    *)
(* number of calls of one undisturbed process, an approval is filed once,  *)
(* decided once, spent at most once, and never granted or decided again.   *)
THEOREM LifecycleImplemented == Spec => ImplementsLifecycle
<1>1. Init => Lifecycle!Init
  BY InitImplements
<1>2. OwnerIInv /\ OnceInv /\ [Next]_vars =>
        [Undisturbed' => [Lifecycle!Next]_<<phaseOf, standingOnes>>]_vars
  BY NextImplements DEF Phases
<1>3. ImplementsLifecycle <=>
        Lifecycle!Init /\ [][Undisturbed' => [Lifecycle!Next]_<<phaseOf, standingOnes>>]_vars
  BY DEF ImplementsLifecycle
<1> QED BY <1>1, <1>2, <1>3, AlwaysOnce, PTL DEF Spec
=============================================================================
