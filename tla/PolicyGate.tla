----------------------------- MODULE PolicyGate -----------------------------
(***************************************************************************)
(* The policy engine over the approval registry, and the five kinds of     *)
(* caller that use its decisions:                                          *)
(*   capability  CapabilityUseService.check                                *)
(*   publish     PR and issue publishing: evaluate, gates, GitHub call     *)
(*   provision   repository provisioning: preview, GitHub call, consume    *)
(*   direct      run start, run-branch creation, push: evaluate, then act  *)
(*   explain     policy explain: evaluate and show                         *)
(* Every call is a separate asynchronous chain; the registry steps it      *)
(* takes are those of ApprovalRegistry.                                    *)
(***************************************************************************)
EXTENDS ApprovalRegistry

CONSTANTS
  AlwaysHuman,   \* actions no configuration enables
  Governed,      \* actions with a flag under autonomy or growth_autonomy
  Enabled,       \* those whose flag is on
  StandingOnly,  \* growth actions while one-off approvals are switched off
  Gated          \* actions with an owner-configured security or human review

(* What a blocked caller asks the owner for: a one-off approval under the  *)
(* scope its service files requests with, which only the capability        *)
(* service takes from the scope it was evaluated under.                    *)
RequestFor(k) ==
  [action |-> k.action, target |-> k.target, scope |-> k.filedScope,
   oneOff |-> TRUE, expires |-> 0]

ASSUME PolicyAssumption ==
  /\ \A k \in Ask : RequestFor(k) \in Grant
  /\ \A k \in Ask : k.service = "capability" => k.filedScope = k.scope
  /\ \A k \in Ask : k.service \in {"provision", "explain"} => k.preview
  /\ AlwaysHuman \cap Governed = {}
  /\ Enabled \subseteq Governed
  /\ StandingOnly \subseteq Governed
  /\ Gated \subseteq AlwaysHuman \cup Governed

Init ==
  /\ request \in [Approval -> Grant \cup {None}]
  /\ \A a \in Approval : request[a] # None <=> a \in Filed
  /\ pendingDir = {<<a, "open">> : a \in Filed}
  /\ resolved = [a \in Approval |-> Absent]
  /\ burns = [a \in Approval |-> 0]
  /\ now = 0
  /\ queue = [p \in Process |-> [a \in Approval |-> <<>>]]
  /\ faults = 0
  /\ pc = [c \in Call |-> "idle"]
  /\ ask = [c \in Call |-> None]
  /\ by = [c \in Call |-> None]
  /\ decision = [c \in Call |-> "approved"]
  /\ seen = [c \in Call |-> Absent]
  /\ listed = [c \in Call |-> {}]
  /\ verdict = [c \in Call |-> "escalate"]

-----------------------------------------------------------------------------
(* evaluate(): the outcome, and the approval that decided it if one did.   *)

(* A disabled or always-human action is decided by the newest approval     *)
(* that matches; without one it is escalated or needs approval.            *)
DecidedByApproval(k) == k.action \in AlwaysHuman \cup (Governed \ Enabled)

Denial(k) == IF k.action \in Governed THEN "require_approval" ELSE "escalate"

Evaluate(c, k) ==
  /\ pc[c] = "idle"
  /\ ask' = [ask EXCEPT ![c] = k]
  /\ LET found == IF DecidedByApproval(k)
                  THEN Newest(Candidates(k, k.action \in StandingOnly))
                  ELSE {}
     IN  \/ \* enabled by configuration: no approval is looked for
            /\ k.action \in Enabled
            /\ verdict' = [verdict EXCEPT ![c] = "allow"]
            /\ Goto(c, "allowed")
            /\ UNCHANGED by
         \/ \* granted: consumeOnGrant() burns the approval, except in a preview
            /\ \E a \in found : by' = [by EXCEPT ![c] = a]
            /\ verdict' = [verdict EXCEPT ![c] = "allow"]
            /\ Goto(c, IF k.preview THEN "allowed" ELSE "burn")
         \/ /\ found = {}
            /\ k.action \notin Enabled
            /\ verdict' = [verdict EXCEPT ![c] = Denial(k)]
            /\ Goto(c, "blocked")
            /\ UNCHANGED by
  /\ UNCHANGED <<registryVars, queue, faults, decision, seen, listed>>

(* Where a call goes when consume() returns: a provisioning is finished,   *)
(* the others have only just been allowed.                                 *)
AfterConsume(c) == IF ask[c].service = "provision" THEN "done" ELSE "allowed"

-----------------------------------------------------------------------------
(* CapabilityUseService.check after its evaluation.                        *)

(* Seeded fault: the review flags are dead configuration, as before SER-181. *)
ReviewRequiredNever(c) == FALSE

(* gatesFor() adds a review gate to actions that no approval decided, and  *)
(* to always-human actions that are still waiting for one.                 *)
ReviewRequired(c) ==
  /\ ask[c].action \in Gated
  /\ by[c] = None
  /\ verdict[c] # "require_approval"

(* A second match(), this time of any approval, may satisfy the review     *)
(* gate.  The registry of capabilities may refuse the use (inRegistry) and *)
(* tests, linked issue or file-count evidence may be missing (evidence).   *)
ReviewCapabilityUse(c) ==
  /\ pc[c] \in {"allowed", "blocked"}
  /\ ask[c].service = "capability"
  /\ \E inRegistry, evidence \in BOOLEAN :
       LET granted == Candidates(ask[c], FALSE)
           missing == inRegistry /\ (~evidence \/ (ReviewRequired(c) /\ granted = {}))
       IN  \/ /\ inRegistry /\ verdict[c] = "allow" /\ ~missing
              /\ IF ReviewRequired(c)
                 THEN \E a \in Newest(granted) : by' = [by EXCEPT ![c] = a]
                 ELSE UNCHANGED by
              /\ Goto(c, "permitted")
           \/ /\ missing \/ verdict[c] = "require_approval"
              /\ Goto(c, "list")
              /\ UNCHANGED by
           \/ /\ ~missing
              /\ \/ verdict[c] = "escalate"
                 \/ verdict[c] = "allow" /\ ~inRegistry
              /\ Goto(c, "refused")
              /\ UNCHANGED by
  /\ UNCHANGED <<registryVars, queue, faults, ask, decision, seen, listed, verdict>>

-----------------------------------------------------------------------------
(* The GitHub publishers, the provisioner and the direct callers.          *)

(* A blocked publisher asks the owner; publish() also does when its own    *)
(* evidence gates fail, after the one-off approval has been burned.        *)
CheckPublishGates(c) ==
  /\ pc[c] \in {"allowed", "blocked"}
  /\ ask[c].service = "publish"
  /\ \/ pc[c] = "allowed" /\ Goto(c, "act")
     \/ Goto(c, "list")
  /\ UNCHANGED <<registryVars, queue, faults, callVars>>

(* A public repository needs an approval of its own even when the policy   *)
(* enables provisioning; this second match() gives no scope.               *)
CheckProvisionGates(c) ==
  /\ pc[c] \in {"allowed", "blocked"}
  /\ ask[c].service = "provision"
  /\ LET visible == Newest(Candidates([ask[c] EXCEPT !.scope = NoScope], FALSE))
     IN  \/ pc[c] = "allowed" /\ Goto(c, "act") /\ UNCHANGED by
         \/ /\ pc[c] = "allowed"
            /\ visible # {}
            /\ Goto(c, "act")
            /\ IF by[c] = None
               THEN \E a \in visible : by' = [by EXCEPT ![c] = a]
               ELSE UNCHANGED by
         \/ /\ pc[c] = "blocked" \/ visible = {}
            /\ Goto(c, "list")
            /\ UNCHANGED by
  /\ UNCHANGED <<registryVars, queue, faults, ask, decision, seen, listed, verdict>>

(* Run start, branch creation and push ask the owner for nothing. *)
CheckDirect(c) ==
  /\ pc[c] \in {"allowed", "blocked"}
  /\ ask[c].service \in {"direct", "explain"}
  /\ \/ /\ pc[c] = "allowed"
        /\ Goto(c, IF ask[c].service = "explain" THEN "done" ELSE "act")
     \/ pc[c] = "blocked" /\ Goto(c, "refused")
  /\ UNCHANGED <<registryVars, queue, faults, callVars>>

(* The authorized external call: it may fail, and the caller throws.  The  *)
(* provisioner consumes its approval only now.                             *)
Act(c) ==
  /\ pc[c] = "act"
  /\ \/ Goto(c, "failed")
     \/ Goto(c, IF ask[c].service # "provision" THEN "permitted"
                ELSE IF by[c] = None THEN "done" ELSE "burn")
  /\ UNCHANGED <<registryVars, queue, faults, callVars>>

(* A pending request is reused for the same action and target; only the    *)
(* capability service also compares the scope.                             *)
SameRequest(k, g) ==
  /\ g.action = k.action
  /\ g.target = k.target
  /\ k.service = "capability" => g.scope = k.filedScope

SameRequests(c) ==
  {a \in Approval : request[a] # None /\ SameRequest(ask[c], request[a])}

-----------------------------------------------------------------------------
StartCall(c) ==
  \/ \E k \in Ask : Evaluate(c, k)
  \/ \E a \in Approval, d \in {"approved", "rejected"} : StartResolve(c, a, d)

ResolveStep(c) ==
  ReadPendingDoc(c) \/ WriteResolved(c) \/ ArchivePending(c) \/ UnlinkArchived(c)

ConsumeStep(c) ==
  \/ StartConsume(c)
  \/ ReadResolvedDoc(c, AfterConsume(c))
  \/ StampConsumed(c)
  \/ AuditConsumed(c, AfterConsume(c))

ServiceStep(c) ==
  \/ ReviewCapabilityUse(c) \/ CheckPublishGates(c) \/ CheckProvisionGates(c)
  \/ CheckDirect(c) \/ Act(c)

RequestStep(c) ==
  \/ ListPending(c)
  \/ ReadPending(c, SameRequests(c))
  \/ FindPending(c)
  \/ pc[c] = "file" /\ FileRequest(c, RequestFor(ask[c]))

Step(c) == ResolveStep(c) \/ ConsumeStep(c) \/ ServiceStep(c) \/ RequestStep(c)

Next ==
  \/ \E c \in Call : StartCall(c) \/ Step(c)
  \/ Tick
  \/ \E p \in Process : Crash(p)

Spec == Init /\ [][Next]_vars

(* The event loop runs every continuation that is ready; nobody owes a     *)
(* call, the clock or a fault.                                             *)
FairSpec == Spec /\ \A c \in Call : WF_vars(Step(c))

-----------------------------------------------------------------------------
(* Properties.                                                             *)

TypeOK ==
  /\ request \in [Approval -> Grant \cup {None}]
  /\ pendingDir \in SUBSET PendingFile
  /\ resolved \in [Approval -> Resolved]
  /\ burns \in [Approval -> Nat]
  /\ now \in Nat
  /\ queue \in [Process -> [Approval -> Seq(Call)]]
  /\ faults \in Nat
  /\ pc \in [Call -> PC]
  /\ ask \in [Call -> Ask \cup {None}]
  /\ by \in [Call -> Approval \cup {None}]
  /\ decision \in [Call -> {"approved", "rejected"}]
  /\ seen \in [Call -> Resolved]
  /\ listed \in [Call -> SUBSET PendingFile]
  /\ verdict \in [Call -> {"allow", "require_approval", "escalate"}]

(* What the file lock is good for: every call so far ran in one process,   *)
(* nothing crashed and no rename or unlink failed.                         *)
Undisturbed ==
  /\ faults = 0
  /\ \A c, d \in Call : pc[c] # "idle" /\ pc[d] # "idle" => ProcOf[c] = ProcOf[d]

(* withFileLock: inside one process at most one resolve or consume of an   *)
(* approval is past the head of its promise chain, whatever settles or     *)
(* throws before it, and even after a crash emptied the chains.            *)
Inside == {"decide", "archive", "unlink", "stamp", "audit"}

LockExclusive ==
  \A c, d \in Call :
    /\ pc[c] \in Inside /\ pc[d] \in Inside
    /\ ProcOf[c] = ProcOf[d] /\ by[c] = by[d]
    => c = d

(* Some resolve call approved a. *)
OwnerApproved(a) ==
  \E d \in Call :
    pc[d] # "idle" /\ ask[d] = None /\ by[d] = a /\ decision[d] = "approved"

(* An action the configuration does not enable goes ahead only under an    *)
(* approval the owner approved for that action, target and scope - a       *)
(* standing one when one-off approvals are off - no matter how calls       *)
(* overlap, which files a crash left behind, or what a second resolve      *)
(* wrote.                                                                  *)
ActsUnderOwnerApproval ==
  \A c \in Call :
    pc[c] \in {"act", "permitted"} /\ ask[c].action \notin Enabled =>
      /\ by[c] # None
      /\ Covers(request[by[c]], ask[c])
      /\ ask[c].action \in StandingOnly => ~OneOff(by[c])
      /\ OwnerApproved(by[c])

(* The owner-configured reviews (SER-181): a capability use that needs a   *)
(* review is permitted only with an approval the owner approved, whether   *)
(* the action is enabled, or always human and decided by that approval.    *)
ReviewedByOwner ==
  \A c \in Call :
    /\ pc[c] = "permitted"
    /\ ask[c].service = "capability"
    /\ ask[c].action \in Gated
    => by[c] # None /\ OwnerApproved(by[c])

(* consume(): a one-off approval is burned at most once, with one audit    *)
(* event, however many acting calls matched it at the same time.           *)
BurnedOnce == Undisturbed => \A a \in Approval : burns[a] <= 1

(* The registry implements ApprovalLifecycle: filed once, decided once,    *)
(* spent at most once, and spent for good.                                 *)
phaseOf ==
  [a \in Approval |->
     IF request[a] = None THEN "unfiled"
     ELSE IF resolved[a].status = "absent" THEN "pending"
     ELSE IF resolved[a].consumed THEN "spent"
     ELSE resolved[a].status]

standingOnes == {a \in Approval : request[a] # None /\ ~OneOff(a)}

Lifecycle == INSTANCE ApprovalLifecycle WITH phase <- phaseOf, standing <- standingOnes

ImplementsLifecycle ==
  /\ Lifecycle!Init
  /\ [][Undisturbed' => [Lifecycle!Next]_<<phaseOf, standingOnes>>]_vars

(* When the owner has approved the request a blocked capability use was    *)
(* told to wait for, the next use is not blocked again while the approval  *)
(* is unspent and unexpired, unless the owner has switched one-off         *)
(* approvals off for the action.  service is the kind of caller.           *)
UnblockedByApproval(service) ==
  \A c, d \in Call :
    /\ pc[c] = "idle" /\ pc'[c] = "blocked"
    /\ ask'[c].service = service /\ ask'[c].action \notin StandingOnly
    /\ pc[d] = "refused" /\ ask[d] = ask'[c] /\ by[d] # None
    => ~Usable(by[d])

(* The resolve() of a that archived it has yet to unlink the copy.         *)
BeingRemoved(a) == \E d \in Call : pc[d] = "unlink" /\ by[d] = a

(* A resolve() of a was cut short: it died, or a failed unlink was         *)
(* swallowed, and the archived copy stays where listPending() finds it.    *)
LeftBehind(a) ==
  /\ faults > 0
  /\ \E d \in Call : ask[d] = None /\ by[d] = a /\ pc[d] \in {"done", "crashed"}

(* findOrRequestApproval(): the request a blocked call is told to wait for *)
(* is, at the moment the call reads it, one the owner can still decide or  *)
(* is deciding - unless a crash or a failed unlink cut short the decision  *)
(* of that very request.  The owner may decide it before the last file is  *)
(* read; the call is told to wait for it all the same.                     *)
WaitsForTheOwner ==
  [][\A c \in Call :
       pc[c] = "find" /\ by[c] = None /\ by'[c] # None
       => \/ <<by'[c], "open">> \in pendingDir
          \/ BeingRemoved(by'[c])
          \/ LeftBehind(by'[c])]_vars

(* withFileLock drains its chain even when an operation throws, so every   *)
(* call that started returns, throws or dies with its process.             *)
EveryCallReturns == \A c \in Call : pc[c] # "idle" ~> pc[c] \in Terminal

(* Documented, and not what the code does: a one-off approval authorizes   *)
(* one action.                                                             *)
OneOffAuthorizesOnce ==
  \A c, d \in Call :
    /\ pc[c] = "permitted" /\ ~ask[c].preview
    /\ pc[d] = "permitted" /\ ~ask[d].preview
    /\ by[c] = by[d] /\ by[c] # None
    /\ OneOff(by[c])
    => c = d

(* Documented, and not what the code does: an owner approval unblocks the  *)
(* publishing it was requested for.                                        *)
PublishUnblocked == [][UnblockedByApproval("publish")]_vars
=============================================================================
