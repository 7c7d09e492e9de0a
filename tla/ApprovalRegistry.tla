-------------------------- MODULE ApprovalRegistry --------------------------
(***************************************************************************)
(* The file-backed approval registry: approvals/pending/<id>.md holds a    *)
(* request, approvals/resolved/<id>.md the owner's decision.  Every access *)
(* is asynchronous, so the steps below interleave at each await; the only  *)
(* mutual exclusion is withFileLock, a promise chain per path that lives   *)
(* in the memory of ONE process.                                           *)
(*                                                                         *)
(* A Call is one asynchronous call chain (an API handler, a CLI command, a *)
(* daemon job).  This module holds the registry's state and the steps of   *)
(* its operations; PolicyGate makes the calls.                             *)
(***************************************************************************)
EXTENDS Integers, Sequences

CONSTANTS
  Approval,   \* approval ids
  Filed,      \* those that are pending when the behaviour starts
  Call,       \* call chains made during the behaviour
  Process,    \* operating-system processes that open the workspace
  ProcOf,     \* the process each call runs in
  Grant,      \* what an approval may be requested for
  Ask,        \* what a call may ask the policy engine
  AnyValue,   \* the "*" wildcard of a target or scope
  NoScope,    \* an evaluation made without a capability
  None,       \* absent value
  MaxTime,    \* bound on the clock
  MaxFaults   \* bound on crashes and failed renames or unlinks

(* A Grant is [action, target, scope, oneOff, expires], expires = 0 when   *)
(* the record has no expires_at; an Ask is [service, action, target,       *)
(* scope, filedScope, preview] (see PolicyGate).                           *)
ASSUME RegistryAssumption ==
  /\ Filed \subseteq Approval
  /\ ProcOf \in [Call -> Process]
  /\ \A g \in Grant : g.oneOff \in BOOLEAN /\ g.expires \in Nat
  /\ None \notin Grant
  /\ None \notin Ask
  /\ None \notin Approval
  /\ MaxTime \in Nat
  /\ MaxFaults \in Nat

VARIABLES
  request,     \* the front matter written by request(), None if not filed
  pendingDir,  \* the files of approvals/pending: <<id, "open" | "archived">>
  resolved,    \* the files of approvals/resolved
  burns,       \* approval.consumed events in the audit log, per approval
  now,         \* the clock the time stamps are read from
  queue,       \* fileLocks: the promise chain of each resolved path, per process
  faults,      \* crashes and I/O failures so far
  pc,          \* where each call is
  ask,         \* what the call asked the policy
  by,          \* the approval the call works on, was granted by, or was told
               \* to wait for
  decision,    \* the owner's decision a resolve call carries
  seen,        \* the record a consume call read under the lock
  listed,      \* the file names a listPending call got from readdir
  verdict      \* the outcome of the call's policy evaluation

registryVars == <<request, pendingDir, resolved, burns, now>>
callVars == <<ask, by, decision, seen, listed, verdict>>
vars == <<registryVars, queue, faults, pc, callVars>>

Resolved == [status: {"absent", "approved", "rejected"}, consumed: BOOLEAN, at: Nat]
Absent == [status |-> "absent", consumed |-> FALSE, at |-> 0]
PendingFile == Approval \X {"open", "archived"}

Terminal == {"done", "permitted", "refused", "failed", "crashed"}
Locked == {"read", "decide", "archive", "unlink", "consume", "stamp", "audit"}
PC == {"idle", "unlock", "allowed", "blocked", "burn", "act", "list", "find", "file"}
        \cup Terminal \cup Locked

OneOff(a) == request[a].oneOff

-----------------------------------------------------------------------------
(* withFileLock: a call queues behind the earlier calls of its own process *)
(* on the same path and runs when it is at the head.                       *)

Chain(c, a) == queue[ProcOf[c]][a]

Enqueue(c, a) == queue' = [queue EXCEPT ![ProcOf[c]][a] = Append(@, c)]

(* Seeded fault: a queued operation does not wait for the one before it. *)
HoldsAtOnce(c) == \E i \in DOMAIN Chain(c, by[c]) : Chain(c, by[c])[i] = c

Holds(c) == Chain(c, by[c]) # <<>> /\ Head(Chain(c, by[c])) = c

(* The next operation runs whether this one settled or threw. *)
Release(c) == queue' = [queue EXCEPT ![ProcOf[c]][by[c]] = Tail(@)]

Goto(c, label) == pc' = [pc EXCEPT ![c] = label]

-----------------------------------------------------------------------------
(* match(): the approvals that cover an ask and may still grant it.        *)

Covers(g, k) ==
  /\ g.action = k.action
  /\ g.target \in {k.target, AnyValue}
  /\ k.scope = NoScope \/ g.scope \in {k.scope, AnyValue}

Unexpired(g) == g.expires = 0 \/ g.expires > now

(* Seeded fault: any resolved approval matches, rejected ones too. *)
UsableWhateverDecided(a) ==
  /\ resolved[a].status # "absent"
  /\ Unexpired(request[a])
  /\ ~(OneOff(a) /\ resolved[a].consumed)

Usable(a) ==
  /\ resolved[a].status = "approved"
  /\ Unexpired(request[a])
  /\ ~(OneOff(a) /\ resolved[a].consumed)

Candidates(k, standingOnly) ==
  {a \in Approval :
     /\ resolved[a].status # "absent"
     /\ Usable(a)
     /\ Covers(request[a], k)
     /\ standingOnly => ~OneOff(a)}

(* Sorted by resolved_at, newest first; equal stamps come in any order. *)
Newest(S) == {a \in S : \A b \in S : resolved[b].at <= resolved[a].at}

-----------------------------------------------------------------------------
(* resolve(): the owner decides a pending approval.                        *)

(* The existence check is made before the lock is asked for.  Calls that   *)
(* pass it may queue in any order, so it is one step with the queueing.    *)
StartResolve(c, a, d) ==
  /\ pc[c] = "idle"
  /\ <<a, "open">> \in pendingDir
  /\ by' = [by EXCEPT ![c] = a]
  /\ decision' = [decision EXCEPT ![c] = d]
  /\ Enqueue(c, a)
  /\ Goto(c, "read")
  /\ UNCHANGED <<registryVars, faults, ask, seen, listed, verdict>>

(* Seeded fault: the document read before the lock is trusted. *)
ReadPendingDocStale(c) ==
  /\ pc[c] = "read"
  /\ Holds(c)
  /\ Goto(c, "decide")
  /\ UNCHANGED <<registryVars, queue, faults, callVars>>

(* Seeded fault: an operation that throws leaves the chain blocked. *)
ReadPendingDocNoDrain(c) ==
  /\ pc[c] = "read"
  /\ Holds(c)
  /\ Goto(c, IF <<by[c], "open">> \in pendingDir THEN "decide" ELSE "failed")
  /\ UNCHANGED <<registryVars, queue, faults, callVars>>

(* Under the lock the pending document is read; a resolve that ran before  *)
(* has removed it, and readDoc throws.                                     *)
ReadPendingDoc(c) ==
  /\ pc[c] = "read"
  /\ Holds(c)
  /\ IF <<by[c], "open">> \in pendingDir
     THEN Goto(c, "decide") /\ UNCHANGED queue
     ELSE Goto(c, "failed") /\ Release(c)
  /\ UNCHANGED <<registryVars, faults, callVars>>

(* The decision is written from the pending copy, so consumed_at is empty. *)
WriteResolved(c) ==
  /\ pc[c] = "decide"
  /\ resolved' = [resolved EXCEPT ![by[c]] =
                    [status |-> decision[c], consumed |-> FALSE, at |-> now]]
  /\ Goto(c, "archive")
  /\ UNCHANGED <<request, pendingDir, burns, now, queue, faults, callVars>>

(* rename(<id>.md, <id>.archived.md), whose failure is swallowed. *)
ArchivePending(c) ==
  /\ pc[c] = "archive"
  /\ \/ /\ pendingDir' = IF <<by[c], "open">> \in pendingDir
                         THEN (pendingDir \ {<<by[c], "open">>}) \cup {<<by[c], "archived">>}
                         ELSE pendingDir
        /\ UNCHANGED faults
     \/ /\ faults < MaxFaults
        /\ faults' = faults + 1
        /\ UNCHANGED pendingDir
  /\ Goto(c, "unlink")
  /\ UNCHANGED <<request, resolved, burns, now, queue, callVars>>

(* Seeded fault: the archived copy is left in the pending directory. *)
UnlinkArchivedNever(c) ==
  /\ pc[c] = "unlink"
  /\ Release(c)
  /\ Goto(c, "done")
  /\ UNCHANGED <<registryVars, faults, callVars>>

(* unlink(<id>.archived.md), whose failure is swallowed; the lock is left. *)
UnlinkArchived(c) ==
  /\ pc[c] = "unlink"
  /\ \/ /\ pendingDir' = pendingDir \ {<<by[c], "archived">>}
        /\ UNCHANGED faults
     \/ /\ faults < MaxFaults
        /\ faults' = faults + 1
        /\ UNCHANGED pendingDir
  /\ Release(c)
  /\ Goto(c, "done")
  /\ UNCHANGED <<request, resolved, burns, now, callVars>>

-----------------------------------------------------------------------------
(* consume(): a one-off approval is burned.  after is where the caller     *)
(* goes on when consume() has returned.                                    *)

StartConsume(c) ==
  /\ pc[c] = "burn"
  /\ Enqueue(c, by[c])
  /\ Goto(c, "consume")
  /\ UNCHANGED <<registryVars, faults, callVars>>

(* Seeded fault: a consumed record is stamped and audited again. *)
ReadResolvedDocRepeats(c, after) ==
  /\ pc[c] = "consume"
  /\ Holds(c)
  /\ IF OneOff(by[c])
     THEN /\ seen' = [seen EXCEPT ![c] = resolved[by[c]]]
          /\ Goto(c, "stamp")
          /\ UNCHANGED queue
     ELSE /\ Goto(c, after)
          /\ Release(c)
          /\ UNCHANGED seen
  /\ UNCHANGED <<registryVars, faults, ask, by, decision, listed, verdict>>

ReadResolvedDoc(c, after) ==
  /\ pc[c] = "consume"
  /\ Holds(c)
  /\ IF OneOff(by[c]) /\ ~resolved[by[c]].consumed
     THEN /\ seen' = [seen EXCEPT ![c] = resolved[by[c]]]
          /\ Goto(c, "stamp")
          /\ UNCHANGED queue
     ELSE /\ Goto(c, after)
          /\ Release(c)
          /\ UNCHANGED seen
  /\ UNCHANGED <<registryVars, faults, ask, by, decision, listed, verdict>>

(* The record that was read is written back with consumed_at stamped. *)
StampConsumed(c) ==
  /\ pc[c] = "stamp"
  /\ resolved' = [resolved EXCEPT ![by[c]] = [seen[c] EXCEPT !.consumed = TRUE]]
  /\ seen' = [seen EXCEPT ![c] = Absent]
  /\ Goto(c, "audit")
  /\ UNCHANGED <<request, pendingDir, burns, now, queue, faults, ask, by, decision,
                 listed, verdict>>

AuditConsumed(c, after) ==
  /\ pc[c] = "audit"
  /\ burns' = [burns EXCEPT ![by[c]] = @ + 1]
  /\ Release(c)
  /\ Goto(c, after)
  /\ UNCHANGED <<request, pendingDir, resolved, now, faults, callVars>>

-----------------------------------------------------------------------------
(* findOrRequestApproval(): reuse a pending request or file a new one.     *)

(* listPending() starts with the names in the directory ... *)
ListPending(c) ==
  /\ pc[c] = "list"
  /\ listed' = [listed EXCEPT ![c] = pendingDir]
  /\ by' = [by EXCEPT ![c] = None]
  /\ Goto(c, "find")
  /\ UNCHANGED <<registryVars, queue, faults, ask, decision, seen, verdict>>

(* ... and reads the files one await at a time.  A file that went away     *)
(* meanwhile makes it throw; an archived copy still carries its request    *)
(* and counts as pending.  What was read stays in the answer, even if the  *)
(* owner decides it before the last file is read.                          *)
ReadPending(c, same) ==
  /\ pc[c] = "find"
  /\ \E f \in listed[c] :
       \/ /\ f \in pendingDir
          /\ listed' = [listed EXCEPT ![c] = @ \ {f}]
          /\ by' = IF f[1] \in same /\ by[c] = None THEN [by EXCEPT ![c] = f[1]] ELSE by
          /\ UNCHANGED pc
       \/ /\ f \notin pendingDir
          /\ listed' = [listed EXCEPT ![c] = {}]
          /\ Goto(c, "failed")
          /\ UNCHANGED by
  /\ UNCHANGED <<registryVars, queue, faults, ask, decision, seen, verdict>>

(* The caller takes the first of the same request, or asks for one. *)
FindPending(c) ==
  /\ pc[c] = "find"
  /\ listed[c] = {}
  /\ Goto(c, IF by[c] = None THEN "file" ELSE "refused")
  /\ UNCHANGED <<registryVars, queue, faults, callVars>>

(* request(): a new id, status pending, one-off unless told otherwise. *)
FileRequest(c, g) ==
  /\ pc[c] = "file"
  /\ \E a \in Approval :
       /\ request[a] = None
       /\ request' = [request EXCEPT ![a] = g]
       /\ pendingDir' = pendingDir \cup {<<a, "open">>}
       /\ by' = [by EXCEPT ![c] = a]
  /\ Goto(c, "refused")
  /\ UNCHANGED <<resolved, burns, now, queue, faults, ask, decision, seen, listed, verdict>>

-----------------------------------------------------------------------------
(* The environment: time passes, and a process dies with its promise       *)
(* chains and every call it was running; a later call runs in its restart. *)

Tick ==
  /\ now < MaxTime
  /\ now' = now + 1
  /\ UNCHANGED <<request, pendingDir, resolved, burns, queue, faults, pc, callVars>>

Crash(p) ==
  /\ faults < MaxFaults
  /\ faults' = faults + 1
  /\ pc' = [c \in Call |-> IF ProcOf[c] = p /\ pc[c] \notin Terminal \cup {"idle"}
                           THEN "crashed" ELSE pc[c]]
  /\ queue' = [queue EXCEPT ![p] = [a \in Approval |-> <<>>]]
  /\ UNCHANGED <<registryVars, callVars>>
=============================================================================
