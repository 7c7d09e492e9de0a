------------------------------- MODULE Daemon -------------------------------
(***************************************************************************)
(* The life of the daemon: daemon.lock and daemon-status.json, the daemon  *)
(* processes that take the lock and serve, and the owner's calls that      *)
(* start and stop them (command line, http api, desktop application).      *)
(*                                                                         *)
(* The lock is a file that names its holder.  It is taken by creating the  *)
(* file, but every decision to remove or overwrite it rests on what was    *)
(* read before.  `daemon start` takes it for the process it spawned, which *)
(* takes it for itself as well.                                            *)
(***************************************************************************)
EXTENDS Integers

CONSTANTS
  Caller,     \* the owner's interfaces that start and stop the daemon
  MaxPids,    \* bound on the daemon processes that are ever started
  MaxFaults   \* bound on the processes and calls that die and the signals denied

ASSUME DaemonAssumption ==
  /\ MaxPids \in Nat
  /\ MaxFaults \in Nat

Pid == 1 .. MaxPids
NoPid == 0

ASSUME CallersArePeople == Caller \cap (Pid \cup {NoPid}) = {}

VARIABLES
  lock,       \* daemon.lock: the pid it names, or NoPid when there is none
  status,     \* daemon-status.json
  at,         \* where each process, and each call of a caller, is
  seen,       \* the holder of the lock that acquireLock() read
  target,     \* the process a call spawned or signals
  faults,     \* deaths and signals denied so far
  hasty       \* history: the owner began something while something was going on

vars == <<lock, status, at, seen, target, faults, hasty>>

Actor == Pid \cup Caller

Kinds == {"none", "starting", "running", "stopped", "error"}
StatusFile == [kind: Kinds, pid: Pid \cup {NoPid}]

(* Pids are unique: a dead process's number is not used again. *)
Acquiring == {"acquire", "clear", "claim", "refused"}
Serving == {"serve", "up", "fail"}
Closing == {"close", "release", "unlink"}
ProcessAt == {"unborn", "dead"} \cup Acquiring \cup Serving \cup Closing
CallAt == {"idle", "start", "check", "spawn", "mark", "stop", "find",
           "release", "unlink", "settle", "deny", "forbid"} \cup Acquiring

Alive(p) == p \in Pid /\ at[p] \notin {"unborn", "dead"}

Init ==
  /\ lock = NoPid
  /\ status = [kind |-> "none", pid |-> NoPid]
  /\ at = [a \in Actor |-> IF a \in Pid THEN "unborn" ELSE "idle"]
  /\ seen = [a \in Actor |-> NoPid]
  /\ target = [c \in Caller |-> NoPid]
  /\ faults = 0
  /\ hasty = FALSE

Goto(a, label) == at' = [at EXCEPT ![a] = label]

-----------------------------------------------------------------------------
(* The status file, written by rename.                                     *)

Shown(kind, pid) == status' = [kind |-> kind, pid |-> pid]

(* markStopped(), markError(): the pid of the previous record stays.       *)
Settled(kind) == Shown(kind, status.pid)

(* status(): what the file says, unless the process it names is gone.      *)
ShownAlive == status.kind \in {"starting", "running"} /\ Alive(status.pid)

-----------------------------------------------------------------------------
(* acquireLock(pid) and releaseLock(pid).                                  *)

(* The process an actor takes the lock for. *)
Taker(a) == IF a \in Pid THEN a ELSE target[a]

(* Seeded fault: a lock is cleared whether or not its holder is alive. *)
AcquireStealing(a) ==
  /\ at[a] = "acquire"
  /\ seen' = [seen EXCEPT ![a] = lock]
  /\ Goto(a, IF lock \in {NoPid, Taker(a)} THEN "claim" ELSE "clear")
  /\ UNCHANGED <<lock, status, target, faults, hasty>>

AcquireRead(a) ==
  /\ at[a] = "acquire"
  /\ seen' = [seen EXCEPT ![a] = lock]
  /\ Goto(a, IF lock = NoPid \/ (lock = Taker(a) /\ Alive(lock)) THEN "claim"
             ELSE IF Alive(lock) THEN "refused" ELSE "clear")
  /\ UNCHANGED <<lock, status, target, faults, hasty>>

ClearStale(a) ==
  /\ at[a] = "clear"
  /\ lock' = NoPid
  /\ Goto(a, "claim")
  /\ UNCHANGED <<status, seen, target, faults, hasty>>

(* The file is created, or overwritten when it named the taker before.     *)
Claim(a) ==
  /\ at[a] = "claim"
  /\ \/ /\ lock = NoPid \/ seen[a] = Taker(a)
        /\ lock' = Taker(a)
        /\ Goto(a, IF a \in Pid THEN "serve" ELSE "mark")
     \/ /\ lock # NoPid /\ seen[a] # Taker(a)
        /\ Goto(a, "refused")
        /\ UNCHANGED lock
  /\ seen' = [seen EXCEPT ![a] = NoPid]
  /\ UNCHANGED <<status, target, faults, hasty>>

(* releaseLock() without a pid releases whatever lock there is.            *)
ReleaseRead(a, pid, next) ==
  /\ at[a] = "release"
  /\ Goto(a, IF lock # NoPid /\ pid \in {NoPid, lock} THEN "unlink" ELSE next)
  /\ UNCHANGED <<lock, status, seen, target, faults, hasty>>

ReleaseUnlink(a, next) ==
  /\ at[a] = "unlink"
  /\ lock' = NoPid
  /\ Goto(a, next)
  /\ UNCHANGED <<status, seen, target, faults, hasty>>

-----------------------------------------------------------------------------
(* A daemon process: runDaemonForeground.                                  *)

(* Owner's business under way: a call, or a process that is coming up.     *)
Busy == \/ \E c \in Caller : at[c] # "idle"
        \/ \E p \in Pid : at[p] \in (Acquiring \cup Closing \cup {"serve", "fail"})

Begin == hasty' = (hasty \/ Busy)

IsNewPid(p) == at[p] = "unborn" /\ \A q \in Pid : q < p => at[q] # "unborn"

RunForeground(p) ==
  /\ IsNewPid(p)
  /\ Goto(p, "acquire")
  /\ Begin
  /\ UNCHANGED <<lock, status, seen, target, faults>>

(* The lock is held: the refusal is written over the holder's status.      *)
Refused(p) ==
  /\ at[p] = "refused"
  /\ Settled("error")
  /\ Goto(p, "dead")
  /\ seen' = [seen EXCEPT ![p] = NoPid]
  /\ UNCHANGED <<lock, target, faults, hasty>>

(* The scheduler is started, the api server listens and the handlers of    *)
(* SIGTERM are installed; or the server cannot listen.                     *)
ServeUp(p) ==
  /\ at[p] = "serve"
  /\ Shown("running", p)
  /\ Goto(p, "up")
  /\ UNCHANGED <<lock, seen, target, faults, hasty>>

ServeFails(p) ==
  /\ at[p] = "serve"
  /\ Goto(p, "fail")
  /\ UNCHANGED <<lock, status, seen, target, faults, hasty>>

MarkFailed(p) ==
  /\ at[p] = "fail"
  /\ Settled("error")
  /\ Goto(p, "release")
  /\ UNCHANGED <<lock, seen, target, faults, hasty>>

(* shutdown(): the server has closed its connections. *)
MarkStopped(p) ==
  /\ at[p] = "close"
  /\ Settled("stopped")
  /\ Goto(p, "release")
  /\ UNCHANGED <<lock, seen, target, faults, hasty>>

ProcessStep(p) ==
  \/ AcquireRead(p) \/ ClearStale(p) \/ Claim(p) \/ Refused(p)
  \/ ServeUp(p) \/ ServeFails(p) \/ MarkFailed(p) \/ MarkStopped(p)
  \/ ReleaseRead(p, p, "dead") \/ ReleaseUnlink(p, "dead")

(* SIGTERM is handled once; before there is a handler, and when it comes a *)
(* second time, it kills.                                                  *)
AfterSignal(p) == IF at[p] = "up" THEN "close" ELSE "dead"

-----------------------------------------------------------------------------
(* A call: DaemonLifecycleSupervisor.start.                                *)

StartCall(c) ==
  /\ at[c] = "idle"
  /\ Goto(c, "start")
  /\ Begin
  /\ UNCHANGED <<lock, status, seen, target, faults>>

StartStatus(c) ==
  /\ at[c] = "start"
  /\ Goto(c, IF ShownAlive THEN "idle" ELSE "check")
  /\ UNCHANGED <<lock, status, seen, target, faults, hasty>>

StartCheck(c) ==
  /\ at[c] = "check"
  /\ Goto(c, IF lock # NoPid /\ Alive(lock) THEN "idle" ELSE "spawn")
  /\ UNCHANGED <<lock, status, seen, target, faults, hasty>>

Spawn(c, p) ==
  /\ at[c] = "spawn"
  /\ IsNewPid(p)
  /\ at' = [at EXCEPT ![c] = "acquire", ![p] = "acquire"]
  /\ target' = [target EXCEPT ![c] = p]
  /\ UNCHANGED <<lock, status, seen, faults, hasty>>

SpawnFails(c) ==
  /\ at[c] = "spawn"
  /\ Settled("error")
  /\ Goto(c, "idle")
  /\ UNCHANGED <<lock, seen, target, faults, hasty>>

(* The lock was lost to another process: the child is told to go.          *)
StartRefused(c) ==
  /\ at[c] = "refused"
  /\ LET p == target[c]
     IN  /\ at' = [at EXCEPT ![c] = "deny",
                             ![p] = IF Alive(p) THEN AfterSignal(p) ELSE @]
         /\ seen' = [seen EXCEPT ![c] = NoPid]
  /\ UNCHANGED <<lock, status, target, faults, hasty>>

MarkStarting(c) ==
  /\ at[c] = "mark"
  /\ Shown("starting", target[c])
  /\ Goto(c, "idle")
  /\ target' = [target EXCEPT ![c] = NoPid]
  /\ UNCHANGED <<lock, seen, faults, hasty>>

-----------------------------------------------------------------------------
(* A call: DaemonLifecycleSupervisor.stop.                                 *)

StopCall(c) ==
  /\ at[c] = "idle"
  /\ Goto(c, "stop")
  /\ Begin
  /\ UNCHANGED <<lock, status, seen, target, faults>>

(* Seeded fault: only the pid of the status file is told to go. *)
LiveByStatus(c) == target[c]

(* The pid the status shows alive ... *)
StopStatus(c) ==
  /\ at[c] = "stop"
  /\ target' = [target EXCEPT ![c] = IF ShownAlive THEN status.pid ELSE NoPid]
  /\ Goto(c, "find")
  /\ UNCHANGED <<lock, status, seen, faults, hasty>>

(* ... or else the holder of the lock, is told to go.                      *)
Live(c) ==
  IF target[c] # NoPid THEN target[c]
  ELSE IF lock # NoPid /\ Alive(lock) THEN lock ELSE NoPid

StopFound(c) ==
  /\ at[c] = "find"
  /\ Live(c) # NoPid
  /\ LET p == Live(c)
     IN  /\ at' = [at EXCEPT ![c] = "release",
                             ![p] = IF Alive(p) THEN AfterSignal(p) ELSE @]
                /\ target' = [target EXCEPT ![c] = p]
  /\ UNCHANGED <<lock, status, seen, faults, hasty>>

(* The signal is not permitted: the lock stays, and the error is written   *)
(* to the status file.  (That of a process that has just died is passed    *)
(* over, as in StopFound.)                                                 *)
StopDenied(c) ==
  /\ at[c] = "find"
  /\ Live(c) # NoPid
  /\ Alive(Live(c))
  /\ faults < MaxFaults
  /\ faults' = faults + 1
  /\ Goto(c, "forbid")
  /\ UNCHANGED <<lock, status, seen, target, hasty>>

(* Nothing alive: a stale lock is released by its holder, and with no lock *)
(* by the pid of the status file, which may name none.                     *)
StopNothing(c) ==
  /\ at[c] = "find"
  /\ Live(c) = NoPid
  /\ Goto(c, "release")
  /\ target' = [target EXCEPT ![c] = IF lock # NoPid THEN lock ELSE status.pid]
  /\ UNCHANGED <<lock, status, seen, faults, hasty>>

(* The last write of a call: markStopped() of stop(), markError() of a     *)
(* start() that was refused or a stop() that may not signal.               *)
EndCall(c, label, kind) ==
  /\ at[c] = label
  /\ Settled(kind)
  /\ Goto(c, "idle")
  /\ target' = [target EXCEPT ![c] = NoPid]
  /\ UNCHANGED <<lock, seen, faults, hasty>>

CallStep(c) ==
  \/ AcquireRead(c) \/ ClearStale(c) \/ Claim(c)
  \/ StartStatus(c) \/ StartCheck(c) \/ (\E p \in Pid : Spawn(c, p)) \/ SpawnFails(c)
  \/ StartRefused(c) \/ MarkStarting(c) \/ EndCall(c, "deny", "error")
  \/ EndCall(c, "forbid", "error")
  \/ StopStatus(c) \/ StopFound(c) \/ StopDenied(c) \/ StopNothing(c)
  \/ ReleaseRead(c, target[c], "settle") \/ ReleaseUnlink(c, "settle")
  \/ EndCall(c, "settle", "stopped")

OwnerStep ==
  \/ \E p \in Pid : RunForeground(p)
  \/ \E c \in Caller : StartCall(c) \/ StopCall(c)

(* A process is killed, or a call is given up half way. *)
Dies(a) ==
  /\ faults < MaxFaults
  /\ faults' = faults + 1
  /\ \/ /\ Alive(a)
        /\ Goto(a, "dead")
        /\ UNCHANGED <<target, hasty>>
     \/ /\ a \in Caller /\ at[a] # "idle"
        /\ Goto(a, "idle")
        /\ target' = [target EXCEPT ![a] = NoPid]
        /\ hasty' = TRUE
  /\ seen' = [seen EXCEPT ![a] = NoPid]
  /\ UNCHANGED <<lock, status>>

-----------------------------------------------------------------------------
(* Properties.                                                             *)

(* Types of the two files, the processes and the calls.                    *)
TypeOK ==
  /\ lock \in Pid \cup {NoPid}
  /\ status \in StatusFile
  /\ at \in [Actor -> ProcessAt \cup CallAt]
  /\ seen \in [Actor -> Pid \cup {NoPid}]
  /\ target \in [Caller -> Pid \cup {NoPid}]
  /\ faults \in Nat
  /\ hasty \in BOOLEAN

(* Serves and was not told to go. *)
Active(p) == at[p] \in {"serve", "up"}

NoCall == \A c \in Caller : at[c] = "idle"

(* "prevents duplicate active locks and cleans up stale locks": at most    *)
(* one daemon schedules, as long as the owner waits for one thing to be    *)
(* over before the next; whatever daemon crashes, however often a second   *)
(* `daemon run` is tried, and whatever locks crashes leave behind.         *)
OneDaemon == ~hasty => \A p, q \in Pid : Active(p) /\ Active(q) => p = q

(* The daemon that serves is named by the lock: a refused or failing       *)
(* process and a stop of another one never take the lock from it.          *)
HoldsTheLock == ~hasty /\ NoCall => \A p \in Pid : Active(p) => lock = p

(* stop() leaves no daemon that schedules, even when the status was        *)
(* overwritten by a process that was refused or was left by a crash        *)
(* ("signalling the status pid unconditionally ... leave the live daemon   *)
(* running", supervisor.ts, SER-227).                                      *)
StopReachesDaemon ==
  [][\A c \in Caller :
       ~hasty /\ at[c] = "find" /\ at'[c] = "release"
       => \A p \in Pid : ~Active(p)']_vars

Next ==
  \/ OwnerStep
  \/ \E p \in Pid : ProcessStep(p)
  \/ \E c \in Caller : CallStep(c)
  \/ \E a \in Actor : Dies(a)

Spec == Init /\ [][Next]_vars
=============================================================================
