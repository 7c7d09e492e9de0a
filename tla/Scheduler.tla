----------------------------- MODULE Scheduler -----------------------------
(***************************************************************************)
(* The scheduler inside each daemon process.  Every minute a tick goes     *)
(* through the jobs in order and runs those that are due.  What was last   *)
(* started and what succeeded is in daemon-scheduler.json, one file for    *)
(* all jobs, read and rewritten whole under a lock of the process: an      *)
(* update is one step.  (The ticks of two processes that overlap can undo  *)
(* each other's updates; nothing is claimed of a time when they do.)       *)
(*                                                                         *)
(* Daemon processes come up, close and die at any time here, several at    *)
(* once included: when that happens is the subject of Daemon.tla.          *)
(*                                                                         *)
(* A timestamp is modelled by its age.  The times a tick writes are all    *)
(* the time it fired at, so they are as old as the tick.                   *)
(***************************************************************************)
EXTENDS Integers

CONSTANTS
  Proc,      \* the daemon processes there are at a time
  NumJobs,   \* TICKS, in order
  Every,     \* everyMs of each job, in units of time
  MaxTick    \* bound on the units of time a tick takes

Job == 1 .. NumJobs

ASSUME SchedulerAssumption ==
  /\ NumJobs \in Nat \ {0}
  /\ Every \in [Job -> Nat \ {0}]
  /\ MaxTick \in Nat

VARIABLES
  life,       \* of each process
  started,    \* age of last_started_at, per job
  succeeded,  \* age of last_success_at
  last,       \* age of job.last, in the memory of each process
  pos,        \* the job a tick is at, or 0
  stage,      \* what the tick is doing with it
  since,      \* age of the tick
  began,      \* history: age of the last time a job really began
  crowded     \* history: the ticks of two processes overlapped

cursorVars == <<started, succeeded>>
tickVars == <<pos, stage, since, last>>
schedulerVars == <<cursorVars, tickVars, began, crowded>>
schedulerState == <<life, schedulerVars>>

(* Older than this makes no difference; so old, too, is what never was.    *)
Old(j) == Every[j] + MaxTick
Ages == {f \in [Job -> Nat] : \A j \in Job : f[j] <= Old(j)}
Never == [j \in Job |-> Old(j)]

Stages == {"idle", "check", "mark", "body", "succeed", "fail"}

SchedulerInit ==
  /\ life = [p \in Proc |-> "down"]
  /\ started = Never
  /\ succeeded = Never
  /\ last = [p \in Proc |-> Never]
  /\ pos = [p \in Proc |-> 0]
  /\ stage = [p \in Proc |-> "idle"]
  /\ since = [p \in Proc |-> 0]
  /\ began = Never
  /\ crowded = FALSE

-----------------------------------------------------------------------------
(* tick(): at most one at a time in a process.                             *)

InTick(p) == pos[p] # 0

TickFires(p) ==
  /\ life[p] = "up"
  /\ ~InTick(p)
  /\ pos' = [pos EXCEPT ![p] = 1]
  /\ stage' = [stage EXCEPT ![p] = "check"]
  /\ since' = [since EXCEPT ![p] = 0]
  /\ crowded' = (crowded \/ \E q \in Proc : InTick(q))
  /\ UNCHANGED <<life, cursorVars, last, began>>

(* The next job, or the end of the tick. *)
NextJob(p) ==
  IF pos[p] < NumJobs
  THEN /\ pos' = [pos EXCEPT ![p] = @ + 1]
       /\ stage' = [stage EXCEPT ![p] = "check"]
       /\ UNCHANGED since
  ELSE /\ pos' = [pos EXCEPT ![p] = 0]
       /\ stage' = [stage EXCEPT ![p] = "idle"]
       /\ since' = [since EXCEPT ![p] = 0]

Stage(p, from, to) ==
  /\ stage[p] = from
  /\ stage' = [stage EXCEPT ![p] = to]

(* Seeded fault: a job that was started and has not succeeded is due. *)
DueUntilSuccess(p, j) ==
  \A age \in {succeeded[j], last[p][j]} : age - since[p] >= Every[j]

(* No activity, in the file or in memory, within the job's interval.       *)
Due(p, j) ==
  \A age \in {started[j], succeeded[j], last[p][j]} : age - since[p] >= Every[j]

Check(p) ==
  /\ stage[p] = "check"
  /\ IF Due(p, pos[p])
     THEN stage' = [stage EXCEPT ![p] = "mark"] /\ UNCHANGED <<pos, since>>
     ELSE NextJob(p)
  /\ UNCHANGED <<life, cursorVars, last, began, crowded>>

(* markStarted(), and job.last in memory. *)
BeginJob(p) ==
  /\ Stage(p, "mark", "body")
  /\ LET j == pos[p]
     IN  /\ started' = [started EXCEPT ![j] = since[p]]
         /\ last' = [last EXCEPT ![p][j] = since[p]]
         /\ began' = [began EXCEPT ![j] = since[p]]
  /\ UNCHANGED <<life, succeeded, pos, since, crowded>>

(* The work of the job, which may throw, like the write of its success.    *)
(* When markStarted() or markFailed() throws, nothing catches it and the   *)
(* process ends: Exit.                                                     *)
EndJob(p) ==
  /\ stage[p] = "body"
  /\ \E end \in {"succeed", "fail"} : stage' = [stage EXCEPT ![p] = end]
  /\ UNCHANGED <<life, cursorVars, pos, since, last, began, crowded>>

MarkSucceeded(p) ==
  /\ stage[p] = "succeed"
  /\ succeeded' = [succeeded EXCEPT ![pos[p]] = since[p]]
  /\ NextJob(p)
  /\ UNCHANGED <<life, started, last, began, crowded>>

(* Seeded fault: a job that throws ends the tick, and the tick its flag. *)
MarkFailedAndStop(p) ==
  /\ Stage(p, "fail", "idle")
  /\ UNCHANGED <<life, cursorVars, pos, since, last, began, crowded>>

(* markFailed() counts the failure and keeps the times; the report of the  *)
(* failure is best effort; the next job follows.                           *)
MarkJobFailed(p) ==
  /\ stage[p] = "fail"
  /\ NextJob(p)
  /\ UNCHANGED <<life, cursorVars, last, began, crowded>>

TickStep(p) ==
  /\ life[p] # "down"
  /\ \/ Check(p) \/ BeginJob(p) \/ EndJob(p)
     \/ MarkSucceeded(p) \/ MarkJobFailed(p)

-----------------------------------------------------------------------------
(* Time passes; ticks take at most MaxTick.                                *)

Older(ages) == [j \in Job |-> IF ages[j] < Old(j) THEN ages[j] + 1 ELSE ages[j]]

Pass ==
  /\ \A p \in Proc : InTick(p) => since[p] < MaxTick
  /\ started' = Older(started)
  /\ succeeded' = Older(succeeded)
  /\ began' = Older(began)
  /\ last' = [p \in Proc |-> Older(last[p])]
  /\ since' = [p \in Proc |-> IF InTick(p) THEN since[p] + 1 ELSE 0]
  /\ UNCHANGED <<life, pos, stage, crowded>>

(* A process starts its scheduler.  shutdown() clears the interval and     *)
(* lets a tick go on until the process exits; a crash does not wait.       *)
StartScheduler(p) ==
  /\ life[p] = "down"
  /\ life' = [life EXCEPT ![p] = "up"]
  /\ UNCHANGED schedulerVars

Shutdown(p) ==
  /\ life[p] = "up"
  /\ life' = [life EXCEPT ![p] = "closing"]
  /\ UNCHANGED schedulerVars

(* What a process has in memory goes with it. *)
Exit(p) ==
  /\ life[p] # "down"
  /\ life' = [life EXCEPT ![p] = "down"]
  /\ pos' = [pos EXCEPT ![p] = 0]
  /\ stage' = [stage EXCEPT ![p] = "idle"]
  /\ since' = [since EXCEPT ![p] = 0]
  /\ last' = [last EXCEPT ![p] = Never]
  /\ UNCHANGED <<cursorVars, began, crowded>>

SchedulerNext ==
  \/ \E p \in Proc : \/ StartScheduler(p) \/ Shutdown(p) \/ Exit(p)
                      \/ TickFires(p) \/ TickStep(p)
  \/ Pass

SchedulerSpec == SchedulerInit /\ [][SchedulerNext]_schedulerState

(* Timers fire, jobs end (network calls and commands time out) and time    *)
(* passes; nothing has to start, shut down or die.                         *)
FairSchedulerSpec ==
  /\ SchedulerSpec
  /\ \A p \in Proc : WF_schedulerState(TickFires(p)) /\ WF_schedulerState(TickStep(p))
  /\ WF_schedulerState(Pass)

-----------------------------------------------------------------------------
(* Properties.                                                             *)

(* Types of the cursors, and of what each process has in memory.           *)
SchedulerTypeOK ==
  /\ life \in [Proc -> {"down", "up", "closing"}]
  /\ started \in Ages
  /\ succeeded \in Ages
  /\ began \in Ages
  /\ last \in [Proc -> Ages]
  /\ pos \in [Proc -> Job \cup {0}]
  /\ stage \in [Proc -> Stages]
  /\ since \in [Proc -> 0 .. MaxTick]
  /\ crowded \in BOOLEAN

(* "does not duplicate processed windows after restart": a job does not    *)
(* begin twice within its interval, whatever crashes, throws or is         *)
(* restarted, unless two daemons tick at the same time.                    *)
OncePerInterval ==
  [][\A p \in Proc :
       stage[p] = "mark" /\ stage'[p] = "body" /\ ~crowded
       => began[pos[p]] - since[p] >= Every[pos[p]]]_schedulerState

(* Always on: in a daemon that stays up, alone, every job begins again and *)
(* again, whichever jobs throw and whatever the cursors say.               *)
JobsKeepRunning ==
  \A p \in Proc, j \in Job :
    <>[](life[p] = "up" /\ \A q \in Proc \ {p} : life[q] = "down")
      => []<>(stage[p] = "body" /\ pos[p] = j)
=============================================================================
