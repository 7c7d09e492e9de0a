---------------------------- MODULE DaemonProofs ----------------------------
(***************************************************************************)
(* TypeOK, OneDaemon, HoldsTheLock and StopReachesDaemon for any number of *)
(* callers, of daemon processes and of deaths; and, of the scheduler in    *)
(* each daemon process, SchedulerTypeOK and OncePerInterval for any number *)
(* of processes and jobs, any intervals and any length of a tick.          *)
(*                                                                         *)
(* The daemons: an owner who waits for one thing to be over has at most    *)
(* one call and one process coming up or going down at a time (OneCall,    *)
(* OnePassing), and the process is the one the call is about (Attended).   *)
(* Every other live process is up and named by the lock (Named), which     *)
(* the call reads before it begins anything and the process before it      *)
(* takes the lock: neither gets past it while another one serves (Gone,    *)
(* Only, Taken).  Only while a call takes the lock for its child may the   *)
(* lock be free with a daemon serving - the child itself.                  *)
(***************************************************************************)
EXTENDS Daemon, Scheduler, TLAPS

(* Neither at rest nor up: it comes, or goes. *)
Passing(p) == at[p] \in Acquiring \cup Closing \cup {"serve", "fail"}
(* A call takes the lock for the process it spawned. *)
Opening == {"acquire", "clear", "claim", "refused"}

(* TypeOK, and what is where: a pid is at a place of processes, a call at  *)
(* one of calls, and a call that takes the lock has a process.             *)
TypeInv ==
  /\ TypeOK
  /\ \A p \in Pid : at[p] \in ProcessAt
  /\ \A c \in Caller : at[c] \in CallAt
  /\ \A c \in Caller : at[c] \in Opening \cup {"mark"} => target[c] \in Pid

USE DEF Goto

LEMMA NoPidIsNone == NoPid \notin Pid /\ Caller \cap Pid = {}
BY CallersArePeople DEF CallersArePeople, NoPid, Pid

LEMMA TypeInit == Init => TypeInv
<1> SUFFICES ASSUME Init PROVE TypeInv
  OBVIOUS
<1>1. /\ \A p \in Pid : at[p] = "unborn"
      /\ \A c \in Caller : at[c] = "idle"
  BY NoPidIsNone DEF Init, Actor
<1>2. TypeOK
  BY DEF Init, TypeOK, StatusFile, Kinds, Actor, ProcessAt, CallAt
<1> QED
  BY <1>1, <1>2 DEF TypeInv, ProcessAt, CallAt, Opening

LEMMA TypeStep == TypeInv /\ [Next]_vars => TypeInv'
<1> SUFFICES ASSUME TypeInv, [Next]_vars PROVE TypeInv'
  OBVIOUS
<1> USE NoPidIsNone
    DEF TypeInv, TypeOK, StatusFile, Kinds, Actor, ProcessAt, CallAt, Opening, Acquiring,
        Serving, Closing
<1>1. CASE UNCHANGED vars
  BY <1>1 DEF vars
<1>2. ASSUME NEW p \in Pid, ProcessStep(p) PROVE TypeInv'
  <2>1. CASE AcquireRead(p)
    BY <2>1 DEF AcquireRead, Taker, Alive
  <2>2. CASE ClearStale(p)
    BY <2>2 DEF ClearStale
  <2>3. CASE Claim(p)
    BY <2>3 DEF Claim, Taker
  <2>4. CASE Refused(p)
    BY <2>4 DEF Refused, Settled, Shown
  <2>5. CASE ServeUp(p)
    BY <2>5 DEF ServeUp, Shown
  <2>6. CASE ServeFails(p)
    BY <2>6 DEF ServeFails
  <2>7. CASE MarkFailed(p)
    BY <2>7 DEF MarkFailed, Settled, Shown
  <2>8. CASE MarkStopped(p)
    BY <2>8 DEF MarkStopped, Settled, Shown
  <2>9. CASE ReleaseRead(p, p, "dead")
    BY <2>9 DEF ReleaseRead
  <2>10. CASE ReleaseUnlink(p, "dead")
    BY <2>10 DEF ReleaseUnlink
  <2> QED
    BY <1>2, <2>1, <2>2, <2>3, <2>4, <2>5, <2>6, <2>7, <2>8, <2>9, <2>10 DEF ProcessStep
<1>3. ASSUME NEW c \in Caller, CallStep(c) PROVE TypeInv'
  <2>1. CASE AcquireRead(c)
    BY <2>1 DEF AcquireRead, Taker, Alive
  <2>2. CASE ClearStale(c)
    BY <2>2 DEF ClearStale
  <2>3. CASE Claim(c)
    BY <2>3 DEF Claim, Taker
  <2>4. CASE StartStatus(c)
    BY <2>4 DEF StartStatus
  <2>5. CASE StartCheck(c)
    BY <2>5 DEF StartCheck
  <2>6. ASSUME NEW p \in Pid, Spawn(c, p) PROVE TypeInv'
    BY <2>6 DEF Spawn
  <2>7. CASE SpawnFails(c)
    BY <2>7 DEF SpawnFails, Settled, Shown
  <2>8. CASE StartRefused(c)
    BY <2>8 DEF StartRefused, AfterSignal
  <2>9. CASE MarkStarting(c)
    BY <2>9 DEF MarkStarting, Shown
  <2>10. ASSUME NEW label \in {"deny", "forbid", "settle"}, NEW kind \in Kinds,
                EndCall(c, label, kind)
         PROVE  TypeInv'
    BY <2>10 DEF EndCall, Settled, Shown
  <2>11. CASE StopStatus(c)
    BY <2>11 DEF StopStatus
  <2>12. CASE StopFound(c)
    <3>1. Live(c) \in Pid
      BY <2>12 DEF StopFound, Live
    <3> QED
      BY <2>12, <3>1 DEF StopFound, AfterSignal
  <2>13. CASE StopNothing(c)
    BY <2>13 DEF StopNothing
  <2>14. CASE ReleaseRead(c, target[c], "settle")
    BY <2>14 DEF ReleaseRead
  <2>15. CASE ReleaseUnlink(c, "settle")
    BY <2>15 DEF ReleaseUnlink
  <2>16. CASE StopDenied(c)
    BY <2>16 DEF StopDenied
  <2> QED
    BY <1>3, <2>1, <2>2, <2>3, <2>4, <2>5, <2>6, <2>7, <2>8, <2>9, <2>10, <2>11, <2>12,
       <2>13, <2>14, <2>15, <2>16 DEF CallStep
<1>4. ASSUME NEW p \in Pid, RunForeground(p) PROVE TypeInv'
  BY <1>4 DEF RunForeground, Begin, Busy
<1>5. ASSUME NEW c \in Caller, StartCall(c) \/ StopCall(c) PROVE TypeInv'
  BY ZenonT(60), <1>5 DEF StartCall, StopCall, Begin, Busy
<1>6. ASSUME NEW a \in Actor, Dies(a) PROVE TypeInv'
  <2>1. CASE Alive(a) /\ Goto(a, "dead") /\ UNCHANGED <<target, hasty>>
    BY <1>6, <2>1 DEF Dies, Alive
  <2>2. CASE /\ a \in Caller
             /\ Goto(a, "idle") /\ target' = [target EXCEPT ![a] = NoPid] /\ hasty' = TRUE
    BY <1>6, <2>2 DEF Dies
  <2> QED
    BY <1>6, <2>1, <2>2 DEF Dies
<1> QED
  BY <1>1, <1>2, <1>3, <1>4, <1>5, <1>6 DEF Next, OwnerStep

-----------------------------------------------------------------------------
(* One thing at a time. *)
OneCall == \A c, d \in Caller : at[c] # "idle" /\ at[d] # "idle" => c = d

OnePassing == \A p, q \in Pid : Passing(p) /\ Passing(q) => p = q

(* While a call is under way, only its own process comes or goes, and none *)
(* before it has spawned or signalled one.                                 *)
Attended ==
  \A c \in Caller, p \in Pid :
    at[c] # "idle" /\ Passing(p) =>
      target[c] = p /\ at[c] \notin {"start", "check", "spawn", "stop", "find", "forbid"}

(* What serves is named by the lock, unless a call is taking it. *)
Named ==
  \A p \in Pid : Active(p) /\ (\A c \in Caller : at[c] \notin Opening) => lock = p

(* A call spawns only when nothing serves, and leaves nothing that serves  *)
(* when it told a process to go.                                           *)
Gone ==
  \A c \in Caller, p \in Pid :
    at[c] \in {"spawn", "deny", "release", "unlink", "settle"} =>
      ~Active(p) /\ (Passing(p) => at[p] \in Closing)

(* Nothing serves but the process of the call. *)
Only ==
  \A c \in Caller, p \in Pid :
    /\ Active(p)
    /\ at[c] \in Opening \cup {"mark"} \/ (at[c] = "find" /\ target[c] # NoPid)
    => p = target[c]

(* Past the check of the lock, a process is the only one that may serve. *)
Taken ==
  \A p, q \in Pid :
    Active(p) /\ (Active(q) \/ at[q] \in {"clear", "claim", "fail"} \cup Closing) => p = q

Serial == OneCall /\ OnePassing /\ Attended /\ Named /\ Gone /\ Only /\ Taken

SerialInv == ~hasty => Serial

LEMMA SerialInit == Init => SerialInv
<1> SUFFICES ASSUME Init PROVE Serial
  BY DEF SerialInv
<1>1. /\ \A p \in Pid : at[p] = "unborn"
      /\ \A c \in Caller : at[c] = "idle"
  BY NoPidIsNone DEF Init, Actor
<1> QED
  BY <1>1 DEF Serial, OneCall, OnePassing, Attended, Named, Gone, Only, Taken, Passing, Active,
     Opening, Acquiring, Closing

(* Haste is not forgotten. *)
LEMMA HasteStays == TypeInv /\ [Next]_vars /\ ~hasty' => ~hasty
<1> SUFFICES ASSUME hasty, TypeInv, [Next]_vars PROVE hasty'
  BY DEF TypeInv, TypeOK
<1>1. CASE UNCHANGED vars
  BY <1>1 DEF vars
<1>2. ASSUME NEW p \in Pid, ProcessStep(p) PROVE hasty'
  BY <1>2 DEF ProcessStep, AcquireRead, ClearStale, Claim, Refused, ServeUp, ServeFails,
     MarkFailed, MarkStopped, ReleaseRead, ReleaseUnlink
<1>3. ASSUME NEW c \in Caller, CallStep(c) PROVE hasty'
  BY <1>3 DEF CallStep, AcquireRead, ClearStale, Claim, StartStatus, StartCheck, Spawn, SpawnFails,
     StartRefused, MarkStarting, EndCall, StopStatus, StopFound, StopDenied, StopNothing,
     ReleaseRead,
     ReleaseUnlink
<1>4. CASE OwnerStep
  BY <1>4 DEF OwnerStep, RunForeground, StartCall, StopCall, Begin
<1>5. ASSUME NEW a \in Actor, Dies(a) PROVE hasty'
  BY <1>5 DEF Dies
<1> QED
  BY <1>1, <1>2, <1>3, <1>4, <1>5 DEF Next

(* One step per action: of a process, of a call, of the owner, a death. *)
LEMMA SerialStep == TypeInv /\ SerialInv /\ [Next]_vars => SerialInv'
<1> SUFFICES ASSUME TypeInv, SerialInv, [Next]_vars, ~hasty' PROVE Serial'
  BY DEF SerialInv
<1> USE NoPidIsNone
    DEF Serial, OneCall, OnePassing, Attended, Named, Gone, Only, Taken, Passing, Active,
        Opening, Acquiring, Closing, Serving, TypeInv, TypeOK, Actor, ProcessAt, CallAt
<1>0. Serial
  BY HasteStays DEF SerialInv
<1>1. CASE UNCHANGED vars
  BY <1>0, <1>1 DEF vars
<1>2. ASSUME NEW p \in Pid, ProcessStep(p) PROVE Serial'
  <2>1. CASE AcquireRead(p)
    BY <1>0, <1>2, <2>1 DEF AcquireRead, Taker, Alive
  <2>2. CASE ClearStale(p)
    BY <1>0, <1>2, <2>2 DEF ClearStale
  <2>3. CASE Claim(p)
    <3>1. at[p] = "claim" /\ \A q \in Pid : ~Active(q)
      BY <1>0, <2>3 DEF Claim
    <3>2. CASE lock' = p /\ at' = [at EXCEPT ![p] = "serve"]
      <4>1. \A q \in Pid : q # p => at'[q] = at[q] /\ ~Passing(q) /\ ~Active(q)
        BY <1>0, <3>1, <3>2
      <4>2. \A c \in Caller :
              /\ at'[c] = at[c] /\ target'[c] = target[c]
              /\ at[c] # "idle" => target[c] = p
        BY <1>0, <2>3, <3>1, <3>2 DEF Claim
      <4>3. at'[p] = "serve"
        BY <3>2
      <4>4. \A q \in Pid : q # p => ~Passing(q)' /\ ~Active(q)'
        BY <4>1
      <4>5. \A c \in Caller :
              at'[c] \notin {"start", "check", "spawn", "stop", "find", "forbid", "deny",
                             "release", "unlink", "settle"}
        BY <1>0, <3>1, <4>2
      <4> QED
        BY <1>0, <3>1, <3>2, <4>2, <4>3, <4>4, <4>5
    <3>3. CASE lock' = lock /\ at' = [at EXCEPT ![p] = "refused"]
      BY <1>0, <2>3, <3>1, <3>3 DEF Claim
    <3> QED
      BY <2>3, <3>2, <3>3 DEF Claim, Taker
  <2>4. CASE Refused(p)
    BY <1>0, <1>2, <2>4 DEF Refused, Settled, Shown
  <2>5. CASE ServeUp(p)
    BY <1>0, <1>2, <2>5 DEF ServeUp, Shown
  <2>6. CASE ServeFails(p)
    BY <1>0, <1>2, <2>6 DEF ServeFails
  <2>7. CASE MarkFailed(p)
    BY <1>0, <1>2, <2>7 DEF MarkFailed, Settled, Shown
  <2>8. CASE MarkStopped(p)
    BY <1>0, <1>2, <2>8 DEF MarkStopped, Settled, Shown
  <2>9. CASE ReleaseRead(p, p, "dead")
    BY <1>0, <1>2, <2>9 DEF ReleaseRead
  <2>10. CASE ReleaseUnlink(p, "dead")
    BY <1>0, <1>2, <2>10 DEF ReleaseUnlink
  <2> QED
    BY <1>0, <1>2, <2>1, <2>2, <2>3, <2>4, <2>5, <2>6, <2>7, <2>8, <2>9, <2>10 DEF ProcessStep
<1>3. ASSUME NEW c \in Caller, CallStep(c) PROVE Serial'
  <2>1. CASE AcquireRead(c)
    BY <1>0, <1>3, <2>1 DEF AcquireRead, Taker, Alive
  <2>2. CASE ClearStale(c)
    BY <1>0, <1>3, <2>2 DEF ClearStale
  <2>3. CASE Claim(c)
    BY <1>0, <1>3, <2>3 DEF Claim, Taker
  <2>4. CASE StartStatus(c)
    BY <1>0, <1>3, <2>4 DEF StartStatus, ShownAlive, Alive
  <2>5. CASE StartCheck(c)
    BY <1>0, <1>3, <2>5 DEF StartCheck, Alive
  <2>6. ASSUME NEW p \in Pid, Spawn(c, p) PROVE Serial'
    BY <1>0, <1>3, <2>6 DEF Spawn, IsNewPid
  <2>7. CASE SpawnFails(c)
    BY <1>0, <1>3, <2>7 DEF SpawnFails, Settled, Shown
  <2>8. CASE StartRefused(c)
    BY <1>0, <1>3, <2>8 DEF StartRefused, AfterSignal, Alive
  <2>9. CASE MarkStarting(c)
    BY <1>0, <1>3, <2>9 DEF MarkStarting, Shown
  <2>10. CASE EndCall(c, "deny", "error") \/ EndCall(c, "forbid", "error")
    BY <1>0, <1>3, <2>10 DEF EndCall, Settled, Shown
  <2>11. CASE StopStatus(c)
    BY <1>0, <1>3, <2>11 DEF StopStatus, ShownAlive, Alive
  <2>12. CASE StopFound(c)
    BY SMTT(150), <1>0, <1>3, <2>12 DEF StopFound, Live, AfterSignal, Alive
  <2>13. CASE StopNothing(c)
    BY <1>0, <1>3, <2>13 DEF StopNothing, Live, Alive
  <2>14. CASE ReleaseRead(c, target[c], "settle")
    BY <1>0, <1>3, <2>14 DEF ReleaseRead
  <2>15. CASE ReleaseUnlink(c, "settle")
    BY <1>0, <1>3, <2>15 DEF ReleaseUnlink
  <2>16. CASE EndCall(c, "settle", "stopped")
    BY <1>0, <1>3, <2>16 DEF EndCall, Settled, Shown
  <2>17. CASE StopDenied(c)
    BY <1>0, <1>3, <2>17 DEF StopDenied
  <2> QED
    BY <1>0, <1>3, <2>1, <2>2, <2>3, <2>4, <2>5, <2>6, <2>7, <2>8, <2>9, <2>10, <2>11, <2>12,
       <2>13, <2>14, <2>15, <2>16, <2>17 DEF CallStep
<1>4. ASSUME NEW p \in Pid, RunForeground(p) PROVE Serial'
  <2>1. ~Busy
    BY <1>4, Zenon DEF RunForeground, Begin
  <2> QED
    BY <1>0, <1>4, <2>1 DEF RunForeground, IsNewPid, Busy
<1>5. ASSUME NEW c \in Caller, StartCall(c) \/ StopCall(c) PROVE Serial'
  <2>1. ~Busy
    BY <1>5, Zenon DEF StartCall, StopCall, Begin
  <2> QED
    BY <1>0, <1>5, <2>1 DEF StartCall, StopCall, Busy
<1>6. ASSUME NEW a \in Actor, Dies(a) PROVE Serial'
  BY <1>0, <1>6 DEF Dies, Alive
<1> QED
  BY <1>1, <1>2, <1>3, <1>4, <1>5, <1>6 DEF Next, OwnerStep

-----------------------------------------------------------------------------
(* The two files, the processes and the calls have their types, whatever   *)
(* dies when.                                                              *)
THEOREM TypeCorrect == Spec => []TypeOK
<1>1. TypeInv => TypeOK
  BY DEF TypeInv
<1> QED
  BY <1>1, TypeInit, TypeStep, PTL DEF Spec

LEMMA SerialAlways == Spec => [](TypeInv /\ SerialInv)
BY TypeInit, TypeStep, SerialInit, SerialStep, PTL DEF Spec

(* acquireLock(): two daemons never schedule at a time, as long as the     *)
(* owner waits for one thing to be over before the next.                   *)
THEOREM OneDaemonAlways == Spec => []OneDaemon
<1>1. SerialInv => OneDaemon
  BY DEF SerialInv, Serial, Taken, OneDaemon
<1> QED
  BY <1>1, SerialAlways, PTL

(* acquireLock() and releaseLock(): between two calls of the owner the     *)
(* lock names the daemon that serves.                                      *)
THEOREM HoldsTheLockAlways == Spec => []HoldsTheLock
<1>1. SerialInv => HoldsTheLock
  BY DEF SerialInv, Serial, Named, HoldsTheLock, NoCall, Opening
<1> QED
  BY <1>1, SerialAlways, PTL

(* stop(): after the signal nothing schedules.                             *)
THEOREM StopReachesAlways == Spec => StopReachesDaemon
<1>1. ASSUME TypeInv, (TypeInv /\ SerialInv)', [Next]_vars, NEW c \in Caller,
             ~hasty, at[c] = "find", at'[c] = "release", NEW p \in Pid
      PROVE  ~Active(p)'
  <2> USE NoPidIsNone DEF TypeInv, TypeOK, Actor
  <2>1. ~hasty'
    <3>1. ASSUME NEW q \in Pid, ProcessStep(q) PROVE ~hasty'
      BY <1>1, <3>1 DEF ProcessStep, AcquireRead, ClearStale, Claim, Refused, ServeUp, ServeFails,
         MarkFailed, MarkStopped, ReleaseRead, ReleaseUnlink
    <3>2. ASSUME NEW d \in Caller, CallStep(d) PROVE ~hasty'
      BY <1>1, <3>2 DEF CallStep, AcquireRead, ClearStale, Claim, StartStatus, StartCheck, Spawn,
         SpawnFails, StartRefused, MarkStarting, EndCall, StopStatus, StopFound, StopDenied,
         StopNothing,
         ReleaseRead, ReleaseUnlink
    <3>3. ASSUME NEW q \in Pid, RunForeground(q) PROVE FALSE
      BY <1>1, <3>3 DEF RunForeground
    <3>4. ASSUME NEW d \in Caller, StartCall(d) \/ StopCall(d) PROVE FALSE
      BY <1>1, <3>4 DEF StartCall, StopCall
    <3>5. ASSUME NEW a \in Actor, Dies(a) PROVE FALSE
      BY <1>1, <3>5 DEF Dies
    <3> QED
      BY <1>1, <3>1, <3>2, <3>3, <3>4, <3>5 DEF Next, OwnerStep, vars
  <2> QED
    BY <1>1, <2>1 DEF SerialInv, Serial, Gone
<1> DEFINE A == \A c \in Caller :
                  ~hasty /\ at[c] = "find" /\ at'[c] = "release" => \A p \in Pid : ~Active(p)'
<1>2. TypeInv /\ SerialInv /\ (TypeInv /\ SerialInv)' /\ [Next]_vars => A
  BY <1>1
<1> HIDE DEF A
<1>3. Spec => [][A]_vars
  BY <1>2, SerialAlways, PTL DEF Spec
<1> QED
  BY <1>3 DEF A, StopReachesDaemon
-----------------------------------------------------------------------------
(* The scheduler inside each daemon.                                       *)
(*                                                                         *)
(* The argument: the moment a job really began is on disk as soon as it    *)
(* begins, so the due check of whatever process comes later sees it.       *)
(* Between the check and the beginning only time passes, for the tick as   *)
(* much as for the cursor, unless another process ticks meanwhile.         *)

(* A tick is at a job exactly when it is doing something. *)
Placed == \A p \in Proc : pos[p] = 0 <=> stage[p] = "idle"

(* One tick at a time. *)
Uncrowded == ~crowded => \A p, q \in Proc : InTick(p) /\ InTick(q) => p = q

Recorded == started = began

(* A job about to begin has not begun within its interval. *)
StillDue ==
  ~crowded =>
    \A p \in Proc :
      stage[p] = "mark" => began[pos[p]] - since[p] >= Every[pos[p]]

TickInv == SchedulerTypeOK /\ Placed
IntervalInv == Uncrowded /\ Recorded /\ StillDue

-----------------------------------------------------------------------------
(* Ages stay ages.                                                         *)

LEMMA NeverIsAge == Never \in Ages
<1> USE SchedulerAssumption DEF SchedulerAssumption
<1>1. \A j \in Job : Old(j) \in Nat
  BY DEF Old
<1> QED BY <1>1 DEF Never, Ages

LEMMA OlderIsAge ==
  ASSUME NEW f \in Ages
  PROVE  Older(f) \in Ages
<1> USE SchedulerAssumption DEF SchedulerAssumption
<1>1. \A j \in Job : Old(j) \in Nat
  BY DEF Old
<1> QED BY <1>1 DEF Older, Ages

LEMMA SinceIsAge ==
  ASSUME NEW f \in Ages, NEW j \in Job, NEW t \in 0 .. MaxTick
  PROVE  [f EXCEPT ![j] = t] \in Ages
<1> USE SchedulerAssumption DEF SchedulerAssumption
<1>1. \A i \in Job : Old(i) \in Nat /\ MaxTick <= Old(i)
  BY DEF Old
<1>2. [f EXCEPT ![j] = t] \in [Job -> Nat]
  BY DEF Ages
<1>3. \A i \in Job : [f EXCEPT ![j] = t][i] <= Old(i)
  BY <1>1 DEF Ages
<1> QED BY <1>2, <1>3 DEF Ages

-----------------------------------------------------------------------------
LEMMA InitTick == SchedulerInit => TickInv /\ IntervalInv
<1> SUFFICES ASSUME SchedulerInit PROVE TickInv /\ IntervalInv
  OBVIOUS
<1>1. SchedulerTypeOK
  <2>1. started \in Ages /\ succeeded \in Ages /\ began \in Ages /\ last \in [Proc -> Ages]
    BY NeverIsAge DEF SchedulerInit
  <2>2. since \in [Proc -> 0 .. MaxTick]
    BY SchedulerAssumption DEF SchedulerAssumption, SchedulerInit
  <2>3. pos \in [Proc -> Job \cup {0}] /\ stage \in [Proc -> Stages]
    BY DEF SchedulerInit, Stages
  <2>4. life \in [Proc -> {"down", "up", "closing"}] /\ crowded \in BOOLEAN
    BY DEF SchedulerInit
  <2> QED BY <2>1, <2>2, <2>3, <2>4 DEF SchedulerTypeOK
<1>2. Placed
  BY DEF SchedulerInit, Placed
<1>3. IntervalInv
  BY DEF SchedulerInit, IntervalInv, Uncrowded, InTick, Recorded, StillDue
<1> QED BY <1>1, <1>2, <1>3 DEF TickInv

(* Going on to the next job keeps a tick in its place. *)
LEMMA NextJobTyped ==
  ASSUME TickInv, NEW p \in Proc, InTick(p), NextJob(p)
  PROVE  /\ pos' \in [Proc -> Job \cup {0}]
         /\ stage' \in [Proc -> Stages]
         /\ since' \in [Proc -> 0 .. MaxTick]
         /\ Placed'
<1> USE SchedulerAssumption DEF SchedulerAssumption
<1>1. pos[p] \in Job
  BY DEF TickInv, SchedulerTypeOK, InTick
<1>2. CASE pos[p] < NumJobs
  <2>1. pos[p] + 1 \in Job /\ pos[p] + 1 # 0
    BY <1>1, <1>2 DEF Job
  <2> QED BY <1>2, <2>1 DEF NextJob, TickInv, SchedulerTypeOK, Stages, Placed
<1>3. CASE ~(pos[p] < NumJobs)
  BY <1>3 DEF NextJob, TickInv, SchedulerTypeOK, Stages, Placed
<1> QED BY <1>2, <1>3

LEMMA NextTick == TickInv /\ [SchedulerNext]_schedulerState => TickInv'
<1> SUFFICES ASSUME TickInv, [SchedulerNext]_schedulerState PROVE TickInv'
  OBVIOUS
<1> USE SchedulerAssumption DEF SchedulerAssumption, TickInv
<1>1. ASSUME NEW p \in Proc, StartScheduler(p) \/ Shutdown(p) PROVE TickInv'
  <2>1. life' \in [Proc -> {"down", "up", "closing"}]
    BY <1>1 DEF StartScheduler, Shutdown, SchedulerTypeOK
  <2> QED BY <1>1, <2>1 DEF StartScheduler, Shutdown, SchedulerTypeOK, Placed, schedulerVars, cursorVars, tickVars
<1>2. ASSUME NEW p \in Proc, Exit(p) PROVE TickInv'
  <2>1. last' \in [Proc -> Ages]
    BY <1>2, NeverIsAge DEF Exit, SchedulerTypeOK
  <2>2. Placed'
    BY <1>2 DEF Exit, SchedulerTypeOK, Placed
  <2> QED BY <1>2, <2>1, <2>2 DEF Exit, SchedulerTypeOK, Stages, cursorVars
<1>3. ASSUME NEW p \in Proc, TickFires(p) PROVE TickInv'
  <2>1. 1 \in Job /\ 1 # 0
    BY DEF Job
  <2>2. Placed'
    BY <1>3, <2>1 DEF TickFires, SchedulerTypeOK, Placed
  <2>3. pos' \in [Proc -> Job \cup {0}] /\ stage' \in [Proc -> Stages] /\ since' \in [Proc -> 0 .. MaxTick]
    BY <1>3, <2>1 DEF TickFires, SchedulerTypeOK, Stages
  <2>4. crowded' \in BOOLEAN
    BY <1>3, ZenonT(30) DEF TickFires, SchedulerTypeOK
  <2> QED BY <1>3, <2>2, <2>3, <2>4 DEF TickFires, SchedulerTypeOK, cursorVars
<1>4. ASSUME NEW p \in Proc, Check(p) PROVE TickInv'
  <2>1. InTick(p)
    BY <1>4 DEF Check, Placed, InTick
  <2>2. CASE NextJob(p)
    <3>1. /\ pos' \in [Proc -> Job \cup {0}] /\ stage' \in [Proc -> Stages]
          /\ since' \in [Proc -> 0 .. MaxTick] /\ Placed'
      BY <2>1, <2>2, NextJobTyped
    <3> QED BY <1>4, <3>1 DEF Check, SchedulerTypeOK, cursorVars
  <2>3. CASE stage' = [stage EXCEPT ![p] = "mark"] /\ UNCHANGED <<pos, since>>
    <3>1. stage' \in [Proc -> Stages]
      BY <2>3 DEF SchedulerTypeOK, Stages
    <3>2. Placed'
      BY <2>1, <2>3 DEF SchedulerTypeOK, Placed, InTick
    <3> QED BY <1>4, <2>3, <3>1, <3>2 DEF Check, SchedulerTypeOK, cursorVars
  <2> QED BY <1>4, <2>2, <2>3 DEF Check
<1>5. ASSUME NEW p \in Proc, BeginJob(p) PROVE TickInv'
  <2>1. pos[p] \in Job /\ pos[p] # 0
    BY <1>5 DEF BeginJob, Stage, Placed, SchedulerTypeOK
  <2>2. since[p] \in 0 .. MaxTick
    BY DEF SchedulerTypeOK
  <2>3. started' \in Ages /\ began' \in Ages
    BY <1>5, <2>1, <2>2, SinceIsAge DEF BeginJob, SchedulerTypeOK
  <2>4. [last[p] EXCEPT ![pos[p]] = since[p]] \in Ages
    BY <2>1, <2>2, SinceIsAge DEF SchedulerTypeOK
  <2>5. last' \in [Proc -> Ages]
    BY <1>5, <2>4 DEF BeginJob, SchedulerTypeOK
  <2>6. stage' \in [Proc -> Stages] /\ Placed'
    BY <1>5, <2>1 DEF BeginJob, Stage, SchedulerTypeOK, Stages, Placed
  <2> QED BY <1>5, <2>3, <2>5, <2>6 DEF BeginJob, SchedulerTypeOK
<1>6. ASSUME NEW p \in Proc, EndJob(p) PROVE TickInv'
  <2>1. stage' \in [Proc -> Stages] /\ Placed'
    BY <1>6 DEF EndJob, SchedulerTypeOK, Stages, Placed
  <2> QED BY <1>6, <2>1 DEF EndJob, SchedulerTypeOK, cursorVars
<1>7. ASSUME NEW p \in Proc, MarkSucceeded(p) PROVE TickInv'
  <2>1. InTick(p) /\ NextJob(p) /\ pos[p] \in Job
    BY <1>7 DEF MarkSucceeded, Placed, InTick, SchedulerTypeOK
  <2>2. succeeded' \in Ages
    BY <1>7, <2>1, SinceIsAge DEF MarkSucceeded, SchedulerTypeOK
  <2>3. /\ pos' \in [Proc -> Job \cup {0}] /\ stage' \in [Proc -> Stages]
        /\ since' \in [Proc -> 0 .. MaxTick] /\ Placed'
    BY <2>1, NextJobTyped
  <2> QED BY <1>7, <2>2, <2>3 DEF MarkSucceeded, SchedulerTypeOK
<1>8. ASSUME NEW p \in Proc, MarkJobFailed(p) PROVE TickInv'
  <2>1. InTick(p) /\ NextJob(p)
    BY <1>8 DEF MarkJobFailed, Placed, InTick, SchedulerTypeOK
  <2>2. /\ pos' \in [Proc -> Job \cup {0}] /\ stage' \in [Proc -> Stages]
        /\ since' \in [Proc -> 0 .. MaxTick] /\ Placed'
    BY <2>1, NextJobTyped
  <2> QED BY <1>8, <2>2 DEF MarkJobFailed, SchedulerTypeOK, cursorVars
<1>9. CASE Pass
  <2>1. started' \in Ages /\ succeeded' \in Ages /\ began' \in Ages
    BY <1>9, OlderIsAge DEF Pass, SchedulerTypeOK
  <2>2. last' \in [Proc -> Ages]
    BY <1>9, OlderIsAge DEF Pass, SchedulerTypeOK
  <2>3. since' \in [Proc -> 0 .. MaxTick]
    BY <1>9 DEF Pass, SchedulerTypeOK
  <2> QED BY <1>9, <2>1, <2>2, <2>3 DEF Pass, SchedulerTypeOK, Placed
<1>10. CASE UNCHANGED schedulerState
  BY <1>10 DEF schedulerState, schedulerVars, cursorVars, tickVars, SchedulerTypeOK, Placed
<1> QED
  BY <1>1, <1>2, <1>3, <1>4, <1>5, <1>6, <1>7, <1>8, <1>9, <1>10 DEF SchedulerNext, TickStep

-----------------------------------------------------------------------------
(* A step of one process that neither begins a job nor lets time pass nor  *)
(* starts a tick, and leaves that process without a job about to begin.    *)
LEMMA QuietStep ==
  ASSUME TickInv, IntervalInv, NEW p \in Proc,
         UNCHANGED <<started, began, crowded>>,
         \A q \in Proc \ {p} :
           pos'[q] = pos[q] /\ stage'[q] = stage[q] /\ since'[q] = since[q],
         pos'[p] # 0 => pos[p] # 0,
         stage'[p] # "mark"
  PROVE  IntervalInv'
<1>1. Uncrowded'
  BY DEF IntervalInv, Uncrowded, InTick
<1>2. Recorded'
  BY DEF IntervalInv, Recorded
<1>3. StillDue'
  BY DEF IntervalInv, StillDue
<1> QED BY <1>1, <1>2, <1>3 DEF IntervalInv

LEMMA NextInterval == TickInv /\ IntervalInv /\ [SchedulerNext]_schedulerState => IntervalInv'
<1> SUFFICES ASSUME TickInv, IntervalInv, [SchedulerNext]_schedulerState PROVE IntervalInv'
  OBVIOUS
<1> USE SchedulerAssumption DEF SchedulerAssumption
<1>1. ASSUME NEW p \in Proc, StartScheduler(p) \/ Shutdown(p) PROVE IntervalInv'
  BY <1>1 DEF StartScheduler, Shutdown, IntervalInv, Uncrowded, InTick, Recorded, StillDue,
              schedulerVars, cursorVars, tickVars
<1>2. ASSUME NEW p \in Proc, Exit(p) PROVE IntervalInv'
  BY <1>2, QuietStep DEF Exit, cursorVars, TickInv, SchedulerTypeOK
<1>3. ASSUME NEW p \in Proc, TickFires(p) PROVE IntervalInv'
  <2>1. CASE crowded'
    BY <1>3, <2>1 DEF TickFires, IntervalInv, Uncrowded, Recorded, StillDue, cursorVars
  <2>2. CASE ~crowded'
    <3>1. ~crowded /\ \A q \in Proc : ~InTick(q)
      BY <1>3, <2>2 DEF TickFires
    <3>2. \A q \in Proc \ {p} : pos'[q] = 0 /\ stage'[q] = "idle"
      BY <1>3, <3>1 DEF TickFires, InTick, TickInv, SchedulerTypeOK, Placed
    <3>3. stage'[p] = "check"
      BY <1>3 DEF TickFires, TickInv, SchedulerTypeOK
    <3>4. Uncrowded'
      BY <3>2 DEF Uncrowded, InTick
    <3>5. StillDue'
      BY <3>2, <3>3 DEF StillDue
    <3> QED BY <1>3, <3>4, <3>5 DEF TickFires, IntervalInv, Recorded, cursorVars
  <2> QED BY <2>1, <2>2
<1>4. ASSUME NEW p \in Proc, Check(p) PROVE IntervalInv'
  <2>1. CASE Due(p, pos[p])
    <3>1. /\ stage' = [stage EXCEPT ![p] = "mark"]
          /\ UNCHANGED <<pos, since, started, began, crowded>>
      BY <1>4, <2>1 DEF Check, cursorVars
    <3>2. began[pos[p]] - since[p] >= Every[pos[p]]
      BY <2>1 DEF Due, IntervalInv, Recorded
    <3>3. StillDue'
      BY <3>1, <3>2 DEF IntervalInv, StillDue, TickInv, SchedulerTypeOK
    <3> QED BY <3>1, <3>3 DEF IntervalInv, Uncrowded, InTick, Recorded
  <2>2. CASE ~Due(p, pos[p])
    <3>1. pos[p] # 0 /\ NextJob(p) /\ UNCHANGED <<started, began, crowded>>
      BY <1>4, <2>2 DEF Check, TickInv, Placed, cursorVars
    <3> QED BY <3>1, QuietStep DEF NextJob, TickInv, SchedulerTypeOK
  <2> QED BY <2>1, <2>2
<1>5. ASSUME NEW p \in Proc, BeginJob(p) PROVE IntervalInv'
  <2>1. Recorded'
    BY <1>5 DEF BeginJob, IntervalInv, Recorded
  <2>2. Uncrowded'
    BY <1>5 DEF BeginJob, IntervalInv, Uncrowded, InTick
  <2>3. ASSUME ~crowded', NEW q \in Proc, stage'[q] = "mark" PROVE FALSE
    <3>1. q # p /\ stage[q] = "mark" /\ stage[p] = "mark" /\ ~crowded
      BY <1>5, <2>3 DEF BeginJob, Stage, TickInv, SchedulerTypeOK
    <3> QED BY <3>1 DEF TickInv, Placed, IntervalInv, Uncrowded, InTick
  <2>4. StillDue'
    BY <2>3 DEF StillDue
  <2> QED BY <2>1, <2>2, <2>4 DEF IntervalInv
<1>6. ASSUME NEW p \in Proc, EndJob(p) PROVE IntervalInv'
  BY <1>6, QuietStep DEF EndJob, cursorVars, TickInv, SchedulerTypeOK
<1>7. ASSUME NEW p \in Proc, MarkSucceeded(p) \/ MarkJobFailed(p) PROVE IntervalInv'
  <2>1. pos[p] # 0 /\ NextJob(p) /\ UNCHANGED <<started, began, crowded>>
    BY <1>7 DEF MarkSucceeded, MarkJobFailed, TickInv, Placed, cursorVars
  <2> QED BY <2>1, QuietStep DEF NextJob, TickInv, SchedulerTypeOK
<1>8. CASE Pass
  <2>1. Recorded'
    BY <1>8 DEF Pass, IntervalInv, Recorded
  <2>2. Uncrowded'
    BY <1>8 DEF Pass, IntervalInv, Uncrowded, InTick
  <2>3. ASSUME ~crowded', NEW p \in Proc, stage'[p] = "mark"
        PROVE  began'[pos'[p]] - since'[p] >= Every[pos'[p]]
    <3> DEFINE j == pos[p]
    <3>1. j \in Job /\ InTick(p) /\ pos'[p] = j
      BY <1>8, <2>3 DEF Pass, TickInv, SchedulerTypeOK, Placed, InTick
    <3>2. began[j] - since[p] >= Every[j]
      BY <1>8, <2>3 DEF Pass, IntervalInv, StillDue
    <3>3. since[p] \in Nat /\ since'[p] = since[p] + 1 /\ since[p] + 1 <= MaxTick
      BY <1>8, <3>1 DEF Pass, TickInv, SchedulerTypeOK
    <3>4. began[j] \in Nat /\ began[j] <= Old(j)
      BY <3>1 DEF TickInv, SchedulerTypeOK, Ages
    <3>5. began'[j] = IF began[j] < Old(j) THEN began[j] + 1 ELSE began[j]
      BY <1>8, <3>1 DEF Pass, Older
    <3>6. Old(j) = Every[j] + MaxTick /\ Every[j] \in Nat
      BY <3>1 DEF Old
    <3> HIDE DEF j
    <3> QED BY <3>1, <3>2, <3>3, <3>4, <3>5, <3>6
  <2>4. StillDue'
    BY <2>3 DEF StillDue
  <2> QED BY <2>1, <2>2, <2>4 DEF IntervalInv
<1>9. CASE UNCHANGED schedulerState
  BY <1>9 DEF schedulerState, schedulerVars, cursorVars, tickVars, IntervalInv, Uncrowded, InTick,
              Recorded, StillDue
<1> QED
  BY <1>1, <1>2, <1>3, <1>4, <1>5, <1>6, <1>7, <1>8, <1>9 DEF SchedulerNext, TickStep

-----------------------------------------------------------------------------
(* The cursors and what each process has in memory keep their types.       *)
THEOREM SchedulerTypeCorrect == SchedulerSpec => []SchedulerTypeOK
<1>1. SchedulerInit => TickInv
  BY InitTick
<1>2. TickInv => SchedulerTypeOK
  BY DEF TickInv
<1> QED BY <1>1, <1>2, NextTick, PTL DEF SchedulerSpec

(* A job does not begin twice within its interval, whatever crashes,       *)
(* throws or is restarted, while no two processes tick at the same time.   *)
THEOREM OncePerIntervalHolds == SchedulerSpec => OncePerInterval
<1> DEFINE A == \A p \in Proc :
                  stage[p] = "mark" /\ stage'[p] = "body" /\ ~crowded
                  => began[pos[p]] - since[p] >= Every[pos[p]]
<1>1. SchedulerInit => TickInv /\ IntervalInv
  BY InitTick
<1>2. TickInv /\ IntervalInv /\ [SchedulerNext]_schedulerState => (TickInv /\ IntervalInv)'
  BY NextTick, NextInterval
<1>3. TickInv /\ IntervalInv => A
  BY DEF IntervalInv, StillDue
<1> QED BY <1>1, <1>2, <1>3, PTL DEF SchedulerSpec, OncePerInterval
=============================================================================
