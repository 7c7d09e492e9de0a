----------------------------- MODULE Dashboard -----------------------------
(***************************************************************************)
(* The desktop application's screen: the fan-out of requests that fills    *)
(* it, once per tick and once after every action, and the ways the owner   *)
(* decides an approval from it.  Of the slices of the screen the pending   *)
(* approvals are kept, and whether the health probe answered.              *)
(*                                                                         *)
(* The server is asked, answers, and the answer travels; a request that    *)
(* stalls ends by the client's timer, while the server may still do what   *)
(* it was asked.  How approvals are stored is ApprovalRegistry.            *)
(***************************************************************************)
EXTENDS Naturals

CONSTANTS
  Approval,
  Action,    \* the actions the owner may have under way at a time
  NoApproval,
  MaxStalls  \* bound on the requests that stall or fail

ASSUME DashboardAssumption == NoApproval \notin Approval /\ MaxStalls \in Nat

VARIABLES
  stage,   \* approval -> what the server knows of it
  late,    \* the approvals whose decision is still with the server though
           \* the request was given up
  screen,  \* the approvals the screen shows as pending
  error,   \* the screen shows that the server cannot be reached
  fan,     \* fan-out -> its local state
  act,     \* action -> its local state
  dialog,  \* the decision dialog
  stalls

dashboardVars == <<stage, late, screen, error, fan, act, dialog, stalls>>
serverVars == <<stage, late>>

Fan == {"tick"} \cup Action
Idle == [pc |-> "idle", list |-> {}, known |-> TRUE, healthy |-> TRUE]
Closed == [of |-> NoApproval, submitting |-> FALSE]
Unused == [pc |-> "idle", of |-> NoApproval, way |-> "button"]

DashboardTypeOK ==
  /\ stage \in [Approval -> {"unfiled", "pending", "decided"}]
  /\ late \subseteq Approval /\ screen \subseteq Approval /\ error \in BOOLEAN
  /\ fan \in [Fan -> [pc : {"idle", "asked", "read", "stalled"}, list : SUBSET Approval,
                      known : BOOLEAN, healthy : BOOLEAN]]
  /\ act \in [Action -> [pc : {"idle", "sent", "stalled", "done", "refused",
                               "done_shown", "refused_shown"},
                         of : Approval \cup {NoApproval},
                         way : {"dialog", "sheet", "button"}]]
  /\ dialog \in [of : Approval \cup {NoApproval}, submitting : BOOLEAN]
  /\ stalls \in 0 .. MaxStalls

DashboardInit ==
  /\ stage = [a \in Approval |-> "unfiled"] /\ late = {}
  /\ screen = {} /\ error = FALSE
  /\ fan = [f \in Fan |-> Idle]
  /\ act = [x \in Action |-> Unused]
  /\ dialog = Closed /\ stalls = 0

Pending == {a \in Approval : stage[a] = "pending"}
Stalls == stalls < MaxStalls /\ stalls' = stalls + 1

-----------------------------------------------------------------------------
(* Approvals are filed by runs, and decided elsewhere too.                 *)
File(a) ==
  /\ stage[a] = "unfiled"
  /\ stage' = [stage EXCEPT ![a] = "pending"]
  /\ UNCHANGED <<late, screen, error, fan, act, dialog, stalls>>

Decide(a) == stage' = IF stage[a] = "pending" THEN [stage EXCEPT ![a] = "decided"] ELSE stage

DecideElsewhere(a) ==
  /\ stage[a] = "pending"
  /\ Decide(a)
  /\ UNCHANGED <<late, screen, error, fan, act, dialog, stalls>>

-----------------------------------------------------------------------------
(* refreshDashboard(): all requests at once, and what they brought in one  *)
(* step when the last has settled.                                         *)
Ask(f) == fan' = [fan EXCEPT ![f] = [Idle EXCEPT !.pc = "asked"]]

(* The tick skips its turn while its last fan-out is under way; a refresh  *)
(* after an action does not ask.                                           *)
Tick ==
  /\ fan["tick"].pc = "idle"
  /\ Ask("tick")
  /\ UNCHANGED <<serverVars, screen, error, act, dialog, stalls>>

(* GET /approvals: the server's list, on its way.                          *)
Read(f) ==
  /\ fan[f].pc = "asked"
  /\ fan' = [fan EXCEPT ![f].pc = "read", ![f].list = Pending]
  /\ UNCHANGED <<serverVars, screen, error, act, dialog, stalls>>

(* The list, the health probe or both fail, or stall until the timer of    *)
(* api() runs out.                                                         *)
Stall(f) ==
  /\ fan[f].pc \in {"asked", "read"} /\ Stalls
  /\ \E known, healthy \in BOOLEAN :
       /\ ~known \/ ~healthy
       /\ known => fan[f].pc = "read"
       /\ fan' = [fan EXCEPT ![f] = [pc |-> "stalled", known |-> known, healthy |-> healthy,
                                     list |-> IF known THEN fan[f].list ELSE {}]]
  /\ UNCHANGED <<serverVars, screen, error, act, dialog>>

(* Seeded fault: a fan-out with a failed request is not applied, and its   *)
(* tick not marked as over.                                                *)
ApplyComplete(f) ==
  /\ fan[f].pc = "read"
  /\ screen' = fan[f].list
  /\ error' = FALSE
  /\ fan' = [fan EXCEPT ![f] = Idle]
  /\ UNCHANGED <<serverVars, act, dialog, stalls>>

(* applyCoreResults(), once the last request has arrived or timed out: a   *)
(* slice whose request failed keeps its value.                             *)
Apply(f) ==
  /\ fan[f].pc \in {"read", "stalled"}
  /\ screen' = IF fan[f].known THEN fan[f].list ELSE screen
  /\ error' = ~fan[f].healthy
  /\ fan' = [fan EXCEPT ![f] = Idle]
  /\ UNCHANGED <<serverVars, act, dialog, stalls>>

-----------------------------------------------------------------------------
(* The owner's actions.  The approvals view has a dialog, which can be     *)
(* dismissed at any time; the sheet of pending approvals decides at once,  *)
(* as often as it is tapped; other views have buttons that start passes.   *)
Open(a) ==
  /\ a \in screen /\ dialog = Closed
  /\ dialog' = [Closed EXCEPT !.of = a]
  /\ UNCHANGED <<serverVars, screen, error, fan, act, stalls>>

Dismiss ==
  /\ dialog # Closed
  /\ dialog' = Closed
  /\ UNCHANGED <<serverVars, screen, error, fan, act, stalls>>

Send(x, a, way) == act' = [act EXCEPT ![x] = [pc |-> "sent", of |-> a, way |-> way]]

Submit(x) ==
  /\ act[x].pc = "idle" /\ dialog.of # NoApproval /\ ~dialog.submitting
  /\ Send(x, dialog.of, "dialog")
  /\ dialog' = [dialog EXCEPT !.submitting = TRUE]
  /\ UNCHANGED <<serverVars, screen, error, fan, stalls>>

Tap(x, a) ==
  /\ act[x].pc = "idle" /\ a \in screen
  /\ Send(x, a, "sheet")
  /\ UNCHANGED <<serverVars, screen, error, fan, dialog, stalls>>

Press(x) ==
  /\ act[x].pc = "idle"
  /\ Send(x, NoApproval, "button")
  /\ UNCHANGED <<serverVars, screen, error, fan, dialog, stalls>>

(* POST /approvals/resolve: 409 for what is no longer pending.             *)
Serve(x) ==
  LET a == act[x].of IN
  /\ act[x].pc = "sent"
  /\ IF a = NoApproval THEN UNCHANGED stage ELSE Decide(a)
  /\ act' = [act EXCEPT ![x].pc = IF a = NoApproval \/ stage[a] = "pending"
                                  THEN "done" ELSE "refused"]
  /\ UNCHANGED <<late, screen, error, fan, dialog, stalls>>

(* The request stalls before the server had it, or its answer does.        *)
StallPost(x) ==
  /\ act[x].pc \in {"sent", "done"} /\ Stalls
  /\ late' = IF act[x].pc = "sent" /\ act[x].of # NoApproval THEN late \cup {act[x].of} ELSE late
  /\ act' = [act EXCEPT ![x].pc = "stalled"]
  /\ UNCHANGED <<stage, screen, error, fan, dialog>>

(* Seeded fault: a timed-out request is neither an answer nor a refusal.   *)
PostExpires(x) ==
  /\ act[x].pc = "stalled"
  /\ act' = [act EXCEPT ![x].pc = "timed_out"]
  /\ UNCHANGED <<serverVars, screen, error, fan, dialog, stalls>>

PostTimesOut(x) ==
  /\ act[x].pc = "stalled"
  /\ act' = [act EXCEPT ![x].pc = "refused"]
  /\ UNCHANGED <<serverVars, screen, error, fan, dialog, stalls>>

ServeLate(a) ==
  /\ a \in late
  /\ late' = late \ {a}
  /\ Decide(a)
  /\ UNCHANGED <<screen, error, fan, act, dialog, stalls>>

(* onResolve() refreshes however the request ended, the buttons' handlers  *)
(* only when it was served.                                                *)
Refresh(x) ==
  /\ act[x].pc \in {"done", "refused"}
  /\ act[x].pc = "refused" => act[x].way # "button"
  /\ act' = [act EXCEPT ![x].pc = IF @ = "done" THEN "done_shown" ELSE "refused_shown"]
  /\ Ask(x)
  /\ UNCHANGED <<serverVars, screen, error, dialog, stalls>>

(* submitDecision() closes the dialog that is open by now, or shows the    *)
(* error in it; useAsyncAction() is no longer busy.                        *)
Finish(x) ==
  /\ \/ act[x].pc \in {"done_shown", "refused_shown"} /\ fan[x].pc = "idle"
     \/ act[x].pc = "refused" /\ act[x].way = "button"
  /\ act' = [act EXCEPT ![x] = Unused]
  /\ dialog' = CASE act[x].way # "dialog" -> dialog
                 [] act[x].pc = "done_shown" -> Closed
                 [] OTHER -> [dialog EXCEPT !.submitting = FALSE]
  /\ UNCHANGED <<serverVars, screen, error, fan, stalls>>

-----------------------------------------------------------------------------
FanStep(f) == Read(f) \/ Apply(f)
ActionStep(x) == Serve(x) \/ PostTimesOut(x) \/ Refresh(x) \/ Finish(x)

DashboardNext ==
  \/ \E a \in Approval : File(a) \/ DecideElsewhere(a) \/ Open(a) \/ ServeLate(a)
  \/ Tick \/ Dismiss
  \/ \E f \in Fan : FanStep(f) \/ Stall(f)
  \/ \E x \in Action :
       \/ Submit(x) \/ Press(x) \/ ActionStep(x) \/ StallPost(x)
       \/ \E a \in Approval : Tap(x, a)

-----------------------------------------------------------------------------
(* The screen catches up with the server: what is pending comes on it or   *)
(* is decided, what is decided leaves it for good whatever answers are     *)
(* still on their way, and an error does not stay once the requests are    *)
(* served again.                                                           *)
ScreenFollowsServer ==
  /\ \A a \in Approval : stage[a] = "pending" ~> (a \in screen \/ stage[a] = "decided")
  /\ \A a \in Approval : stage[a] = "decided" ~> [](a \notin screen)
  /\ error ~> ~error

(* No action and no dialog is busy for ever.                               *)
NothingStaysBusy ==
  /\ \A x \in Action : act[x].pc # "idle" ~> act[x].pc = "idle"
  /\ dialog.submitting ~> ~dialog.submitting

ScreenCatchesUp == ScreenFollowsServer /\ NothingStaysBusy
=============================================================================
