---------------------------- MODULE BoundedRetry ----------------------------
(***************************************************************************)
(* What the retry scan promises about each failed run: it is tried again a *)
(* bounded number of times, then it is left to the owner, and nothing      *)
(* happens to it once it has recovered or been escalated.                  *)
(***************************************************************************)
EXTENDS Naturals

CONSTANTS Run, MaxAttempts

VARIABLES
  tries,     \* attempts started so far
  outcome    \* "open", "recovered" or "escalated"

vars == <<tries, outcome>>

Init ==
  /\ tries = [r \in Run |-> 0]
  /\ outcome = [r \in Run |-> "open"]

Try(r) ==
  /\ outcome[r] = "open"
  /\ tries[r] < MaxAttempts
  /\ tries' = [tries EXCEPT ![r] = @ + 1]
  /\ UNCHANGED outcome

Recover(r) ==
  /\ outcome[r] = "open"
  /\ tries[r] > 0
  /\ outcome' = [outcome EXCEPT ![r] = "recovered"]
  /\ UNCHANGED tries

Escalate(r) ==
  /\ outcome[r] = "open"
  /\ outcome' = [outcome EXCEPT ![r] = "escalated"]
  /\ UNCHANGED tries

Next == \E r \in Run : Try(r) \/ Recover(r) \/ Escalate(r)

Spec == Init /\ [][Next]_vars
=============================================================================
