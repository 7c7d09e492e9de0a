------------------------- MODULE ApprovalLifecycle -------------------------
(***************************************************************************)
(* What the approval registry promises, with no files, locks or callers:   *)
(* an approval is filed once, decided once by the owner, and a one-off     *)
(* approval is spent at most once and then never grants again.  The        *)
(* registry (ApprovalRegistry, PolicyGate) implements it inside one        *)
(* process that neither crashes nor fails a rename.                        *)
(***************************************************************************)
CONSTANT Approval

VARIABLES phase, standing

lifecycleVars == <<phase, standing>>

Phase == {"unfiled", "pending", "approved", "rejected", "spent"}

Init ==
  /\ phase \in [Approval -> {"unfiled", "pending"}]
  /\ standing \in SUBSET Approval
  /\ \A a \in standing : phase[a] = "pending"

(* A request is written for the owner, as a one-off or a standing approval. *)
File(a) ==
  /\ phase[a] = "unfiled"
  /\ phase' = [phase EXCEPT ![a] = "pending"]
  /\ standing' \in {standing, standing \cup {a}}

(* The owner decides a pending request; nothing decides it again. *)
Decide(a) ==
  /\ phase[a] = "pending"
  /\ \E d \in {"approved", "rejected"} : phase' = [phase EXCEPT ![a] = d]
  /\ UNCHANGED standing

(* An approved one-off is burned by the action it authorized. *)
Spend(a) ==
  /\ phase[a] = "approved"
  /\ a \notin standing
  /\ phase' = [phase EXCEPT ![a] = "spent"]
  /\ UNCHANGED standing

Next == \E a \in Approval : File(a) \/ Decide(a) \/ Spend(a)

Spec == Init /\ [][Next]_lifecycleVars
=============================================================================
