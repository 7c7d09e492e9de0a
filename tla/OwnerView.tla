----------------------------- MODULE OwnerView -----------------------------
(***************************************************************************)
(* What the owner gets to see of the company: the screen of the desktop    *)
(* application (Dashboard), the search over the memory (MemoryIndex), what *)
(* a run leaves in the memory (CompanyMemory) and what the services make   *)
(* of the books (Pipelines).  The parts share no file that either of two   *)
(* would change, so their steps commute; a behaviour moves one of them,    *)
(* the part it was cast in.                                                *)
(***************************************************************************)
EXTENDS Dashboard, MemoryIndex, CompanyMemory, Pipelines

VARIABLE cast

ownerVars == <<dashboardVars, indexVars, memoryVars, pipelineVars, cast>>

Part == {"screen", "search", "records", "books"}

TypeOK ==
  /\ DashboardTypeOK /\ IndexTypeOK /\ MemoryTypeOK /\ PipelinesTypeOK
  /\ cast \in Part

(* The books of a company are of interest to those cast in that part.      *)
Init ==
  /\ DashboardInit /\ IndexInit /\ MemoryInit /\ PipelinesInit
  /\ cast \in Part
  /\ cast = "books" \/ books = CHOOSE b \in Companies : TRUE

OnScreen(A) ==
  cast = "screen" /\ A /\ UNCHANGED <<indexVars, memoryVars, pipelineVars, cast>>
InSearch(A) ==
  cast = "search" /\ A /\ UNCHANGED <<dashboardVars, memoryVars, pipelineVars, cast>>
InRecords(A) ==
  cast = "records" /\ A /\ UNCHANGED <<dashboardVars, indexVars, pipelineVars, cast>>
InBooks(A) ==
  cast = "books" /\ A /\ UNCHANGED <<dashboardVars, indexVars, memoryVars, cast>>

Next ==
  \/ OnScreen(DashboardNext) \/ InSearch(IndexNext)
  \/ InRecords(MemoryNext) \/ InBooks(PipelinesNext)

(* What a pass over the books produces is gated, passes that find the      *)
(* books as they were left settle, and the digests agree with each other.  *)
BooksTellTheTruth ==
  cast = "books" => DraftsAreGated /\ PassesSettle /\ AttentionAgrees /\ MoneyAgrees

(* The interval fires, requests are served or end by their timer, and the  *)
(* renderer's handlers go on.                                              *)
Fairness ==
  /\ WF_dashboardVars(cast = "screen" /\ Tick)
  /\ \A f \in Fan : WF_dashboardVars(cast = "screen" /\ FanStep(f))
  /\ \A x \in Action : WF_dashboardVars(cast = "screen" /\ ActionStep(x))

Spec == Init /\ [][Next]_ownerVars /\ Fairness
=============================================================================
