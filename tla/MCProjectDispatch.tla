-------------------------- MODULE MCProjectDispatch --------------------------
(***************************************************************************)
(* An instance of ProjectDispatch: one run asked for any work, for all     *)
(* that happens inside a dispatch.                                         *)
(***************************************************************************)
EXTENDS ProjectDispatch

CONSTANT r1

Asked(type, item, runtime) == [type |-> type, item |-> item, runtime |-> runtime]

oneRun == {r1}
anyWork == [r \in oneRun |->
  {Asked("feature", "linear", "host"), Asked("feature", "owner_build", "provider"),
   Asked("feature", "none", "none"), Asked("bug", "linear", "provider"),
   Asked("bug", "none", "host"), Asked("review", "none", "none"),
   Asked("release", "none", "none"), Asked("planning", "none", "host")}]

(* An earlier process may have died between git init and the first commit. *)
anyRepo == {"absent", "unborn", "based"}

toPush == {"push_commits"}
=============================================================================
