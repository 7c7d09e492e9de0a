---------------------------- MODULE MCPolicyGate ----------------------------
(***************************************************************************)
(* Instances of PolicyGate for TLC.                                        *)
(***************************************************************************)
EXTENDS PolicyGate, FiniteSets, TLC

CONSTANTS a2, a3, a4, c1, c2, c3, daemon, cli, star

MCGrantOf(action, target, scope, oneOff, expires) ==
  [action |-> action, target |-> target, scope |-> scope,
   oneOff |-> oneOff, expires |-> expires]

MCAskOf(service, action, target, scope, filedScope) ==
  [service |-> service, action |-> action, target |-> target,
   scope |-> scope, filedScope |-> filedScope,
   preview |-> service \in {"provision", "explain"}]

(* Opening pull requests is switched off: a capability use, the publisher  *)
(* and the start of a run all ask for it, in their own scopes.             *)
MCCapabilityAsk ==
  {MCAskOf("capability", "open_pr", "repo", "codex.open_pr", "codex.open_pr")}

MCPublishAsk ==
  {MCAskOf("publish", "open_pr", "repo", "github.open_pull_request", "project")}

MCAsk ==
  MCCapabilityAsk \cup MCPublishAsk \cup
    {MCAskOf("direct", "open_pr", star, NoScope, "project"),
     MCAskOf("provision", "create_repo", "repo", "github.repository.create", "project")}

(* A growth action, for which the owner has switched one-offs off. *)
MCGrowthAsk ==
  {MCAskOf("capability", "launch_ads", "shop", "ads.launch", "ads.launch")}

MCGateAsk == MCAsk \cup MCGrowthAsk

(* What is filed: the requests of those calls, a broad standing approval   *)
(* that expires, a standing one for advertising, a one-off for any scope.  *)
MCGrant ==
  {RequestFor(k) : k \in MCGateAsk} \cup
    {MCGrantOf("open_pr", star, star, FALSE, 1),
     MCGrantOf("launch_ads", "shop", star, FALSE, 0),
     MCGrantOf("create_repo", "repo", star, TRUE, 0)}

(* The other asks: a capability that is switched on but needs a review, an *)
(* always-human capability, used or only inspected, and policy explain.    *)
MCRefund ==
  MCAskOf("capability", "change_billing", "shop", "stripe.refund", "stripe.refund")

MCReviewAsk ==
  {MCAskOf("capability", "change_pricing", "shop", "stripe.price", "stripe.price"),
   MCRefund,
   [MCRefund EXCEPT !.preview = TRUE],
   MCAskOf("explain", "change_billing", "shop", NoScope, "stripe.refund")}

MCReviewGrant == {RequestFor(k) : k \in MCReviewAsk}

(* Fresh ids are interchangeable, and so are the calls of one process. *)
MCSymmetry == Permutations({a2, a3, a4}) \cup Permutations({c1, c2, c3})

MCOneProcess == [c \in {c1, c2, c3} |-> daemon]

(* The daemon, and a command run on the command line meanwhile. *)
MCTwoProcesses == [c \in {c1, c2, c3} |-> IF c = c3 THEN cli ELSE daemon]
=============================================================================
