---------------------------- MODULE MCOwnerView ----------------------------
(* A small office: one approval at a time or two, a search and a rebuild   *)
(* over two documents, one run; and a client with projects and deals, some *)
(* of them open - where the passes have work - and others all closed, with *)
(* projects of every kind for the digests.                                 *)
EXTENDS OwnerView, TLC

CONSTANTS d1, d2, s1, s2, c1, q1, q2, o1, o2, r1, r2

Edits == d1 :> 2 @@ d2 :> 1
Queries == s1 :> {"rebuild"} @@ s2 :> {"search", "browse"}

(* For a decision of the company, for one kept to its client, and for one  *)
(* kept to a client of which there is no log.                              *)
Logs == {{"ledger", "scoped"}, {"scoped"}, {}}

Offers == r1 :> {"revenue", "growth", "account_plans", "business"} @@ r2 :> {"revenue"}

ADeal(status, value, margin) ==
  [of |-> c1, status |-> status, value |-> value, margin |-> margin]
AProject(status, idle, runs, failing) ==
  [of |-> c1, status |-> status, repository |-> TRUE, idle |-> idle, runs |-> runs,
   failing |-> failing, stale |-> 0]
Wants(exact) == [names |-> {q2}, exact |-> exact, high |-> TRUE]

Company(status, due, first, second, one, other, asks) ==
  [client |-> (c1 :> [status |-> status, due |-> due]), deal |-> (o1 :> first @@ o2 :> second),
   project |-> (q1 :> one @@ q2 :> other), pending |-> asks]

Idling == AProject("delivered", 14, {}, 0)
Moving == AProject("in_progress", 0, {"working"}, 0)

Sellers ==
  {Company("active", FALSE, ADeal("proposal_sent", 3000, 10), ADeal("lost", 1000, 30),
           Moving, AProject("in_progress", 7, {}, 1), {Wants(FALSE)}),
   Company("lead", TRUE, ADeal("intake", 0, 0), ADeal("stalled", 1000, 0),
           AProject("in_progress", 0, {"needs_human"}, 0), Idling, {Wants(TRUE)})}

Keepers ==
  {Company("active", FALSE, ADeal("won", 3000, 30), ADeal("lost", 1000, 10),
           Idling, AProject(status, 0, runs, failing), asks) :
     status \in {"in_progress", "blocked"}, runs \in {{}, {"needs_human", "working"}},
     failing \in {0, 3}, asks \in {{}, {Wants(TRUE)}}}

Offices == Sellers \cup Keepers
=============================================================================
