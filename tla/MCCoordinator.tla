--------------------------- MODULE MCCoordinator ---------------------------
(***************************************************************************)
(* Three calls out of the kinds that meet: turns that ask for work, with   *)
(* a name, with no more than a mention or without any, for a client to be  *)
(* saved, for a status, or for nothing to be done; an intake over the api, *)
(* for another client under the same project's name; the deletion of a     *)
(* client, a patch, a pass of the revenue pipeline.                        *)
(***************************************************************************)
EXTENDS Coordinator, TLC

CONSTANTS a, b, p

Says(words, named) ==
  [words |-> words, length |-> "some", attached |-> FALSE, named |-> named]
Ask1(kind, message, business, title, mentions) ==
  [kind |-> kind, message |-> message, business |-> business, title |-> title,
   mentions |-> mentions, confirmed |-> kind = "delete"]

Requests ==
  {Ask1("chat", Says({"wants", "website"}, FALSE), NoName, NoName, a),
   Ask1("stream", Says({"save", "client"}, TRUE), a, NoName, NoName),
   Ask1("stream", Says({"status", "website"}, FALSE), NoName, p, a),
   Ask1("stream", Says({"github"}, FALSE), NoName, NoName, NoName),
   Ask1("order", Says({"wants"}, TRUE), b, p, NoName),
   Ask1("delete", Says({}, TRUE), a, NoName, NoName),
   Ask1("patch", Says({}, FALSE), NoName, p, NoName),
   Ask1("qualify", Says({}, FALSE), NoName, NoName, NoName)}

NamedAfter == [q \in Project |-> a]
Label == [k \in Client |-> p]

Same == Permutations(Call) \cup Permutations(Opp)
=============================================================================
