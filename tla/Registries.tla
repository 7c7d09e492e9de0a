----------------------------- MODULE Registries -----------------------------
(***************************************************************************)
(* The registries of clients, projects and opportunities, as the files     *)
(* they are: a directory per client and per project, whose CLIENT.md or    *)
(* PROJECT.md is the record, and one file per opportunity.  A directory    *)
(* without its record is not listed and cannot be created again.  Updates  *)
(* and removals of one process take turns on a path (withFileLock); a      *)
(* second process, which knows nothing of these turns, is left out.        *)
(*                                                                         *)
(* A record is the path it is at and the number of its birth there, which  *)
(* stands for the identifier create() gives it, with its client_id.        *)
(***************************************************************************)
EXTENDS Naturals, FiniteSets

CONSTANTS
  Client, Project,  \* the slugs
  Opp,              \* the identifiers opportunities may get
  Call,             \* the calls of the process
  MaxBirths         \* bound on the records created at one path

Slug == Client \cup Project
Path == Slug \cup Opp

ASSUME RegistriesAssumption ==
  /\ Client # {} /\ Client \cap Project = {} /\ Slug \cap Opp = {}
  /\ MaxBirths \in Nat

(* A client_id; that of a client's own record is not looked at.            *)
ClientId == [slug : Client, birth : 0 .. MaxBirths]
Nobody == [slug |-> CHOOSE k \in Client : TRUE, birth |-> 0]

Record == [birth : 0 .. MaxBirths, client : ClientId]
NoRecord == [birth |-> 0, client |-> Nobody]

VARIABLES
  dirs,    \* the slugs that have a directory
  doc,     \* path -> the record in its file
  births,  \* path -> the records created there so far
  holds    \* call -> the paths it has the turn on

regVars == <<dirs, doc, births, holds>>

RegTypeOK ==
  /\ dirs \subseteq Slug
  /\ doc \in [Path -> Record]
  /\ births \in [Path -> 0 .. MaxBirths]
  /\ holds \in [Call -> SUBSET Path]

RegInit ==
  /\ dirs = {}
  /\ doc = [p \in Path |-> NoRecord]
  /\ births = [p \in Path |-> 0]
  /\ holds = [c \in Call |-> {}]

Found(p) == doc[p] # NoRecord
Fresh(p) == births[p] < MaxBirths /\ (p \in Opp => births[p] = 0)
Free(p) == \A c \in Call : p \notin holds[c]
IdOf(k) == [slug |-> k, birth |-> doc[k].birth]

(* listForClient(): matched on the client's identifier, never its slug.    *)
BelongTo(kind, id) == {p \in kind : Found(p) /\ doc[p].client = id}

MakeDir(s) == dirs' = dirs \cup {s} /\ UNCHANGED <<doc, births, holds>>

(* writeDoc() of a new record; it makes the directory too, and overwrites. *)
WriteNew(p, id) ==
  /\ Fresh(p)
  /\ births' = [births EXCEPT ![p] = @ + 1]
  /\ doc' = [doc EXCEPT ![p] = [birth |-> births[p] + 1, client |-> id]]
  /\ dirs' = IF p \in Slug THEN dirs \cup {p} ELSE dirs
  /\ UNCHANGED holds

(* Seeded fault: nobody waits for a turn.                                  *)
TakeAtOnce(c, p) == holds' = [holds EXCEPT ![c] = @ \cup {p}]

Take(c, p) ==
  /\ Free(p)
  /\ holds' = [holds EXCEPT ![c] = @ \cup {p}]

(* The turn on p is passed on as soon as a read finds nothing there.       *)
ReadToPatch(c, p) == Take(c, p) /\ Found(p) /\ UNCHANGED <<dirs, doc, births>>

WriteBack(c, p, record) ==
  /\ doc' = [doc EXCEPT ![p] = record]
  /\ dirs' = IF p \in Slug THEN dirs \cup {p} ELSE dirs
  /\ holds' = [holds EXCEPT ![c] = @ \ {p}]
  /\ UNCHANGED births

(* rm --recursive, which may be cut off between a record and its           *)
(* directory.                                                              *)
RemoveRecord(c, p) ==
  /\ doc' = [doc EXCEPT ![p] = NoRecord]
  /\ UNCHANGED <<dirs, births, holds>>

RemoveDir(c, s) ==
  /\ dirs' = dirs \ {s}
  /\ holds' = [holds EXCEPT ![c] = @ \ {s}]
  /\ UNCHANGED <<doc, births>>

DropTurns(cs) == holds' = [c \in Call |-> IF c \in cs THEN {} ELSE holds[c]]
=============================================================================
