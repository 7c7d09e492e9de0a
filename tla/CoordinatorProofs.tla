------------------------- MODULE CoordinatorProofs -------------------------
(***************************************************************************)
(* What holds of every message of the owner, and of any number of calls    *)
(* over any clients and projects, whatever overlaps, fails or dies.        *)
(*                                                                         *)
(* The argument: what a call has read or found stays so until it acts on   *)
(* it, because it has the turn on it (Holding, Basis), because a record is *)
(* made only where there is none (Absent), or else because a second call   *)
(* was at work under the same name, and then the name is in crowded.  So a *)
(* step is looked at twice: for the call that takes it, and, as Leaves(),  *)
(* for any other; and only eight steps write a record at all.              *)
(***************************************************************************)
EXTENDS Coordinator, TLAPS

(* A record is written with a birth, and births are counted. *)
RecordsKept ==
  \A p \in Path :
    /\ doc[p].birth <= births[p]
    /\ doc[p].birth = 0 => doc[p] = NoRecord

Exclusive == \A c, e \in Call : c # e => holds[c] \cap holds[e] = {}

(* The names a call makes or deletes records under. *)
Writing == Entering \ {"route", "stream", "name", "look_up", "answer"}
Busy(c) == CASE l[c].pc \in Writing -> {K(c), P(c)}
             [] l[c].pc \in Deleting -> {K(c)}
             [] OTHER -> {}

Remembered == \A c, e \in Call : c # e => Busy(c) \cap Busy(e) \subseteq crowded

(* NoOrphans, with a client that was really born. *)
Owned ==
  \A p \in Project \cup Opp :
    LET id == doc[p].client IN
    Found(p) /\ p \notin crowded =>
      id.birth > 0 /\ (doc[id.slug].birth = id.birth \/ id.slug \in crowded)

(* Whoever is about to write back or to remove has the turn, and what it   *)
(* has read is still there.                                                *)
Holding(c) ==
  /\ l[c].pc = "client_write" => K(c) \in holds[c] /\ Found(K(c))
  /\ l[c].pc = "write_back" =>
       l[c].on \in holds[c] \cap (Project \cup Opp) /\ Found(l[c].on)
  /\ l[c].pc \in Deleting \ {"resolve"} => K(c) \in holds[c]
  /\ l[c].pc \in {"project_rm", "project_rmdir"} => l[c].on \in holds[c] \cap Project
  /\ l[c].pc \in {"cascade", "project_rm", "project_rmdir"} => l[c].todo \subseteq Project
  /\ l[c].pc \in {"opps", "qualify"} => l[c].todo \subseteq Opp
  /\ l[c].pc = "write_back" /\ l[c].on \in Opp => l[c].todo \subseteq Opp

(* Nobody overwrites what a patch has read, unless two calls make it.      *)
Basis(c) ==
  /\ l[c].pc = "client_write" =>
       /\ l[c].base # NoRecord /\ l[c].base.birth = l[c].client
       /\ l[c].base.birth <= births[K(c)]
       /\ doc[K(c)] = l[c].base \/ K(c) \in crowded
  /\ l[c].pc = "write_back" =>
       /\ l[c].base.birth > 0 /\ l[c].base.birth <= births[l[c].on]
       /\ doc[l[c].on] = l[c].base \/ l[c].on \in crowded

(* A record is made where there is none. *)
Absent(c) ==
  /\ l[c].pc \in {"client_dir", "client_doc"} => ~Found(K(c)) \/ K(c) \in crowded
  /\ l[c].pc \in {"project_dir", "project_doc"} => ~Found(P(c)) \/ P(c) \in crowded

WithClient == Writing \ {"client", "client_dir", "client_doc", "client_patch"}

HasClient(c) ==
  l[c].pc \in WithClient =>
    l[c].client > 0 /\ (doc[K(c)].birth = l[c].client \/ K(c) \in crowded)

(* What is left of a deletion, unless another call works on the client.    *)
OfClient(c, p) == Found(p) /\ doc[p].client = ClientIdOf(c)

Cascading(c) ==
  K(c) \notin crowded =>
    /\ l[c].pc \in Deleting \ {"resolve", "client_rmdir"} =>
         l[c].client > 0 /\ doc[K(c)].birth = l[c].client
    /\ l[c].pc \in {"cascade", "project_rm", "project_rmdir"} =>
         \A p \in Project \ crowded : OfClient(c, p) => p \in l[c].todo
    /\ l[c].pc = "project_rmdir" => ~OfClient(c, l[c].on) \/ l[c].on \in crowded
    /\ l[c].pc \in {"opps", "client_rm"} => \A p \in Project \ crowded : ~OfClient(c, p)
    /\ l[c].pc = "opps" => \A o \in Opp : OfClient(c, o) => o \in l[c].todo
    /\ l[c].pc = "client_rm" => \A o \in Opp : ~OfClient(c, o)

(* What a turn has done so far is what its route says. *)
Unnamed == {"idle", "route", "stream", "name", "look_up"}
Lone == {"client", "client_dir", "client_doc", "client_files", "client_patch", "client_write"}
WithProject == {"project_files", "opportunity", "run", "artifacts", "remember"}

SoFar(c) ==
  /\ l[c].pc \in Unnamed \cup Lone \cup {"save", "project", "project_dir", "project_doc",
                                         "project_files", "opportunity"} =>
       c \notin runs /\ l[c].opp = NoOpp
  /\ l[c].pc \in Unnamed => l[c].client = 0
  /\ l[c].pc \in {"idle", "route", "stream"} => l[c].route = "intake"
  /\ l[c].pc \in {"name"} \cup Lone => l[c].route \in {"save_client", "intake"}
  /\ l[c].pc = "look_up" => l[c].route \in {"status", "registry"}
  /\ l[c].pc = "save" => l[c].route = "save_client"
  /\ l[c].pc \in Writing \ (Lone \cup {"save"}) => l[c].route = "intake"
  /\ l[c].pc \in Unnamed \cup Lone \cup {"save"} => l[c].project = 0
  /\ l[c].pc \in WithClient => Lasts(K(c), l[c].client)
  /\ l[c].pc \in WithProject => l[c].project > 0 /\ Lasts(P(c), l[c].project)
  /\ l[c].pc \in {"run", "artifacts", "remember"} => l[c].opp # NoOpp /\ Lasts(l[c].opp, 1)
  /\ l[c].pc \in {"artifacts", "remember"} => c \in runs
  /\ l[c].pc = "remember" => listed[c] = Artifacts(l[c].ask.message)
  /\ l[c].pc = "answer" => Truthful(c, l[c].route)
  /\ told[c] # "nothing" => l[c].pc = "over"
  /\ Truthful(c, told[c])

CallInv(c) ==
  /\ Holding(c) /\ Basis(c) /\ Absent(c) /\ HasClient(c) /\ Cascading(c) /\ SoFar(c)

RegistryInv == RecordsKept /\ Exclusive /\ Remembered /\ Owned
CoordinatorInv == RegistryInv /\ \A c \in Call : CallInv(c)

-----------------------------------------------------------------------------
(* Every variable keeps its type.                                          *)

Pcs == Ended \cup Entering \cup Deleting \cup Patching
Telling == {"nothing"} \cup Mode

LEMMA SlugsThere == Client # {} /\ Project # {} /\ Client \subseteq Path /\ Project \subseteq Path /\ Opp \subseteq Path
<1>1. PICK k \in Client : TRUE
  BY RegistriesAssumption DEF RegistriesAssumption
<1>2. Usual[k] \in Project
  BY <1>1, CoordinatorAssumption DEF CoordinatorAssumption
<1> QED BY <1>1, <1>2 DEF Path, Slug

LEMMA NobodyTyped == Nobody \in ClientId /\ NoRecord \in Record
<1>1. (CHOOSE k \in Client : TRUE) \in Client
  BY RegistriesAssumption DEF RegistriesAssumption
<1>2. 0 \in 0 .. MaxBirths
  BY RegistriesAssumption DEF RegistriesAssumption
<1>3. Nobody \in ClientId
  BY <1>1, <1>2 DEF Nobody, ClientId
<1> QED BY <1>2, <1>3 DEF NoRecord, Record

LEMMA InitTyped == Init => TypeOK
<1> SUFFICES ASSUME Init PROVE TypeOK
  OBVIOUS
<1>1. AClient \in Client /\ AProject \in Project
  BY SlugsThere DEF AClient, AProject
<1>2. 0 \in 0 .. MaxBirths /\ 0 \in 0 .. MaxFaults
  BY RegistriesAssumption, CoordinatorAssumption DEF RegistriesAssumption, CoordinatorAssumption
<1>3. Unasked \in Ask
  BY DEF Unasked, Silence, Ask, Message, Kind
<1>4. Idle \in Local
  BY <1>1, <1>2, <1>3, NobodyTyped, SlugsThere DEF Idle, Local, Ended, Mode
<1>5. l \in [Call -> Local]
  BY <1>4 DEF Init
<1>6. RegTypeOK
  BY <1>2, NobodyTyped DEF Init, RegInit, RegTypeOK
<1>7. faults \in 0 .. MaxFaults
  BY <1>2 DEF Init
<1> QED BY <1>5, <1>6, <1>7 DEF Init, TypeOK

(* What a call does to its own state and to no other's.                    *)
OthersStay(c) == \A e \in Call \ {c} : l'[e] = l[e]

Keeps(c) ==
  /\ l'[c].ask = l[c].ask /\ l'[c].business = l[c].business /\ l'[c].title = l[c].title
  /\ l'[c].project = l[c].project /\ l'[c].opp = l[c].opp

KeepsAll(c) ==
  /\ Keeps(c) /\ l'[c].route = l[c].route /\ l'[c].client = l[c].client
  /\ l'[c].base = l[c].base /\ l'[c].todo = l[c].todo /\ l'[c].on = l[c].on

Goes(c, pc) ==
  /\ l' \in [Call -> Local] /\ OthersStay(c) /\ KeepsAll(c) /\ l'[c].pc = pc

LEMMA SetLocal ==
  ASSUME l \in [Call -> Local], NEW c \in Call, NEW x \in Local, l' = [l EXCEPT ![c] = x]
  PROVE  l' \in [Call -> Local] /\ OthersStay(c) /\ l'[c] = x
BY DEF OthersStay

LEMMA MovedLocal ==
  ASSUME NEW x \in Local, NEW pc \in Pcs
  PROVE  LET y == [x EXCEPT !.pc = pc] IN
         /\ y \in Local /\ y.pc = pc /\ y.ask = x.ask /\ y.route = x.route
         /\ y.business = x.business /\ y.title = x.title /\ y.client = x.client
         /\ y.project = x.project /\ y.opp = x.opp /\ y.base = x.base
         /\ y.todo = x.todo /\ y.on = x.on
BY DEF Local, Pcs

LEMMA GotoGoes ==
  ASSUME l \in [Call -> Local], NEW c \in Call, NEW pc \in Pcs, Goto(c, pc)
  PROVE  Goes(c, pc)
<1> DEFINE x == [l[c] EXCEPT !.pc = pc]
<1>1. x \in Local /\ x.pc = pc /\ x.ask = l[c].ask /\ x.route = l[c].route
      /\ x.business = l[c].business /\ x.title = l[c].title /\ x.client = l[c].client
      /\ x.project = l[c].project /\ x.opp = l[c].opp /\ x.base = l[c].base
      /\ x.todo = l[c].todo /\ x.on = l[c].on
  BY MovedLocal
<1>2. l' = [l EXCEPT ![c] = x]
  BY DEF Goto
<1> HIDE DEF x
<1> QED BY <1>1, <1>2, SetLocal DEF Goes, Keeps, KeepsAll

LEMMA ClientOfTyped == \A a \in Ask : ClientOf(a) \in Client /\ ProjectOf(a) \in Project
<1> SUFFICES ASSUME NEW a \in Ask PROVE ClientOf(a) \in Client /\ ProjectOf(a) \in Project
  OBVIOUS
<1>1. /\ a.mentions \in Client \cup {NoName} /\ a.business \in Client \cup {NoName}
      /\ a.title \in Project \cup {NoName}
  BY DEF Ask
<1>2. ClientOf(a) \in Client
  BY <1>1, CoordinatorAssumption DEF CoordinatorAssumption, ClientOf
<1>3. ProjectOf(a) \in Project
  BY <1>1, <1>2, CoordinatorAssumption DEF CoordinatorAssumption, ProjectOf
<1> QED BY <1>2, <1>3

LEMMA SharedTyped == ASSUME NEW c, NEW names PROVE Shared(c, names) \subseteq names
BY DEF Shared

LEMMA RouteTyped ==
  ASSUME NEW m, NEW plan \in Plan
  PROVE  Route(m, plan) \in {"save_client", "intake"} \cup Answering
BY DEF Route, ByWords, Plan, Answering

LEMMA BeginDoes ==
  ASSUME TypeOK, NEW c \in Call, NEW a \in Asks, Begin(c, a)
  PROVE  /\ l' \in [Call -> Local] /\ OthersStay(c)
         /\ l'[c].pc = FirstStep(a) /\ l'[c].ask = a
         /\ l'[c].route = l[c].route /\ l'[c].business = ClientOf(a)
         /\ l'[c].title = ProjectOf(a) /\ l'[c].client = l[c].client
         /\ l'[c].project = l[c].project /\ l'[c].opp = l[c].opp
         /\ l'[c].base = l[c].base /\ l'[c].todo = l[c].todo
         /\ l'[c].on = l[c].on
<1> DEFINE x == [l[c] EXCEPT !.pc = FirstStep(a), !.ask = a, !.business = ClientOf(a), !.title = ProjectOf(a)]
<1>1. a \in Ask /\ FirstStep(a) \in Entering \cup Deleting \cup Patching /\ ClientOf(a) \in Client /\ ProjectOf(a) \in Project
  BY ClientOfTyped, CoordinatorAssumption
     DEF CoordinatorAssumption, FirstStep, Ask, Kind, Entering, Deleting, Patching
<1>2. /\ x \in Local
      /\ x.pc = FirstStep(a) /\ x.ask = a /\ x.route = l[c].route
      /\ x.business = ClientOf(a) /\ x.title = ProjectOf(a)
      /\ x.client = l[c].client /\ x.project = l[c].project
      /\ x.opp = l[c].opp /\ x.base = l[c].base /\ x.todo = l[c].todo
      /\ x.on = l[c].on
  BY ZenonT(60), <1>1 DEF TypeOK, Local
<1>3. l' = [l EXCEPT ![c] = x]
  BY DEF Begin
<1> HIDE DEF x
<1> QED BY <1>2, <1>3, SetLocal DEF TypeOK

LEMMA WriteClientDoes ==
  ASSUME TypeOK, NEW c \in Call, WriteClient(c)
  PROVE  /\ l' \in [Call -> Local] /\ OthersStay(c)
         /\ l'[c].pc = "client_files" /\ l'[c].ask = l[c].ask
         /\ l'[c].route = l[c].route /\ l'[c].business = l[c].business
         /\ l'[c].title = l[c].title /\ l'[c].client = births[K(c)] + 1
         /\ l'[c].project = l[c].project /\ l'[c].opp = l[c].opp
         /\ l'[c].base = l[c].base /\ l'[c].todo = l[c].todo
         /\ l'[c].on = l[c].on
<1> DEFINE x == [l[c] EXCEPT !.pc = "client_files", !.client = births[K(c)] + 1]
<1>1. births[K(c)] + 1 \in 0 .. MaxBirths /\ "client_files" \in Entering
  BY SlugsThere, RegistriesAssumption
     DEF RegistriesAssumption, WriteClient, WriteNew, Fresh, TypeOK, RegTypeOK, K, Local, Entering
<1>2. /\ x \in Local
      /\ x.pc = "client_files" /\ x.ask = l[c].ask /\ x.route = l[c].route
      /\ x.business = l[c].business /\ x.title = l[c].title
      /\ x.client = births[K(c)] + 1 /\ x.project = l[c].project
      /\ x.opp = l[c].opp /\ x.base = l[c].base /\ x.todo = l[c].todo
      /\ x.on = l[c].on
  BY ZenonT(60), <1>1 DEF TypeOK, Local
<1>3. l' = [l EXCEPT ![c] = x]
  BY DEF WriteClient
<1> HIDE DEF x
<1> QED BY <1>2, <1>3, SetLocal DEF TypeOK

LEMMA WriteProjectDoes ==
  ASSUME TypeOK, NEW c \in Call, WriteProject(c)
  PROVE  /\ l' \in [Call -> Local] /\ OthersStay(c)
         /\ l'[c].pc = "project_files" /\ l'[c].ask = l[c].ask
         /\ l'[c].route = l[c].route /\ l'[c].business = l[c].business
         /\ l'[c].title = l[c].title /\ l'[c].client = l[c].client
         /\ l'[c].project = births[P(c)] + 1 /\ l'[c].opp = l[c].opp
         /\ l'[c].base = l[c].base /\ l'[c].todo = l[c].todo
         /\ l'[c].on = l[c].on
<1> DEFINE x == [l[c] EXCEPT !.pc = "project_files", !.project = births[P(c)] + 1]
<1>1. births[P(c)] + 1 \in 0 .. MaxBirths /\ "project_files" \in Entering
  BY SlugsThere, RegistriesAssumption
     DEF RegistriesAssumption, WriteProject, WriteNew, Fresh, TypeOK, RegTypeOK, P, Local, Entering
<1>2. /\ x \in Local
      /\ x.pc = "project_files" /\ x.ask = l[c].ask /\ x.route = l[c].route
      /\ x.business = l[c].business /\ x.title = l[c].title
      /\ x.client = l[c].client /\ x.project = births[P(c)] + 1
      /\ x.opp = l[c].opp /\ x.base = l[c].base /\ x.todo = l[c].todo
      /\ x.on = l[c].on
  BY ZenonT(60), <1>1 DEF TypeOK, Local
<1>3. l' = [l EXCEPT ![c] = x]
  BY DEF WriteProject
<1> HIDE DEF x
<1> QED BY <1>2, <1>3, SetLocal DEF TypeOK

LEMMA ReadClientFoundDoes ==
  ASSUME TypeOK, NEW c \in Call,
         l' = [l EXCEPT ![c].pc = "client_write", ![c].base = doc[K(c)],
                        ![c].client = doc[K(c)].birth]
  PROVE  /\ l' \in [Call -> Local] /\ OthersStay(c)
         /\ l'[c].pc = "client_write" /\ l'[c].ask = l[c].ask
         /\ l'[c].route = l[c].route /\ l'[c].business = l[c].business
         /\ l'[c].title = l[c].title /\ l'[c].client = doc[K(c)].birth
         /\ l'[c].project = l[c].project /\ l'[c].opp = l[c].opp
         /\ l'[c].base = doc[K(c)] /\ l'[c].todo = l[c].todo
         /\ l'[c].on = l[c].on
<1> DEFINE x == [l[c] EXCEPT !.pc = "client_write", !.base = doc[K(c)], !.client = doc[K(c)].birth]
<1>1. doc[K(c)] \in Record /\ doc[K(c)].birth \in 0 .. MaxBirths /\ "client_write" \in Entering
  BY SlugsThere DEF TypeOK, RegTypeOK, K, Local, Record, Entering
<1>2. /\ x \in Local
      /\ x.pc = "client_write" /\ x.ask = l[c].ask /\ x.route = l[c].route
      /\ x.business = l[c].business /\ x.title = l[c].title
      /\ x.client = doc[K(c)].birth /\ x.project = l[c].project
      /\ x.opp = l[c].opp /\ x.base = doc[K(c)] /\ x.todo = l[c].todo
      /\ x.on = l[c].on
  BY ZenonT(60), <1>1 DEF TypeOK, Local
<1>3. l' = [l EXCEPT ![c] = x]
  OBVIOUS
<1> HIDE DEF x
<1> QED BY <1>2, <1>3, SetLocal DEF TypeOK

FoundProject(c) ==
  CASE Found(P(c)) -> "opportunity"
    [] P(c) \in dirs /\ ~Found(P(c)) -> "thrown"
    [] OTHER -> "project_dir"

LEMMA FindProjectDoes ==
  ASSUME TypeOK, NEW c \in Call, FindProject(c)
  PROVE  /\ l' \in [Call -> Local] /\ OthersStay(c)
         /\ l'[c].pc = FoundProject(c) /\ l'[c].ask = l[c].ask
         /\ l'[c].route = l[c].route /\ l'[c].business = l[c].business
         /\ l'[c].title = l[c].title /\ l'[c].client = l[c].client
         /\ l'[c].project = doc[P(c)].birth /\ l'[c].opp = l[c].opp
         /\ l'[c].base = l[c].base /\ l'[c].todo = l[c].todo
         /\ l'[c].on = l[c].on
<1> DEFINE x == [l[c] EXCEPT !.pc = FoundProject(c), !.project = doc[P(c)].birth]
<1>1. doc[P(c)].birth \in 0 .. MaxBirths /\ FoundProject(c) \in Ended \cup Entering
  BY SlugsThere DEF TypeOK, RegTypeOK, P, Local, Record, FoundProject, Ended, Entering
<1>2. /\ x \in Local
      /\ x.pc = FoundProject(c) /\ x.ask = l[c].ask /\ x.route = l[c].route
      /\ x.business = l[c].business /\ x.title = l[c].title
      /\ x.client = l[c].client /\ x.project = doc[P(c)].birth
      /\ x.opp = l[c].opp /\ x.base = l[c].base /\ x.todo = l[c].todo
      /\ x.on = l[c].on
  BY ZenonT(60), <1>1 DEF TypeOK, Local
<1>3. l' = [l EXCEPT ![c] = x]
  BY DEF FindProject, FoundProject
<1> HIDE DEF x
<1> QED BY <1>2, <1>3, SetLocal DEF TypeOK

LEMMA OpportunityMadeDoes ==
  ASSUME TypeOK, NEW c \in Call, NEW o \in Opp,
         l' = [l EXCEPT ![c].pc = "run", ![c].opp = o]
  PROVE  /\ l' \in [Call -> Local] /\ OthersStay(c)
         /\ l'[c].pc = "run" /\ l'[c].ask = l[c].ask
         /\ l'[c].route = l[c].route /\ l'[c].business = l[c].business
         /\ l'[c].title = l[c].title /\ l'[c].client = l[c].client
         /\ l'[c].project = l[c].project /\ l'[c].opp = o
         /\ l'[c].base = l[c].base /\ l'[c].todo = l[c].todo
         /\ l'[c].on = l[c].on
<1> DEFINE x == [l[c] EXCEPT !.pc = "run", !.opp = o]
<1>1. o \in Opp \cup {NoOpp} /\ "run" \in Entering
  BY DEF Entering
<1>2. /\ x \in Local
      /\ x.pc = "run" /\ x.ask = l[c].ask /\ x.route = l[c].route
      /\ x.business = l[c].business /\ x.title = l[c].title
      /\ x.client = l[c].client /\ x.project = l[c].project /\ x.opp = o
      /\ x.base = l[c].base /\ x.todo = l[c].todo /\ x.on = l[c].on
  BY ZenonT(60), <1>1 DEF TypeOK, Local
<1>3. l' = [l EXCEPT ![c] = x]
  OBVIOUS
<1> HIDE DEF x
<1> QED BY <1>2, <1>3, SetLocal DEF TypeOK

LEMMA ClientResolvedDoes ==
  ASSUME TypeOK, NEW c \in Call,
         l' = [l EXCEPT ![c].client = doc[K(c)].birth,
                        ![c].todo = BelongTo(Project, IdOf(K(c))), ![c].pc = "cascade"]
  PROVE  /\ l' \in [Call -> Local] /\ OthersStay(c)
         /\ l'[c].pc = "cascade" /\ l'[c].ask = l[c].ask
         /\ l'[c].route = l[c].route /\ l'[c].business = l[c].business
         /\ l'[c].title = l[c].title /\ l'[c].client = doc[K(c)].birth
         /\ l'[c].project = l[c].project /\ l'[c].opp = l[c].opp
         /\ l'[c].base = l[c].base
         /\ l'[c].todo = BelongTo(Project, IdOf(K(c))) /\ l'[c].on = l[c].on
<1> DEFINE x == [l[c] EXCEPT !.pc = "cascade", !.client = doc[K(c)].birth, !.todo = BelongTo(Project, IdOf(K(c)))]
<1>1. doc[K(c)].birth \in 0 .. MaxBirths /\ "cascade" \in Deleting /\ BelongTo(Project, IdOf(K(c))) \subseteq Project
  BY SlugsThere DEF TypeOK, RegTypeOK, K, Local, Record, BelongTo, Deleting
<1>2. /\ x \in Local
      /\ x.pc = "cascade" /\ x.ask = l[c].ask /\ x.route = l[c].route
      /\ x.business = l[c].business /\ x.title = l[c].title
      /\ x.client = doc[K(c)].birth /\ x.project = l[c].project
      /\ x.opp = l[c].opp /\ x.base = l[c].base
      /\ x.todo = BelongTo(Project, IdOf(K(c))) /\ x.on = l[c].on
  BY ZenonT(60), <1>1 DEF TypeOK, Local
<1>3. l' = [l EXCEPT ![c] = x]
  OBVIOUS
<1> HIDE DEF x
<1> QED BY <1>2, <1>3, SetLocal DEF TypeOK

LEMMA ProjectTakenDoes ==
  ASSUME TypeOK, NEW c \in Call, NEW p \in Project \cup Opp,
         l' = [l EXCEPT ![c].on = p, ![c].pc = "project_rm"]
  PROVE  /\ l' \in [Call -> Local] /\ OthersStay(c)
         /\ l'[c].pc = "project_rm" /\ l'[c].ask = l[c].ask
         /\ l'[c].route = l[c].route /\ l'[c].business = l[c].business
         /\ l'[c].title = l[c].title /\ l'[c].client = l[c].client
         /\ l'[c].project = l[c].project /\ l'[c].opp = l[c].opp
         /\ l'[c].base = l[c].base /\ l'[c].todo = l[c].todo /\ l'[c].on = p
<1> DEFINE x == [l[c] EXCEPT !.pc = "project_rm", !.on = p]
<1>1. p \in Path /\ "project_rm" \in Deleting
  BY SlugsThere DEF Deleting
<1>2. /\ x \in Local
      /\ x.pc = "project_rm" /\ x.ask = l[c].ask /\ x.route = l[c].route
      /\ x.business = l[c].business /\ x.title = l[c].title
      /\ x.client = l[c].client /\ x.project = l[c].project
      /\ x.opp = l[c].opp /\ x.base = l[c].base /\ x.todo = l[c].todo
      /\ x.on = p
  BY ZenonT(60), <1>1 DEF TypeOK, Local
<1>3. l' = [l EXCEPT ![c] = x]
  OBVIOUS
<1> HIDE DEF x
<1> QED BY <1>2, <1>3, SetLocal DEF TypeOK

LEMMA ProjectsGoneDoes ==
  ASSUME TypeOK, NEW c \in Call,
         l' = [l EXCEPT ![c].todo = BelongTo(Opp, ClientIdOf(c)), ![c].pc = "opps"]
  PROVE  /\ l' \in [Call -> Local] /\ OthersStay(c)
         /\ l'[c].pc = "opps" /\ l'[c].ask = l[c].ask
         /\ l'[c].route = l[c].route /\ l'[c].business = l[c].business
         /\ l'[c].title = l[c].title /\ l'[c].client = l[c].client
         /\ l'[c].project = l[c].project /\ l'[c].opp = l[c].opp
         /\ l'[c].base = l[c].base
         /\ l'[c].todo = BelongTo(Opp, ClientIdOf(c)) /\ l'[c].on = l[c].on
<1> DEFINE x == [l[c] EXCEPT !.pc = "opps", !.todo = BelongTo(Opp, ClientIdOf(c))]
<1>1. "opps" \in Deleting /\ BelongTo(Opp, ClientIdOf(c)) \subseteq Opp
  BY DEF BelongTo, Deleting
<1>2. /\ x \in Local
      /\ x.pc = "opps" /\ x.ask = l[c].ask /\ x.route = l[c].route
      /\ x.business = l[c].business /\ x.title = l[c].title
      /\ x.client = l[c].client /\ x.project = l[c].project
      /\ x.opp = l[c].opp /\ x.base = l[c].base
      /\ x.todo = BelongTo(Opp, ClientIdOf(c)) /\ x.on = l[c].on
  BY ZenonT(60), <1>1 DEF TypeOK, Local
<1>3. l' = [l EXCEPT ![c] = x]
  OBVIOUS
<1> HIDE DEF x
<1> QED BY <1>2, <1>3, SetLocal DEF TypeOK

LEMMA RemoveProjectDirDoes ==
  ASSUME TypeOK, NEW c \in Call, RemoveProjectDir(c)
  PROVE  /\ l' \in [Call -> Local] /\ OthersStay(c)
         /\ l'[c].pc = "cascade" /\ l'[c].ask = l[c].ask
         /\ l'[c].route = l[c].route /\ l'[c].business = l[c].business
         /\ l'[c].title = l[c].title /\ l'[c].client = l[c].client
         /\ l'[c].project = l[c].project /\ l'[c].opp = l[c].opp
         /\ l'[c].base = l[c].base /\ l'[c].todo = l[c].todo \ {l[c].on}
         /\ l'[c].on = l[c].on
<1> DEFINE x == [l[c] EXCEPT !.pc = "cascade", !.todo = l[c].todo \ {l[c].on}]
<1>1. l[c].todo \ {l[c].on} \subseteq Project \cup Opp /\ "cascade" \in Deleting
  BY DEF TypeOK, Local, Deleting
<1>2. /\ x \in Local
      /\ x.pc = "cascade" /\ x.ask = l[c].ask /\ x.route = l[c].route
      /\ x.business = l[c].business /\ x.title = l[c].title
      /\ x.client = l[c].client /\ x.project = l[c].project
      /\ x.opp = l[c].opp /\ x.base = l[c].base
      /\ x.todo = l[c].todo \ {l[c].on} /\ x.on = l[c].on
  BY ZenonT(60), <1>1 DEF TypeOK, Local
<1>3. l' = [l EXCEPT ![c] = x]
  BY DEF RemoveProjectDir
<1> HIDE DEF x
<1> QED BY <1>2, <1>3, SetLocal DEF TypeOK

LEMMA OpportunityRemovedDoes ==
  ASSUME TypeOK, NEW c \in Call, NEW o,
         l' = [l EXCEPT ![c].todo = @ \ {o}]
  PROVE  /\ l' \in [Call -> Local] /\ OthersStay(c)
         /\ l'[c].pc = l[c].pc /\ l'[c].ask = l[c].ask
         /\ l'[c].route = l[c].route /\ l'[c].business = l[c].business
         /\ l'[c].title = l[c].title /\ l'[c].client = l[c].client
         /\ l'[c].project = l[c].project /\ l'[c].opp = l[c].opp
         /\ l'[c].base = l[c].base /\ l'[c].todo = l[c].todo \ {o}
         /\ l'[c].on = l[c].on
<1> DEFINE x == [l[c] EXCEPT !.todo = l[c].todo \ {o}]
<1>1. l[c].todo \ {o} \subseteq Project \cup Opp
  BY DEF TypeOK, Local
<1>2. /\ x \in Local
      /\ x.pc = l[c].pc /\ x.ask = l[c].ask /\ x.route = l[c].route
      /\ x.business = l[c].business /\ x.title = l[c].title
      /\ x.client = l[c].client /\ x.project = l[c].project
      /\ x.opp = l[c].opp /\ x.base = l[c].base /\ x.todo = l[c].todo \ {o}
      /\ x.on = l[c].on
  BY <1>1 DEF TypeOK, Local
<1>3. l' = [l EXCEPT ![c] = x]
  OBVIOUS
<1> HIDE DEF x
<1> QED BY <1>2, <1>3, SetLocal DEF TypeOK

LEMMA ProjectReadDoes ==
  ASSUME TypeOK, NEW c \in Call,
         l' = [l EXCEPT ![c].pc = "write_back", ![c].on = P(c), ![c].base = doc[P(c)]]
  PROVE  /\ l' \in [Call -> Local] /\ OthersStay(c)
         /\ l'[c].pc = "write_back" /\ l'[c].ask = l[c].ask
         /\ l'[c].route = l[c].route /\ l'[c].business = l[c].business
         /\ l'[c].title = l[c].title /\ l'[c].client = l[c].client
         /\ l'[c].project = l[c].project /\ l'[c].opp = l[c].opp
         /\ l'[c].base = doc[P(c)] /\ l'[c].todo = l[c].todo
         /\ l'[c].on = P(c)
<1> DEFINE x == [l[c] EXCEPT !.pc = "write_back", !.on = P(c), !.base = doc[P(c)]]
<1>1. doc[P(c)] \in Record /\ P(c) \in Path /\ "write_back" \in Patching
  BY SlugsThere DEF TypeOK, RegTypeOK, P, Local, Patching
<1>2. /\ x \in Local
      /\ x.pc = "write_back" /\ x.ask = l[c].ask /\ x.route = l[c].route
      /\ x.business = l[c].business /\ x.title = l[c].title
      /\ x.client = l[c].client /\ x.project = l[c].project
      /\ x.opp = l[c].opp /\ x.base = doc[P(c)] /\ x.todo = l[c].todo
      /\ x.on = P(c)
  BY ZenonT(60), <1>1 DEF TypeOK, Local
<1>3. l' = [l EXCEPT ![c] = x]
  OBVIOUS
<1> HIDE DEF x
<1> QED BY <1>2, <1>3, SetLocal DEF TypeOK

LEMMA OpportunityReadDoes ==
  ASSUME TypeOK, NEW c \in Call, NEW o \in l[c].todo,
         l' = [l EXCEPT ![c].pc = "write_back", ![c].on = o, ![c].base = doc[o]]
  PROVE  /\ l' \in [Call -> Local] /\ OthersStay(c)
         /\ l'[c].pc = "write_back" /\ l'[c].ask = l[c].ask
         /\ l'[c].route = l[c].route /\ l'[c].business = l[c].business
         /\ l'[c].title = l[c].title /\ l'[c].client = l[c].client
         /\ l'[c].project = l[c].project /\ l'[c].opp = l[c].opp
         /\ l'[c].base = doc[o] /\ l'[c].todo = l[c].todo /\ l'[c].on = o
<1> DEFINE x == [l[c] EXCEPT !.pc = "write_back", !.on = o, !.base = doc[o]]
<1>1. doc[o] \in Record /\ o \in Path /\ "write_back" \in Patching
  <2>1. o \in Path
    BY SlugsThere DEF TypeOK, Local
  <2> QED BY <2>1 DEF TypeOK, RegTypeOK, Patching
<1>2. /\ x \in Local
      /\ x.pc = "write_back" /\ x.ask = l[c].ask /\ x.route = l[c].route
      /\ x.business = l[c].business /\ x.title = l[c].title
      /\ x.client = l[c].client /\ x.project = l[c].project
      /\ x.opp = l[c].opp /\ x.base = doc[o] /\ x.todo = l[c].todo /\ x.on = o
  BY ZenonT(60), <1>1 DEF TypeOK, Local
<1>3. l' = [l EXCEPT ![c] = x]
  OBVIOUS
<1> HIDE DEF x
<1> QED BY <1>2, <1>3, SetLocal DEF TypeOK

LEMMA ListOpenDoes ==
  ASSUME TypeOK, NEW c \in Call, ListOpen(c)
  PROVE  /\ l' \in [Call -> Local] /\ OthersStay(c)
         /\ l'[c].pc = "qualify" /\ l'[c].ask = l[c].ask
         /\ l'[c].route = l[c].route /\ l'[c].business = l[c].business
         /\ l'[c].title = l[c].title /\ l'[c].client = l[c].client
         /\ l'[c].project = l[c].project /\ l'[c].opp = l[c].opp
         /\ l'[c].base = l[c].base /\ l'[c].todo = {o \in Opp : Found(o)}
         /\ l'[c].on = l[c].on
<1> DEFINE x == [l[c] EXCEPT !.pc = "qualify", !.todo = {o \in Opp : Found(o)}]
<1>1. {o \in Opp : Found(o)} \subseteq Project \cup Opp /\ "qualify" \in Patching
  BY DEF Patching
<1>2. /\ x \in Local
      /\ x.pc = "qualify" /\ x.ask = l[c].ask /\ x.route = l[c].route
      /\ x.business = l[c].business /\ x.title = l[c].title
      /\ x.client = l[c].client /\ x.project = l[c].project
      /\ x.opp = l[c].opp /\ x.base = l[c].base
      /\ x.todo = {o \in Opp : Found(o)} /\ x.on = l[c].on
  BY ZenonT(60), <1>1 DEF TypeOK, Local
<1>3. l' = [l EXCEPT ![c] = x]
  BY DEF ListOpen
<1> HIDE DEF x
<1> QED BY <1>2, <1>3, SetLocal DEF TypeOK

LEMMA PatchDoes ==
  ASSUME TypeOK, NEW c \in Call, Patch(c)
  PROVE  /\ l' \in [Call -> Local] /\ OthersStay(c)
         /\ l'[c].pc = IF l[c].on \in Opp THEN "qualify" ELSE "over"
         /\ l'[c].ask = l[c].ask /\ l'[c].route = l[c].route
         /\ l'[c].business = l[c].business /\ l'[c].title = l[c].title
         /\ l'[c].client = l[c].client /\ l'[c].project = l[c].project
         /\ l'[c].opp = l[c].opp /\ l'[c].base = l[c].base
         /\ l'[c].todo = l[c].todo \ {l[c].on} /\ l'[c].on = l[c].on
<1> DEFINE x == [l[c] EXCEPT !.pc = IF l[c].on \in Opp THEN "qualify" ELSE "over", !.todo = l[c].todo \ {l[c].on}]
<1>1. l[c].todo \ {l[c].on} \subseteq Project \cup Opp /\ {"qualify", "over"} \subseteq Ended \cup Patching
  BY DEF TypeOK, Local, Ended, Patching
<1>2. /\ x \in Local
      /\ x.pc = IF l[c].on \in Opp THEN "qualify" ELSE "over"
      /\ x.ask = l[c].ask /\ x.route = l[c].route
      /\ x.business = l[c].business /\ x.title = l[c].title
      /\ x.client = l[c].client /\ x.project = l[c].project
      /\ x.opp = l[c].opp /\ x.base = l[c].base
      /\ x.todo = l[c].todo \ {l[c].on} /\ x.on = l[c].on
  BY ZenonT(60), <1>1 DEF TypeOK, Local
<1>3. l' = [l EXCEPT ![c] = x]
  BY DEF Patch
<1> HIDE DEF x
<1> QED BY <1>2, <1>3, SetLocal DEF TypeOK

(* The routes, as far as they differ in where they lead. *)
Routed(c, route, pc) ==
  /\ l' \in [Call -> Local] /\ OthersStay(c) /\ Keeps(c)
  /\ l'[c].client = l[c].client /\ l'[c].pc = pc /\ l'[c].route = route

LEMMA SetRoute ==
  ASSUME TypeOK, NEW c \in Call, NEW route \in Mode, NEW pc \in Entering,
         l' = [l EXCEPT ![c].route = route, ![c].pc = pc]
  PROVE  Routed(c, route, pc)
<1> DEFINE x == [l[c] EXCEPT !.route = route, !.pc = pc]
<1>1. /\ x \in Local /\ x.pc = pc /\ x.route = route /\ x.ask = l[c].ask
      /\ x.business = l[c].business /\ x.title = l[c].title /\ x.client = l[c].client
      /\ x.project = l[c].project /\ x.opp = l[c].opp
  BY ZenonT(60) DEF TypeOK, Local
<1>2. l' = [l EXCEPT ![c] = x]
  OBVIOUS
<1> HIDE DEF x
<1> QED BY <1>1, <1>2, SetLocal DEF TypeOK, Routed, Keeps

RouteStep(route) == CASE route \in {"status", "registry"} -> "look_up"
                      [] route \in {"save_client", "intake"} -> "name"
                      [] OTHER -> "answer"

LEMMA TakeRouteDoes ==
  ASSUME TypeOK, NEW c \in Call, TakeRoute(c)
  PROVE  \E route \in {"save_client", "intake"} \cup Answering :
           Routed(c, route, RouteStep(route))
<1>1. PICK plan \in Plan :
        LET route == Route(l[c].ask.message, plan) IN
        l' = [l EXCEPT ![c].route = route, ![c].pc = RouteStep(route)]
  BY DEF TakeRoute, RouteStep
<1> DEFINE route == Route(l[c].ask.message, plan)
<1>2. route \in {"save_client", "intake"} \cup Answering
  BY RouteTyped
<1>3. l' = [l EXCEPT ![c].route = route, ![c].pc = RouteStep(route)]
  BY <1>1
<1> HIDE DEF route
<1>4. route \in Mode /\ RouteStep(route) \in Entering
  BY <1>2 DEF Mode, Answering, Entering, RouteStep
<1> QED BY <1>2, <1>3, <1>4, SetRoute

LEMMA TakeStreamDoes ==
  ASSUME TypeOK, NEW c \in Call, TakeStream(c)
  PROVE  \/ Goes(c, "route")
         \/ StreamsDirectly(l[c].ask.message) /\ Routed(c, "answer", "answer")
<1>1. CASE StreamsDirectly(l[c].ask.message)
  BY <1>1, SetRoute DEF TakeStream, Mode, Entering
<1>2. CASE ~StreamsDirectly(l[c].ask.message)
  BY <1>2, GotoGoes DEF TakeStream, TypeOK, Pcs, Entering
<1> QED BY <1>1, <1>2

LEMMA NameDoes ==
  ASSUME TypeOK, NEW c \in Call, Name(c)
  PROVE  \E k \in Client, p \in Project :
           /\ l' \in [Call -> Local] /\ OthersStay(c)
           /\ l'[c].pc = "client" /\ l'[c].business = k /\ l'[c].title = p
           /\ l'[c].ask = l[c].ask /\ l'[c].route = l[c].route
           /\ l'[c].client = l[c].client /\ l'[c].project = l[c].project
           /\ l'[c].opp = l[c].opp
           /\ crowded' = crowded \cup Shared(c, {k, p})
<1> DEFINE known == /\ l[c].route = "intake" /\ l[c].ask.mentions # NoName
                    /\ Found(l[c].ask.mentions)
           asked == IF known THEN l[c].ask ELSE [l[c].ask EXCEPT !.mentions = NoName]
           k == ClientOf(asked)
           p == ProjectOf(asked)
           x == [l[c] EXCEPT !.pc = "client", !.business = k, !.title = p]
<1>1. asked \in Ask
  BY DEF TypeOK, Local, Ask
<1>2. /\ l' = [l EXCEPT ![c].pc = "client", ![c].business = k, ![c].title = p]
      /\ crowded' = crowded \cup Shared(c, {k, p})
  BY DEF Name
<1> HIDE DEF asked
<1>3. k \in Client /\ p \in Project
  BY <1>1, ClientOfTyped
<1> HIDE DEF k, p
<1>4. /\ x \in Local /\ x.pc = "client" /\ x.business = k /\ x.title = p
      /\ x.ask = l[c].ask /\ x.route = l[c].route /\ x.client = l[c].client
      /\ x.project = l[c].project /\ x.opp = l[c].opp
  <2>1. l[c] \in Local /\ "client" \in Entering
    BY DEF TypeOK, Entering
  <2> QED BY <1>3, <2>1 DEF Local
<1>5. l' = [l EXCEPT ![c] = x]
  BY <1>2
<1> HIDE DEF x
<1>6. l' \in [Call -> Local] /\ OthersStay(c) /\ l'[c] = x
  BY <1>4, <1>5, SetLocal DEF TypeOK
<1> QED BY <1>2, <1>3, <1>4, <1>6, Zenon

LEMMA KeysTyped ==
  ASSUME TypeOK, NEW c \in Call
  PROVE  /\ K(c) \in Client /\ P(c) \in Project
         /\ K(c) \in Slug /\ P(c) \in Slug /\ K(c) \in Path /\ P(c) \in Path
         /\ l[c].on \in Path /\ l[c].base \in Record
         /\ l[c].todo \subseteq Project \cup Opp /\ l[c].todo \subseteq Path
         /\ l[c].client \in 0 .. MaxBirths /\ ClientIdOf(c) \in ClientId
<1>1. l[c] \in Local
  BY DEF TypeOK
<1>2. /\ K(c) \in Client /\ P(c) \in Project /\ l[c].on \in Path /\ l[c].base \in Record
      /\ l[c].todo \subseteq Project \cup Opp /\ l[c].client \in 0 .. MaxBirths
  BY <1>1 DEF Local, K, P
<1> QED BY <1>2 DEF Slug, Path, ClientIdOf, ClientId

(* What the operations of the registries do to one record and one turn.    *)
OnlyDoc(p, record) == doc'[p] = record /\ \A q \in Path \ {p} : doc'[q] = doc[q]
OnlyHolds(c, paths) == holds'[c] = paths /\ \A e \in Call \ {c} : holds'[e] = holds[e]

LEMMA MakeDirDoes ==
  ASSUME RegTypeOK, NEW s \in Slug, MakeDir(s)
  PROVE  RegTypeOK' /\ doc' = doc /\ births' = births /\ holds' = holds
BY DEF RegTypeOK, MakeDir

LEMMA WriteNewDoes ==
  ASSUME RegTypeOK, NEW p \in Path, NEW id \in ClientId, WriteNew(p, id)
  PROVE  /\ RegTypeOK' /\ holds' = holds
         /\ OnlyDoc(p, [birth |-> births[p] + 1, client |-> id])
         /\ births'[p] = births[p] + 1
         /\ \A q \in Path \ {p} : births'[q] = births[q]
<1>1. births[p] + 1 \in 0 .. MaxBirths
  BY RegistriesAssumption DEF RegistriesAssumption, WriteNew, Fresh, RegTypeOK
<1> DEFINE record == [birth |-> births[p] + 1, client |-> id]
<1>2. record \in Record
  BY <1>1 DEF Record
<1>3. doc' = [doc EXCEPT ![p] = record] /\ births' = [births EXCEPT ![p] = births[p] + 1]
  BY DEF WriteNew
<1> HIDE DEF record
<1>4. doc' \in [Path -> Record] /\ OnlyDoc(p, record)
  BY <1>2, <1>3 DEF RegTypeOK, OnlyDoc
<1>5. /\ births' \in [Path -> 0 .. MaxBirths] /\ births'[p] = births[p] + 1
      /\ \A q \in Path \ {p} : births'[q] = births[q]
  BY <1>1, <1>3 DEF RegTypeOK
<1>6. dirs' \subseteq Slug /\ holds' = holds
  BY DEF WriteNew, RegTypeOK
<1>7. RegTypeOK'
  BY <1>4, <1>5, <1>6 DEF RegTypeOK
<1> QED BY <1>4, <1>5, <1>6, <1>7 DEF record

LEMMA TakeDoes ==
  ASSUME RegTypeOK, NEW c \in Call, NEW p \in Path, Take(c, p),
         UNCHANGED <<dirs, doc, births>>
  PROVE  RegTypeOK' /\ OnlyHolds(c, holds[c] \cup {p}) /\ Free(p)
<1>1. holds' = [holds EXCEPT ![c] = holds[c] \cup {p}] /\ Free(p)
  BY DEF Take
<1>2. holds[c] \cup {p} \subseteq Path
  BY DEF RegTypeOK
<1> QED BY <1>1, <1>2 DEF RegTypeOK, OnlyHolds

LEMMA WriteBackDoes ==
  ASSUME RegTypeOK, NEW c \in Call, NEW p \in Path, NEW record \in Record,
         WriteBack(c, p, record)
  PROVE  RegTypeOK' /\ OnlyDoc(p, record) /\ OnlyHolds(c, holds[c] \ {p}) /\ births' = births
<1>1. /\ doc' = [doc EXCEPT ![p] = record] /\ holds' = [holds EXCEPT ![c] = holds[c] \ {p}]
      /\ births' = births /\ dirs' \in {dirs, dirs \cup {p}} /\ (p \notin Slug => dirs' = dirs)
  BY DEF WriteBack
<1>2. doc' \in [Path -> Record] /\ OnlyDoc(p, record)
  BY <1>1 DEF RegTypeOK, OnlyDoc
<1>3. holds' \in [Call -> SUBSET Path] /\ OnlyHolds(c, holds[c] \ {p})
  BY <1>1 DEF RegTypeOK, OnlyHolds
<1>4. dirs' \subseteq Slug
  BY <1>1 DEF RegTypeOK
<1> QED BY <1>1, <1>2, <1>3, <1>4 DEF RegTypeOK

LEMMA RemoveRecordDoes ==
  ASSUME RegTypeOK, NEW c, NEW p \in Path, RemoveRecord(c, p)
  PROVE  RegTypeOK' /\ OnlyDoc(p, NoRecord) /\ holds' = holds /\ births' = births
BY NobodyTyped DEF RegTypeOK, RemoveRecord, OnlyDoc

LEMMA RemoveDirDoes ==
  ASSUME RegTypeOK, NEW c \in Call, NEW s, RemoveDir(c, s)
  PROVE  RegTypeOK' /\ OnlyHolds(c, holds[c] \ {s}) /\ doc' = doc /\ births' = births
<1>1. holds' = [holds EXCEPT ![c] = holds[c] \ {s}]
  BY DEF RemoveDir
<1>2. holds' \in [Call -> SUBSET Path] /\ OnlyHolds(c, holds[c] \ {s})
  BY <1>1 DEF RegTypeOK, OnlyHolds
<1> QED BY <1>2 DEF RegTypeOK, RemoveDir

LEMMA DropTurnsDoes ==
  ASSUME RegTypeOK, NEW cs, DropTurns(cs), UNCHANGED <<dirs, doc, births>>
  PROVE  /\ RegTypeOK'
         /\ \A e \in Call : holds'[e] = IF e \in cs THEN {} ELSE holds[e]
BY DEF RegTypeOK, DropTurns

LEMMA GoneTyped ==
  ASSUME TypeOK, NEW p \in Path
  PROVE  Gone(p) \subseteq [at : Path, birth : 0 .. MaxBirths]
BY DEF TypeOK, RegTypeOK, Record, Gone

LEMMA RegStays == ASSUME RegTypeOK, Untouched PROVE RegTypeOK'
BY DEF RegTypeOK, Untouched, regVars

LEMMA PcsHere ==
  \A pc \in {"idle", "over", "thrown", "dead"} \cup Entering \cup Deleting \cup Patching : pc \in Pcs
BY DEF Pcs, Ended

LEMMA QuietTyped ==
  ASSUME TypeOK, Quiet, RegTypeOK', l' \in [Call -> Local]
  PROVE  TypeOK'
BY DEF TypeOK, Quiet, historyVars

LEMMA GoneStepTyped ==
  ASSUME TypeOK, RegTypeOK', l' \in [Call -> Local], NEW p \in Path, gone' \in {gone, Gone(p)},
         UNCHANGED <<told, runs, listed, faults, crowded>>
  PROVE  TypeOK'
BY GoneTyped DEF TypeOK

LEMMA CrowdedStepTyped ==
  ASSUME TypeOK, RegTypeOK', l' \in [Call -> Local], NEW names \in SUBSET Slug,
         crowded' \subseteq crowded \cup names,
         UNCHANGED <<told, runs, listed, faults, gone>>
  PROVE  TypeOK'
BY DEF TypeOK

LEMMA BeginTyped ==
  ASSUME TypeOK, NEW c \in Call, NEW a \in Asks, Begin(c, a)
  PROVE  TypeOK'
<1>1. ClientOf(a) \in Slug
  BY ClientOfTyped, CoordinatorAssumption DEF CoordinatorAssumption, Slug
<1>2. crowded' \subseteq crowded \cup {ClientOf(a)}
  BY SharedTyped DEF Begin
<1>3. RegTypeOK' /\ UNCHANGED <<told, runs, listed, faults, gone>>
  BY RegStays DEF Begin, TypeOK
<1> QED BY <1>1, <1>2, <1>3, BeginDoes, CrowdedStepTyped

LEMMA IntakeTyped ==
  ASSUME TypeOK, NEW c \in Call, Intake(c)
  PROVE  TypeOK'
<1> USE KeysTyped, PcsHere
<1>0. RegTypeOK /\ l \in [Call -> Local]
  BY DEF TypeOK
<1>1. CASE TakeRoute(c)
  BY <1>0, <1>1, TakeRouteDoes, RegStays, QuietTyped DEF TakeRoute, Routed
<1>2. CASE TakeStream(c)
  BY <1>0, <1>2, TakeStreamDoes, RegStays, QuietTyped DEF TakeStream, Routed, Goes
<1>3. CASE LookUp(c)
  <2>1. "answer" \in Pcs BY DEF Pcs, Entering
  <2> QED BY <1>0, <1>3, <2>1, GotoGoes, RegStays, QuietTyped DEF LookUp, Goes
<1>4. CASE Name(c)
  <2>1. PICK k \in Client, p \in Project :
          l' \in [Call -> Local] /\ crowded' = crowded \cup Shared(c, {k, p})
    BY <1>4, NameDoes
  <2>2. {k, p} \in SUBSET Slug
    BY DEF Slug
  <2>3. RegTypeOK' /\ UNCHANGED <<told, runs, listed, faults, gone>>
    BY <1>0, <1>4, RegStays DEF Name
  <2> QED BY <2>1, <2>2, <2>3, SharedTyped, CrowdedStepTyped
<1>5. CASE FindClient(c)
  <2>1. {"client_patch", "thrown", "client_dir"} \subseteq Pcs
    BY DEF Pcs, Entering, Ended
  <2>2. \E pc \in Pcs : Goto(c, pc)
    BY <1>5, <2>1 DEF FindClient
  <2> QED BY <1>0, <1>5, <2>2, GotoGoes, RegStays, QuietTyped DEF FindClient, Goes
<1>6. CASE MakeClientDir(c)
  <2>1. "client_doc" \in Pcs BY DEF Pcs, Entering
  <2> QED BY <1>0, <1>6, <2>1, GotoGoes, MakeDirDoes, QuietTyped DEF MakeClientDir, Goes
<1>7. CASE WriteClient(c)
  BY <1>0, <1>7, NobodyTyped, WriteNewDoes, WriteClientDoes, QuietTyped DEF WriteClient
<1>8. CASE WriteClientFiles(c)
  <2>1. After(c) \in Pcs BY DEF Pcs, Entering, After
  <2> QED BY <1>0, <1>8, <2>1, GotoGoes, MakeDirDoes, QuietTyped DEF WriteClientFiles, Goes
<1>9. CASE ReadClient(c)
  <2>1. CASE ReadToPatch(c, K(c)) /\ l' = [l EXCEPT ![c].pc = "client_write", ![c].base = doc[K(c)],
                                            ![c].client = doc[K(c)].birth]
    <3>1. RegTypeOK'
      BY <1>0, <2>1, TakeDoes DEF ReadToPatch
    <3> QED BY <1>9, <2>1, <3>1, ReadClientFoundDoes, QuietTyped DEF ReadClient
  <2>2. CASE Throw(c) /\ Untouched
    <3>1. "thrown" \in Pcs BY DEF Pcs, Ended
    <3> QED BY <1>0, <1>9, <2>2, <3>1, GotoGoes, RegStays, QuietTyped DEF ReadClient, Throw, Goes
  <2> QED BY <1>9, <2>1, <2>2 DEF ReadClient
<1>10. CASE PatchClient(c)
  <2>1. After(c) \in Pcs BY DEF Pcs, Entering, After
  <2>2. RegTypeOK'
    BY <1>0, <1>10, WriteBackDoes DEF PatchClient
  <2> QED BY <1>0, <1>10, <2>1, <2>2, GotoGoes, QuietTyped DEF PatchClient, Goes
<1>11. CASE NoteClient(c)
  <2>1. {"answer", "thrown"} \subseteq Pcs BY DEF Pcs, Entering, Ended
  <2>2. \E pc \in Pcs : Goto(c, pc)
    BY <1>11, <2>1 DEF NoteClient
  <2> QED BY <1>0, <1>11, <2>2, GotoGoes, RegStays, QuietTyped DEF NoteClient, Goes
<1>12. CASE FindProject(c)
  BY <1>0, <1>12, FindProjectDoes, RegStays, QuietTyped DEF FindProject
<1>13. CASE MakeProjectDir(c)
  <2>1. "project_doc" \in Pcs BY DEF Pcs, Entering
  <2> QED BY <1>0, <1>13, <2>1, GotoGoes, MakeDirDoes, QuietTyped DEF MakeProjectDir, Goes
<1>14. CASE WriteProject(c)
  BY <1>0, <1>14, WriteNewDoes, WriteProjectDoes, QuietTyped DEF WriteProject
<1>15. CASE WriteProjectFiles(c)
  <2>1. "opportunity" \in Pcs BY DEF Pcs, Entering
  <2> QED BY <1>0, <1>15, <2>1, GotoGoes, MakeDirDoes, QuietTyped DEF WriteProjectFiles, Goes
<1>16. CASE CreateOpportunity(c)
  <2>1. PICK o \in Opp : WriteNew(o, ClientIdOf(c)) /\ l' = [l EXCEPT ![c].pc = "run", ![c].opp = o]
    BY <1>16 DEF CreateOpportunity
  <2> QED BY <1>0, <1>16, <2>1, SlugsThere, WriteNewDoes, OpportunityMadeDoes, QuietTyped
          DEF CreateOpportunity
<1>17. CASE StartRun(c)
  <2>1. "artifacts" \in Pcs BY DEF Pcs, Entering
  <2>2. l' \in [Call -> Local] /\ RegTypeOK'
    BY <1>0, <1>17, <2>1, GotoGoes, RegStays DEF StartRun, Goes
  <2> QED BY <1>17, <2>2 DEF StartRun, TypeOK, historyVars
<1>18. CASE AttachArtifacts(c)
  <2>1. "remember" \in Pcs BY DEF Pcs, Entering
  <2>2. l' \in [Call -> Local] /\ RegTypeOK'
    BY <1>0, <1>18, <2>1, GotoGoes, RegStays DEF AttachArtifacts, Goes
  <2>3. Artifacts(l[c].ask.message) \in {Bodies, Bodies \cup {"owner-attachment"}}
    BY DEF Artifacts
  <2>4. listed' \in [Call -> {{}, Bodies, Bodies \cup {"owner-attachment"}}]
    BY <1>18, <2>3 DEF AttachArtifacts, TypeOK
  <2> QED BY <1>18, <2>2, <2>4 DEF AttachArtifacts, TypeOK, historyVars
<1>19. CASE Remember(c)
  <2>1. {"answer", "thrown"} \subseteq Pcs BY DEF Pcs, Entering, Ended
  <2>2. \E pc \in Pcs : Goto(c, pc)
    BY <1>19, <2>1 DEF Remember
  <2> QED BY <1>0, <1>19, <2>2, GotoGoes, RegStays, QuietTyped DEF Remember, Goes
<1>20. CASE Answer(c)
  <2>1. "over" \in Pcs BY DEF Pcs, Ended
  <2>2. l' \in [Call -> Local] /\ RegTypeOK'
    BY <1>0, <1>20, <2>1, GotoGoes, RegStays DEF Answer, Goes
  <2>3. told' \in [Call -> Telling]
    BY <1>20 DEF Answer, TypeOK, Local, Telling
  <2> QED BY <1>20, <2>2, <2>3 DEF Answer, TypeOK, historyVars, Telling
<1> QED BY <1>1, <1>2, <1>3, <1>4, <1>5, <1>6, <1>7, <1>8, <1>9, <1>10, <1>11, <1>12, <1>13,
           <1>14, <1>15, <1>16, <1>17, <1>18, <1>19, <1>20 DEF Intake

LEMMA DeletionTyped ==
  ASSUME TypeOK, NEW c \in Call, Deletion(c)
  PROVE  TypeOK'
<1> USE KeysTyped, SlugsThere
<1>0. RegTypeOK /\ l \in [Call -> Local]
  BY DEF TypeOK
<1>1. CASE Resolve(c)
  <2>1. CASE Goto(c, "over") /\ Untouched
    <3>1. "over" \in Pcs BY DEF Pcs, Ended
    <3> QED BY <1>0, <1>1, <2>1, <3>1, GotoGoes, RegStays, QuietTyped DEF Resolve, Goes
  <2>2. CASE /\ Take(c, K(c)) /\ UNCHANGED <<dirs, doc, births>>
             /\ l' = [l EXCEPT ![c].client = doc[K(c)].birth,
                               ![c].todo = BelongTo(Project, IdOf(K(c))), ![c].pc = "cascade"]
    BY <1>0, <1>1, <2>2, TakeDoes, ClientResolvedDoes, QuietTyped DEF Resolve
  <2> QED BY <1>1, <2>1, <2>2 DEF Resolve
<1>2. CASE NextProject(c)
  <2>1. ASSUME NEW p \in l[c].todo, Take(c, p), UNCHANGED <<dirs, doc, births>>,
               l' = [l EXCEPT ![c].on = p, ![c].pc = "project_rm"]
        PROVE  TypeOK'
    BY <1>0, <1>2, <2>1, TakeDoes, ProjectTakenDoes, QuietTyped DEF NextProject
  <2>2. CASE /\ l' = [l EXCEPT ![c].todo = BelongTo(Opp, ClientIdOf(c)), ![c].pc = "opps"]
             /\ Untouched
    BY <1>0, <1>2, <2>2, ProjectsGoneDoes, RegStays, QuietTyped DEF NextProject
  <2> QED BY <1>2, <2>1, <2>2 DEF NextProject
<1>3. CASE RemoveProject(c)
  <2>1. "project_rmdir" \in Pcs BY DEF Pcs, Deleting
  <2>2. l' \in [Call -> Local] /\ RegTypeOK'
    BY <1>0, <1>3, <2>1, GotoGoes, RemoveRecordDoes DEF RemoveProject, Goes
  <2> QED BY <1>3, <2>2, GoneStepTyped DEF RemoveProject
<1>4. CASE RemoveProjectDir(c)
  BY <1>0, <1>4, RemoveDirDoes, RemoveProjectDirDoes, QuietTyped DEF RemoveProjectDir
<1>5. CASE RemoveOpportunity(c)
  <2>1. PICK o \in l[c].todo :
          /\ RemoveRecord(c, o) /\ gone' = IF Found(o) THEN Gone(o) ELSE gone
          /\ l' = [l EXCEPT ![c].todo = @ \ {o}]
    BY <1>5 DEF RemoveOpportunity
  <2>2. l' \in [Call -> Local] /\ RegTypeOK' /\ o \in Path
    BY <1>0, <2>1, RemoveRecordDoes, OpportunityRemovedDoes
  <2> QED BY <1>5, <2>1, <2>2, GoneStepTyped DEF RemoveOpportunity
<1>6. CASE OpportunitiesGone(c)
  <2>1. "client_rm" \in Pcs BY DEF Pcs, Deleting
  <2> QED BY <1>0, <1>6, <2>1, GotoGoes, RegStays, QuietTyped DEF OpportunitiesGone, Goes
<1>7. CASE RemoveClient(c)
  <2>1. "client_rmdir" \in Pcs BY DEF Pcs, Deleting
  <2>2. l' \in [Call -> Local] /\ RegTypeOK'
    BY <1>0, <1>7, <2>1, GotoGoes, RemoveRecordDoes DEF RemoveClient, Goes
  <2> QED BY <1>7, <2>2, GoneStepTyped DEF RemoveClient
<1>8. CASE RemoveClientDir(c)
  <2>1. "over" \in Pcs BY DEF Pcs, Ended
  <2> QED BY <1>0, <1>8, <2>1, GotoGoes, RemoveDirDoes, QuietTyped DEF RemoveClientDir, Goes
<1> QED BY <1>1, <1>2, <1>3, <1>4, <1>5, <1>6, <1>7, <1>8 DEF Deletion

LEMMA PatchesTyped ==
  ASSUME TypeOK, NEW c \in Call, Patches(c)
  PROVE  TypeOK'
<1> USE KeysTyped
<1>0. RegTypeOK /\ l \in [Call -> Local] /\ "thrown" \in Pcs /\ "over" \in Pcs
  BY DEF TypeOK, Pcs, Ended
<1>1. CASE ReadProject(c)
  <2>1. CASE ReadToPatch(c, P(c)) /\ l' = [l EXCEPT ![c].pc = "write_back", ![c].on = P(c),
                                            ![c].base = doc[P(c)]]
    <3>1. RegTypeOK'
      BY <1>0, <2>1, TakeDoes DEF ReadToPatch
    <3> QED BY <1>1, <2>1, <3>1, ProjectReadDoes, QuietTyped DEF ReadProject
  <2>2. CASE Throw(c) /\ Untouched
    BY <1>0, <1>1, <2>2, GotoGoes, RegStays, QuietTyped DEF ReadProject, Throw, Goes
  <2> QED BY <1>1, <2>1, <2>2 DEF ReadProject
<1>2. CASE ListOpen(c)
  BY <1>0, <1>2, ListOpenDoes, RegStays, QuietTyped DEF ListOpen
<1>3. CASE ReadOpportunity(c)
  <2>1. ASSUME NEW o \in l[c].todo, ReadToPatch(c, o),
               l' = [l EXCEPT ![c].pc = "write_back", ![c].on = o, ![c].base = doc[o]]
        PROVE  TypeOK'
    <3>1. RegTypeOK'
      BY <1>0, <2>1, TakeDoes DEF ReadToPatch
    <3> QED BY <1>3, <2>1, <3>1, OpportunityReadDoes, QuietTyped DEF ReadOpportunity
  <2>2. CASE Throw(c) /\ Untouched
    BY <1>0, <1>3, <2>2, GotoGoes, RegStays, QuietTyped DEF ReadOpportunity, Throw, Goes
  <2> QED BY <1>3, <2>1, <2>2 DEF ReadOpportunity
<1>4. CASE AllQualified(c)
  BY <1>0, <1>4, GotoGoes, RegStays, QuietTyped DEF AllQualified, Goes
<1>5. CASE Patch(c)
  <2>1. RegTypeOK'
    BY <1>0, <1>5, WriteBackDoes DEF Patch
  <2> QED BY <1>5, <2>1, PatchDoes, QuietTyped DEF Patch
<1> QED BY <1>1, <1>2, <1>3, <1>4, <1>5 DEF Patches

LEMMA DeadLocal ==
  ASSUME TypeOK, l' = [c \in Call |-> IF Active(c) THEN [l[c] EXCEPT !.pc = "dead"] ELSE l[c]]
  PROVE  /\ l' \in [Call -> Local]
         /\ \A c \in Call : l'[c].pc = IF Active(c) THEN "dead" ELSE l[c].pc
         /\ \A c \in Call :
              /\ l'[c].ask = l[c].ask /\ l'[c].business = l[c].business
              /\ l'[c].title = l[c].title /\ l'[c].project = l[c].project
              /\ l'[c].opp = l[c].opp /\ l'[c].route = l[c].route
              /\ l'[c].client = l[c].client
<1>1. "dead" \in Pcs
  BY DEF Pcs, Ended
<1>2. ASSUME NEW c \in Call
      PROVE  /\ l'[c] \in Local /\ l'[c].pc = (IF Active(c) THEN "dead" ELSE l[c].pc)
             /\ l'[c].ask = l[c].ask /\ l'[c].business = l[c].business
             /\ l'[c].title = l[c].title /\ l'[c].project = l[c].project
             /\ l'[c].opp = l[c].opp /\ l'[c].route = l[c].route
             /\ l'[c].client = l[c].client
  <2>1. l'[c] = (IF Active(c) THEN [l[c] EXCEPT !.pc = "dead"] ELSE l[c])
    BY DEF TypeOK
  <2>2. l[c] \in Local
    BY DEF TypeOK
  <2> QED BY <1>1, <2>1, <2>2, MovedLocal
<1> QED BY <1>2

LEMMA NextTyped ==
  ASSUME TypeOK, [Next]_vars
  PROVE  TypeOK'
<1>0. RegTypeOK /\ l \in [Call -> Local]
  BY DEF TypeOK
<1>1. ASSUME NEW c \in Call, Fails(c) PROVE TypeOK'
  <2>1. "thrown" \in Pcs /\ faults' \in 0 .. MaxFaults
    BY <1>1, CoordinatorAssumption DEF CoordinatorAssumption, Pcs, Ended, Fails, TypeOK
  <2>2. l' \in [Call -> Local] /\ RegTypeOK'
    BY <1>0, <1>1, <2>1, GotoGoes, DropTurnsDoes DEF Fails, Throw, Goes
  <2> QED BY <1>1, <2>1, <2>2 DEF Fails, TypeOK, historyVars
<1>2. CASE Crash
  <2>1. faults' \in 0 .. MaxFaults
    BY <1>2, CoordinatorAssumption DEF CoordinatorAssumption, Crash, TypeOK
  <2>2. l' \in [Call -> Local] /\ RegTypeOK'
    BY <1>0, <1>2, DeadLocal, DropTurnsDoes DEF Crash
  <2> QED BY <1>2, <2>1, <2>2 DEF Crash, TypeOK, historyVars
<1>3. CASE UNCHANGED vars
  BY <1>3 DEF vars, TypeOK, RegTypeOK, regVars
<1> QED BY <1>1, <1>2, <1>3, BeginTyped, IntakeTyped, DeletionTyped, PatchesTyped DEF Next

(* Whatever the calls do, and wherever they fail or die, every variable    *)
(* keeps its type: the records of the registries stay records, and a call  *)
(* that goes on is at a step of its route.                                 *)
THEOREM CoordinatorTypeCorrect == Spec => []TypeOK
BY InitTyped, NextTyped, PTL DEF Spec

-----------------------------------------------------------------------------
(* What a step of one call leaves to the others.                           *)

(* A record that was born is there until it is deleted. *)
LastsOn ==
  \A p \in Path :
    doc[p].birth # 0 =>
      doc'[p].birth = doc[p].birth \/ [at |-> p, birth |-> doc[p].birth] \in gone' \/ p \in crowded'

Leaves(c) ==
  /\ l'[c] = l[c] /\ holds'[c] = holds[c]
  /\ listed'[c] = listed[c] /\ told'[c] = told[c] /\ (c \in runs' <=> c \in runs)
  /\ crowded \subseteq crowded' /\ gone \subseteq gone'
  /\ \A p \in Path : births[p] <= births'[p]
  /\ \A p \in holds[c] :
       Found(p) => doc'[p] # NoRecord /\ (doc'[p] = doc[p] \/ p \in crowded')
  /\ LastsOn
  /\ \A k \in Busy(c) \cap Client : doc'[k] = doc[k] \/ k \in crowded'
  /\ \A p \in Busy(c) \cap Project : doc'[p] # NoRecord => Found(p) \/ p \in crowded'
  /\ l[c].pc \in Deleting =>
       \A p \in Project \cup Opp :
         doc'[p] # NoRecord /\ doc'[p].client = ClientIdOf(c) =>
           OfClient(c, p) \/ p \in crowded' \/ K(c) \in crowded'

LEMMA LastsStays ==
  ASSUME NEW p \in Path, NEW birth \in Nat \ {0}, Lasts(p, birth), LastsOn,
         crowded \subseteq crowded', gone \subseteq gone'
  PROVE  doc'[p].birth = birth \/ [at |-> p, birth |-> birth] \in gone' \/ p \in crowded'
BY DEF Lasts, LastsOn

LEMMA BirthsCounted ==
  ASSUME TypeOK
  PROVE  /\ \A p \in Path : births[p] \in Nat /\ doc[p].birth \in Nat
         /\ \A c \in Call : l[c].client \in Nat /\ l[c].project \in Nat /\ l[c].base.birth \in Nat
<1>1. MaxBirths \in Nat /\ \A n \in 0 .. MaxBirths : n \in Nat
  BY RegistriesAssumption DEF RegistriesAssumption
<1> QED BY <1>1 DEF TypeOK, RegTypeOK, Record, Local

LEMMA PathsApart ==
  /\ Client \cap Project = {} /\ Client \cap Opp = {} /\ Project \cap Opp = {}
  /\ NoOpp \notin Opp
BY RegistriesAssumption, CoordinatorAssumption
   DEF RegistriesAssumption, CoordinatorAssumption, Slug

LEMMA CrowdedSlugs == ASSUME TypeOK PROVE crowded \cap Opp = {}
BY RegistriesAssumption DEF RegistriesAssumption, TypeOK

LEMMA BusyKeys ==
  ASSUME NEW c \in Call
  PROVE  /\ l[c].pc \in Writing => Busy(c) = {K(c), P(c)}
         /\ l[c].pc \in Deleting => Busy(c) = {K(c)}
BY DEF Busy, Writing, Entering, Deleting

LEMMA StepsApart ==
  /\ WithClient \subseteq Writing /\ Lone \subseteq Writing
  /\ WithProject \subseteq Writing /\ Writing \cap Deleting = {}
  /\ {"client", "client_dir", "client_doc", "client_write", "project_dir", "project_doc"}
       \subseteq Writing
  /\ {"cascade", "project_rm", "project_rmdir", "opps", "client_rm"} \subseteq Deleting
  /\ "client_write" \in WithClient
BY DEF WithClient, Writing, Entering, Deleting, Lone, WithProject

LEMMA Theirs ==
  ASSUME TypeOK, TypeOK', NEW c \in Call, CallInv(c), Leaves(c)
  PROVE  CallInv(c)'
<1>0. /\ K(c) \in Client \cap Path /\ P(c) \in Project \cap Path /\ l[c].on \in Path
      /\ l'[c] = l[c] /\ holds'[c] = holds[c] /\ crowded \subseteq crowded'
  BY KeysTyped DEF Leaves
<1>1. Holding(c)'
  BY <1>0 DEF CallInv, Holding, Leaves, K, Found
<1>2. Basis(c)'
  <2>1. ASSUME l[c].pc = "client_write"
        PROVE  /\ l[c].base # NoRecord /\ l[c].base.birth = l[c].client
               /\ l[c].base.birth <= births'[K(c)]
               /\ doc'[K(c)] = l[c].base \/ K(c) \in crowded'
    <3>1. K(c) \in Busy(c) \cap Client
      BY <1>0, <2>1, BusyKeys, StepsApart
    <3>2. births[K(c)] <= births'[K(c)] /\ births[K(c)] \in Nat /\ births'[K(c)] \in Nat
          /\ l[c].base.birth \in Nat
      BY <1>0, BirthsCounted DEF Leaves, TypeOK, RegTypeOK
    <3> QED BY <1>0, <2>1, <3>1, <3>2 DEF CallInv, Basis, Leaves
  <2>2. ASSUME l[c].pc = "write_back"
        PROVE  /\ l[c].base.birth > 0 /\ l[c].base.birth <= births'[l[c].on]
               /\ doc'[l[c].on] = l[c].base \/ l[c].on \in crowded'
    <3>1. l[c].on \in holds[c] /\ Found(l[c].on)
      BY <2>2 DEF CallInv, Holding
    <3>2. births[l[c].on] <= births'[l[c].on] /\ births[l[c].on] \in Nat
          /\ births'[l[c].on] \in Nat /\ l[c].base.birth \in Nat
      BY <1>0, BirthsCounted DEF Leaves, TypeOK, RegTypeOK
    <3> QED BY <1>0, <2>2, <3>1, <3>2 DEF CallInv, Basis, Leaves
  <2> QED BY <1>0, <2>1, <2>2 DEF Basis, K
<1>3. Absent(c)'
  <2>1. l[c].pc \in {"client_dir", "client_doc", "project_dir", "project_doc"} =>
          K(c) \in Busy(c) \cap Client /\ P(c) \in Busy(c) \cap Project
    BY <1>0, BusyKeys, StepsApart
  <2> QED BY <1>0, <2>1 DEF CallInv, Absent, Leaves, Found, K, P
<1>4. HasClient(c)'
  <2>1. l[c].pc \in WithClient => K(c) \in Busy(c) \cap Client
    BY <1>0, BusyKeys, StepsApart
  <2> QED BY <1>0, <2>1 DEF CallInv, HasClient, Leaves, K
<1>5. Cascading(c)'
  <2>1. l[c].pc \in Deleting => K(c) \in Busy(c) \cap Client
    BY <1>0, BusyKeys, StepsApart
  <2>2. crowded' \cap Opp = {}
    BY RegistriesAssumption DEF RegistriesAssumption, TypeOK
  <2>3. ASSUME K(c) \notin crowded', l[c].pc \in Deleting
        PROVE  /\ doc'[K(c)] = doc[K(c)]
               /\ \A p \in (Project \cup Opp) \ crowded' :
                    OfClient(c, p)' => p \notin crowded /\ OfClient(c, p)
    BY <1>0, <2>1, <2>3 DEF Leaves, OfClient, Found, ClientIdOf, K
  <2>4. K(c)' = K(c) /\ ClientIdOf(c)' = ClientIdOf(c)
    BY <1>0 DEF K, ClientIdOf
  <2>5. CASE K(c) \in crowded'
    BY <2>4, <2>5 DEF Cascading
  <2>6. CASE l[c].pc \notin Deleting
    BY <1>0, <2>6, StepsApart DEF Cascading
  <2>7. CASE K(c) \notin crowded' /\ l[c].pc \in Deleting
    <3>1. K(c) \notin crowded
      BY <1>0, <2>7
    <3>2. \A p \in (Project \cup Opp) \ crowded' :
            OfClient(c, p)' => p \notin crowded /\ OfClient(c, p)
      BY <2>3, <2>7
    <3>3. l[c].on \in crowded' \/ l[c].on \notin Project \/
            (OfClient(c, l[c].on)' => OfClient(c, l[c].on) /\ l[c].on \notin crowded)
      BY <1>0, <3>2 DEF OfClient, Found, ClientIdOf, K
    <3>4. l[c].pc = "project_rmdir" => l[c].on \in Project
      BY DEF CallInv, Holding
    <3> QED BY <1>0, <2>2, <2>3, <2>4, <2>7, <3>1, <3>2, <3>3, <3>4 DEF CallInv, Cascading
  <2> QED BY <2>5, <2>6, <2>7
<1>6. SoFar(c)'
  <2>1. LastsOn /\ crowded \subseteq crowded' /\ gone \subseteq gone'
    BY DEF Leaves
  <2>2. l[c].client > 0 /\ Lasts(K(c), l[c].client) => Lasts(K(c), l[c].client)'
    BY <1>0, <2>1, LastsStays, BirthsCounted DEF Lasts, K
  <2>3. l[c].project > 0 /\ Lasts(P(c), l[c].project) => Lasts(P(c), l[c].project)'
    BY <1>0, <2>1, LastsStays, BirthsCounted DEF Lasts, P
  <2>4. l[c].opp # NoOpp /\ Lasts(l[c].opp, 1) => Lasts(l[c].opp, 1)'
    <3>1. l[c].opp # NoOpp => l[c].opp \in Path
      BY SlugsThere DEF TypeOK, Local
    <3> QED BY <1>0, <2>1, <3>1, LastsStays DEF Lasts
  <2>5. Truthful(c, l[c].route) => Truthful(c, l[c].route)'
    BY <1>0, <2>2, <2>3, <2>4 DEF Truthful, Leaves, K, P
  <2>6. Truthful(c, told[c]) => Truthful(c, told[c])'
    BY <1>0, <2>2, <2>3, <2>4 DEF Truthful, Leaves, K, P
  <2>7. l[c].pc \in WithClient => l[c].client > 0
    BY DEF CallInv, HasClient
  <2> QED BY <1>0, <2>2, <2>3, <2>4, <2>5, <2>6, <2>7 DEF CallInv, SoFar, Leaves, K, P
<1> QED BY <1>1, <1>2, <1>3, <1>4, <1>5, <1>6 DEF CallInv

(* The steps of one call, by what they do to the records.                  *)
OtherwiseQuiet(c, e) ==
  /\ c # e /\ OthersStay(e)
  /\ listed'[c] = listed[c] /\ told'[c] = told[c] /\ (c \in runs' <=> c \in runs)
  /\ crowded \subseteq crowded' /\ gone \subseteq gone'

LEMMA QuietLeaves ==
  ASSUME TypeOK, NEW c \in Call, NEW e \in Call, OtherwiseQuiet(c, e),
         holds'[c] = holds[c], doc' = doc, births' = births
  PROVE  Leaves(c)
<1>1. l'[c] = l[c] /\ \A p \in Path : births[p] <= births'[p]
  BY BirthsCounted DEF OtherwiseQuiet, OthersStay
<1> QED BY <1>1 DEF OtherwiseQuiet, Leaves, LastsOn, Found, OfClient

LEMMA NewLeaves ==
  ASSUME TypeOK, Remembered, NEW c \in Call, NEW e \in Call, OtherwiseQuiet(c, e),
         NEW p \in Path, NEW id \in ClientId, WriteNew(p, id),
         ~Found(p) \/ p \in crowded,
         p \in Busy(e) \cup Opp, p \in Client \/ id.slug \in Busy(e)
  PROVE  Leaves(c)
<1>1. /\ holds' = holds /\ OnlyDoc(p, [birth |-> births[p] + 1, client |-> id])
      /\ \A q \in Path : births[q] <= births'[q]
  <2>1. RegTypeOK
    BY DEF TypeOK
  <2> QED BY <2>1, WriteNewDoes, BirthsCounted
<1>2. l'[c] = l[c] /\ crowded \subseteq crowded' /\ gone \subseteq gone'
  BY DEF OtherwiseQuiet, OthersStay
<1>3. \A q \in Path : doc'[q] = doc[q] \/ q = p
  BY <1>1 DEF OnlyDoc
<1>4. Found(p) => p \in crowded'
  BY <1>2
<1>5. Busy(c) \cap Busy(e) \subseteq crowded'
  BY <1>2 DEF Remembered, OtherwiseQuiet
<1>6. \A q \in holds[c] : Found(q) => doc'[q] # NoRecord /\ (doc'[q] = doc[q] \/ q \in crowded')
  <2>1. holds[c] \subseteq Path
    BY DEF TypeOK, RegTypeOK
  <2>2. doc'[p] # NoRecord
    BY <1>1, BirthsCounted DEF OnlyDoc, NoRecord
  <2> QED BY <1>3, <1>4, <2>1, <2>2 DEF Found
<1>7. LastsOn
  BY <1>3, <1>4 DEF LastsOn, Found, NoRecord
<1>8. /\ \A k \in Busy(c) \cap Client : doc'[k] = doc[k] \/ k \in crowded'
      /\ \A q \in Busy(c) \cap Project : doc'[q] # NoRecord => Found(q) \/ q \in crowded'
  BY <1>3, <1>5, PathsApart, SlugsThere DEF Found
<1>9. ASSUME l[c].pc \in Deleting, NEW q \in Project \cup Opp,
             doc'[q].client = ClientIdOf(c), doc'[q] # NoRecord
      PROVE  OfClient(c, q) \/ q \in crowded' \/ K(c) \in crowded'
  <2>1. CASE q # p
    BY <1>3, <1>9, <2>1, SlugsThere DEF OfClient, Found
  <2>2. CASE q = p
    <3>1. id = ClientIdOf(c) /\ id.slug \in Busy(e)
      BY <1>1, <1>9, <2>2, PathsApart DEF OnlyDoc
    <3>2. K(c) \in Busy(c) /\ id.slug = K(c)
      BY <1>9, <3>1, BusyKeys DEF ClientIdOf
    <3> QED BY <1>5, <3>1, <3>2
  <2> QED BY <2>1, <2>2
<1> QED BY <1>1, <1>2, <1>6, <1>7, <1>8, <1>9 DEF OtherwiseQuiet, Leaves

LEMMA WriteBackLeaves ==
  ASSUME TypeOK, NEW c \in Call, NEW e \in Call, OtherwiseQuiet(c, e),
         NEW p \in Path, NEW record \in Record, WriteBack(e, p, record),
         Found(p), record # NoRecord, doc[p] = record \/ p \in crowded
  PROVE  Leaves(c)
<1>1. /\ holds'[c] = holds[c] /\ OnlyDoc(p, record) /\ births' = births
  <2>1. RegTypeOK
    BY DEF TypeOK
  <2> QED BY <2>1, WriteBackDoes DEF OnlyHolds, OtherwiseQuiet
<1>2. /\ l'[c] = l[c] /\ crowded \subseteq crowded' /\ gone \subseteq gone'
      /\ \A q \in Path : births[q] <= births'[q]
  BY <1>1, BirthsCounted DEF OtherwiseQuiet, OthersStay
<1>3. \A q \in Path : doc'[q] = doc[q] \/ (Found(q) /\ doc'[q] # NoRecord /\ q \in crowded')
  BY <1>1, <1>2 DEF OnlyDoc
<1>4. holds[c] \subseteq Path
  BY DEF TypeOK, RegTypeOK
<1>5. \A q \in holds[c] : Found(q) => doc'[q] # NoRecord /\ (doc'[q] = doc[q] \/ q \in crowded')
  BY <1>3, <1>4 DEF Found
<1>6. LastsOn
  BY <1>3 DEF LastsOn
<1>7. /\ \A k \in Busy(c) \cap Client : doc'[k] = doc[k] \/ k \in crowded'
      /\ \A q \in Busy(c) \cap Project : doc'[q] # NoRecord => Found(q) \/ q \in crowded'
  BY <1>3, SlugsThere DEF Found
<1>8. \A q \in Project \cup Opp :
        doc'[q] # NoRecord /\ doc'[q].client = ClientIdOf(c) => OfClient(c, q) \/ q \in crowded'
  BY <1>3, SlugsThere DEF OfClient, Found
<1> QED BY <1>1, <1>2, <1>5, <1>6, <1>7, <1>8 DEF OtherwiseQuiet, Leaves

LEMMA RemovalLeaves ==
  ASSUME TypeOK, Remembered, Exclusive, NEW c \in Call, NEW e \in Call, OtherwiseQuiet(c, e),
         NEW p \in Path, RemoveRecord(e, p), p \in holds[e] \/ Free(p),
         Found(p) => [at |-> p, birth |-> doc[p].birth] \in gone',
         p \in Busy(e) \cup Project \cup Opp
  PROVE  Leaves(c)
<1>1. /\ holds' = holds /\ OnlyDoc(p, NoRecord) /\ births' = births
  <2>1. RegTypeOK
    BY DEF TypeOK
  <2> QED BY <2>1, RemoveRecordDoes
<1>2. /\ l'[c] = l[c] /\ crowded \subseteq crowded' /\ gone \subseteq gone'
      /\ \A q \in Path : births[q] <= births'[q]
  BY <1>1, BirthsCounted DEF OtherwiseQuiet, OthersStay
<1>3. /\ \A q \in Path : doc'[q] = doc[q] \/ q = p
      /\ doc'[p] = NoRecord
  BY <1>1 DEF OnlyDoc
<1>4. p \notin holds[c] /\ holds[c] \subseteq Path
  BY DEF Exclusive, Free, OtherwiseQuiet, TypeOK, RegTypeOK
<1>5. \A q \in holds[c] : Found(q) => doc'[q] # NoRecord /\ (doc'[q] = doc[q] \/ q \in crowded')
  BY <1>3, <1>4 DEF Found
<1>6. LastsOn
  BY <1>3 DEF LastsOn, Found, NoRecord
<1>7. /\ \A k \in Busy(c) \cap Client : doc'[k] = doc[k] \/ k \in crowded'
      /\ \A q \in Busy(c) \cap Project : doc'[q] # NoRecord => Found(q) \/ q \in crowded'
  <2>1. Busy(c) \cap Busy(e) \subseteq crowded'
    BY <1>2 DEF Remembered, OtherwiseQuiet
  <2> QED BY <1>3, <2>1, SlugsThere, PathsApart DEF Found
<1>8. \A q \in Project \cup Opp :
        doc'[q] # NoRecord /\ doc'[q].client = ClientIdOf(c) => OfClient(c, q)
  BY <1>3, SlugsThere DEF OfClient, Found
<1> QED BY <1>1, <1>2, <1>5, <1>6, <1>7, <1>8 DEF OtherwiseQuiet, Leaves

(* What a step has to keep of the registries, and for the call itself.     *)
BusyLess(e) ==
  /\ l'[e].business = l[e].business /\ l'[e].title = l[e].title
  /\ l'[e].pc \in Writing => l[e].pc \in Writing
  /\ l'[e].pc \in Deleting => l[e].pc \in Deleting

LEMMA RememberedStays ==
  ASSUME Remembered, NEW e \in Call, OthersStay(e), BusyLess(e), crowded \subseteq crowded'
  PROVE  Remembered'
<1>1. \A c \in Call : Busy(c)' \subseteq Busy(c)
  <2>1. Busy(e)' \subseteq Busy(e)
    BY StepsApart DEF Busy, BusyLess, K, P
  <2>2. \A c \in Call \ {e} : Busy(c)' = Busy(c)
    BY DEF Busy, OthersStay, K, P
  <2> QED BY <2>1, <2>2
<1> QED BY <1>1 DEF Remembered

LEMMA NamesShared ==
  ASSUME Remembered, NEW e \in Call, OthersStay(e), NEW names,
         Busy(e)' \subseteq names, crowded' = crowded \cup Shared(e, names)
  PROVE  Remembered'
<1>1. \A c \in Call \ {e} : Busy(c)' = Busy(c) /\ Busy(c) \cap names \subseteq crowded'
  <2>1. ASSUME NEW c \in Call \ {e} PROVE Busy(c) \cap names \subseteq crowded'
    <3>1. Busy(c) # {} => Busy(c) \subseteq Names(c) /\ Active(c)
      BY DEF Busy, Names, Writing, Active, Ended, Entering, Deleting
    <3> QED BY <2>1, <3>1 DEF Shared
  <2> QED BY <2>1 DEF Busy, OthersStay, K, P
<1>2. ASSUME NEW c \in Call, NEW d \in Call, c # d
      PROVE  Busy(c)' \cap Busy(d)' \subseteq crowded'
  <2>1. CASE c = e
    BY <1>1, <1>2, <2>1
  <2>2. CASE d = e
    BY <1>1, <1>2, <2>2
  <2>3. CASE c # e /\ d # e
    BY <1>1, <1>2, <2>3 DEF Remembered
  <2> QED BY <2>1, <2>2, <2>3
<1> QED BY <1>2 DEF Remembered

LEMMA TurnsExclusive ==
  ASSUME Exclusive, NEW e \in Call, NEW paths, OnlyHolds(e, paths),
         \A p \in paths : p \in holds[e] \/ Free(p)
  PROVE  Exclusive'
BY DEF Exclusive, OnlyHolds, Free

LEMMA RecordsStay ==
  ASSUME RecordsKept, Owned, doc' = doc, births' = births, crowded \subseteq crowded'
  PROVE  RecordsKept' /\ Owned'
<1>1. RecordsKept'
  BY DEF RecordsKept
<1> QED BY <1>1 DEF Owned, Found

LEMMA OwnedStays ==
  ASSUME TypeOK, Owned, crowded \subseteq crowded',
         \A k \in Client : doc'[k] = doc[k] \/ k \in crowded' \/ doc[k].birth = 0,
         \A p \in Project \cup Opp :
           doc'[p] # NoRecord /\ p \notin crowded' =>
             \/ doc'[p] = doc[p]
             \/ /\ doc'[p].client.birth > 0
                /\ \/ doc'[doc'[p].client.slug].birth = doc'[p].client.birth
                   \/ doc'[p].client.slug \in crowded'
  PROVE  Owned'
<1>1. ASSUME NEW p \in Project \cup Opp, doc'[p] # NoRecord, p \notin crowded',
             doc'[p] = doc[p]
      PROVE  /\ doc'[p].client.birth > 0
             /\ \/ doc'[doc'[p].client.slug].birth = doc'[p].client.birth
                \/ doc'[p].client.slug \in crowded'
  <2>1. doc[p].client.slug \in Client /\ doc[p].client.birth \in Nat
    BY SlugsThere, RegistriesAssumption
       DEF RegistriesAssumption, TypeOK, RegTypeOK, Record, ClientId
  <2>2. /\ doc[p].client.birth > 0
        /\ \/ doc[doc[p].client.slug].birth = doc[p].client.birth
           \/ doc[p].client.slug \in crowded
    BY <1>1 DEF Owned, Found
  <2> QED BY <1>1, <2>1, <2>2
<1> QED BY <1>1 DEF Owned, Found

LEMMA Together ==
  ASSUME TypeOK, TypeOK', CoordinatorInv, NEW e \in Call,
         \A c \in Call : c # e => Leaves(c), CallInv(e)', RegistryInv'
  PROVE  CoordinatorInv'
<1>1. \A c \in Call : CallInv(c)'
  BY Theirs DEF CoordinatorInv
<1> QED BY <1>1 DEF CoordinatorInv

LEMMA QuietStep ==
  ASSUME TypeOK, TypeOK', CoordinatorInv, NEW e \in Call,
         \A c \in Call : c # e => OtherwiseQuiet(c, e) /\ holds'[c] = holds[c],
         crowded \subseteq crowded', doc' = doc, births' = births,
         Exclusive', Remembered', CallInv(e)'
  PROVE  CoordinatorInv'
<1>1. \A c \in Call : c # e => Leaves(c)
  BY QuietLeaves
<1>2. RegistryInv'
  BY RecordsStay DEF CoordinatorInv, RegistryInv
<1> QED BY <1>1, <1>2, Together

(* A step that only goes on, in the turns it has. *)
LEMMA PlainStep ==
  ASSUME TypeOK, TypeOK', CoordinatorInv, NEW e \in Call, OthersStay(e), Quiet,
         holds' = holds, doc' = doc, births' = births, BusyLess(e), CallInv(e)'
  PROVE  CoordinatorInv'
<1>1. \A c \in Call : c # e => OtherwiseQuiet(c, e) /\ holds'[c] = holds[c]
  BY DEF OtherwiseQuiet, Quiet, historyVars
<1>2. crowded \subseteq crowded' /\ Exclusive'
  BY DEF Quiet, historyVars, CoordinatorInv, RegistryInv, Exclusive
<1>3. Remembered'
  BY <1>2, RememberedStays DEF CoordinatorInv, RegistryInv
<1> QED BY <1>1, <1>2, <1>3, QuietStep

LEMMA TurnStep ==
  ASSUME TypeOK, TypeOK', CoordinatorInv, NEW e \in Call, OthersStay(e), Quiet,
         NEW paths, OnlyHolds(e, paths), \A p \in paths : p \in holds[e] \/ Free(p),
         doc' = doc, births' = births, BusyLess(e), CallInv(e)'
  PROVE  CoordinatorInv'
<1>1. \A c \in Call : c # e => OtherwiseQuiet(c, e) /\ holds'[c] = holds[c]
  BY DEF OtherwiseQuiet, Quiet, historyVars, OnlyHolds
<1>2. crowded \subseteq crowded' /\ Exclusive'
  BY TurnsExclusive DEF Quiet, historyVars, CoordinatorInv, RegistryInv
<1>3. Remembered'
  BY <1>2, RememberedStays DEF CoordinatorInv, RegistryInv
<1> QED BY <1>1, <1>2, <1>3, QuietStep

LEMMA ToldNothing ==
  ASSUME NEW c \in Call, CallInv(c), l[c].pc # "over"
  PROVE  told[c] = "nothing"
BY DEF CallInv, SoFar

(* Which parts of the invariant a step of which kind has to care for.      *)
LEMMA AtRest ==
  ASSUME NEW c \in Call, l'[c].pc \in {"over", "thrown", "dead"}, told'[c] = "nothing"
  PROVE  CallInv(c)'
<1>1. Holding(c)' /\ Basis(c)' /\ Absent(c)'
  BY DEF Holding, Basis, Absent, Deleting
<1>2. HasClient(c)' /\ Cascading(c)'
  BY DEF HasClient, Cascading, WithClient, Writing, Entering, Deleting
<1>3. SoFar(c)'
  BY DEF SoFar, Unnamed, Lone, WithClient, WithProject, Writing, Entering, Truthful, Answering
<1> QED BY <1>1, <1>2, <1>3 DEF CallInv

LEMMA EnteringOwn ==
  ASSUME NEW c \in Call, l'[c].pc \in Entering \ {"client_write"},
         Absent(c)', HasClient(c)', SoFar(c)'
  PROVE  CallInv(c)'
<1>1. Holding(c)' /\ Basis(c)' /\ Cascading(c)'
  BY DEF Holding, Basis, Cascading, Entering, Deleting
<1> QED BY <1>1 DEF CallInv

LEMMA DeletingOwn ==
  ASSUME NEW c \in Call, l'[c].pc \in Deleting, told'[c] = "nothing",
         Holding(c)', Cascading(c)'
  PROVE  CallInv(c)'
<1>1. Basis(c)' /\ Absent(c)' /\ HasClient(c)'
  BY DEF Basis, Absent, HasClient, WithClient, Writing, Entering, Deleting
<1>2. SoFar(c)'
  BY DEF SoFar, Unnamed, Lone, WithClient, WithProject, Writing, Entering, Deleting, Truthful,
         Answering
<1> QED BY <1>1, <1>2 DEF CallInv

LEMMA PatchingOwn ==
  ASSUME NEW c \in Call, l'[c].pc \in Patching, told'[c] = "nothing",
         Holding(c)', Basis(c)'
  PROVE  CallInv(c)'
<1>1. Cascading(c)' /\ Absent(c)' /\ HasClient(c)'
  BY DEF Cascading, Absent, HasClient, WithClient, Writing, Entering, Deleting, Patching
<1>2. SoFar(c)'
  BY DEF SoFar, Unnamed, Lone, WithClient, WithProject, Writing, Entering, Patching, Truthful,
         Answering
<1> QED BY <1>1, <1>2 DEF CallInv

-----------------------------------------------------------------------------
(* What holds of every message, whatever words it has and whatever the     *)
(* model plans for it.                                                     *)

(* A business to be kept and a list of the clients are asked for with      *)
(* words that show a tool: the tests of process() that come after the      *)
(* planner only catch what the test of stream() catches as well.           *)
LEMMA WordsOfATool ==
  ASSUME NEW m \in Message
  PROVE  IsClientRegistryQuestion(m) \/ IsClientOnlySave(m) \/ HasIntakeIntent(m)
           => HasCoordinatorToolIntent(m)
<1>1. CASE IsClientRegistryQuestion(m)
  <2>1. Shows(m, Clients) BY <1>1 DEF IsClientRegistryQuestion
  <2>2. IncludesToolGatewaySignal(m) BY <2>1 DEF IncludesToolGatewaySignal, Shows
  <2> QED BY <2>2 DEF HasCoordinatorToolIntent
<1>2. CASE IsClientOnlySave(m)
  <2>1. Shows(m, {"new_client", "save"}) BY <1>2 DEF IsClientOnlySave
  <2>2. IncludesToolGatewaySignal(m)
    BY <2>1 DEF IncludesToolGatewaySignal, Shows, Clients
  <2> QED BY <2>2 DEF HasCoordinatorToolIntent
<1>3. CASE HasIntakeIntent(m)
  BY <1>3 DEF HasCoordinatorToolIntent
<1> QED BY <1>1, <1>2, <1>3

(* stream() decides with tests of its own which message it answers itself, *)
(* and process() is then never asked: no message that process() would have *)
(* saved, opened work for, listed clients for or refused is among them.    *)
THEOREM StreamLosesNothing ==
  ASSUME NEW m \in Message, StreamsDirectly(m), NEW plan \in Plan
  PROVE  Route(m, plan) = "answer" /\ ByWords(m) = "answer"
<1>1. ~IsStatusQuestion(m) /\ ~HasCoordinatorToolIntent(m) /\ ~IsLowContext(m)
  BY DEF StreamsDirectly
<1>2. ~IsClientRegistryQuestion(m) /\ ~IsClientOnlySave(m) /\ ~HasIntakeIntent(m)
  BY <1>1, WordsOfATool
<1>3. ByWords(m) = "answer"
  BY <1>1, <1>2 DEF ByWords
<1>4. ~Plans(m)
  BY <1>1 DEF Plans
<1> QED BY <1>1, <1>3, <1>4 DEF Route

(* A plan of the model opens no work by itself: whatever it is, a turn     *)
(* becomes an intake only if the classifier of intakes finds the owner's   *)
(* own words asking for one (new work or a lead, or a client or a project  *)
(* with files) and for no dry run, if they ask for no status and are       *)
(* neither a question about the clients nor a client to be saved and no    *)
(* more - and then it would have been one with no plan at all, and stream()*)
(* would not have answered it itself.                                      *)
THEOREM PlanOpensNothing ==
  ASSUME NEW m \in Message, NEW plan \in Plan, Route(m, plan) = "intake"
  PROVE  /\ HasIntakeIntent(m)
         /\ \/ Shows(m, {"new_client", "lead", "wants", "website"})
            \/ m.attached /\ Shows(m, {"new_client", "client", "project"})
         /\ "dry_run" \notin m.words
         /\ ~IsStatusQuestion(m) /\ ~IsClientRegistryQuestion(m) /\ ~IsClientOnlySave(m)
         /\ Route(m, "failed") = "intake"
         /\ ~StreamsDirectly(m)
<1>1. ByWords(m) = "intake" /\ ~IsStatusQuestion(m)
  BY DEF Route, Plan
<1>2. HasIntakeIntent(m) /\ ~IsClientRegistryQuestion(m) /\ ~IsClientOnlySave(m)
  BY <1>1 DEF ByWords
<1>3. Route(m, "failed") = ByWords(m)
  BY <1>1 DEF Route
<1>4. ~StreamsDirectly(m)
  BY <1>2 DEF StreamsDirectly, HasCoordinatorToolIntent
<1> QED BY <1>1, <1>2, <1>3, <1>4 DEF HasIntakeIntent

-----------------------------------------------------------------------------
(* The steps of an intake.                                                 *)

LEMMA MessageOf == ASSUME TypeOK, NEW c \in Call PROVE l[c].ask \in Ask /\ l[c].ask.message \in Message
BY DEF TypeOK, Local, Ask

LEMMA StreamedByWords ==
  ASSUME TypeOK, NEW c \in Call, StreamsDirectly(l[c].ask.message)
  PROVE  ByWords(l[c].ask.message) = "answer"
<1>1. "failed" \in Plan
  BY DEF Plan
<1> QED BY <1>1, MessageOf, StreamLosesNothing

LEMMA BeginKeeps ==
  ASSUME TypeOK, TypeOK', CoordinatorInv, NEW c \in Call, NEW a \in Asks, Begin(c, a)
  PROVE  CoordinatorInv'
<1>0. /\ CallInv(c) /\ l[c].pc = "idle" /\ told[c] = "nothing"
      /\ holds' = holds /\ doc' = doc /\ births' = births
      /\ told' = told /\ runs' = runs /\ listed' = listed /\ gone' = gone
      /\ crowded' = crowded \cup (IF a.kind = "delete" THEN Shared(c, {ClientOf(a)}) ELSE {})
  BY ToldNothing DEF Begin, CoordinatorInv, Untouched, regVars
<1>1. /\ OthersStay(c) /\ l'[c].pc = FirstStep(a) /\ l'[c].business = ClientOf(a)
      /\ l'[c].client = l[c].client /\ l'[c].opp = l[c].opp /\ l'[c].route = l[c].route
      /\ l'[c].project = l[c].project
  BY BeginDoes
<1>2. /\ a.kind \in Kind
      /\ \/ FirstStep(a) \in {"route", "stream", "name"} \cup {"patch", "list"}
         \/ a.kind = "delete" /\ FirstStep(a) = "resolve"
  BY CoordinatorAssumption DEF CoordinatorAssumption, Ask, Kind, FirstStep
<1>3. Remembered'
  <2>1. CASE a.kind = "delete"
    <3>1. Busy(c)' \subseteq {ClientOf(a)}
      BY <1>1, <2>1 DEF Busy, K, FirstStep, Writing, Entering, Deleting
    <3> QED BY <1>0, <1>1, <2>1, <3>1, NamesShared DEF CoordinatorInv, RegistryInv
  <2>2. CASE a.kind # "delete"
    <3>1. Busy(c)' \subseteq {}
      BY <1>1, <1>2, <2>2 DEF Busy, FirstStep, Kind, Writing, Entering, Deleting
    <3>2. Shared(c, {}) = {}
      BY DEF Shared
    <3>3. crowded' = crowded \cup Shared(c, {})
      BY <1>0, <2>2, <3>2
    <3> QED BY <1>1, <3>1, <3>3, NamesShared DEF CoordinatorInv, RegistryInv
  <2> QED BY <2>1, <2>2
<1>4. CallInv(c)'
  <2>1. SoFar(c)
    BY <1>0 DEF CallInv
  <2>2. CASE FirstStep(a) \in {"route", "stream", "name"}
    <3>1. Absent(c)' /\ HasClient(c)' /\ l'[c].pc \in Entering \ {"client_write"}
      BY <1>1, <2>2 DEF Absent, HasClient, WithClient, Writing, Entering
    <3>2. SoFar(c)'
      BY <1>0, <1>1, <2>1, <2>2
         DEF SoFar, Unnamed, Lone, WithClient, WithProject, Writing, Entering, Truthful, Answering
    <3> QED BY <3>1, <3>2, EnteringOwn
  <2>3. CASE FirstStep(a) = "resolve"
    BY <1>0, <1>1, <2>3, DeletingOwn DEF Holding, Cascading, Deleting
  <2>4. CASE FirstStep(a) \in {"patch", "list"}
    BY <1>0, <1>1, <2>4, PatchingOwn DEF Holding, Basis, Patching, Deleting
  <2> QED BY <1>2, <2>2, <2>3, <2>4
<1>5. Exclusive'
  BY <1>0 DEF CoordinatorInv, RegistryInv, Exclusive
<1> QED BY <1>0, <1>1, <1>3, <1>4, <1>5, QuietStep DEF OtherwiseQuiet

LEMMA NameKeeps ==
  ASSUME TypeOK, TypeOK', CoordinatorInv, NEW c \in Call, Name(c)
  PROVE  CoordinatorInv'
<1>0. /\ CallInv(c) /\ l[c].pc = "name" /\ told[c] = "nothing" /\ SoFar(c)
      /\ holds' = holds /\ doc' = doc /\ births' = births
      /\ told' = told /\ runs' = runs /\ listed' = listed /\ gone' = gone
  BY ToldNothing DEF Name, CoordinatorInv, CallInv, Untouched, regVars
<1>1. PICK k \in Client, p \in Project :
        /\ OthersStay(c) /\ l'[c].pc = "client" /\ l'[c].business = k /\ l'[c].title = p
        /\ l'[c].route = l[c].route /\ l'[c].client = l[c].client
        /\ l'[c].project = l[c].project /\ l'[c].opp = l[c].opp
        /\ crowded' = crowded \cup Shared(c, {k, p})
  BY NameDoes
<1>2. Remembered'
  <2>1. Busy(c)' \subseteq {k, p}
    BY <1>1 DEF Busy, K, P, Writing, Entering
  <2> QED BY <1>1, <2>1, NamesShared DEF CoordinatorInv, RegistryInv
<1>3. Absent(c)' /\ HasClient(c)' /\ l'[c].pc \in Entering \ {"client_write"}
  BY <1>1 DEF Absent, HasClient, WithClient, Entering
<1>4. SoFar(c)'
  BY <1>0, <1>1
     DEF SoFar, Unnamed, Lone, WithClient, WithProject, Writing, Entering, Truthful, Answering
<1>5. Exclusive'
  BY <1>0 DEF CoordinatorInv, RegistryInv, Exclusive
<1> QED BY <1>0, <1>1, <1>2, <1>3, <1>4, <1>5, EnteringOwn, QuietStep DEF OtherwiseQuiet

(* The steps of an intake that touch no record and no turn.                *)
LEMMA TalkKeeps ==
  ASSUME TypeOK, TypeOK', CoordinatorInv, NEW c \in Call,
         TakeRoute(c) \/ TakeStream(c) \/ LookUp(c)
  PROVE  CoordinatorInv'
<1>0. /\ CallInv(c) /\ SoFar(c) /\ l[c].pc \in {"route", "stream", "look_up"}
      /\ told[c] = "nothing" /\ Quiet
      /\ holds' = holds /\ doc' = doc /\ births' = births
      /\ told' = told /\ runs' = runs /\ listed' = listed /\ gone' = gone /\ crowded' = crowded
  BY ToldNothing DEF TakeRoute, TakeStream, LookUp, CoordinatorInv, CallInv, Untouched, regVars,
     Quiet, historyVars
<1>1. \/ \E route \in {"save_client", "intake"} \cup Answering :
           l[c].pc = "route" /\ Routed(c, route, RouteStep(route))
      \/ l[c].pc = "stream" /\ Goes(c, "route")
      \/ l[c].pc = "stream" /\ Routed(c, "answer", "answer")
      \/ l[c].pc = "look_up" /\ Goes(c, "answer")
  <2>1. "answer" \in Pcs
    BY DEF Pcs, Entering
  <2> QED BY <2>1, TakeRouteDoes, TakeStreamDoes, GotoGoes
          DEF TakeRoute, TakeStream, LookUp, TypeOK
<1>2. /\ OthersStay(c) /\ l'[c].ask = l[c].ask /\ l'[c].client = l[c].client
      /\ l'[c].opp = l[c].opp /\ l'[c].project = l[c].project
      /\ l'[c].business = l[c].business /\ l'[c].title = l[c].title
      /\ l'[c].pc \in {"route", "name", "look_up", "answer"}
      /\ l'[c].pc = "route" => l'[c].route = "intake"
      /\ l'[c].pc = "name" => l'[c].route \in {"save_client", "intake"}
      /\ l'[c].pc = "look_up" => l'[c].route \in {"status", "registry"}
      /\ l'[c].pc = "answer" => l'[c].route \in Answering
  <2>1. ASSUME NEW route \in {"save_client", "intake"} \cup Answering
        PROVE  /\ RouteStep(route) \in {"name", "look_up", "answer"}
               /\ RouteStep(route) = "name" => route \in {"save_client", "intake"}
               /\ RouteStep(route) = "look_up" => route \in {"status", "registry"}
               /\ RouteStep(route) = "answer" => route \in Answering
    BY <2>1 DEF RouteStep, Answering
  <2>2. CASE \E route \in {"save_client", "intake"} \cup Answering :
               l[c].pc = "route" /\ Routed(c, route, RouteStep(route))
    BY <2>1, <2>2 DEF Routed, Keeps
  <2>3. CASE l[c].pc = "stream" /\ Goes(c, "route")
    BY <1>0, <2>3 DEF Goes, KeepsAll, Keeps, SoFar
  <2>4. CASE l[c].pc = "stream" /\ Routed(c, "answer", "answer")
    BY <2>4 DEF Routed, Keeps, Answering
  <2>5. CASE l[c].pc = "look_up" /\ Goes(c, "answer")
    BY <1>0, <2>5 DEF Goes, KeepsAll, Keeps, SoFar, Answering
  <2> QED BY <1>1, <2>2, <2>3, <2>4, <2>5
<1>3. Absent(c)' /\ HasClient(c)' /\ l'[c].pc \in Entering \ {"client_write"}
  BY <1>2 DEF Absent, HasClient, WithClient, Writing, Entering
<1>4. c \notin runs /\ l[c].opp = NoOpp /\ l[c].client = 0 /\ l[c].project = 0
  BY <1>0 DEF SoFar, Unnamed
<1>5. l'[c].pc = "answer" => Truthful(c, l[c].route)'
  BY <1>0, <1>2, <1>4, StreamedByWords DEF Truthful, Answering
<1>6. SoFar(c)'
  BY <1>0, <1>2, <1>4, <1>5
     DEF SoFar, Unnamed, Lone, WithClient, WithProject, Writing, Entering, Truthful, Answering
<1>7. BusyLess(c)
  BY <1>2 DEF BusyLess, Writing, Deleting, Entering
<1> QED BY <1>0, <1>2, <1>3, <1>6, <1>7, EnteringOwn, PlainStep

(* What a step that only goes on keeps of its own call, in an intake.      *)
LEMMA GoesBusyLess ==
  ASSUME NEW c \in Call, NEW pc, Goes(c, pc),
         pc \in Writing => l[c].pc \in Writing, pc \in Deleting => l[c].pc \in Deleting
  PROVE  OthersStay(c) /\ BusyLess(c)
BY DEF Goes, KeepsAll, Keeps, BusyLess

LEMMA ClientKeeps ==
  ASSUME TypeOK, TypeOK', CoordinatorInv, NEW c \in Call,
         FindClient(c) \/ MakeClientDir(c) \/ WriteClientFiles(c) \/ NoteClient(c)
  PROVE  CoordinatorInv'
<1>0. /\ CallInv(c) /\ Absent(c) /\ HasClient(c) /\ SoFar(c) /\ told[c] = "nothing" /\ Quiet
      /\ holds' = holds /\ doc' = doc /\ births' = births
      /\ told' = told /\ runs' = runs /\ listed' = listed /\ gone' = gone /\ crowded' = crowded
      /\ RegTypeOK
  BY ToldNothing
     DEF FindClient, MakeClientDir, WriteClientFiles, NoteClient, CoordinatorInv, CallInv,
         Untouched, regVars, Quiet, historyVars, MakeDir, TypeOK
<1>1. \E pc \in {"client_patch", "client_dir", "client_doc", "save", "project", "answer", "thrown"} :
        /\ Goes(c, pc) /\ l[c].pc \in {"client", "client_dir", "client_files", "save"}
        /\ pc = "client_dir" => ~Found(K(c)) /\ l[c].pc = "client"
        /\ pc = "client_patch" => l[c].pc = "client"
        /\ pc = "client_doc" => l[c].pc = "client_dir"
        /\ pc \in {"save", "project"} => l[c].pc = "client_files" /\ pc = After(c)
        /\ pc = "answer" => l[c].pc = "save"
  <2>1. {"client_patch", "client_dir", "client_doc", "save", "project", "answer", "thrown"} \subseteq Pcs
        /\ l \in [Call -> Local]
    BY DEF Pcs, Entering, Ended, TypeOK
  <2>2. CASE FindClient(c)
    <3>1. PICK pc \in {"client_patch", "thrown", "client_dir"} :
            Goto(c, pc) /\ (pc = "client_dir" => ~Found(K(c)))
      BY <2>2 DEF FindClient
    <3>2. Goes(c, pc) /\ l[c].pc = "client"
      BY <2>1, <2>2, <3>1, GotoGoes DEF FindClient
    <3> QED BY <3>1, <3>2
  <2>3. CASE MakeClientDir(c)
    BY <2>1, <2>3, GotoGoes DEF MakeClientDir
  <2>4. CASE WriteClientFiles(c)
    <3>1. After(c) \in {"save", "project"}
      BY DEF After
    <3> QED BY <2>1, <2>4, <3>1, GotoGoes DEF WriteClientFiles
  <2>5. CASE NoteClient(c)
    <3>1. PICK pc \in {"answer", "thrown"} : Goto(c, pc)
      BY <2>5 DEF NoteClient
    <3> QED BY <2>1, <2>5, <3>1, GotoGoes DEF NoteClient
  <2> QED BY <2>2, <2>3, <2>4, <2>5
<1>2. PICK pc \in {"client_patch", "client_dir", "client_doc", "save", "project", "answer", "thrown"} :
        /\ Goes(c, pc) /\ l[c].pc \in {"client", "client_dir", "client_files", "save"}
        /\ pc = "client_dir" => ~Found(K(c)) /\ l[c].pc = "client"
        /\ pc = "client_patch" => l[c].pc = "client"
        /\ pc = "client_doc" => l[c].pc = "client_dir"
        /\ pc \in {"save", "project"} => l[c].pc = "client_files" /\ pc = After(c)
        /\ pc = "answer" => l[c].pc = "save"
  BY <1>1
<1>3. OthersStay(c) /\ BusyLess(c)
  BY <1>2, GoesBusyLess DEF Writing, Entering, Deleting
<1>4. /\ l'[c].pc = pc /\ l'[c].ask = l[c].ask /\ l'[c].client = l[c].client
      /\ l'[c].opp = l[c].opp /\ l'[c].project = l[c].project /\ l'[c].route = l[c].route
      /\ l'[c].business = l[c].business /\ l'[c].title = l[c].title
  BY <1>2 DEF Goes, KeepsAll, Keeps
<1>5. CallInv(c)'
  <2>1. CASE pc = "thrown"
    BY <1>0, <1>4, <2>1, AtRest
  <2>2. CASE pc # "thrown"
    <3>1. Absent(c)' /\ l'[c].pc \in Entering \ {"client_write"}
      BY <1>0, <1>2, <1>4, <2>2 DEF Absent, Entering, Found, K, P
    <3>2. HasClient(c)'
      BY <1>0, <1>2, <1>4, <2>2 DEF HasClient, WithClient, Writing, Entering, K
    <3>3. SoFar(c)'
      <4>1. Lasts(K(c), l[c].client)' <=> Lasts(K(c), l[c].client)
        BY <1>0, <1>4 DEF Lasts, K
      <4>2. /\ c \notin runs' /\ l'[c].opp = NoOpp /\ l'[c].project = 0
            /\ l'[c].route \in {"save_client", "intake"}
            /\ l[c].pc = "save" => l'[c].route = "save_client"
        BY <1>0, <1>2, <1>4 DEF SoFar, Unnamed, Lone
      <4>3. l[c].pc \in {"client_files", "save"} => l'[c].client > 0 /\ Lasts(K(c), l[c].client)'
        BY <1>0, <1>4, <4>1 DEF SoFar, HasClient, WithClient, Writing, Entering
      <4>4. /\ pc = "save" => l'[c].route = "save_client"
            /\ pc = "project" => l'[c].route = "intake"
        BY <1>2, <1>4, <4>2 DEF After
      <4>5. pc = "answer" => Truthful(c, l[c].route)'
        BY <1>2, <1>4, <4>2, <4>3 DEF Truthful, K, Lasts, Answering
      <4> QED BY <1>0, <1>2, <1>4, <2>2, <4>2, <4>3, <4>4, <4>5
              DEF SoFar, Unnamed, Lone, WithClient, WithProject, Writing, Entering, Truthful, Answering
    <3> QED BY <3>1, <3>2, <3>3, EnteringOwn
  <2> QED BY <2>1, <2>2
<1> QED BY <1>0, <1>3, <1>5, PlainStep

LEMMA WriteClientKeeps ==
  ASSUME TypeOK, TypeOK', CoordinatorInv, NEW c \in Call, WriteClient(c)
  PROVE  CoordinatorInv'
<1>0. /\ CallInv(c) /\ Absent(c) /\ SoFar(c) /\ told[c] = "nothing" /\ l[c].pc = "client_doc"
      /\ told' = told /\ runs' = runs /\ listed' = listed /\ gone' = gone /\ crowded' = crowded
      /\ RegTypeOK /\ WriteNew(K(c), Nobody)
  BY ToldNothing DEF WriteClient, CoordinatorInv, CallInv, Quiet, historyVars, TypeOK
<1>1. K(c) \in Path /\ K(c) \in Client
  BY KeysTyped
<1>2. /\ holds' = holds /\ doc'[K(c)].birth = births[K(c)] + 1
      /\ \A q \in Path \ {K(c)} : doc'[q] = doc[q] /\ births'[q] = births[q]
      /\ births'[K(c)] = births[K(c)] + 1
  <2>1. /\ holds' = holds /\ births'[K(c)] = births[K(c)] + 1
        /\ OnlyDoc(K(c), [birth |-> births[K(c)] + 1, client |-> Nobody])
        /\ \A q \in Path \ {K(c)} : births'[q] = births[q]
    BY <1>0, <1>1, NobodyTyped, WriteNewDoes
  <2> QED BY <2>1 DEF OnlyDoc
<1>3. /\ OthersStay(c) /\ l'[c].pc = "client_files" /\ l'[c].ask = l[c].ask
      /\ l'[c].client = births[K(c)] + 1
      /\ l'[c].opp = l[c].opp /\ l'[c].project = l[c].project /\ l'[c].route = l[c].route
      /\ l'[c].business = l[c].business /\ l'[c].title = l[c].title
  BY WriteClientDoes
<1>4. ~Found(K(c)) \/ K(c) \in crowded
  BY <1>0 DEF Absent
<1>5. K(c) \in Busy(c)
  BY <1>0, BusyKeys, StepsApart
<1>6. \A e \in Call : e # c => Leaves(e)
  BY <1>0, <1>1, <1>3, <1>4, <1>5, NobodyTyped, NewLeaves
     DEF OtherwiseQuiet, CoordinatorInv, RegistryInv
<1>7. RegistryInv'
  <2>1. RecordsKept'
    BY <1>1, <1>2, BirthsCounted DEF RecordsKept, CoordinatorInv, RegistryInv
  <2>2. Exclusive'
    BY <1>2 DEF Exclusive, CoordinatorInv, RegistryInv
  <2>3. Remembered'
    <3>1. BusyLess(c)
      BY <1>0, <1>3 DEF BusyLess, Writing, Deleting, Entering
    <3> QED BY <1>0, <1>3, <3>1, RememberedStays DEF CoordinatorInv, RegistryInv
  <2>4. Owned'
    <3>1. \A p \in Project \cup Opp : doc'[p] = doc[p]
      BY <1>1, <1>2, SlugsThere, PathsApart
    <3>2. \A k \in Client : doc'[k] = doc[k] \/ k \in crowded' \/ doc[k].birth = 0
      BY <1>0, <1>2, <1>4, SlugsThere DEF Found, NoRecord
    <3> QED BY <1>0, <3>1, <3>2, OwnedStays DEF CoordinatorInv, RegistryInv
  <2> QED BY <2>1, <2>2, <2>3, <2>4 DEF RegistryInv
<1>8. CallInv(c)'
  <2>1. Absent(c)' /\ l'[c].pc \in Entering \ {"client_write"}
    BY <1>3 DEF Absent, Entering
  <2>2. /\ K(c)' = K(c) /\ l'[c].client > 0 /\ doc'[K(c)].birth = l'[c].client
    BY <1>1, <1>2, <1>3, BirthsCounted DEF K
  <2>3. HasClient(c)'
    BY <2>2 DEF HasClient
  <2>4. SoFar(c)'
    BY <1>0, <1>3, <2>2 DEF SoFar, Unnamed, Lone, WithClient, WithProject, Writing, Entering, Truthful, Answering, Lasts
  <2> QED BY <2>1, <2>3, <2>4, EnteringOwn
<1> QED BY <1>6, <1>7, <1>8, Together

LEMMA ReadClientKeeps ==
  ASSUME TypeOK, TypeOK', CoordinatorInv, NEW c \in Call, ReadClient(c)
  PROVE  CoordinatorInv'
<1>0. /\ CallInv(c) /\ SoFar(c) /\ told[c] = "nothing" /\ l[c].pc = "client_patch" /\ Quiet
      /\ told' = told /\ runs' = runs /\ listed' = listed /\ gone' = gone /\ crowded' = crowded
      /\ RegTypeOK /\ l \in [Call -> Local]
  BY ToldNothing DEF ReadClient, CoordinatorInv, CallInv, Quiet, historyVars, TypeOK
<1>1. K(c) \in Path /\ K(c) \in Client
  BY KeysTyped
<1>2. CASE /\ ReadToPatch(c, K(c))
           /\ l' = [l EXCEPT ![c].pc = "client_write", ![c].base = doc[K(c)],
                             ![c].client = doc[K(c)].birth]
  <2>1. /\ OnlyHolds(c, holds[c] \cup {K(c)}) /\ Free(K(c)) /\ Found(K(c))
        /\ doc' = doc /\ births' = births
    BY <1>0, <1>1, <1>2, TakeDoes DEF ReadToPatch
  <2>2. /\ OthersStay(c) /\ l'[c].pc = "client_write" /\ l'[c].ask = l[c].ask
        /\ l'[c].client = doc[K(c)].birth /\ l'[c].base = doc[K(c)]
        /\ l'[c].opp = l[c].opp /\ l'[c].project = l[c].project /\ l'[c].route = l[c].route
        /\ l'[c].business = l[c].business /\ l'[c].title = l[c].title
    BY <1>2, ReadClientFoundDoes
  <2>3. BusyLess(c)
    BY <1>0, <2>2 DEF BusyLess, Writing, Deleting, Entering
  <2>4. doc[K(c)].birth > 0 /\ doc[K(c)].birth <= births[K(c)] /\ K(c)' = K(c)
    BY <1>1, <2>1, <2>2, BirthsCounted DEF CoordinatorInv, RegistryInv, RecordsKept, Found, K
  <2>5. Holding(c)' /\ Basis(c)'
    BY <2>1, <2>2, <2>4 DEF Holding, Basis, OnlyHolds, Found, Deleting
  <2>6. Absent(c)' /\ Cascading(c)'
    BY <2>2 DEF Absent, Cascading, Deleting
  <2>7. HasClient(c)'
    BY <2>1, <2>2, <2>4 DEF HasClient
  <2>8. SoFar(c)'
    BY <1>0, <2>1, <2>2, <2>4 DEF SoFar, Unnamed, Lone, WithClient, WithProject, Writing, Entering, Truthful, Answering, Lasts
  <2>9. CallInv(c)'
    BY <2>5, <2>6, <2>7, <2>8 DEF CallInv
  <2> QED BY <1>0, <2>1, <2>2, <2>3, <2>9, TurnStep
<1>3. CASE Throw(c) /\ Untouched
  <2>1. "thrown" \in Pcs
    BY DEF Pcs, Ended
  <2>2. Goes(c, "thrown") /\ holds' = holds /\ doc' = doc /\ births' = births
    BY <1>0, <1>3, <2>1, GotoGoes DEF Throw, Untouched, regVars
  <2>3. OthersStay(c) /\ BusyLess(c)
    BY <2>2, GoesBusyLess DEF Writing, Entering, Deleting
  <2>4. CallInv(c)'
    BY <1>0, <2>2, AtRest DEF Goes
  <2> QED BY <1>0, <2>2, <2>3, <2>4, PlainStep
<1> QED BY <1>2, <1>3 DEF ReadClient

(* The registries under a patch, a new dependent and the removal of one.   *)
LEMMA WriteBackRegistry ==
  ASSUME TypeOK, RegistryInv, NEW c \in Call, OthersStay(c), BusyLess(c), crowded' = crowded,
         NEW p \in Path, NEW record \in Record, WriteBack(c, p, record),
         record.birth > 0, record.birth <= births[p], doc[p] = record \/ p \in crowded
  PROVE  RegistryInv'
<1>1. /\ OnlyDoc(p, record) /\ births' = births /\ OnlyHolds(c, holds[c] \ {p})
  <2>1. RegTypeOK
    BY DEF TypeOK
  <2> QED BY <2>1, WriteBackDoes
<1>2. \A q \in Path : doc'[q] = doc[q] \/ q = p
  BY <1>1 DEF OnlyDoc
<1>3. RecordsKept'
  BY <1>1, <1>2, BirthsCounted DEF RegistryInv, RecordsKept, OnlyDoc
<1>4. Exclusive'
  BY <1>1, TurnsExclusive DEF RegistryInv
<1>5. Remembered'
  BY RememberedStays DEF RegistryInv
<1>6. Owned'
  <2>1. \A q \in Path : doc'[q] = doc[q] \/ q \in crowded'
    BY <1>1, <1>2 DEF OnlyDoc
  <2> QED BY <2>1, SlugsThere, OwnedStays DEF RegistryInv
<1> QED BY <1>3, <1>4, <1>5, <1>6 DEF RegistryInv

LEMMA NewRegistry ==
  ASSUME TypeOK, RegistryInv, NEW c \in Call, OthersStay(c), BusyLess(c), crowded' = crowded,
         NEW p \in Project \cup Opp, WriteNew(p, ClientIdOf(c)),
         l[c].client > 0, doc[K(c)].birth = l[c].client \/ K(c) \in crowded
  PROVE  RegistryInv'
<1>0. RegTypeOK /\ p \in Path /\ K(c) \in Client /\ K(c) \in Path /\ ClientIdOf(c) \in ClientId
  BY SlugsThere, KeysTyped DEF TypeOK
<1>1. /\ OnlyDoc(p, [birth |-> births[p] + 1, client |-> ClientIdOf(c)]) /\ holds' = holds
      /\ births'[p] = births[p] + 1 /\ \A q \in Path \ {p} : births'[q] = births[q]
  BY <1>0, WriteNewDoes
<1>2. \A q \in Path : doc'[q] = doc[q] \/ q = p
  BY <1>1 DEF OnlyDoc
<1>3. doc'[p].birth = births[p] + 1 /\ doc'[p].client = ClientIdOf(c)
  BY <1>1 DEF OnlyDoc
<1>4. RecordsKept'
  BY <1>1, <1>2, <1>3, BirthsCounted DEF RegistryInv, RecordsKept
<1>5. Exclusive'
  BY <1>1 DEF RegistryInv, Exclusive
<1>6. Remembered'
  BY RememberedStays DEF RegistryInv
<1>7. Owned'
  <2>1. \A k \in Client : doc'[k] = doc[k]
    BY <1>2, SlugsThere, PathsApart
  <2>2. /\ ClientIdOf(c).birth > 0 /\ ClientIdOf(c).slug = K(c)
        /\ doc'[K(c)].birth = ClientIdOf(c).birth \/ K(c) \in crowded'
    BY <1>0, <2>1 DEF ClientIdOf
  <2> QED BY <1>2, <1>3, <2>1, <2>2, SlugsThere, OwnedStays DEF RegistryInv
<1> QED BY <1>4, <1>5, <1>6, <1>7 DEF RegistryInv

LEMMA RemovalRegistry ==
  ASSUME TypeOK, RegistryInv, NEW c \in Call, OthersStay(c), BusyLess(c), crowded' = crowded,
         NEW p \in Project \cup Opp, RemoveRecord(c, p)
  PROVE  RegistryInv'
<1>0. RegTypeOK /\ p \in Path
  BY SlugsThere DEF TypeOK
<1>1. /\ OnlyDoc(p, NoRecord) /\ births' = births /\ holds' = holds
  BY <1>0, RemoveRecordDoes
<1>2. /\ \A q \in Path : doc'[q] = doc[q] \/ q = p
      /\ doc'[p] = NoRecord /\ NoRecord.birth = 0
  BY <1>1 DEF OnlyDoc, NoRecord
<1>3. RecordsKept'
  BY <1>0, <1>1, <1>2, BirthsCounted DEF RegistryInv, RecordsKept
<1>4. Exclusive'
  BY <1>1 DEF RegistryInv, Exclusive
<1>5. Remembered'
  BY RememberedStays DEF RegistryInv
<1>6. Owned'
  <2>1. \A k \in Client : doc'[k] = doc[k]
    BY <1>2, SlugsThere, PathsApart
  <2> QED BY <1>2, <2>1, SlugsThere, OwnedStays DEF RegistryInv
<1> QED BY <1>3, <1>4, <1>5, <1>6 DEF RegistryInv

LEMMA PatchClientKeeps ==
  ASSUME TypeOK, TypeOK', CoordinatorInv, NEW c \in Call, PatchClient(c)
  PROVE  CoordinatorInv'
<1>0. /\ CallInv(c) /\ Holding(c) /\ Basis(c) /\ HasClient(c) /\ SoFar(c)
      /\ told[c] = "nothing" /\ l[c].pc = "client_write" /\ RegistryInv
      /\ told' = told /\ runs' = runs /\ listed' = listed /\ gone' = gone /\ crowded' = crowded
      /\ RegTypeOK /\ l \in [Call -> Local] /\ WriteBack(c, K(c), l[c].base)
  BY ToldNothing DEF PatchClient, CoordinatorInv, CallInv, Quiet, historyVars, TypeOK
<1>1. K(c) \in Path /\ K(c) \in Client /\ l[c].base \in Record
  BY KeysTyped
<1>2. /\ Found(K(c)) /\ l[c].base # NoRecord /\ l[c].base.birth = l[c].client
      /\ l[c].base.birth > 0 /\ l[c].base.birth <= births[K(c)]
      /\ doc[K(c)] = l[c].base \/ K(c) \in crowded
  BY <1>0, StepsApart DEF Holding, Basis, HasClient
<1>3. After(c) \in {"save", "project"} /\ After(c) \in Pcs
  BY DEF After, Pcs, Entering
<1>4. Goes(c, After(c))
  BY <1>0, <1>3, GotoGoes DEF PatchClient
<1>5. OthersStay(c) /\ BusyLess(c)
  BY <1>0, <1>3, <1>4, GoesBusyLess DEF Writing, Entering, Deleting
<1>6. /\ l'[c].pc = After(c) /\ l'[c].ask = l[c].ask /\ l'[c].client = l[c].client
      /\ l'[c].opp = l[c].opp /\ l'[c].project = l[c].project /\ l'[c].route = l[c].route
      /\ l'[c].business = l[c].business /\ l'[c].title = l[c].title
  BY <1>4 DEF Goes, KeepsAll, Keeps
<1>7. \A e \in Call : e # c => Leaves(e)
  BY <1>0, <1>1, <1>2, <1>5, WriteBackLeaves DEF OtherwiseQuiet
<1>8. RegistryInv'
  BY <1>0, <1>1, <1>2, <1>5, WriteBackRegistry
<1>9. CallInv(c)'
  <2>1. doc'[K(c)] = l[c].base /\ K(c)' = K(c)
    BY <1>0, <1>1, <1>6, WriteBackDoes DEF OnlyDoc, K
  <2>2. Absent(c)' /\ l'[c].pc \in Entering \ {"client_write"}
    BY <1>3, <1>6 DEF Absent, Entering
  <2>3. HasClient(c)'
    BY <1>2, <1>6, <2>1 DEF HasClient
  <2>4. SoFar(c)'
    <3>1. l'[c].route \in {"save_client", "intake"} /\ c \notin runs' /\ l'[c].opp = NoOpp
          /\ l'[c].project = 0
      BY <1>0, <1>6 DEF SoFar, Lone
    <3>2. l'[c].pc = (IF l'[c].route = "save_client" THEN "save" ELSE "project")
      BY <1>6 DEF After
    <3>3. Lasts(K(c), l[c].client)'
      BY <1>2, <1>6, <2>1 DEF Lasts
    <3> QED BY <1>0, <1>6, <3>1, <3>2, <3>3 DEF SoFar, Unnamed, Lone, WithClient, WithProject, Writing, Entering, Truthful, Answering
  <2> QED BY <2>2, <2>3, <2>4, EnteringOwn
<1> QED BY <1>7, <1>8, <1>9, Together

LEMMA FindProjectKeeps ==
  ASSUME TypeOK, TypeOK', CoordinatorInv, NEW c \in Call, FindProject(c)
  PROVE  CoordinatorInv'
<1>0. /\ CallInv(c) /\ HasClient(c) /\ SoFar(c) /\ told[c] = "nothing" /\ Quiet
      /\ l[c].pc = "project" /\ holds' = holds /\ doc' = doc /\ births' = births
      /\ told' = told /\ runs' = runs /\ listed' = listed /\ gone' = gone /\ crowded' = crowded
  BY ToldNothing
     DEF FindProject, CoordinatorInv, CallInv, Untouched, regVars, Quiet, historyVars
<1>1. /\ OthersStay(c) /\ l'[c].pc = FoundProject(c) /\ l'[c].ask = l[c].ask
      /\ l'[c].client = l[c].client /\ l'[c].project = doc[P(c)].birth
      /\ l'[c].opp = l[c].opp /\ l'[c].route = l[c].route
      /\ l'[c].business = l[c].business /\ l'[c].title = l[c].title
  BY FindProjectDoes
<1>2. /\ FoundProject(c) \in {"opportunity", "project_dir", "thrown"}
      /\ FoundProject(c) = "opportunity" => Found(P(c))
      /\ FoundProject(c) = "project_dir" => ~Found(P(c))
  BY DEF FoundProject
<1>3. BusyLess(c)
  BY <1>0, <1>1, <1>2 DEF BusyLess, Writing, Entering, Deleting
<1>4. CallInv(c)'
  <2>1. CASE FoundProject(c) = "thrown"
    BY <1>0, <1>1, <2>1, AtRest
  <2>2. CASE FoundProject(c) # "thrown"
    <3>1. Absent(c)' /\ l'[c].pc \in Entering \ {"client_write"}
      BY <1>0, <1>1, <1>2, <2>2 DEF Absent, Entering, Found, P
    <3>2. HasClient(c)' /\ l[c].client > 0
      BY <1>0, <1>1 DEF HasClient, WithClient, Writing, Entering, K
    <3>3. Found(P(c)) => doc[P(c)].birth > 0
      BY KeysTyped, BirthsCounted DEF CoordinatorInv, RegistryInv, RecordsKept, Found
    <3>4. SoFar(c)'
      <4>1. /\ c \notin runs' /\ l'[c].opp = NoOpp /\ l'[c].route = "intake"
            /\ Lasts(K(c), l[c].client)'
        BY <1>0, <1>1 DEF SoFar, WithClient, Writing, Entering, Lone, Lasts, K
      <4>2. l'[c].pc = "opportunity" => l'[c].project > 0 /\ Lasts(P(c), l[c].project)'
        BY <1>0, <1>1, <1>2, <3>3 DEF Lasts, P
      <4> QED BY <1>0, <1>1, <1>2, <2>2, <4>1, <4>2 DEF SoFar, Unnamed, Lone, WithClient, WithProject, Writing, Entering, Truthful, Answering
    <3> QED BY <3>1, <3>2, <3>4, EnteringOwn
  <2> QED BY <2>1, <2>2
<1> QED BY <1>0, <1>1, <1>3, <1>4, PlainStep

(* The steps of an intake with a project that write no record.             *)
LEMMA WorkKeeps ==
  ASSUME TypeOK, TypeOK', CoordinatorInv, NEW c \in Call,
         \/ MakeProjectDir(c) \/ WriteProjectFiles(c) \/ StartRun(c)
         \/ AttachArtifacts(c) \/ Remember(c) \/ Answer(c)
  PROVE  CoordinatorInv'
<1>0. /\ CallInv(c) /\ Absent(c) /\ HasClient(c) /\ SoFar(c) /\ told[c] = "nothing"
      /\ holds' = holds /\ doc' = doc /\ births' = births /\ gone' = gone /\ crowded' = crowded
      /\ RegTypeOK /\ l \in [Call -> Local]
      /\ l[c].pc \in {"project_dir", "project_files", "run", "artifacts", "remember", "answer"}
  BY ToldNothing
     DEF MakeProjectDir, WriteProjectFiles, StartRun, AttachArtifacts, Remember, Answer,
         CoordinatorInv, CallInv, Untouched, regVars, Quiet, historyVars, MakeDir, TypeOK
<1>1. \A e \in Call : e # c =>
        listed'[e] = listed[e] /\ told'[e] = told[e] /\ (e \in runs' <=> e \in runs)
  BY DEF MakeProjectDir, WriteProjectFiles, StartRun, AttachArtifacts, Remember, Answer, Quiet,
     TypeOK
<1>2. PICK pc \in {"project_doc", "opportunity", "artifacts", "remember", "answer", "over", "thrown"} :
        /\ Goes(c, pc)
        /\ pc = "project_doc" => MakeProjectDir(c)
        /\ pc = "opportunity" => WriteProjectFiles(c)
        /\ pc = "artifacts" => StartRun(c)
        /\ pc = "remember" => AttachArtifacts(c)
        /\ pc = "answer" => Remember(c)
        /\ pc = "over" => Answer(c)
        /\ pc = "thrown" => told' = told
  <2>1. /\ {"project_doc", "opportunity", "artifacts", "remember", "answer", "over", "thrown"}
             \subseteq Pcs
        /\ \A pc \in Pcs : Goto(c, pc) => Goes(c, pc)
    BY <1>0, GotoGoes DEF Pcs, Entering, Ended
  <2>2. CASE Remember(c)
    <3>1. PICK pc \in {"answer", "thrown"} : Goto(c, pc)
      BY <2>2 DEF Remember
    <3> QED BY <2>1, <2>2, <3>1 DEF Remember, Quiet
  <2> QED BY <2>1, <2>2 DEF MakeProjectDir, WriteProjectFiles, StartRun, AttachArtifacts, Answer
<1>3. OthersStay(c) /\ BusyLess(c)
  BY <1>0, <1>2, GoesBusyLess
     DEF Writing, Entering, Deleting, MakeProjectDir, WriteProjectFiles, StartRun,
         AttachArtifacts, Remember, Answer
<1>4. /\ l'[c].pc = pc /\ l'[c].ask = l[c].ask /\ l'[c].client = l[c].client
      /\ l'[c].opp = l[c].opp /\ l'[c].project = l[c].project /\ l'[c].route = l[c].route
      /\ l'[c].business = l[c].business /\ l'[c].title = l[c].title
      /\ K(c)' = K(c) /\ P(c)' = P(c)
  BY <1>2 DEF Goes, KeepsAll, Keeps, K, P
<1>5. /\ Lasts(K(c), l[c].client)' <=> Lasts(K(c), l[c].client)
      /\ Lasts(P(c), l[c].project)' <=> Lasts(P(c), l[c].project)
      /\ Lasts(l[c].opp, 1)' <=> Lasts(l[c].opp, 1)
  BY <1>0, <1>4 DEF Lasts
<1>6. CallInv(c)'
  <2>1. CASE pc = "thrown"
    BY <1>0, <1>2, <1>4, <2>1, AtRest
  <2>2. CASE pc = "project_doc"
    <3>1. /\ l[c].pc = "project_dir" /\ told' = told /\ runs' = runs
      BY <1>2, <2>2 DEF MakeProjectDir, Quiet
    <3>2. Absent(c)' /\ HasClient(c)' /\ l'[c].pc \in Entering \ {"client_write"}
      BY <1>0, <1>4, <2>2, <3>1 DEF Absent, HasClient, Found, WithClient, Writing, Entering
    <3>3. SoFar(c)'
      BY <1>0, <1>4, <1>5, <2>2, <3>1 DEF SoFar, Unnamed, Lone, WithClient, WithProject, Writing, Entering, Truthful, Answering
    <3> QED BY <3>2, <3>3, EnteringOwn
  <2>3. CASE pc = "opportunity"
    <3>1. /\ l[c].pc = "project_files" /\ told' = told /\ runs' = runs
      BY <1>2, <2>3 DEF WriteProjectFiles, Quiet
    <3>2. Absent(c)' /\ HasClient(c)' /\ l'[c].pc \in Entering \ {"client_write"}
      BY <1>0, <1>4, <2>3, <3>1 DEF Absent, HasClient, WithClient, Writing, Entering
    <3>3. SoFar(c)'
      BY <1>0, <1>4, <1>5, <2>3, <3>1 DEF SoFar, Unnamed, Lone, WithClient, WithProject, Writing, Entering, Truthful, Answering
    <3> QED BY <3>2, <3>3, EnteringOwn
  <2>4. CASE pc = "artifacts"
    <3>1. /\ l[c].pc = "run" /\ told' = told /\ runs' = runs \cup {c}
      BY <1>2, <2>4 DEF StartRun
    <3>2. Absent(c)' /\ HasClient(c)' /\ l'[c].pc \in Entering \ {"client_write"}
      BY <1>0, <1>4, <2>4, <3>1 DEF Absent, HasClient, WithClient, Writing, Entering
    <3>3. SoFar(c)'
      BY <1>0, <1>4, <1>5, <2>4, <3>1 DEF SoFar, Unnamed, Lone, WithClient, WithProject, Writing, Entering, Truthful, Answering
    <3> QED BY <3>2, <3>3, EnteringOwn
  <2>5. CASE pc = "remember"
    <3>1. /\ l[c].pc = "artifacts" /\ told' = told /\ runs' = runs
          /\ listed'[c] = Artifacts(l[c].ask.message)
      BY <1>2, <2>5 DEF AttachArtifacts, TypeOK
    <3>2. Absent(c)' /\ HasClient(c)' /\ l'[c].pc \in Entering \ {"client_write"}
      BY <1>0, <1>4, <2>5, <3>1 DEF Absent, HasClient, WithClient, Writing, Entering
    <3>3. Artifacts(l[c].ask.message)' = Artifacts(l[c].ask.message)
      BY <1>4 DEF Artifacts
    <3>4. SoFar(c)'
      BY <1>0, <1>4, <1>5, <2>5, <3>1, <3>3 DEF SoFar, Unnamed, Lone, WithClient, WithProject, Writing, Entering, Truthful, Answering
    <3> QED BY <3>2, <3>4, EnteringOwn
  <2>6. CASE pc = "answer"
    <3>1. /\ l[c].pc = "remember" /\ told' = told /\ runs' = runs /\ listed' = listed
      BY <1>2, <2>6 DEF Remember, Quiet
    <3>2. Absent(c)' /\ HasClient(c)' /\ l'[c].pc \in Entering \ {"client_write"}
      BY <1>4, <2>6 DEF Absent, HasClient, WithClient, Writing, Entering
    <3>3. /\ l'[c].route = "intake" /\ c \in runs' /\ listed'[c] = Artifacts(l[c].ask.message)'
          /\ l'[c].client > 0 /\ Lasts(K(c), l[c].client)'
          /\ l'[c].project > 0 /\ Lasts(P(c), l[c].project)'
          /\ l'[c].opp # NoOpp /\ Lasts(l[c].opp, 1)'
      BY <1>0, <1>4, <1>5, <3>1
         DEF SoFar, HasClient, WithClient, WithProject, Writing, Entering, Lone, Artifacts
    <3>4. Truthful(c, l[c].route)'
      BY <3>3 DEF Truthful, Answering, K, P, Lasts
    <3>5. SoFar(c)'
      BY <1>0, <1>4, <2>6, <3>1, <3>4 DEF SoFar, Unnamed, Lone, WithClient, WithProject, Writing, Entering, Truthful, Answering
    <3> QED BY <3>2, <3>5, EnteringOwn
  <2>7. CASE pc = "over"
    <3>1. /\ l[c].pc = "answer" /\ told'[c] = l[c].route /\ runs' = runs /\ listed' = listed
      BY <1>2, <2>7 DEF Answer, TypeOK
    <3>2. Truthful(c, l[c].route)
      BY <1>0, <3>1 DEF SoFar
    <3>3. Truthful(c, told[c])'
      BY <1>0, <1>4, <1>5, <3>1, <3>2 DEF Truthful, Answering, K, P, Lasts, Artifacts
    <3>4. SoFar(c)'
      BY <1>4, <2>7, <3>3
         DEF SoFar, Unnamed, Lone, WithClient, WithProject, Writing, Entering
    <3>5. /\ Holding(c)' /\ Basis(c)' /\ Absent(c)' /\ HasClient(c)' /\ Cascading(c)'
      BY <1>4, <2>7
         DEF Holding, Basis, Absent, HasClient, Cascading, WithClient, Writing, Entering, Deleting
    <3> QED BY <3>4, <3>5 DEF CallInv
  <2> QED BY <2>1, <2>2, <2>3, <2>4, <2>5, <2>6, <2>7
<1>7. Exclusive' /\ Remembered'
  BY <1>0, <1>3, RememberedStays DEF CoordinatorInv, RegistryInv, Exclusive
<1> QED BY <1>0, <1>1, <1>3, <1>6, <1>7, QuietStep DEF OtherwiseQuiet

LEMMA WriteProjectKeeps ==
  ASSUME TypeOK, TypeOK', CoordinatorInv, NEW c \in Call, WriteProject(c)
  PROVE  CoordinatorInv'
<1>0. /\ CallInv(c) /\ Absent(c) /\ HasClient(c) /\ SoFar(c) /\ RegistryInv
      /\ told[c] = "nothing" /\ l[c].pc = "project_doc" /\ RegTypeOK
      /\ told' = told /\ runs' = runs /\ listed' = listed /\ gone' = gone /\ crowded' = crowded
      /\ WriteNew(P(c), ClientIdOf(c))
  BY ToldNothing DEF WriteProject, CoordinatorInv, CallInv, Quiet, historyVars, TypeOK
<1>1. /\ P(c) \in Path /\ P(c) \in Project /\ K(c) \in Path /\ K(c) \in Client
      /\ ClientIdOf(c) \in ClientId /\ ClientIdOf(c).slug = K(c)
  BY KeysTyped DEF ClientIdOf
<1>2. /\ OthersStay(c) /\ l'[c].pc = "project_files" /\ l'[c].ask = l[c].ask
      /\ l'[c].client = l[c].client /\ l'[c].project = births[P(c)] + 1
      /\ l'[c].opp = l[c].opp /\ l'[c].route = l[c].route
      /\ l'[c].business = l[c].business /\ l'[c].title = l[c].title
  BY WriteProjectDoes
<1>3. BusyLess(c)
  BY <1>0, <1>2 DEF BusyLess, Writing, Deleting, Entering
<1>4. /\ P(c) \in Busy(c) /\ K(c) \in Busy(c)
      /\ ~Found(P(c)) \/ P(c) \in crowded
      /\ l[c].client > 0 /\ (doc[K(c)].birth = l[c].client \/ K(c) \in crowded)
  BY <1>0, BusyKeys, StepsApart DEF Absent, HasClient, WithClient, Writing, Entering
<1>5. \A e \in Call : e # c => Leaves(e)
  BY <1>0, <1>1, <1>2, <1>4, NewLeaves DEF OtherwiseQuiet, RegistryInv
<1>6. RegistryInv'
  BY <1>0, <1>1, <1>2, <1>3, <1>4, NewRegistry
<1>7. CallInv(c)'
  <2>1. doc'[K(c)] = doc[K(c)] /\ doc'[P(c)].birth = births[P(c)] + 1
    <3>1. OnlyDoc(P(c), [birth |-> births[P(c)] + 1, client |-> ClientIdOf(c)])
      BY <1>0, <1>1, WriteNewDoes
    <3> QED BY <1>1, <3>1, PathsApart DEF OnlyDoc
  <2>2. K(c)' = K(c) /\ P(c)' = P(c) /\ births[P(c)] + 1 > 0
    BY <1>1, <1>2, BirthsCounted DEF K, P
  <2>3. Absent(c)' /\ HasClient(c)' /\ l'[c].pc \in Entering \ {"client_write"}
    BY <1>0, <1>2, <1>4, <2>1, <2>2 DEF Absent, HasClient, Entering
  <2>4. Lasts(P(c), l[c].project)'
    BY <1>2, <2>1, <2>2 DEF Lasts
  <2>5. Lasts(K(c), l[c].client)'
    <3>1. Lasts(K(c), l[c].client)
      BY <1>0 DEF SoFar, WithClient, Writing, Entering
    <3> QED BY <1>0, <1>2, <2>1, <2>2, <3>1 DEF Lasts
  <2>6. SoFar(c)'
    BY <1>0, <1>2, <2>2, <2>4, <2>5 DEF SoFar, Unnamed, Lone, WithClient, WithProject, Writing, Entering, Truthful, Answering
  <2> QED BY <2>3, <2>6, EnteringOwn
<1> QED BY <1>5, <1>6, <1>7, Together

LEMMA CreateOpportunityKeeps ==
  ASSUME TypeOK, TypeOK', CoordinatorInv, NEW c \in Call, CreateOpportunity(c)
  PROVE  CoordinatorInv'
<1>0. /\ CallInv(c) /\ HasClient(c) /\ SoFar(c) /\ RegistryInv
      /\ told[c] = "nothing" /\ l[c].pc = "opportunity" /\ RegTypeOK
      /\ told' = told /\ runs' = runs /\ listed' = listed /\ gone' = gone /\ crowded' = crowded
  BY ToldNothing DEF CreateOpportunity, CoordinatorInv, CallInv, Quiet, historyVars, TypeOK
<1>1. PICK o \in Opp :
        WriteNew(o, ClientIdOf(c)) /\ l' = [l EXCEPT ![c].pc = "run", ![c].opp = o]
  BY DEF CreateOpportunity
<1>2. /\ P(c) \in Path /\ P(c) \in Project /\ K(c) \in Path /\ K(c) \in Client /\ o \in Path
      /\ ClientIdOf(c) \in ClientId /\ ClientIdOf(c).slug = K(c)
  BY KeysTyped, SlugsThere DEF ClientIdOf
<1>3. /\ OthersStay(c) /\ l'[c].pc = "run" /\ l'[c].ask = l[c].ask
      /\ l'[c].client = l[c].client /\ l'[c].project = l[c].project
      /\ l'[c].opp = o /\ l'[c].route = l[c].route
      /\ l'[c].business = l[c].business /\ l'[c].title = l[c].title
  BY <1>1, OpportunityMadeDoes
<1>4. BusyLess(c)
  BY <1>0, <1>3 DEF BusyLess, Writing, Deleting, Entering
<1>5. /\ K(c) \in Busy(c) /\ ~Found(o) /\ births[o] = 0
      /\ l[c].client > 0 /\ (doc[K(c)].birth = l[c].client \/ K(c) \in crowded)
  <2>1. births[o] = 0
    BY <1>1 DEF WriteNew, Fresh
  <2>2. ~Found(o)
    BY <1>0, <1>2, <2>1, BirthsCounted DEF RegistryInv, RecordsKept, Found
  <2> QED BY <1>0, <2>1, <2>2, BusyKeys, StepsApart DEF HasClient, WithClient, Writing, Entering
<1>6. \A e \in Call : e # c => Leaves(e)
  BY <1>0, <1>1, <1>2, <1>3, <1>5, NewLeaves DEF OtherwiseQuiet, RegistryInv
<1>7. RegistryInv'
  BY <1>0, <1>1, <1>2, <1>3, <1>4, <1>5, NewRegistry
<1>8. CallInv(c)'
  <2>1. doc'[K(c)] = doc[K(c)] /\ doc'[P(c)] = doc[P(c)] /\ doc'[o].birth = 1
    <3>1. OnlyDoc(o, [birth |-> births[o] + 1, client |-> ClientIdOf(c)])
      BY <1>0, <1>1, <1>2, WriteNewDoes
    <3> QED BY <1>2, <1>5, <3>1, PathsApart DEF OnlyDoc
  <2>2. K(c)' = K(c) /\ P(c)' = P(c) /\ o # NoOpp
    BY <1>3, PathsApart DEF K, P
  <2>3. Absent(c)' /\ HasClient(c)' /\ l'[c].pc \in Entering \ {"client_write"}
    BY <1>0, <1>3, <1>5, <2>1, <2>2 DEF Absent, HasClient, Entering
  <2>4. Lasts(l[c].opp, 1)'
    BY <1>3, <2>1 DEF Lasts
  <2>5. Lasts(K(c), l[c].client)' /\ Lasts(P(c), l[c].project)' /\ l[c].project > 0
    <3>1. Lasts(K(c), l[c].client) /\ Lasts(P(c), l[c].project) /\ l[c].project > 0
      BY <1>0 DEF SoFar, WithClient, WithProject, Writing, Entering
    <3> QED BY <1>0, <1>3, <2>1, <2>2, <3>1 DEF Lasts
  <2>6. SoFar(c)'
    BY <1>0, <1>3, <2>2, <2>4, <2>5 DEF SoFar, Unnamed, Lone, WithClient, WithProject, Writing, Entering, Truthful, Answering
  <2> QED BY <2>3, <2>6, EnteringOwn
<1> QED BY <1>6, <1>7, <1>8, Together

LEMMA IntakeKeeps ==
  ASSUME TypeOK, TypeOK', CoordinatorInv, NEW c \in Call, Intake(c)
  PROVE  CoordinatorInv'
BY NameKeeps, TalkKeeps, ClientKeeps, WriteClientKeeps, ReadClientKeeps, PatchClientKeeps,
   FindProjectKeeps, WorkKeeps, WriteProjectKeeps, CreateOpportunityKeeps
   DEF Intake

-----------------------------------------------------------------------------
(* The steps of a deletion.                                                *)

LEMMA ResolveKeeps ==
  ASSUME TypeOK, TypeOK', CoordinatorInv, NEW c \in Call, Resolve(c)
  PROVE  CoordinatorInv'
<1>0. /\ CallInv(c) /\ told[c] = "nothing" /\ l[c].pc = "resolve" /\ Quiet
      /\ told' = told /\ gone' = gone /\ crowded' = crowded
      /\ RegTypeOK /\ l \in [Call -> Local]
  BY ToldNothing DEF Resolve, CoordinatorInv, CallInv, Quiet, historyVars, TypeOK
<1>1. K(c) \in Path /\ K(c) \in Client
  BY KeysTyped
<1>2. CASE Goto(c, "over") /\ Untouched
  <2>1. "over" \in Pcs
    BY DEF Pcs, Ended
  <2>2. Goes(c, "over") /\ holds' = holds /\ doc' = doc /\ births' = births
    BY <1>0, <1>2, <2>1, GotoGoes DEF Untouched, regVars
  <2>3. OthersStay(c) /\ BusyLess(c)
    BY <2>2, GoesBusyLess DEF Writing, Entering, Deleting
  <2>4. CallInv(c)'
    BY <1>0, <2>2, AtRest DEF Goes
  <2> QED BY <1>0, <2>2, <2>3, <2>4, PlainStep
<1>3. CASE /\ Found(K(c)) /\ Take(c, K(c)) /\ UNCHANGED <<dirs, doc, births>>
           /\ l' = [l EXCEPT ![c].client = doc[K(c)].birth,
                             ![c].todo = BelongTo(Project, IdOf(K(c))), ![c].pc = "cascade"]
  <2>1. /\ OnlyHolds(c, holds[c] \cup {K(c)}) /\ Free(K(c)) /\ doc' = doc /\ births' = births
    BY <1>0, <1>1, <1>3, TakeDoes
  <2>2. /\ OthersStay(c) /\ l'[c].pc = "cascade" /\ l'[c].client = doc[K(c)].birth
        /\ l'[c].todo = BelongTo(Project, IdOf(K(c)))
        /\ l'[c].business = l[c].business /\ l'[c].title = l[c].title
    BY <1>3, ClientResolvedDoes
  <2>3. BusyLess(c)
    BY <1>0, <2>2 DEF BusyLess, Writing, Deleting, Entering
  <2>4. K(c)' = K(c) /\ ClientIdOf(c)' = IdOf(K(c)) /\ doc[K(c)].birth > 0
    <3>1. K(c)' = K(c) /\ ClientIdOf(c)' = IdOf(K(c))
      BY <2>2 DEF K, ClientIdOf, IdOf
    <3>2. doc[K(c)].birth # 0 /\ doc[K(c)].birth \in Nat
      BY <1>1, <1>3, BirthsCounted DEF CoordinatorInv, RegistryInv, RecordsKept, Found
    <3> QED BY <3>1, <3>2
  <2>5. Holding(c)'
    BY <2>1, <2>2, <2>4 DEF Holding, OnlyHolds, BelongTo
  <2>6. Cascading(c)'
    BY <2>1, <2>2, <2>4 DEF Cascading, OfClient, Found, BelongTo
  <2>7. CallInv(c)'
    BY <1>0, <2>2, <2>5, <2>6, DeletingOwn DEF Deleting
  <2> QED BY <1>0, <2>1, <2>2, <2>3, <2>7, TurnStep
<1> QED BY <1>2, <1>3 DEF Resolve

LEMMA NextProjectKeeps ==
  ASSUME TypeOK, TypeOK', CoordinatorInv, NEW c \in Call, NextProject(c)
  PROVE  CoordinatorInv'
<1>0. /\ CallInv(c) /\ Holding(c) /\ Cascading(c) /\ told[c] = "nothing" /\ Quiet
      /\ l[c].pc = "cascade" /\ told' = told /\ gone' = gone /\ crowded' = crowded
      /\ RegTypeOK
  BY ToldNothing DEF NextProject, CoordinatorInv, CallInv, Quiet, historyVars, TypeOK
<1>1. K(c) \in Path /\ K(c) \in Client /\ l[c].todo \subseteq Project /\ K(c) \in holds[c]
  BY <1>0, KeysTyped DEF Holding, Deleting
<1>2. ASSUME NEW p \in l[c].todo, Take(c, p), UNCHANGED <<dirs, doc, births>>,
             l' = [l EXCEPT ![c].on = p, ![c].pc = "project_rm"]
      PROVE  CoordinatorInv'
  <2>1. p \in Project /\ p \in Path
    BY <1>1, SlugsThere
  <2>2. /\ OnlyHolds(c, holds[c] \cup {p}) /\ Free(p) /\ doc' = doc /\ births' = births
    BY <1>0, <1>2, <2>1, TakeDoes
  <2>3. /\ OthersStay(c) /\ l'[c].pc = "project_rm" /\ l'[c].client = l[c].client
        /\ l'[c].todo = l[c].todo /\ l'[c].on = p
        /\ l'[c].business = l[c].business /\ l'[c].title = l[c].title
    BY <1>2, <2>1, ProjectTakenDoes
  <2>4. BusyLess(c)
    BY <1>0, <2>3 DEF BusyLess, Writing, Deleting, Entering
  <2>5. K(c)' = K(c) /\ ClientIdOf(c)' = ClientIdOf(c)
    BY <2>3 DEF K, ClientIdOf
  <2>6. Holding(c)'
    BY <1>1, <2>1, <2>2, <2>3, <2>5 DEF Holding, OnlyHolds
  <2>7. Cascading(c)'
    BY <1>0, <2>2, <2>3, <2>5 DEF Cascading, OfClient, Found, Deleting
  <2>8. CallInv(c)'
    BY <1>0, <2>3, <2>6, <2>7, DeletingOwn DEF Deleting
  <2> QED BY <1>0, <2>2, <2>3, <2>4, <2>8, TurnStep
<1>3. CASE /\ l[c].todo = {} /\ Untouched
           /\ l' = [l EXCEPT ![c].todo = BelongTo(Opp, ClientIdOf(c)), ![c].pc = "opps"]
  <2>1. doc' = doc /\ births' = births /\ holds' = holds
    BY <1>3 DEF Untouched, regVars
  <2>2. /\ OthersStay(c) /\ l'[c].pc = "opps" /\ l'[c].client = l[c].client
        /\ l'[c].todo = BelongTo(Opp, ClientIdOf(c))
        /\ l'[c].business = l[c].business /\ l'[c].title = l[c].title
    BY <1>3, ProjectsGoneDoes
  <2>3. BusyLess(c)
    BY <1>0, <2>2 DEF BusyLess, Writing, Deleting, Entering
  <2>4. K(c)' = K(c) /\ ClientIdOf(c)' = ClientIdOf(c)
    BY <2>2 DEF K, ClientIdOf
  <2>5. Holding(c)'
    BY <1>1, <2>1, <2>2, <2>4 DEF Holding, BelongTo
  <2>6. Cascading(c)'
    BY <1>0, <1>3, <2>1, <2>2, <2>4 DEF Cascading, OfClient, Found, Deleting, BelongTo
  <2>7. CallInv(c)'
    BY <1>0, <2>2, <2>5, <2>6, DeletingOwn DEF Deleting
  <2> QED BY <1>0, <2>1, <2>2, <2>3, <2>7, PlainStep
<1> QED BY <1>2, <1>3 DEF NextProject

LEMMA RemoveProjectKeeps ==
  ASSUME TypeOK, TypeOK', CoordinatorInv, NEW c \in Call, RemoveProject(c)
  PROVE  CoordinatorInv'
<1>0. /\ CallInv(c) /\ Holding(c) /\ Cascading(c) /\ RegistryInv /\ told[c] = "nothing"
      /\ l[c].pc = "project_rm" /\ RegTypeOK /\ l \in [Call -> Local]
      /\ told' = told /\ runs' = runs /\ listed' = listed /\ crowded' = crowded
      /\ gone' = Gone(l[c].on) /\ RemoveRecord(c, l[c].on)
  BY ToldNothing DEF RemoveProject, CoordinatorInv, CallInv, TypeOK
<1> DEFINE p == l[c].on
<1>1. /\ p \in Project /\ p \in Path /\ p \in holds[c] /\ K(c) \in holds[c]
      /\ K(c) \in Path /\ K(c) \in Client /\ l[c].todo \subseteq Project
  BY <1>0, SlugsThere, KeysTyped DEF Holding, Deleting
<1>2. Goes(c, "project_rmdir")
  <2>1. "project_rmdir" \in Pcs
    BY DEF Pcs, Deleting
  <2> QED BY <1>0, <2>1, GotoGoes DEF RemoveProject
<1>3. OthersStay(c) /\ BusyLess(c)
  BY <1>0, <1>2, GoesBusyLess DEF Writing, Entering, Deleting
<1>4. /\ l'[c].pc = "project_rmdir" /\ l'[c].client = l[c].client /\ l'[c].todo = l[c].todo
      /\ l'[c].on = p /\ K(c)' = K(c) /\ ClientIdOf(c)' = ClientIdOf(c)
  BY <1>2 DEF Goes, KeepsAll, Keeps, K, ClientIdOf
<1>5. gone \subseteq gone' /\ [at |-> p, birth |-> doc[p].birth] \in gone'
  BY <1>0 DEF Gone
<1>6. \A e \in Call : e # c => Leaves(e)
  BY <1>0, <1>1, <1>3, <1>5, RemovalLeaves DEF OtherwiseQuiet, RegistryInv
<1>7. RegistryInv'
  BY <1>0, <1>1, <1>3, RemovalRegistry
<1>8. holds' = holds /\ doc'[p] = NoRecord /\ \A q \in Path : q # p => doc'[q] = doc[q]
  BY <1>0, <1>1, RemoveRecordDoes DEF OnlyDoc
<1>9. Holding(c)'
  BY <1>1, <1>4, <1>8 DEF Holding
<1>10. Cascading(c)'
  <2>1. doc'[K(c)] = doc[K(c)]
    BY <1>1, <1>8, PathsApart
  <2>2. \A q \in Project : OfClient(c, q)' => OfClient(c, q) /\ q # p
    BY <1>4, <1>8, SlugsThere DEF OfClient, Found
  <2>3. ~OfClient(c, l[c].on)'
    BY <1>4, <1>8 DEF OfClient, Found
  <2> QED BY <1>0, <1>4, <2>1, <2>2, <2>3 DEF Cascading, Deleting
<1>11. CallInv(c)'
  BY <1>0, <1>4, <1>9, <1>10, DeletingOwn DEF Deleting
<1> QED BY <1>6, <1>7, <1>11, Together

LEMMA RemoveProjectDirKeeps ==
  ASSUME TypeOK, TypeOK', CoordinatorInv, NEW c \in Call, RemoveProjectDir(c)
  PROVE  CoordinatorInv'
<1>0. /\ CallInv(c) /\ Holding(c) /\ Cascading(c) /\ told[c] = "nothing" /\ Quiet
      /\ l[c].pc = "project_rmdir" /\ told' = told /\ gone' = gone /\ crowded' = crowded
      /\ RegTypeOK /\ RemoveDir(c, l[c].on)
  BY ToldNothing DEF RemoveProjectDir, CoordinatorInv, CallInv, Quiet, historyVars, TypeOK
<1>1. /\ l[c].on \in Project /\ K(c) \in holds[c] /\ K(c) # l[c].on
      /\ l[c].todo \subseteq Project
  BY <1>0, KeysTyped, PathsApart DEF Holding, Deleting
<1>2. OnlyHolds(c, holds[c] \ {l[c].on}) /\ doc' = doc /\ births' = births
  BY <1>0, RemoveDirDoes
<1>3. /\ OthersStay(c) /\ l'[c].pc = "cascade" /\ l'[c].client = l[c].client
      /\ l'[c].todo = l[c].todo \ {l[c].on}
      /\ l'[c].business = l[c].business /\ l'[c].title = l[c].title
  BY RemoveProjectDirDoes
<1>4. BusyLess(c)
  BY <1>0, <1>3 DEF BusyLess, Writing, Deleting, Entering
<1>5. K(c)' = K(c) /\ ClientIdOf(c)' = ClientIdOf(c)
  BY <1>3 DEF K, ClientIdOf
<1>6. Holding(c)'
  BY <1>1, <1>2, <1>3, <1>5 DEF Holding, OnlyHolds
<1>7. Cascading(c)'
  BY <1>0, <1>2, <1>3, <1>5 DEF Cascading, OfClient, Found, Deleting
<1>8. CallInv(c)'
  BY <1>0, <1>3, <1>6, <1>7, DeletingOwn DEF Deleting
<1> QED BY <1>0, <1>2, <1>3, <1>4, <1>8, TurnStep

LEMMA RemoveOpportunityKeeps ==
  ASSUME TypeOK, TypeOK', CoordinatorInv, NEW c \in Call, RemoveOpportunity(c)
  PROVE  CoordinatorInv'
<1>0. /\ CallInv(c) /\ Holding(c) /\ Cascading(c) /\ RegistryInv /\ told[c] = "nothing"
      /\ l[c].pc = "opps" /\ RegTypeOK
      /\ told' = told /\ runs' = runs /\ listed' = listed /\ crowded' = crowded
  BY ToldNothing DEF RemoveOpportunity, CoordinatorInv, CallInv, TypeOK
<1>1. PICK o \in l[c].todo :
        /\ Free(o) /\ RemoveRecord(c, o) /\ gone' = IF Found(o) THEN Gone(o) ELSE gone
        /\ l' = [l EXCEPT ![c].todo = @ \ {o}]
  BY DEF RemoveOpportunity
<1>2. /\ o \in Opp /\ o \in Path /\ K(c) \in holds[c] /\ l[c].todo \subseteq Opp
      /\ K(c) \in Path /\ K(c) \in Client
  BY <1>0, SlugsThere, KeysTyped DEF Holding, Deleting
<1>3. /\ OthersStay(c) /\ l'[c].pc = "opps" /\ l'[c].client = l[c].client
      /\ l'[c].todo = l[c].todo \ {o}
      /\ l'[c].business = l[c].business /\ l'[c].title = l[c].title
  BY <1>0, <1>1, OpportunityRemovedDoes
<1>4. BusyLess(c)
  BY <1>0, <1>3 DEF BusyLess, Writing, Deleting, Entering
<1>5. K(c)' = K(c) /\ ClientIdOf(c)' = ClientIdOf(c)
  BY <1>3 DEF K, ClientIdOf
<1>6. gone \subseteq gone' /\ (Found(o) => [at |-> o, birth |-> doc[o].birth] \in gone')
  BY <1>1 DEF Gone
<1>7. \A e \in Call : e # c => Leaves(e)
  BY <1>0, <1>1, <1>2, <1>3, <1>6, RemovalLeaves DEF OtherwiseQuiet, RegistryInv
<1>8. RegistryInv'
  BY <1>0, <1>1, <1>2, <1>3, <1>4, RemovalRegistry
<1>9. holds' = holds /\ doc'[o] = NoRecord /\ \A q \in Path : q # o => doc'[q] = doc[q]
  BY <1>0, <1>1, <1>2, RemoveRecordDoes DEF OnlyDoc
<1>10. Holding(c)'
  BY <1>2, <1>3, <1>5, <1>9 DEF Holding
<1>11. Cascading(c)'
  <2>1. doc'[K(c)] = doc[K(c)]
    BY <1>2, <1>9, PathsApart
  <2>2. \A q \in Project \cup Opp : OfClient(c, q)' => OfClient(c, q) /\ q # o
    BY <1>5, <1>9, SlugsThere DEF OfClient, Found
  <2> QED BY <1>0, <1>3, <1>5, <2>1, <2>2 DEF Cascading, Deleting
<1>12. CallInv(c)'
  BY <1>0, <1>3, <1>10, <1>11, DeletingOwn DEF Deleting
<1> QED BY <1>7, <1>8, <1>12, Together

LEMMA OpportunitiesGoneKeeps ==
  ASSUME TypeOK, TypeOK', CoordinatorInv, NEW c \in Call, OpportunitiesGone(c)
  PROVE  CoordinatorInv'
<1>0. /\ CallInv(c) /\ Holding(c) /\ Cascading(c) /\ told[c] = "nothing" /\ Quiet
      /\ l[c].pc = "opps" /\ l[c].todo = {} /\ l \in [Call -> Local]
      /\ told' = told /\ gone' = gone /\ crowded' = crowded
      /\ doc' = doc /\ births' = births /\ holds' = holds
  BY ToldNothing DEF OpportunitiesGone, CoordinatorInv, CallInv, Quiet, historyVars, TypeOK,
     Untouched, regVars
<1>1. Goes(c, "client_rm")
  <2>1. "client_rm" \in Pcs
    BY DEF Pcs, Deleting
  <2> QED BY <1>0, <2>1, GotoGoes DEF OpportunitiesGone
<1>2. OthersStay(c) /\ BusyLess(c)
  BY <1>0, <1>1, GoesBusyLess DEF Writing, Entering, Deleting
<1>3. /\ l'[c].pc = "client_rm" /\ l'[c].client = l[c].client
      /\ K(c)' = K(c) /\ ClientIdOf(c)' = ClientIdOf(c)
  BY <1>1 DEF Goes, KeepsAll, Keeps, K, ClientIdOf
<1>4. Holding(c)'
  BY <1>0, <1>3 DEF Holding, Deleting
<1>5. Cascading(c)'
  BY <1>0, <1>3 DEF Cascading, OfClient, Found, Deleting
<1>6. CallInv(c)'
  BY <1>0, <1>3, <1>4, <1>5, DeletingOwn DEF Deleting
<1> QED BY <1>0, <1>2, <1>6, PlainStep

(* The client goes when nothing is left that belongs to it: whoever names  *)
(* it as the client would have been in the way of the deletion.            *)
LEMMA RemoveClientKeeps ==
  ASSUME TypeOK, TypeOK', CoordinatorInv, NEW c \in Call, RemoveClient(c)
  PROVE  CoordinatorInv'
<1>0. /\ CallInv(c) /\ Holding(c) /\ Cascading(c) /\ RegistryInv /\ told[c] = "nothing"
      /\ l[c].pc = "client_rm" /\ RegTypeOK /\ l \in [Call -> Local]
      /\ told' = told /\ runs' = runs /\ listed' = listed /\ crowded' = crowded
      /\ gone' = Gone(K(c)) /\ RemoveRecord(c, K(c))
  BY ToldNothing DEF RemoveClient, CoordinatorInv, CallInv, TypeOK
<1>1. K(c) \in holds[c] /\ K(c) \in Path /\ K(c) \in Client /\ K(c) \in Busy(c)
  BY <1>0, KeysTyped, BusyKeys DEF Holding, Deleting
<1>2. Goes(c, "client_rmdir")
  <2>1. "client_rmdir" \in Pcs
    BY DEF Pcs, Deleting
  <2> QED BY <1>0, <2>1, GotoGoes DEF RemoveClient
<1>3. OthersStay(c) /\ BusyLess(c)
  BY <1>0, <1>2, GoesBusyLess DEF Writing, Entering, Deleting
<1>4. l'[c].pc = "client_rmdir" /\ K(c)' = K(c)
  BY <1>2 DEF Goes, KeepsAll, Keeps, K
<1>5. gone \subseteq gone' /\ [at |-> K(c), birth |-> doc[K(c)].birth] \in gone'
  BY <1>0 DEF Gone
<1>6. \A e \in Call : e # c => Leaves(e)
  BY <1>0, <1>1, <1>3, <1>5, RemovalLeaves DEF OtherwiseQuiet, RegistryInv
<1>7. /\ holds' = holds /\ births' = births /\ doc'[K(c)] = NoRecord
      /\ \A q \in Path : q # K(c) => doc'[q] = doc[q]
  BY <1>0, <1>1, RemoveRecordDoes DEF OnlyDoc
<1>8. RegistryInv'
  <2>1. RecordsKept'
    BY <1>0, <1>7, BirthsCounted DEF RegistryInv, RecordsKept, NoRecord
  <2>2. Exclusive'
    BY <1>0, <1>7 DEF RegistryInv, Exclusive
  <2>3. Remembered'
    BY <1>0, <1>3, RememberedStays DEF RegistryInv
  <2>4. Owned'
    <3>1. ASSUME NEW p \in Project \cup Opp, doc'[p] # NoRecord, p \notin crowded
          PROVE  /\ doc'[p].client.birth > 0
                 /\ \/ doc'[doc'[p].client.slug].birth = doc'[p].client.birth
                    \/ doc'[p].client.slug \in crowded
      <4>1. p \in Path /\ doc'[p] = doc[p] /\ Found(p)
        BY <1>1, <1>7, <3>1, SlugsThere, PathsApart DEF Found
      <4>2. doc[p].client \in ClientId /\ doc[p].client.slug \in Client \cap Path
        BY <4>1, SlugsThere DEF TypeOK, RegTypeOK, Record, ClientId
      <4>3. /\ doc[p].client.birth > 0
            /\ \/ doc[doc[p].client.slug].birth = doc[p].client.birth
               \/ doc[p].client.slug \in crowded
        BY <1>0, <3>1, <4>1 DEF Owned, RegistryInv
      <4>4. CASE doc[p].client.slug = K(c) /\ K(c) \notin crowded
        <5>1. doc[K(c)].birth = l[c].client /\ ~OfClient(c, p)
          BY <1>0, <3>1, <4>4 DEF Cascading, Deleting
        <5>2. doc[p].client = ClientIdOf(c)
          BY <4>2, <4>3, <4>4, <5>1 DEF ClientIdOf, ClientId
        <5> QED BY <4>1, <5>1, <5>2 DEF OfClient
      <4>5. CASE doc[p].client.slug # K(c) \/ K(c) \in crowded
        BY <1>7, <4>1, <4>2, <4>3, <4>5
      <4> QED BY <4>4, <4>5
    <3> QED BY <1>0, <3>1 DEF Owned, Found
  <2> QED BY <2>1, <2>2, <2>3, <2>4 DEF RegistryInv
<1>9. Holding(c)' /\ Cascading(c)'
  BY <1>1, <1>4, <1>7 DEF Holding, Cascading
<1>10. CallInv(c)'
  BY <1>0, <1>4, <1>9, DeletingOwn DEF Deleting
<1> QED BY <1>6, <1>8, <1>10, Together

LEMMA RemoveClientDirKeeps ==
  ASSUME TypeOK, TypeOK', CoordinatorInv, NEW c \in Call, RemoveClientDir(c)
  PROVE  CoordinatorInv'
<1>0. /\ CallInv(c) /\ told[c] = "nothing" /\ Quiet
      /\ l[c].pc = "client_rmdir" /\ told' = told
      /\ RegTypeOK /\ RemoveDir(c, K(c)) /\ l \in [Call -> Local]
  BY ToldNothing DEF RemoveClientDir, CoordinatorInv, CallInv, Quiet, TypeOK
<1>1. OnlyHolds(c, holds[c] \ {K(c)}) /\ doc' = doc /\ births' = births
  BY <1>0, RemoveDirDoes
<1>2. Goes(c, "over")
  <2>1. "over" \in Pcs
    BY DEF Pcs, Ended
  <2> QED BY <1>0, <2>1, GotoGoes DEF RemoveClientDir
<1>3. OthersStay(c) /\ BusyLess(c)
  BY <1>0, <1>2, GoesBusyLess DEF Writing, Entering, Deleting
<1>4. CallInv(c)'
  BY <1>0, <1>2, AtRest DEF Goes
<1> QED BY <1>0, <1>1, <1>3, <1>4, TurnStep

LEMMA DeletionKeeps ==
  ASSUME TypeOK, TypeOK', CoordinatorInv, NEW c \in Call, Deletion(c)
  PROVE  CoordinatorInv'
BY ResolveKeeps, NextProjectKeeps, RemoveProjectKeeps, RemoveProjectDirKeeps,
   RemoveOpportunityKeeps, OpportunitiesGoneKeeps, RemoveClientKeeps, RemoveClientDirKeeps
   DEF Deletion

-----------------------------------------------------------------------------
(* The patches of a record.                                                *)

LEMMA ThrownKeeps ==
  ASSUME TypeOK, TypeOK', CoordinatorInv, NEW c \in Call, l[c].pc \in Patching,
         Throw(c), Untouched, Quiet
  PROVE  CoordinatorInv'
<1>1. /\ CallInv(c) /\ told[c] = "nothing" /\ told' = told /\ l \in [Call -> Local]
      /\ holds' = holds /\ doc' = doc /\ births' = births
  BY ToldNothing DEF CoordinatorInv, Patching, Untouched, regVars, Quiet, TypeOK
<1>2. Goes(c, "thrown")
  <2>1. "thrown" \in Pcs
    BY DEF Pcs, Ended
  <2> QED BY <1>1, <2>1, GotoGoes DEF Throw
<1>3. OthersStay(c) /\ BusyLess(c)
  BY <1>2, GoesBusyLess DEF Writing, Entering, Deleting
<1>4. CallInv(c)'
  BY <1>1, <1>2, AtRest DEF Goes
<1> QED BY <1>1, <1>3, <1>4, PlainStep

(* A record is read in its turn: it is there, and as it was read.          *)
LEMMA ReadKeeps ==
  ASSUME TypeOK, TypeOK', CoordinatorInv, NEW c \in Call, l[c].pc \in Patching,
         NEW p \in Project \cup Opp, ReadToPatch(c, p), Quiet, OthersStay(c),
         l'[c].pc = "write_back", l'[c].on = p, l'[c].base = doc[p],
         l'[c].todo = l[c].todo, p \in Opp => l[c].todo \subseteq Opp,
         l'[c].business = l[c].business, l'[c].title = l[c].title
  PROVE  CoordinatorInv'
<1>1. /\ CallInv(c) /\ told[c] = "nothing" /\ told' = told /\ RegTypeOK /\ p \in Path
      /\ crowded' = crowded
  BY ToldNothing, SlugsThere DEF CoordinatorInv, Patching, Quiet, historyVars, TypeOK
<1>2. /\ OnlyHolds(c, holds[c] \cup {p}) /\ Free(p) /\ Found(p) /\ doc' = doc /\ births' = births
  BY <1>1, TakeDoes DEF ReadToPatch
<1>3. doc[p].birth > 0 /\ doc[p].birth <= births[p]
  BY <1>1, <1>2, BirthsCounted DEF CoordinatorInv, RegistryInv, RecordsKept, Found
<1>4. Holding(c)' /\ Basis(c)'
  BY <1>2, <1>3 DEF Holding, Basis, OnlyHolds, Found, Deleting
<1>5. CallInv(c)'
  BY <1>1, <1>4, PatchingOwn DEF Patching
<1>6. BusyLess(c)
  BY DEF BusyLess, Writing, Entering, Deleting
<1> QED BY <1>1, <1>2, <1>5, <1>6, TurnStep

LEMMA PatchesKeep ==
  ASSUME TypeOK, TypeOK', CoordinatorInv, NEW c \in Call, Patches(c)
  PROVE  CoordinatorInv'
<1>0. CallInv(c) /\ Holding(c) /\ Basis(c) /\ RegistryInv /\ l \in [Call -> Local]
  BY DEF CoordinatorInv, CallInv, TypeOK
<1>1. CASE ReadProject(c)
  <2>1. l[c].pc = "patch" /\ l[c].pc \in Patching /\ Quiet /\ P(c) \in Project
    BY <1>1, KeysTyped DEF ReadProject, Patching
  <2>2. CASE Throw(c) /\ Untouched
    BY <2>1, <2>2, ThrownKeeps
  <2>3. CASE /\ ReadToPatch(c, P(c))
             /\ l' = [l EXCEPT ![c].pc = "write_back", ![c].on = P(c), ![c].base = doc[P(c)]]
    <3>1. /\ OthersStay(c) /\ l'[c].pc = "write_back" /\ l'[c].on = P(c)
          /\ l'[c].base = doc[P(c)] /\ l'[c].todo = l[c].todo
          /\ l'[c].business = l[c].business /\ l'[c].title = l[c].title
      BY <2>3, ProjectReadDoes
    <3>2. P(c) \notin Opp
      BY <2>1, PathsApart
    <3> QED BY <2>1, <2>3, <3>1, <3>2, ReadKeeps
  <2> QED BY <1>1, <2>2, <2>3 DEF ReadProject
<1>2. CASE ListOpen(c)
  <2>1. /\ l[c].pc = "list" /\ Quiet /\ told[c] = "nothing" /\ told' = told
        /\ holds' = holds /\ doc' = doc /\ births' = births
    BY <1>0, <1>2, ToldNothing DEF ListOpen, Untouched, regVars, Quiet
  <2>2. /\ OthersStay(c) /\ l'[c].pc = "qualify" /\ l'[c].todo = {o \in Opp : Found(o)}
        /\ l'[c].business = l[c].business /\ l'[c].title = l[c].title
    BY <1>2, ListOpenDoes
  <2>3. BusyLess(c)
    BY <2>1, <2>2 DEF BusyLess, Writing, Entering, Deleting
  <2>4. Holding(c)' /\ Basis(c)'
    BY <2>2 DEF Holding, Basis, Deleting
  <2>5. CallInv(c)'
    BY <2>1, <2>2, <2>4, PatchingOwn DEF Patching
  <2> QED BY <2>1, <2>2, <2>3, <2>5, PlainStep
<1>3. CASE ReadOpportunity(c)
  <2>1. /\ l[c].pc = "qualify" /\ l[c].pc \in Patching /\ Quiet /\ l[c].todo \subseteq Opp
    BY <1>0, <1>3 DEF ReadOpportunity, Patching, Holding
  <2>2. CASE Throw(c) /\ Untouched
    BY <2>1, <2>2, ThrownKeeps
  <2>3. ASSUME NEW o \in l[c].todo, ReadToPatch(c, o),
               l' = [l EXCEPT ![c].pc = "write_back", ![c].on = o, ![c].base = doc[o]]
        PROVE  CoordinatorInv'
    <3>1. o \in Project \cup Opp
      BY <2>1
    <3>2. /\ OthersStay(c) /\ l'[c].pc = "write_back" /\ l'[c].on = o
          /\ l'[c].base = doc[o] /\ l'[c].todo = l[c].todo
          /\ l'[c].business = l[c].business /\ l'[c].title = l[c].title
      <4>1. l' = [l EXCEPT ![c].pc = "write_back", ![c].on = o, ![c].base = doc[o]]
        BY <2>3
      <4>2. OthersStay(c) /\ l'[c].pc = "write_back"
        BY <4>1, OpportunityReadDoes
      <4>3. l'[c].on = o
        BY ZenonT(60), <4>1, OpportunityReadDoes
      <4>4. l'[c].base = doc[o]
        BY ZenonT(60), <4>1, OpportunityReadDoes
      <4>5. l'[c].todo = l[c].todo
        BY <4>1, OpportunityReadDoes
      <4>6. l'[c].business = l[c].business /\ l'[c].title = l[c].title
        BY <4>1, OpportunityReadDoes
      <4> QED BY <4>2, <4>3, <4>4, <4>5, <4>6
    <3> QED BY <2>1, <2>3, <3>1, <3>2, ReadKeeps
  <2> QED BY <1>3, <2>2, <2>3 DEF ReadOpportunity
<1>4. CASE AllQualified(c)
  <2>1. /\ l[c].pc = "qualify" /\ Quiet /\ told[c] = "nothing" /\ told' = told
        /\ holds' = holds /\ doc' = doc /\ births' = births
    BY <1>0, <1>4, ToldNothing DEF AllQualified, Untouched, regVars, Quiet
  <2>2. Goes(c, "over")
    <3>1. "over" \in Pcs
      BY DEF Pcs, Ended
    <3> QED BY <1>0, <1>4, <3>1, GotoGoes DEF AllQualified
  <2>3. OthersStay(c) /\ BusyLess(c)
    BY <2>2, GoesBusyLess DEF Writing, Entering, Deleting
  <2>4. CallInv(c)'
    BY <2>1, <2>2, AtRest DEF Goes
  <2> QED BY <2>1, <2>3, <2>4, PlainStep
<1>5. CASE Patch(c)
  <2> DEFINE p == l[c].on
  <2>1. /\ l[c].pc = "write_back" /\ told[c] = "nothing" /\ told' = told
        /\ runs' = runs /\ listed' = listed /\ gone' = gone /\ crowded' = crowded
        /\ WriteBack(c, p, l[c].base) /\ RegTypeOK
    BY <1>0, <1>5, ToldNothing DEF Patch, Quiet, historyVars, TypeOK
  <2>2. /\ p \in Path /\ p \in Project \cup Opp /\ l[c].base \in Record /\ Found(p)
        /\ l[c].base.birth > 0 /\ l[c].base.birth <= births[p]
        /\ doc[p] = l[c].base \/ p \in crowded
        /\ p \in Opp => l[c].todo \subseteq Opp
    BY <1>0, <2>1, KeysTyped DEF Holding, Basis
  <2>3. l[c].base # NoRecord
    BY <2>2 DEF NoRecord
  <2>4. /\ OthersStay(c) /\ l'[c].pc = IF p \in Opp THEN "qualify" ELSE "over"
        /\ l'[c].todo = l[c].todo \ {p}
        /\ l'[c].business = l[c].business /\ l'[c].title = l[c].title
    BY <1>5, PatchDoes
  <2>5. BusyLess(c)
    BY <2>1, <2>4 DEF BusyLess, Writing, Entering, Deleting
  <2>6. \A e \in Call : e # c => Leaves(e)
    BY <2>1, <2>2, <2>3, <2>4, WriteBackLeaves DEF OtherwiseQuiet
  <2>7. RegistryInv'
    BY <1>0, <2>1, <2>2, <2>4, <2>5, WriteBackRegistry
  <2>8. CallInv(c)'
    <3>1. CASE p \in Opp
      <4>1. l'[c].pc = "qualify" /\ l'[c].todo \subseteq Opp
        BY <2>2, <2>4, <3>1
      <4>2. Holding(c)' /\ Basis(c)'
        BY <4>1 DEF Holding, Basis, Deleting
      <4> QED BY <2>1, <4>1, <4>2, PatchingOwn DEF Patching
    <3>2. CASE p \notin Opp
      BY <2>1, <2>4, <3>2, AtRest
    <3> QED BY <3>1, <3>2
  <2> QED BY <2>6, <2>7, <2>8, Together
<1> QED BY <1>1, <1>2, <1>3, <1>4, <1>5 DEF Patches

-----------------------------------------------------------------------------
(* Wherever a call fails or the process dies, what others do goes on.      *)

LEMMA FailsKeeps ==
  ASSUME TypeOK, TypeOK', CoordinatorInv, NEW c \in Call, Fails(c)
  PROVE  CoordinatorInv'
<1>1. /\ CallInv(c) /\ told[c] = "nothing" /\ RegTypeOK /\ l \in [Call -> Local]
      /\ doc' = doc /\ births' = births /\ told' = told /\ runs' = runs /\ listed' = listed
      /\ crowded' = crowded /\ gone' = gone
  BY ToldNothing DEF Fails, Active, Ended, CoordinatorInv, historyVars, TypeOK
<1>2. Goes(c, "thrown")
  <2>1. "thrown" \in Pcs
    BY DEF Pcs, Ended
  <2> QED BY <1>1, <2>1, GotoGoes DEF Fails, Throw
<1>3. OthersStay(c) /\ BusyLess(c)
  BY <1>2, GoesBusyLess DEF Writing, Entering, Deleting
<1>4. OnlyHolds(c, {})
  BY <1>1, DropTurnsDoes DEF Fails, OnlyHolds
<1>5. CallInv(c)'
  BY <1>1, <1>2, AtRest DEF Goes
<1>6. Exclusive' /\ Remembered'
  BY <1>1, <1>3, <1>4, TurnsExclusive, RememberedStays DEF CoordinatorInv, RegistryInv
<1> QED BY <1>1, <1>3, <1>4, <1>5, <1>6, QuietStep DEF OtherwiseQuiet, OnlyHolds

LEMMA CrashKeeps ==
  ASSUME TypeOK, TypeOK', CoordinatorInv, Crash
  PROVE  CoordinatorInv'
<1>1. /\ doc' = doc /\ births' = births /\ told' = told /\ runs' = runs /\ listed' = listed
      /\ crowded' = crowded /\ gone' = gone /\ RegTypeOK /\ RegistryInv
  BY DEF Crash, historyVars, CoordinatorInv, TypeOK
<1>2. \A e \in Call : holds'[e] = {}
  BY <1>1, DropTurnsDoes DEF Crash
<1>3. \A c \in Call : l'[c].pc = IF Active(c) THEN "dead" ELSE l[c].pc
  BY DeadLocal DEF Crash
<1>4. \A c \in Call : l'[c].pc \in Ended
  BY <1>3 DEF Active, Ended
<1>5. RegistryInv'
  <2>1. RecordsKept' /\ Owned'
    BY <1>1, RecordsStay DEF RegistryInv
  <2>2. Exclusive'
    BY <1>2 DEF Exclusive
  <2>3. \A c \in Call : Busy(c)' = {}
    BY <1>4 DEF Busy, Ended, Writing, Entering, Deleting
  <2> QED BY <2>1, <2>2, <2>3 DEF RegistryInv, Remembered
<1>6. ASSUME NEW c \in Call PROVE CallInv(c)'
  <2>0. CallInv(c)
    BY DEF CoordinatorInv
  <2>1. CASE Active(c)
    <3>1. told[c] = "nothing" /\ l'[c].pc = "dead"
      BY <1>3, <2>0, <2>1, ToldNothing DEF Active, Ended
    <3> QED BY <1>1, <3>1, AtRest
  <2>2. CASE ~Active(c)
    <3>1. l'[c] = l[c]
      BY <2>2 DEF Crash, TypeOK
    <3>2. SoFar(c)'
      BY <1>1, <2>0, <3>1 DEF CallInv, SoFar, Truthful, Lasts, K, P
    <3>3. /\ Holding(c)' /\ Basis(c)' /\ Absent(c)' /\ HasClient(c)' /\ Cascading(c)'
      BY <1>4
         DEF Holding, Basis, Absent, HasClient, Cascading, WithClient, Writing, Entering,
             Deleting, Ended
    <3> QED BY <3>2, <3>3 DEF CallInv
  <2> QED BY <2>1, <2>2
<1> QED BY <1>5, <1>6 DEF CoordinatorInv

LEMMA InitInv == Init => CoordinatorInv
<1> SUFFICES ASSUME Init PROVE CoordinatorInv
  OBVIOUS
<1>1. /\ \A c \in Call : l[c] = Idle /\ told[c] = "nothing" /\ holds[c] = {}
      /\ \A p \in Path : doc[p] = NoRecord /\ births[p] = 0
      /\ runs = {}
  BY DEF Init, RegInit
<1>2. \A c \in Call : /\ l[c].pc = "idle" /\ l[c].opp = NoOpp /\ l[c].client = 0
                      /\ l[c].route = "intake" /\ l[c].project = 0
  BY <1>1 DEF Idle
<1>3. RegistryInv
  <2>1. RecordsKept
    BY <1>1 DEF RecordsKept, NoRecord
  <2>2. Exclusive /\ Remembered
    BY <1>1, <1>2 DEF Exclusive, Remembered, Busy, Writing, Entering, Deleting
  <2>3. Owned
    BY <1>1, SlugsThere DEF Owned, Found
  <2> QED BY <2>1, <2>2, <2>3 DEF RegistryInv
<1>4. ASSUME NEW c \in Call PROVE CallInv(c)
  <2>1. /\ Holding(c) /\ Basis(c) /\ Absent(c) /\ HasClient(c) /\ Cascading(c)
    BY <1>2
       DEF Holding, Basis, Absent, HasClient, Cascading, WithClient, Writing, Entering, Deleting
  <2>2. SoFar(c)
    BY <1>1, <1>2
       DEF SoFar, Unnamed, Lone, WithClient, WithProject, Writing, Entering, Truthful, Answering
  <2> QED BY <2>1, <2>2 DEF CallInv
<1> QED BY <1>3, <1>4 DEF CoordinatorInv

LEMMA UnchangedKeeps ==
  ASSUME TypeOK, TypeOK', CoordinatorInv, UNCHANGED vars
  PROVE  CoordinatorInv'
<1>1. /\ l' = l /\ holds' = holds /\ doc' = doc /\ births' = births /\ told' = told
      /\ runs' = runs /\ listed' = listed /\ crowded' = crowded /\ gone' = gone
  BY DEF vars, regVars
<1>2. \A c \in Call : Leaves(c)
  BY <1>1, BirthsCounted DEF Leaves, LastsOn, Found, OfClient
<1>3. \A c \in Call : CallInv(c)'
  BY <1>2, Theirs DEF CoordinatorInv
<1>4. RegistryInv'
  <2>1. RecordsKept' /\ Owned'
    BY <1>1, RecordsStay DEF CoordinatorInv, RegistryInv
  <2>2. Exclusive' /\ Remembered'
    BY <1>1 DEF CoordinatorInv, RegistryInv, Exclusive, Remembered, Busy, K, P
  <2> QED BY <2>1, <2>2 DEF RegistryInv
<1> QED BY <1>3, <1>4 DEF CoordinatorInv

LEMMA NextKeeps ==
  ASSUME TypeOK, CoordinatorInv, [Next]_vars
  PROVE  CoordinatorInv'
<1>1. TypeOK'
  BY NextTyped
<1>2. CASE UNCHANGED vars
  BY <1>1, <1>2, UnchangedKeeps
<1>3. CASE Next
  BY <1>1, <1>3, BeginKeeps, IntakeKeeps, DeletionKeeps, PatchesKeep, FailsKeeps, CrashKeeps
     DEF Next
<1> QED BY <1>2, <1>3

(* What the calls rely on holds of every state: the turns, the records and *)
(* how far each call is.                                                   *)
THEOREM CoordinatorInvariant == Spec => [](TypeOK /\ CoordinatorInv)
<1>1. Init => TypeOK /\ CoordinatorInv
  BY InitTyped, InitInv
<1>2. TypeOK /\ CoordinatorInv /\ [Next]_vars => (TypeOK /\ CoordinatorInv)'
  BY NextTyped, NextKeeps
<1> QED BY <1>1, <1>2, PTL DEF Spec

(* A deletion that dies or fails half way leaves no project or opportunity *)
(* without a client that a retry finds, but where two calls made the same  *)
(* client or project at a time (client.ts:252).                            *)
THEOREM NothingIsOrphaned == Spec => []NoOrphans
<1>1. TypeOK /\ CoordinatorInv => NoOrphans
  BY CrowdedSlugs DEF CoordinatorInv, RegistryInv, Owned, NoOrphans
<1> QED BY <1>1, CoordinatorInvariant, PTL

(* The thread of the chat names records that were made for the turn, a     *)
(* saved client without work, and answers that touched nothing.            *)
THEOREM ThreadIsTrue == Spec => []ThreadTellsTheTruth
<1>1. CoordinatorInv => ThreadTellsTheTruth
  BY DEF CoordinatorInv, CallInv, SoFar, ThreadTellsTheTruth
<1> QED BY <1>1, CoordinatorInvariant, PTL

(* Whoever writes back what it read has the turn, and nobody removes the   *)
(* record meanwhile (project.ts:250, opportunity.ts:118).                  *)
Reborn == \A p \in Path : ~Found(p) /\ Found(p)' => doc'[p].birth = births[p] + 1

LEMMA NewIsReborn ==
  ASSUME TypeOK, NEW p \in Path, NEW id \in ClientId, WriteNew(p, id)
  PROVE  Reborn
<1>1. OnlyDoc(p, [birth |-> births[p] + 1, client |-> id])
  BY WriteNewDoes DEF TypeOK
<1>2. /\ doc'[p].birth = births[p] + 1 /\ \A q \in Path : q # p => doc'[q] = doc[q]
  BY <1>1 DEF OnlyDoc
<1> QED BY <1>2 DEF Reborn, Found

LEMMA FoundIsReborn ==
  ASSUME NEW p \in Path, Found(p) \/ doc'[p] = doc[p] \/ doc'[p] = NoRecord,
         \A q \in Path : q # p => doc'[q] = doc[q]
  PROVE  Reborn
BY DEF Reborn, Found

LEMMA NextReborn ==
  ASSUME TypeOK, CoordinatorInv, [Next]_vars
  PROVE  Reborn
<1>0. RegTypeOK
  BY DEF TypeOK
<1>1. CASE doc' = doc
  BY <1>1 DEF Reborn, Found
<1>2. ASSUME NEW c \in Call, Intake(c), doc' # doc PROVE Reborn
  <2>1. CASE WriteClient(c)
    BY <2>1, KeysTyped, NobodyTyped, NewIsReborn DEF WriteClient
  <2>2. CASE WriteProject(c)
    BY <2>2, KeysTyped, NewIsReborn DEF WriteProject
  <2>3. CASE CreateOpportunity(c)
    BY <2>3, KeysTyped, SlugsThere, NewIsReborn DEF CreateOpportunity
  <2>4. CASE PatchClient(c)
    <3>1. Found(K(c)) /\ K(c) \in Path /\ \A q \in Path : q # K(c) => doc'[q] = doc[q]
      BY <1>0, <2>4, KeysTyped, WriteBackDoes
         DEF PatchClient, CoordinatorInv, CallInv, Holding, OnlyDoc
    <3> QED BY <3>1, FoundIsReborn
  <2> QED BY <1>2, <2>1, <2>2, <2>3, <2>4
          DEF Intake, TakeRoute, TakeStream, LookUp, Name, FindClient, MakeClientDir,
              WriteClientFiles, ReadClient, NoteClient, FindProject, MakeProjectDir,
              WriteProjectFiles, StartRun, AttachArtifacts, Remember, Answer,
              Untouched, regVars, MakeDir, ReadToPatch
<1>3. ASSUME NEW c \in Call, Deletion(c), doc' # doc PROVE Reborn
  <2>1. ASSUME NEW p \in Path, RemoveRecord(c, p) PROVE Reborn
    BY <1>0, <2>1, RemoveRecordDoes, FoundIsReborn DEF OnlyDoc
  <2> QED BY <1>3, <2>1, KeysTyped
          DEF Deletion, Resolve, NextProject, RemoveProject, RemoveProjectDir,
              RemoveOpportunity, OpportunitiesGone, RemoveClient, RemoveClientDir,
              Untouched, regVars, RemoveDir
<1>4. ASSUME NEW c \in Call, Patches(c), doc' # doc PROVE Reborn
  <2>1. CASE Patch(c)
    <3>1. Found(l[c].on) /\ l[c].on \in Path /\ \A q \in Path : q # l[c].on => doc'[q] = doc[q]
      <4>1. /\ WriteBack(c, l[c].on, l[c].base) /\ l[c].on \in Path /\ l[c].base \in Record
            /\ Found(l[c].on)
        BY <2>1, KeysTyped DEF Patch, CoordinatorInv, CallInv, Holding
      <4> QED BY ZenonT(60), <1>0, <4>1, WriteBackDoes DEF OnlyDoc
    <3> QED BY <3>1, FoundIsReborn
  <2> QED BY <1>4, <2>1
          DEF Patches, ReadProject, ListOpen, ReadOpportunity, AllQualified, Untouched,
              regVars, ReadToPatch
<1> QED BY <1>1, <1>2, <1>3, <1>4 DEF Next, Begin, Fails, Crash, vars, regVars, Untouched

(* A record that was removed comes back only as a new one: no patch that   *)
(* read it before its removal writes it again.                             *)
THEOREM DeletedForGood == Spec => DeletedStaysGone
<1>1. DeletedStaysGone <=> [][Reborn]_vars
  BY DEF DeletedStaysGone, Reborn
<1>2. TypeOK /\ CoordinatorInv /\ [Next]_vars => [Reborn]_vars
  BY NextReborn
<1> QED BY <1>1, <1>2, CoordinatorInvariant, PTL DEF Spec
=============================================================================
