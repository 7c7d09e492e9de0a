---------------------------- MODULE Coordinator ----------------------------
(***************************************************************************)
(* What the owner's messages do to the company's records: the routes of    *)
(* CoordinatorChatService.process(), the intake and client-save tools with *)
(* their files, the deletion of a client with everything that belongs to   *)
(* it, and the writers that patch a record meanwhile.  All of them are     *)
(* calls of one server process; each awaited write is a step of its own.   *)
(*                                                                         *)
(* A message is what ChatTurn looks for in it, with the names it brings.   *)
(* What the model plans is a free choice.                                  *)
(***************************************************************************)
EXTENDS Registries, ChatTurn

CONSTANTS
  Asks,         \* what calls are made for
  NoName,
  Placeholder,  \* the client a message without any name is for
  Namesake,     \* project -> the client that is named after it
  Usual,        \* client -> the project a message without a title is for
  NoOpp,
  MaxFaults     \* bound on crashes and failing reads and writes

Kind == {"chat", "stream", "order", "delete", "patch", "qualify"}

(* A business and a title that the words give away, and a client that is   *)
(* only mentioned; the target of a deletion or of a patch, and its         *)
(* confirmation.                                                           *)
Ask == [kind : Kind, message : Message, business : Client \cup {NoName},
        title : Project \cup {NoName}, mentions : Client \cup {NoName},
        confirmed : BOOLEAN]

ASSUME CoordinatorAssumption ==
  /\ Asks \subseteq Ask
  /\ \A a \in Asks : a.message.named <=> a.business # NoName
  /\ NoName \notin Slug /\ Placeholder \in Client
  /\ Namesake \in [Project -> Client] /\ Usual \in [Client -> Project]
  /\ NoOpp \notin Opp /\ MaxFaults \in Nat

VARIABLES
  l,        \* call -> its local state
  told,     \* call -> the mode of its pair of messages in the thread
  runs,     \* the calls whose intake run exists
  listed,   \* call -> the artifacts its run lists
  faults,
  crowded,  \* history: the slugs two calls worked on at a time
  gone      \* history: the records a deletion removed

vars == <<regVars, l, told, runs, listed, faults, crowded, gone>>
historyVars == <<crowded, gone>>

Ended == {"idle", "over", "thrown", "dead"}
Entering == {"route", "stream", "name", "client", "client_dir", "client_doc", "client_files",
             "client_patch", "client_write", "save", "project", "project_dir",
             "project_doc", "project_files", "opportunity", "run", "artifacts",
             "remember", "look_up", "answer"}
Deleting == {"resolve", "cascade", "project_rm", "project_rmdir", "opps",
             "opp_rm", "client_rm", "client_rmdir"}
Patching == {"patch", "list", "qualify", "write_back"}

Local == [pc : Ended \cup Entering \cup Deleting \cup Patching, ask : Ask,
          route : Mode, business : Client, title : Project,
          client : 0 .. MaxBirths, project : 0 .. MaxBirths,
          opp : Opp \cup {NoOpp}, base : Record,
          todo : SUBSET (Project \cup Opp), on : Path]

AClient == CHOOSE k \in Client : TRUE
AProject == CHOOSE p \in Project : TRUE
Silence == [words |-> {}, length |-> "few", attached |-> FALSE, named |-> FALSE]
Unasked == [kind |-> "chat", message |-> Silence, business |-> NoName, title |-> NoName,
            mentions |-> NoName, confirmed |-> FALSE]
Idle == [pc |-> "idle", ask |-> Unasked, route |-> "intake", business |-> AClient,
         title |-> AProject, client |-> 0, project |-> 0,
         opp |-> NoOpp, base |-> NoRecord, todo |-> {}, on |-> AClient]

Init ==
  /\ RegInit
  /\ l = [c \in Call |-> Idle]
  /\ told = [c \in Call |-> "nothing"]
  /\ runs = {} /\ listed = [c \in Call |-> {}] /\ faults = 0 /\ crowded = {} /\ gone = {}

Active(c) == l[c].pc \notin Ended
Goto(c, pc) == l' = [l EXCEPT ![c].pc = pc]
Throw(c) == Goto(c, "thrown")
Quiet == UNCHANGED <<told, runs, listed, faults, historyVars>>
Untouched == UNCHANGED regVars

K(c) == l[c].business
P(c) == l[c].title
ClientIdOf(c) == [slug |-> K(c), birth |-> l[c].client]

(* classify(): a client the registry knows, if it is mentioned, then the   *)
(* business named, the title taken for one, or a placeholder that every    *)
(* nameless message shares; the project likewise.                          *)
ClientOf(a) ==
  CASE a.mentions # NoName -> a.mentions
    [] a.mentions = NoName /\ a.business # NoName -> a.business
    [] OTHER -> IF a.title # NoName THEN Namesake[a.title] ELSE Placeholder

ProjectOf(a) == IF a.title # NoName THEN a.title ELSE Usual[ClientOf(a)]

-----------------------------------------------------------------------------
(* A call begins.                                                          *)
FirstStep(a) == CASE a.kind = "chat" -> "route"
                  [] a.kind = "stream" -> "stream"
                  [] a.kind = "order" -> "name"
                  [] a.kind = "delete" -> "resolve"
                  [] a.kind = "patch" -> "patch"
                  [] a.kind = "qualify" -> "list"

(* The names a call creates or deletes under.  Two calls at a time that    *)
(* share one do not know of each other; those names are remembered.        *)
Names(c) == CASE l[c].pc \in Entering \ {"route", "stream", "name"} -> {K(c), P(c)}
              [] l[c].pc \in Deleting -> {K(c)}
              [] OTHER -> {}

Shared(c, names) == names \cap UNION {Names(e) : e \in {e \in Call \ {c} : Active(e)}}

Begin(c, a) ==
  /\ l[c].pc = "idle"
  /\ l' = [l EXCEPT ![c].pc = FirstStep(a), ![c].ask = a,
                    ![c].business = ClientOf(a), ![c].title = ProjectOf(a)]
  /\ crowded' = crowded \cup
       (IF a.kind = "delete" THEN Shared(c, {ClientOf(a)}) ELSE {})
  /\ Untouched /\ UNCHANGED <<told, runs, listed, faults, gone>>

(* Every route that only reads ends with the answer.                       *)
Answering == {"status", "registry", "answer", "small_talk", "refuse"}

TakeRoute(c) ==
  /\ l[c].pc = "route"
  /\ \E plan \in Plan :
       LET route == Route(l[c].ask.message, plan) IN
       l' = [l EXCEPT ![c].route = route,
                      ![c].pc = CASE route \in {"status", "registry"} -> "look_up"
                                  [] route \in {"save_client", "intake"} -> "name"
                                  [] OTHER -> "answer"]
  /\ Untouched /\ Quiet

(* The lists a question about the company, a project or the clients is     *)
(* answered from.                                                          *)
LookUp(c) ==
  /\ l[c].pc = "look_up"
  /\ Goto(c, "answer")
  /\ Untouched /\ Quiet

(* stream(): answered by the provider, or for want of one, or as above.    *)
TakeStream(c) ==
  /\ l[c].pc = "stream"
  /\ IF StreamsDirectly(l[c].ask.message)
     THEN l' = [l EXCEPT ![c].route = "answer", ![c].pc = "answer"]
     ELSE Goto(c, "route")
  /\ Untouched /\ Quiet

(* process() of the intake looks for the client mentioned in the registry. *)
Name(c) ==
  /\ l[c].pc = "name"
  /\ LET known == l[c].route = "intake" /\ l[c].ask.mentions # NoName
                    /\ Found(l[c].ask.mentions)
         asked == IF known THEN l[c].ask ELSE [l[c].ask EXCEPT !.mentions = NoName]
     IN
     /\ l' = [l EXCEPT ![c].pc = "client",
                       ![c].business = ClientOf(asked), ![c].title = ProjectOf(asked)]
     /\ crowded' = crowded \cup Shared(c, {ClientOf(asked), ProjectOf(asked)})
  /\ Untouched /\ UNCHANGED <<told, runs, listed, faults, gone>>

-----------------------------------------------------------------------------
(* getOrCreateClient(): an existing client is patched, in its turn; a new  *)
(* one is made file by file.  A directory without a record can be neither. *)
FindClient(c) ==
  /\ l[c].pc = "client"
  /\ Goto(c, CASE Found(K(c)) -> "client_patch"
               [] K(c) \in dirs /\ ~Found(K(c)) -> "thrown"
               [] OTHER -> "client_dir")
  /\ Untouched /\ Quiet

MakeClientDir(c) ==
  /\ l[c].pc = "client_dir"
  /\ MakeDir(K(c)) /\ Goto(c, "client_doc") /\ Quiet

WriteClient(c) ==
  /\ l[c].pc = "client_doc"
  /\ WriteNew(K(c), Nobody)
  /\ l' = [l EXCEPT ![c].pc = "client_files", ![c].client = births[K(c)] + 1]
  /\ Quiet

(* What create() and the appends that follow write beside a record: a      *)
(* document brings its directory back, an append needs it.                 *)
After(c) == IF l[c].route = "save_client" THEN "save" ELSE "project"

WriteClientFiles(c) ==
  /\ l[c].pc = "client_files"
  /\ MakeDir(K(c)) /\ Goto(c, After(c)) /\ Quiet

ReadClient(c) ==
  /\ l[c].pc = "client_patch"
  /\ \/ /\ ReadToPatch(c, K(c))
        /\ l' = [l EXCEPT ![c].pc = "client_write", ![c].base = doc[K(c)],
                          ![c].client = doc[K(c)].birth]
     \/ /\ Free(K(c)) /\ ~Found(K(c)) /\ Throw(c) /\ Untouched
  /\ Quiet

PatchClient(c) ==
  /\ l[c].pc = "client_write"
  /\ WriteBack(c, K(c), l[c].base) /\ Goto(c, After(c)) /\ Quiet

(* saveClientOnly() ends with a note beside the client.                    *)
NoteClient(c) ==
  /\ l[c].pc = "save"
  /\ Goto(c, IF K(c) \in dirs THEN "answer" ELSE "thrown")
  /\ Untouched /\ Quiet

-----------------------------------------------------------------------------
(* Seeded fault: a project is taken to exist when its directory does.      *)
FindProjectDir(c) ==
  /\ l[c].pc = "project"
  /\ l' = [l EXCEPT ![c].project = doc[P(c)].birth,
                    ![c].pc = IF P(c) \in dirs THEN "opportunity" ELSE "project_dir"]
  /\ Untouched /\ Quiet

(* getOrCreateProject(): looked up by its slug alone, whoever it is for.   *)
FindProject(c) ==
  /\ l[c].pc = "project"
  /\ l' = [l EXCEPT ![c].project = doc[P(c)].birth,
                    ![c].pc = CASE Found(P(c)) -> "opportunity"
                                [] P(c) \in dirs /\ ~Found(P(c)) -> "thrown"
                                [] OTHER -> "project_dir"]
  /\ Untouched /\ Quiet

MakeProjectDir(c) ==
  /\ l[c].pc = "project_dir"
  /\ MakeDir(P(c)) /\ Goto(c, "project_doc") /\ Quiet

WriteProject(c) ==
  /\ l[c].pc = "project_doc"
  /\ WriteNew(P(c), ClientIdOf(c))
  /\ l' = [l EXCEPT ![c].pc = "project_files", ![c].project = births[P(c)] + 1]
  /\ Quiet

WriteProjectFiles(c) ==
  /\ l[c].pc = "project_files"
  /\ MakeDir(P(c)) /\ Goto(c, "opportunity") /\ Quiet

CreateOpportunity(c) ==
  /\ l[c].pc = "opportunity"
  /\ \E o \in Opp :
       /\ WriteNew(o, ClientIdOf(c))
       /\ l' = [l EXCEPT ![c].pc = "run", ![c].opp = o]
  /\ Quiet

(* The run, then the drafts of its artifacts and what the owner attached,  *)
(* one file each, then their list in the run's record.                     *)
StartRun(c) ==
  /\ l[c].pc = "run"
  /\ runs' = runs \cup {c}
  /\ Goto(c, "artifacts")
  /\ Untouched /\ UNCHANGED <<told, listed, faults, historyVars>>

Bodies == {"client-project-intake", "project-brief", "proposal-brief", "pricing-brief",
           "repository-provisioning-plan", "compliance-review", "client-account-plan",
           "social-post-brief", "ad-campaign-brief"}

Artifacts(m) == Bodies \cup (IF m.attached THEN {"owner-attachment"} ELSE {})

AttachArtifacts(c) ==
  /\ l[c].pc = "artifacts"
  /\ listed' = [listed EXCEPT ![c] = Artifacts(l[c].ask.message)]
  /\ Goto(c, "remember")
  /\ Untouched /\ UNCHANGED <<told, runs, faults, historyVars>>

(* The appends beside the client and the project, one after the other.     *)
Remember(c) ==
  /\ l[c].pc = "remember"
  /\ Goto(c, IF {K(c), P(c)} \subseteq dirs THEN "answer" ELSE "thrown")
  /\ Untouched /\ Quiet

(* appendMany(): the owner's message and the answer in one append, at the  *)
(* very end of the turn.                                                   *)
Answer(c) ==
  /\ l[c].pc = "answer"
  /\ told' = [told EXCEPT ![c] = l[c].route]
  /\ Goto(c, "over")
  /\ Untouched /\ UNCHANGED <<runs, listed, faults, historyVars>>

-----------------------------------------------------------------------------
(* Seeded fault: what belongs to a client is looked for in every registry. *)
ResolveAll(c) ==
  /\ l[c].pc = "resolve"
  /\ Found(K(c)) /\ l[c].ask.confirmed
  /\ Take(c, K(c))
  /\ l' = [l EXCEPT ![c].client = doc[K(c)].birth,
                    ![c].todo = {K(c)} \cup BelongTo(Path, IdOf(K(c))),
                    ![c].pc = "cascade"]
  /\ UNCHANGED <<dirs, doc, births>> /\ Quiet

(* executeDeleteClient(): nothing without the owner's confirmation; then,  *)
(* in the client's turn, its projects, its opportunities, itself.          *)
Resolve(c) ==
  /\ l[c].pc = "resolve"
  /\ \/ /\ ~Found(K(c)) \/ ~l[c].ask.confirmed
        /\ Goto(c, "over") /\ Untouched
     \/ /\ Found(K(c)) /\ l[c].ask.confirmed
        /\ Take(c, K(c))
        /\ l' = [l EXCEPT ![c].client = doc[K(c)].birth,
                          ![c].todo = BelongTo(Project, IdOf(K(c))),
                          ![c].pc = "cascade"]
        /\ UNCHANGED <<dirs, doc, births>>
  /\ Quiet

Gone(p) == gone \cup {[at |-> p, birth |-> doc[p].birth]}

(* delete() of one of the dependents, in its own turn.                     *)
NextProject(c) ==
  /\ l[c].pc = "cascade"
  /\ \/ \E p \in l[c].todo :
          /\ Take(c, p) /\ Found(p)
          /\ l' = [l EXCEPT ![c].on = p, ![c].pc = "project_rm"]
          /\ UNCHANGED <<dirs, doc, births>>
     \/ /\ l[c].todo = {}
        /\ l' = [l EXCEPT ![c].todo = BelongTo(Opp, ClientIdOf(c)), ![c].pc = "opps"]
        /\ Untouched
  /\ Quiet

RemoveProject(c) ==
  /\ l[c].pc = "project_rm"
  /\ RemoveRecord(c, l[c].on)
  /\ gone' = Gone(l[c].on)
  /\ Goto(c, "project_rmdir")
  /\ UNCHANGED <<told, runs, listed, faults, crowded>>

RemoveProjectDir(c) ==
  /\ l[c].pc = "project_rmdir"
  /\ RemoveDir(c, l[c].on)
  /\ l' = [l EXCEPT ![c].todo = @ \ {l[c].on}, ![c].pc = "cascade"]
  /\ Quiet

RemoveOpportunity(c) ==
  /\ l[c].pc = "opps"
  /\ \E o \in l[c].todo :
       /\ Free(o)
       /\ RemoveRecord(c, o)
       /\ gone' = IF Found(o) THEN Gone(o) ELSE gone
       /\ l' = [l EXCEPT ![c].todo = @ \ {o}]
  /\ UNCHANGED <<told, runs, listed, faults, crowded>>

(* Seeded fault: the removals are begun and not awaited.                   *)
OpportunitiesLeft(c) ==
  /\ l[c].pc = "opps"
  /\ Goto(c, "client_rm")
  /\ Untouched /\ Quiet

OpportunitiesGone(c) ==
  /\ l[c].pc = "opps" /\ l[c].todo = {}
  /\ Goto(c, "client_rm")
  /\ Untouched /\ Quiet

RemoveClient(c) ==
  /\ l[c].pc = "client_rm"
  /\ RemoveRecord(c, K(c))
  /\ gone' = Gone(K(c))
  /\ Goto(c, "client_rmdir")
  /\ UNCHANGED <<told, runs, listed, faults, crowded>>

RemoveClientDir(c) ==
  /\ l[c].pc = "client_rmdir"
  /\ RemoveDir(c, K(c)) /\ Goto(c, "over") /\ Quiet

-----------------------------------------------------------------------------
(* projects.update() of a publisher, the provisioner or the sync.          *)
ReadProject(c) ==
  /\ l[c].pc = "patch"
  /\ \/ /\ ReadToPatch(c, P(c))
        /\ l' = [l EXCEPT ![c].pc = "write_back", ![c].on = P(c), ![c].base = doc[P(c)]]
     \/ /\ Free(P(c)) /\ ~Found(P(c)) /\ Throw(c) /\ Untouched
  /\ Quiet

(* RevenuePipelineService.generate(): the opportunities it listed, each    *)
(* updated in its turn; one that is gone ends the whole pass.              *)
ListOpen(c) ==
  /\ l[c].pc = "list"
  /\ l' = [l EXCEPT ![c].todo = {o \in Opp : Found(o)}, ![c].pc = "qualify"]
  /\ Untouched /\ Quiet

ReadOpportunity(c) ==
  /\ l[c].pc = "qualify"
  /\ \E o \in l[c].todo :
       \/ /\ ReadToPatch(c, o)
          /\ l' = [l EXCEPT ![c].pc = "write_back", ![c].on = o, ![c].base = doc[o]]
       \/ /\ Free(o) /\ ~Found(o) /\ Throw(c) /\ Untouched
  /\ Quiet

AllQualified(c) ==
  /\ l[c].pc = "qualify" /\ l[c].todo = {}
  /\ Goto(c, "over")
  /\ Untouched /\ Quiet

Patch(c) ==
  /\ l[c].pc = "write_back"
  /\ WriteBack(c, l[c].on, l[c].base)
  /\ l' = [l EXCEPT ![c].todo = @ \ {l[c].on},
                    ![c].pc = IF l[c].on \in Opp THEN "qualify" ELSE "over"]
  /\ Quiet

-----------------------------------------------------------------------------
(* A read or write fails, the listing of a registry meets a file that was  *)
(* just removed: the call ends where it is, its turns are passed on.       *)
Fails(c) ==
  /\ Active(c) /\ faults < MaxFaults
  /\ faults' = faults + 1
  /\ Throw(c) /\ DropTurns({c})
  /\ UNCHANGED <<dirs, doc, births, told, runs, listed, historyVars>>

(* The process dies, and the calls under way with it.                      *)
Crash ==
  /\ faults < MaxFaults /\ \E c \in Call : Active(c)
  /\ faults' = faults + 1
  /\ l' = [c \in Call |-> IF Active(c) THEN [l[c] EXCEPT !.pc = "dead"] ELSE l[c]]
  /\ DropTurns(Call)
  /\ UNCHANGED <<dirs, doc, births, told, runs, listed, historyVars>>

Intake(c) ==
  \/ TakeRoute(c) \/ TakeStream(c) \/ LookUp(c) \/ Name(c) \/ FindClient(c)
  \/ MakeClientDir(c) \/ WriteClient(c) \/ WriteClientFiles(c) \/ ReadClient(c) \/ PatchClient(c) \/ NoteClient(c)
  \/ FindProject(c) \/ MakeProjectDir(c) \/ WriteProject(c)
  \/ WriteProjectFiles(c) \/ CreateOpportunity(c) \/ StartRun(c)
  \/ AttachArtifacts(c) \/ Remember(c) \/ Answer(c)

Deletion(c) ==
  \/ Resolve(c) \/ NextProject(c) \/ RemoveProject(c) \/ RemoveProjectDir(c)
  \/ RemoveOpportunity(c) \/ OpportunitiesGone(c) \/ RemoveClient(c)
  \/ RemoveClientDir(c)

Patches(c) ==
  ReadProject(c) \/ ListOpen(c) \/ ReadOpportunity(c) \/ AllQualified(c) \/ Patch(c)

Next ==
  \/ \E c \in Call, a \in Asks : Begin(c, a)
  \/ \E c \in Call : Intake(c) \/ Deletion(c) \/ Patches(c) \/ Fails(c)
  \/ Crash

Spec == Init /\ [][Next]_vars

-----------------------------------------------------------------------------
TypeOK ==
  /\ RegTypeOK
  /\ l \in [Call -> Local]
  /\ told \in [Call -> {"nothing"} \cup Mode]
  /\ runs \subseteq Call
  /\ listed \in [Call -> {{}, Bodies, Bodies \cup {"owner-attachment"}}]
  /\ faults \in 0 .. MaxFaults
  /\ crowded \subseteq Slug
  /\ gone \subseteq [at : Path, birth : 0 .. MaxBirths]

(* Whatever dies or fails on the way of an intake or of a deletion, the    *)
(* projects and opportunities there are have a client that a retry finds   *)
(* ("a crash mid-cascade leaves the client discoverable for a retry rather *)
(* than orphaning its dependents", client.ts:252).  Only calls that work   *)
(* on one client at a time, as two intakes of a new name, can leave        *)
(* orphans - or on one project: the second record overwrites the first,    *)
(* and a patch that had read the first brings it back, when its client may *)
(* be deleted already.                                                     *)
NoOrphans ==
  \A p \in Project \cup Opp :
    LET id == doc[p].client IN
    Found(p) => doc[id.slug].birth = id.birth \/ {id.slug, p} \cap crowded # {}

(* A record that was removed comes back only as a new one, never by a      *)
(* patch that read it before ("so a delete cannot race a status patch into *)
(* recreating a half-written record", project.ts:250, opportunity.ts:118). *)
DeletedStaysGone ==
  [][\A p \in Path : ~Found(p) /\ Found(p)' => doc'[p].birth = births[p] + 1]_vars

(* A record that was made is there until a deletion takes it.              *)
Lasts(p, birth) ==
  doc[p].birth = birth \/ [at |-> p, birth |-> birth] \in gone \/ p \in crowded

(* What a turn that ends in this mode must have done.                      *)
Truthful(c, mode) ==
  CASE mode = "intake" ->
         /\ c \in runs /\ listed[c] = Artifacts(l[c].ask.message)
         /\ l[c].client > 0 /\ Lasts(K(c), l[c].client)
         /\ l[c].project > 0 /\ Lasts(P(c), l[c].project)
         /\ l[c].opp # NoOpp /\ Lasts(l[c].opp, 1)
    [] mode = "save_client" ->
         /\ c \notin runs /\ l[c].opp = NoOpp /\ l[c].project = 0
         /\ l[c].client > 0 /\ Lasts(K(c), l[c].client)
    [] mode \in Answering ->
         /\ c \notin runs /\ l[c].client = 0 /\ l[c].opp = NoOpp
         /\ l[c].ask.kind = "stream" /\ StreamsDirectly(l[c].ask.message)
              => ByWords(l[c].ask.message) = "answer"
    [] OTHER -> TRUE

(* What the thread says of a turn is so: an intake names a client, a       *)
(* project, an opportunity and a run with its artifacts, that were made    *)
(* for it and lasted until a deletion took them; a saved client comes      *)
(* without work; an answer and a refusal ("Non ho eseguito azioni")        *)
(* touched nothing; and what was answered in a stream, without process(),  *)
(* asked for nothing that process() would have done.                       *)
ThreadTellsTheTruth == \A c \in Call : Truthful(c, told[c])
=============================================================================
