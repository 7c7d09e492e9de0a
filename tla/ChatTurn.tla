------------------------------ MODULE ChatTurn ------------------------------
(***************************************************************************)
(* What the Coordinator takes a message of the owner for: the classifiers  *)
(* of chat.ts and intake.ts, and the way that process() and stream() go by *)
(* them.  A classifier looks for words of a list in the message.  The      *)
(* lists overlap: each word below stands for the words and phrases that    *)
(* are in the same lists.                                                  *)
(***************************************************************************)

Word == {"dry_run", "new_client", "client", "lead", "wants", "website", "project",
         "save", "list", "status", "any_news", "i_asked", "question", "of", "create",
         "hello", "who_are_you", "github", "bug"}

(* Whether it has attachments, and whether a business is named in it.      *)
Message == [words : SUBSET Word, length : {"few", "some", "many"},
            attached : BOOLEAN, named : BOOLEAN]

Shows(m, list) == m.words \cap list # {}

Clients == {"new_client", "client", "lead"}
Work == {"website", "project"}

(* "senza creare", "solo analisi" and the like come before everything else.*)
HasIntakeIntent(m) ==
  /\ "dry_run" \notin m.words
  /\ \/ Shows(m, {"new_client", "lead", "wants", "website"})
     \/ m.attached /\ Shows(m, {"new_client", "client", "project"})

IncludesToolGatewaySignal(m) == Shows(m, Clients \cup {"save"})

HasCoordinatorToolIntent(m) ==
  HasIntakeIntent(m) \/ m.attached \/ IncludesToolGatewaySignal(m)

IsClientRegistryQuestion(m) ==
  ~m.attached /\ Shows(m, Clients) /\ "list" \in m.words

HasCurrentWorkReference(m) ==
  m.attached \/ Shows(m, Clients \cup Work \cup {"github"})

HasStatusIntent(m) == Shows(m, {"status", "any_news"})

IsCompanyStatusQuestion(m) ==
  /\ ~m.attached /\ HasStatusIntent(m)
  /\ ~Shows(m, {"new_client", "client"} \cup Work)
  /\ "status" \in m.words

IsProjectStatusQuestion(m) ==
  /\ ~m.attached
  /\ \/ HasStatusIntent(m) /\ (Shows(m, Work) \/ "question" \in m.words)
     \/ "i_asked" \in m.words /\ Shows(m, Work)
     \/ /\ "question" \in m.words /\ Shows(m, Work) /\ "of" \in m.words
        /\ ~Shows(m, {"create", "wants"})

IsLowContextIdentity(m) ==
  /\ ~m.attached /\ "who_are_you" \in m.words /\ m.length # "many"
  /\ ~Shows(m, {"new_client", "client", "project", "bug"})

IsLowContext(m) ==
  /\ ~m.attached
  /\ \/ IsLowContextIdentity(m)
     \/ /\ ~HasCurrentWorkReference(m) /\ ~HasStatusIntent(m)
        /\ m.length = "few" /\ m.words \subseteq {"hello", "question"}

(* Without a project's words, a business that is to be kept.               *)
IsClientOnlySave(m) ==
  /\ ~m.attached /\ m.named
  /\ ~Shows(m, Work)
  /\ Shows(m, {"new_client", "save"})

IsStatusQuestion(m) == IsCompanyStatusQuestion(m) \/ IsProjectStatusQuestion(m)

-----------------------------------------------------------------------------
(* What planToolAction() brings: no answer of the provider at all, a tool  *)
(* with its arguments, or a plan that parses to nothing that may be run.   *)
Plan == {"failed", "save_client", "list_clients", "answer", "create_intake", "unusable"}

Mode == {"status", "registry", "answer", "small_talk", "refuse", "save_client", "intake"}

(* The routes below the planner, where the words alone decide.             *)
ByWords(m) ==
  CASE IsClientRegistryQuestion(m) -> "registry"
    [] IsClientOnlySave(m) /\ ~IsClientRegistryQuestion(m) -> "save_client"
    [] HasIntakeIntent(m) /\ ~IsClientRegistryQuestion(m) /\ ~IsClientOnlySave(m) -> "intake"
    [] OTHER -> IF IsLowContext(m) THEN "small_talk" ELSE "answer"

Plans(m) == HasCoordinatorToolIntent(m) /\ ~IsLowContext(m)

(* process(): a status question is answered; a planned tool is run, or the *)
(* turn refused, if the words show a tool and more than small talk; a      *)
(* planned intake, like no plan, leaves it to the words.                   *)
Route(m, plan) ==
  CASE IsStatusQuestion(m) -> "status"
    [] ~IsStatusQuestion(m) /\ Plans(m) /\ plan \in {"save_client", "answer"} -> plan
    [] ~IsStatusQuestion(m) /\ Plans(m) /\ plan = "list_clients" -> "registry"
    [] ~IsStatusQuestion(m) /\ Plans(m) /\ plan = "unusable" -> "refuse"
    [] OTHER -> ByWords(m)

(* stream(): what is none of these it answers itself, without process().   *)
StreamsDirectly(m) ==
  ~IsStatusQuestion(m) /\ ~HasCoordinatorToolIntent(m) /\ ~IsLowContext(m)
=============================================================================
