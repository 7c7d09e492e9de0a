---------------------------- MODULE CodeRuntime ----------------------------
(***************************************************************************)
(* What the runtime behind the development agent does to a working tree    *)
(* and what it reports of it.  Two runners exist: the host runner executes *)
(* configured commands, the provider runner asks a model for files and     *)
(* writes them.  The Codex adapter judges what the runner reported; it     *)
(* takes nothing back.                                                     *)
(***************************************************************************)
EXTENDS FiniteSets, Integers

CONSTANT MaxChanged     \* runtime.codex.max_changed_files

ASSUME RuntimeAssumption == MaxChanged \in Nat \ {0}

(* An ordinary file, one that looks like a secret, and what a test run     *)
(* leaves behind.                                                          *)
File == {"page", "key", "leftover"}
SecretLooking == {"key"}
Written == {"page", "key"}
Runner == {"host", "provider"}

(* git status --porcelain: a directory nobody added yet is one entry,      *)
(* whatever is in it.                                                      *)
Listings(changed) == IF changed = {} THEN {{}} ELSE {changed, {"directory"}}

(* HostCodexRuntimeRunner.execute(): no command, or one that is not on the *)
(* allow-list, refuses everything; otherwise the commands run in order to  *)
(* the first that fails or times out, and the tree is listed in any case.  *)
(* A listing that fails is an empty one.                                   *)
HostResults ==
  {[ok |-> FALSE, changed |-> {}, reported |-> {}]}
    \cup UNION {[ok : BOOLEAN, changed : {c}, reported : Listings(c) \cup {{}}] :
                  c \in SUBSET Written}

(* confinePath(): paths outside the workspace and secret-looking ones are  *)
(* dropped before anything is written.                                     *)
Confined(files) == files \ SecretLooking

(* parseFiles(): envelopes first, else fenced blocks; ensureEntryPoint()   *)
(* and the one forceful retry only change which files the model emits.     *)
Emitted == SUBSET Written

(* ProviderCodegenRunner.execute(): nothing parsed, nothing writable or    *)
(* too many files is an error that writes nothing; a failing write leaves  *)
(* the files before it, and the adapter turns it into a failure.           *)
ProviderResults ==
  LET accepted == {w \in {Confined(e) : e \in Emitted} :
                     w # {} /\ Cardinality(w) <= MaxChanged}
  IN {[ok |-> FALSE, changed |-> {}, reported |-> {}]}
       \cup {[ok |-> FALSE, changed |-> part, reported |-> {}] :
               part \in UNION {SUBSET w : w \in accepted}}
       \cup UNION {[ok : {TRUE}, changed : {w}, reported : Listings(w)] : w \in accepted}

(* CodexRuntimeAdapter.safetyBlockers() on what a runner reported.         *)
SafetyBlocked(reported) ==
  \/ Cardinality(reported) > MaxChanged
  \/ reported \cap SecretLooking # {}

(* Seeded fault: a refused result still counts when the runner was happy.  *)
JudgedByRunner(r) ==
  LET refused == SafetyBlocked(r.reported)
  IN [ok |-> r.ok, refused |-> refused, changed |-> r.changed]

(* CodexRuntimeAdapter.execute(): a task whose wording is dangerous is     *)
(* refused before the runner sees it.                                      *)
Judged(r) ==
  LET refused == SafetyBlocked(r.reported)
  IN [ok |-> r.ok /\ ~refused, refused |-> refused, changed |-> r.changed]

RuntimeResults(runner) ==
  {[ok |-> FALSE, refused |-> TRUE, changed |-> {}]}
    \cup {Judged(r) : r \in IF runner = "provider" THEN ProviderResults
                                                   ELSE HostResults}

=============================================================================
