----------------------------- MODULE Worktrees -----------------------------
(***************************************************************************)
(* The git repository of one project and the working trees and branches    *)
(* cut from it, one of each per run (ProjectWorkspaceService).  A tree and *)
(* a branch are the set of files in them that the base branch has not.     *)
(* Every operation is one git command; each may fail, and then throws.     *)
(***************************************************************************)
EXTENDS CodeRuntime

CONSTANTS
  Run,
  RepoBefore   \* what earlier dispatches may have left of the repository

ASSUME WorktreeAssumption == RepoBefore \subseteq {"absent", "unborn", "based"}

VARIABLES
  repo,      \* "absent", "unborn": initialised without a commit, or "based"
  trees,     \* the runs whose working tree exists
  content,   \* what is in it
  branches,  \* the runs whose branch exists
  saved,     \* what is committed on it
  pushed,    \* the runs whose branch was pushed
  remote     \* what was pushed

gitVars == <<repo, trees, content, branches, saved, pushed, remote>>

GitTypeOK ==
  /\ repo \in {"absent", "unborn", "based"}
  /\ trees \subseteq Run /\ branches \subseteq Run /\ pushed \subseteq Run
  /\ content \in [Run -> SUBSET File]
  /\ saved \in [Run -> SUBSET File]
  /\ remote \in [Run -> SUBSET File]

GitInit ==
  /\ repo \in RepoBefore
  /\ trees = {} /\ branches = {} /\ pushed = {}
  /\ content = [r \in Run |-> {}]
  /\ saved = [r \in Run |-> {}]
  /\ remote = [r \in Run |-> {}]

(* isGitRepo(): there is a .git directory.                                 *)
IsGitRepo == repo # "absent"

(* ensureRepo(): git init, git symbolic-ref.                               *)
InitRepo ==
  /\ repo' = IF repo = "absent" THEN "unborn" ELSE repo
  /\ UNCHANGED <<trees, content, branches, saved, pushed, remote>>

(* ensureRepo(): the empty first commit; an initialised repository that    *)
(* has one gets another.                                                   *)
CommitBase ==
  /\ repo' = "based"
  /\ UNCHANGED <<trees, content, branches, saved, pushed, remote>>

(* acquireRunWorktree(): git worktree add, on the run's branch if it is    *)
(* still there, else on a new one, which needs a base to be cut from.      *)
CanAdd(r) == r \in branches \/ repo = "based"

AddTree(r) ==
  /\ CanAdd(r)
  /\ trees' = trees \cup {r}
  /\ branches' = branches \cup {r}
  /\ content' = [content EXCEPT ![r] = saved[r]]
  /\ UNCHANGED <<repo, saved, pushed, remote>>

(* What an agent or a test run does to the files of a tree.                *)
EditTree(r, files) ==
  /\ content' = [content EXCEPT ![r] = @ \cup files]
  /\ UNCHANGED <<repo, trees, branches, saved, pushed, remote>>

(* commitRunWork(): git add -A, and a commit if anything is staged.        *)
Staged(r) == content[r] # saved[r]

CommitTree(r) ==
  /\ saved' = [saved EXCEPT ![r] = content[r]]
  /\ UNCHANGED <<repo, trees, content, branches, pushed, remote>>

(* releaseRunWorktree(): git worktree remove --force; a failure is         *)
(* swallowed.                                                              *)
RemoveTree(r) ==
  /\ trees' = trees \ {r}
  /\ content' = [content EXCEPT ![r] = {}]
  /\ UNCHANGED <<repo, branches, saved, pushed, remote>>

(* setProjectRemote() and pushRunBranch().                                 *)
PushBranch(r) ==
  /\ pushed' = pushed \cup {r}
  /\ remote' = [remote EXCEPT ![r] = saved[r]]
  /\ UNCHANGED <<repo, trees, content, branches, saved>>

=============================================================================
