# A TLA+ development of BureauOS

BureauOS runs an agency of software agents on an owner's computer: it starts
runs by itself, executes them with model-driven agents, talks to GitHub and
Linear, and asks the owner before it does anything that commits the owner.
All its state is files in a workspace directory (`.bureauos`): Markdown
documents with front matter, JSON files and JSON-lines logs. Several
operating-system processes open that workspace at once - the daemon, command
line commands, the desktop application's api server - and inside each process
many asynchronous call chains interleave at every `await`. There is no
database and no lock between processes except one lock file of the daemon.

That is where the program is hard: decisions rest on files that were read some
awaits ago, several writes make one transition, and any of them may be the last
before a crash. The modules here describe that part of the program, TLC checks
them on small instances, and TLAPS proves the properties that matter most for
every value of the constants.

Paths below are relative to `src/`; `core/` stands for `packages/core/src/`.

## 1. Inventory

The state column says what a component keeps; "correct" is what it has to
guarantee. The modules that model it are named in bold.

### Approvals and policy

| component | state | operations | correct when |
| --- | --- | --- | --- |
| approval registry, `core/registries/approval.ts` (**ApprovalRegistry**) | `approvals/pending/<id>.md`, `approvals/resolved/<id>.md`, a promise chain per path in memory | `request`, `resolve`, `match`, `consume`, `listPending` | an approval is decided once and a one-off is spent once, in a process that is left alone; what a crash leaves behind grants nothing the owner did not approve |
| policy engine, `core/policy/engine.ts` (**PolicyGate**) | none; reads the configuration and the registry | `evaluate` with its modes: acting, preview, standing-only | an action that is not enabled goes ahead only under a covering approval of the owner, and an acting grant burns its one-off |
| capability use, `core/capabilities/usage.ts` (**PolicyGate**) | none | `check` | a use that needs a security or human review has an approval; a blocked use leaves the owner one request to decide, which unblocks it |
| publishers, `core/github/pr-publisher.ts`, `issue-publisher.ts`, `repository-provisioner.ts` (**PolicyGate**, their approval path; **ProjectDispatch**, the delivery's) | reports, published drafts | `publish`, `publishProjectDrafts`, `provision` | the same, and a retry publishes nothing twice |

### Runs

| component | state | operations | correct when |
| --- | --- | --- | --- |
| run engine, `core/runs/engine.ts` (**RunEngine**) | `runs/<id>.md` and, during a call, the engine's own copy of it | `start`, `dispatch`, `patch`, `reconcileStaleRuns` | the document tells how the run went; a settled run stays settled |
| retry scan, `core/autonomy/retry.ts` (**AutonomousRetry**) | fields of the failed run and of its retry children | `scan` | a failed run is retried a bounded number of times, never twice for one attempt, and then the owner is asked |
| triggers, `core/autonomy/*-triggers.ts`, `core/github/signal-triggers.ts` (**Signals**) | runs, by `trigger_source` | three scans | one run per condition; no condition whose run was lost stays unattended |
| github ingestion, `core/github/webhook-ingestion.ts`, `signal-sync.ts`, `opportunity-import.ts`, `core/autonomy/repository-verification.ts` (**Signals**) | reports, opportunities | `ingest`, `verify`, import | a delivery GitHub repeats is ingested once, an issue becomes one opportunity |
| project dispatch and delivery, `core/dispatch/*` (**ProjectDispatch**) | run, worktree, branch, pull request | `dispatch`, `deliverDispatchedRun` | work is committed before its tree is removed; what is proposed was reviewed; what was refused never leaves the machine |
| coordinator pipeline and agents, `core/runs/coordinator.ts`, `core/agents/*` (**Pipeline**) | artifacts, handoffs, verdicts | `dispatchRun`, each role's `execute` | the run's status tells how its roles ended |
| execution workspaces, `core/execution/*` (**Worktrees**) | one repository per project, one tree and branch per run | `ensureRepo`, `acquireRunWorktree`, `commitRunWork`, `releaseRunWorktree`, push | two runs of a project never share a tree |
| code runtimes, `packages/providers/src/adapters/codex*.ts`, `provider-codegen-runner.ts` (**CodeRuntime**) | none of their own; they write the tree | `execute` | a diff that is too large or looks like a secret is refused |

### The daemon

| component | state | operations | correct when |
| --- | --- | --- | --- |
| state, `core/daemon/state.ts` (**Daemon**, **Scheduler**) | `daemon.lock`, `daemon-status.json`, `daemon-scheduler.json` | `acquireLock`, `releaseLock`, `mark*`, cursors | one daemon at a time, which the files name |
| supervisor, `core/daemon/supervisor.ts` (**Daemon**) | none of its own | `start`, `stop` | start makes at most one daemon, stop reaches the one there is |
| `daemon run`, `packages/cli/src/main.ts` (**Daemon**) | the process | serve, shut down | it serves only under the lock and gives it back |
| scheduler, `core/daemon/scheduler.ts` (**Scheduler**) | cursors on disk, `job.last` in memory | `tick` | a job begins once per interval and again for ever |

### The owner's conversation and the company's records

| component | state | operations | correct when |
| --- | --- | --- | --- |
| coordinator chat, intake and tools, `core/coordinator/chat.ts`, `intake.ts`, `tool-*.ts` (**Coordinator**) | the thread | `process` and its routes, `intake`, save, delete | what the thread says was done was done, and nothing else was |
| registries of clients, projects and opportunities, `core/registries/*` (**Registries**) | a directory or a file each, a promise chain per path | `create`, `update`, `delete` | no project or opportunity without its client; a deleted record stays deleted |

### The models

| component | state | operations | correct when |
| --- | --- | --- | --- |
| credential store, `packages/providers/src/auth-store.ts` (**CredentialStore**) | one file of credentials | `upsert`, `setDefaultModel`, `remove` | the refresh token on file can be used |
| router, `packages/providers/src/router.ts`, `configured-router.ts` (**ModelRouter**) | none | `selectForAgent` | the first provider of the chain that fits and is valid |
| ChatGPT account adapter, `packages/providers/src/adapters/openai-codex.ts` (**ModelAccess**, **TokenServer**) | tokens in memory, one refresh in flight | `generateText`, `stream`, refresh | a refresh is shared and its result stored; every call ends |
| login, `core/providers/openai-codex-oauth-session.ts` (**OAuthLogin**) | one pending session, a server on port 1455 | `start`, `complete` | a redirect finds the session it is for |

### What the owner is shown

| component | state | operations | correct when |
| --- | --- | --- | --- |
| run memory, `core/memory/decisions.ts`, `run-outcomes.ts`, `daily.ts` (**CompanyMemory**) | the ledger, the logs of clients and projects, daily notes, RUNS.md, links in the run documents | `recordDecision`, `writeRunOutcomeMemory`, append | logs and run agree on what was decided and how the run ended |
| search, `packages/memory/src/store.ts`, `sqlite-index.ts`, `core/memory/browser.ts` (**MemoryIndex**) | one SQLite file beside the documents | `search`, `rebuild`, `browse` | a search reports what the documents say and misses none |
| desktop dashboard, `interface/src/renderer` (**Dashboard**) | the slices on the screen, a dialog | tick, refresh, resolve | the screen catches up with the server |

### What the services make of the books

| component | state | operations | correct when |
| --- | --- | --- | --- |
| revenue and growth pipelines, `core/revenue/pipeline.ts`, `core/growth/*`, `core/compliance/external-commitments.ts` (**Pipelines**; **Coordinator**, the patches of a pass over a deletion) | statuses of the opportunities, drafts, reviews, approval requests | `generate`, `requestExternalCommitmentGate` | a draft that would commit the company is reviewed and asked for; passes that nothing disturbs settle; a deal that was closed stays closed |
| account intelligence, project health, business reports, morning brief, growth review, `core/clients/*`, `core/autonomy/project-health.ts`, `core/reports/business.ts`, `core/memory/*` (**Books**; **Pipelines**, the passes that write them) | none; they read clients, projects, opportunities, runs, approvals | `summarize`, `generate` | what each computes for itself agrees with the others |

### The rest

| component | state | correct when |
| --- | --- | --- |
| artifact store, audit log, notifications | append-only files | - |
| linear, github comments, issue drafts, work items | - | conversions, and writes behind capability use |
| policy explanation, configuration, capability registry | - | functions of what they read |
| http api, command line, desktop application | - | front ends of the above, in processes of their own |

`PROJECT.json` has every component with its sources, its status and, where it
is not modelled, the reason.

### How the parts interact

* Everything that acts asks `PolicyEngine.evaluate`, which asks the approval
  registry. The owner answers through the http api, the desktop application or
  the command line, hence possibly from another process.
* The scheduler's tick starts runs: scheduled ones, triggers, retries. A run
  goes through the run engine and the coordinator pipeline, or through project
  dispatch, which adds a worktree and delivery.
* The retry scan, the trigger scans and the ingestion recognise what was done
  already by reading documents (a child run, a trigger source, a report) that
  are written at some other time than the thing they stand for.
* The daemon's processes and the supervisor's callers share the lock and status
  files.
* The desktop application polls the api and decides approvals through it; what a
  run leaves in the memory, every search of the owner or of an agent can find.
* A chat turn plans with a model, runs one tool, and the intake tool creates
  client, project, opportunity and run one after the other; a deletion walks the
  same records the other way.
* Every model call - of a turn, an agent, a code runtime - builds a router from the
  credentials on file, and the account's adapter writes back to that file.

### What is hard

1. *Reads that grow old.* `match()` before `consume()`, `list()` before the
   patch, the engine's copy of a run that others patch meanwhile, a lock file
   read before it is unlinked, a credential read before the refresh that spends it.
2. *Crashes between two writes.* `resolve()` writes, renames, unlinks; the retry
   scan starts a child, runs it, patches the parent; ingestion creates
   opportunities and then the report that deduplicates them; an intake leaves
   whatever it had created.
3. *Locks of one process only.* `withFileLock` is a promise chain in memory.
4. *Something must happen in the end.* A failed run must be retried or reach
   the owner; a signal must be taken up; a scheduled job must begin again; a
   dispatch must settle; a queued or refreshing call must return.
5. *Time.* A run without a write for an hour counts as dead and may not be;
   approvals and tokens expire; a tick may outlast its interval; a caller may give up a
   refresh that goes on.
6. *Verdicts reached long before they are used.* A pull request rests on what QA
   and the reviewer said of a tree that was edited, committed and pushed by others.

## 2. The modules

```
ApprovalLifecycle        abstract: filed, decided once, spent once
  ^ implemented by
ApprovalRegistry   <-- PolicyGate <-- MCPolicyGate           (4 runs)
                         ^-- PolicyGateProofs

BoundedRetry             abstract: bounded attempts, then the owner
  ^ implemented by
RunEngine          <-- AutonomousRetry <-- MCAutonomousRetry (1 run)
                         ^-- AutonomousRetryProofs

Daemon             <-- MCDaemon                              (1 run)
                         ^-- DaemonProofs
Scheduler          <-- MCScheduler                           (1 run)
                         ^-- DaemonProofs

CodeRuntime <-- Worktrees --+
Pipeline -------------------+-- ProjectDispatch <-- MCProjectDispatch (1 run)
                                ^-- ProjectDispatchProofs

Signals            <-- MCSignals                             (1 run)
                         ^-- SignalsProofs
Registries, ChatTurn <-- Coordinator <-- MCCoordinator       (1 run)
                         ^-- CoordinatorProofs

CredentialStore, TokenServer <-- OAuthLogin --+
ModelRouter ----------------------------------+-- ModelAccess <-- MCModelAccess (1 run)

                         ^-- ModelAccessProofs

Books <-- Pipelines ----------------------+
Dashboard, MemoryIndex, CompanyMemory ----+-- OwnerView <-- MCOwnerView   (1 run)
                                                ^-- OwnerViewProofs
```

### ApprovalRegistry and PolicyGate

A `Call` is one asynchronous call chain: an api handler, a command, a daemon
job. `pc` says where it is; each action is the code from one `await` on files to
the next. `pendingDir` and `resolved` are the two directories, `queue` is the
promise chain of each path in each process, so `Holds(c)` is being at its head.
A document's `rename` and `unlink` are steps of their own because `resolve()`
swallows their failure. `match()` with the `listResolved()` under it is one
step: its reads are not ordered against the writes by anything, and the
interleavings that matter are those between `match()` and what follows it.

`Evaluate` is `PolicyEngine.evaluate`: always-human actions and those the
configuration does not enable are decided by approvals, enabled ones are
allowed. A growth action matches standing approvals only while one-offs are
switched off. An acting evaluation goes on to `consume()`; a preview does not.
The services follow: `ReviewCapabilityUse`, `CheckPublishGates`,
`CheckProvisionGates`, `CheckDirect`, `Act`, and the shared request path
`ListPending`, `ReadPending` (one listed file at a time, in any order; what was
read stays in the answer even if it is decided before the last file is read),
`FindPending`, `FileRequest`. Evidence a service checks (tests,
linked issue, templates) and the answer of the capability registry are free
choices. `Crash(p)` ends every call of a process and empties its chains; a later
call runs in its restart. `burns` is the audit log's count of consumptions,
which the code writes and nothing reads.

`ApprovalLifecycle` is what is promised with no files, locks or callers in it;
`phaseOf` and `standingOnes` are the refinement mapping. The promise is made for
one process that neither crashes nor fails a rename (`Undisturbed`), because
outside of that the code does not keep it (section 4).

### RunEngine and AutonomousRetry

`file` is the run document on disk, `mem` the copy the engine's call holds and
persists, which is how an engine erases what a scan patched meanwhile. `age` is
the time since the last write, cut off at `StaleAfter`. `mode` tells how a run is
executed: with a dispatcher in the engine, by project dispatch, or by the
coordinator pipeline after the stub engine has completed it. `call` is where that
execution is: an engine call in which it may park for the owner, complete, block
or fail, a pipeline that marks the document in progress and settles it, or a
throw on the way. Whatever end the run comes to, the engine may record a decision on it before
`start()` returns (`End`): `ReadDecided` reads the document, `LinkDecision` puts it back as it was
read, with the link, without the lock, over whatever was patched while the logs were written - or fails.
`AtWork` is a call that has more to do than that. The owner's own recorders (`api/server.ts:1244`,
`cli/src/main.ts:1972`, `intake.ts:829`) do the same to a run they name; they are in CompanyMemory. The
transitions up to `in_progress` are one step; no tick
falls between the several writes of one transition; `patch()` reads and writes
in one step. The text of a failure is the flag `retryable`; what the reconciliation makes of it is
either, because `classifyRetry()` reads the scope and older errors of the run, too.

A scan is the sequence of the code: first list, reconciliation of what it saw
stale (`stale` keeps the record as seen, which is then written back), second
list, and for every candidate either the approval request and the patch, or the
child run - executed to its end - and then the patch of the parent. `ChildThrows`
and `ScanDies` end it at any point. `overtaken` and `erased` are history variables: the runs
that were declared stale while their call was in fact running, and those of which the link of their own
decision took back that they had recovered or were escalated. The owner is asked once more then.

`BoundedRetry` is the promise; attempts are the children of a run, the outcome is
what its document says.

### Daemon

`lock` and `status` are the two files; `at` is where each daemon process and each
of the owner's calls is. The lock is created with `wx`, or overwritten by the pid
it named when it was read; its removal is a separate step from the read that
justified it, in `acquireLock()` and in `releaseLock()` alike. `daemon start`
takes the lock for the child it spawned while the child takes it for itself.
SIGTERM is handled once, by a process that is up; otherwise it kills. `status()`
is the predicate `ShownAlive`. A pid is never used twice. `hasty` is a history
variable: the owner began something (a `start`, a `stop`, a `daemon run`) while
another call, or a process that was coming up or closing, was under way, or a
call was given up half way.

### Scheduler

Any number of processes come up, shut down and die freely - when that can happen
is Daemon's subject, and what holds here holds for all of it. A time stamp is its
age; ages are cut off where they stop making a difference. A tick walks through
the jobs; a job is due when neither the cursors on disk nor `job.last` show
activity within its interval; it is marked started, does its work, succeeds or
throws. Updating the cursor file is one step: a lock of the process orders its
own updates, and of two processes that tick at the same time (`crowded`) nothing
is claimed.

### ProjectDispatch, over Worktrees, CodeRuntime and Pipeline

*Worktrees* is git as `ProjectWorkspaceService` drives it: one repository per
project, which an earlier process may have left initialised without a commit, and
a tree and a branch per run. A tree is the set of files in it that the base
branch has not: an ordinary one, one that looks like a secret, and what a test
run leaves behind. One action is one git command, and each may fail.
*CodeRuntime* is what the two runners do to a tree and what they report of it:
the host runner lists the tree with `git status`, which folds a new directory into
one entry and whose failure is an empty list; the provider runner drops paths it may not
write, refuses too many files, and may fail half way. `Judged` is
the adapter's verdict on the report; it takes nothing back.
*Pipeline* is the roles of a run type and the verdicts of QA, reviewer and
security as functions of the evidence, with the soft pass of a project without
tests.

*ProjectDispatch* is `dispatch()` and what it calls: the stubbed start, which says
completed or parks the run before anything ran; the patch to in progress; packet,
repository, tree; each role in its order; commit, release and status, which also
follow a throw; then delivery with its two gates, the provisioning of a
repository and its link, push, draft pull request, report. `d` is the local
state of the dispatch, `permits` are unspent one-off approvals per action (their life
is PolicyGate's subject). What the retry scan does to a document that has been in progress
for an hour, whether or not its dispatch lives, takes two steps, as in the code: it is listed
(`ListStale`; `old` are the documents that old) and, when the scan comes to it, written back
as blocked, whatever it says by then (`PersistStale`). History variables keep
the tree the tests did not object to, the runs whose diff was refused, those
whose commit failed and those a scan wrote over after they had completed (`overtaken`). The last
happens: a dispatch of more than an hour that completes between the two steps of a scan
goes on to its pull request while its document says blocked - and is retried, since the next scan finds it so.
Not in this module is that another writer holds the document: a decision recorded into a
run by hand (`api/server.ts:1244`, `cli/src/main.ts:1972`) writes it back as it was read, which is CompanyMemory's subject.

### Signals

A subject is what a signal is about - ten kinds, from a blocked project to a
GitHub issue - with a condition that comes, changes and goes; `stamp` is the time
of its last change, `age` the time since. An actor's call is the services it makes in
order: the daemon's operational and memory jobs and its repository sync, the
same scan by command or api, a webhook delivery. The steps are the awaits between a read and a write:
the delivery's own deduplication, the lookup and the import of an opportunity,
the report, the snapshot of the runs, the start of one, its fulfilment or
dispatch. A run is its trigger source and how far the call that started it has
brought it: started (and shown as completed by the stub), parked, dispatched.
`Remember` is the sync's write to the project's record, which is why a blocked
project in a synced repository never gets older than the threshold. The reads of one
scan are one step. `lost` is history: what a call that threw or died had in hand.

### Coordinator, over Registries and ChatTurn

*ChatTurn* is what the conversation takes a message for: the classifiers of
`chat.ts` and `intake.ts` as predicates of a message, which is the set of the words it
shows - each standing for the entries that are in the same lists of the code - its length,
whether something is attached and whether a business is named. The lists overlap, so the
order of the tests decides: `Route` is the order of `process()`, `StreamsDirectly` the
shorter test by which `stream()` answers without it.
*Registries* is the files: a directory per client and per project whose document
is the record, one file per opportunity, and the turns `withFileLock` gives out for
a path inside the one process. `births` numbers the records created at a path and
stands for their ids. *Coordinator* is the server's calls over them: the routes of
`process()` and `stream()` (what the model plans is free), the name a turn works under - a
client it mentions if the registry knows it, else the business or the title it names, else
the placeholder every nameless message shares - the intake with each file it awaits, the save of a client, the deletion of a
client with everything below it, a patch of a project, the revenue pass's
updates. Read-modify-write under a turn is two steps. `Fails` ends one call
anywhere, `Crash` all of them. `crowded` remembers names on which two creating
or deleting calls worked at a time, `gone` what was deleted.

### ModelAccess, over OAuthLogin, CredentialStore, TokenServer and ModelRouter

*TokenServer* is what is relied on of OpenAI's authorization server: pairs of
tokens, a refresh token taken once. *CredentialStore* is the one file: every change
reads it all and writes it all back. *OAuthLogin* is the login: one variable for
the pending session, one port, requests that wait, exchange and store, and
begin anew. *ModelRouter* picks the first provider of a chain that fits and is
valid, or the cheapest. *ModelAccess* puts sessions - a router with its adapter, as
each chat turn, dispatch and command builds for itself - beside the owner's
requests and logins: a call asks for a token, shares or begins a refresh; the
exchange, the adapter's new tokens and the write of the file are three steps; a
caller may give up while the refresh goes on. `orphaned` is history: refresh tokens
whose exchange nobody stored. `crossed` and `clashed` are, too: another change of the file
that wrote back an older one, and two logins at a time.

### OwnerView, over Dashboard, MemoryIndex, CompanyMemory and Pipelines

*Dashboard* is the screen's side of the approvals. A fan-out asks for all slices
at once and applies what came when the last has settled; there is one per tick
(which skips its turn while the last is under way) and one after each action, and
nothing orders them. A request that stalls ends by the client's timer, while the
server may still serve it (`ServeLate`). The owner decides in a dialog that can be
dismissed and opened again while its request travels, or with one tap on a sheet.
*MemoryIndex* is a search: list the files, compare with the index, build a new one row
by row under a temporary name, rename, open the path again, and read the files where
there is no index. A document is the number of its writes, a listing its stamp. `floor`
is history: the documents as they were when the oldest search then under way
began. `twins` are rewrites the stamp does not show, `clashed` two builders in one
temporary file.
*CompanyMemory* is `recordDecision()` of the engine and of any other recorders, the outcome, the
patches of the dispatch that follows, a crash, and the reconciliation of a run that was not written to
for an hour, as far as it is in two steps: the list, and the write of what was listed. `to` is where a decision goes:
the ledger and the daily note unless the call keeps it to a memory scope (`Memories`), the logs of client and
project if there are any, the run if it was there. `undercut` are the writers that linked their decision while
another held a copy of the run, and `last` says of the status written last whether somebody did.
*Books* is one snapshot of clients, projects, deals and pending approvals, and what the
services conclude from it, each with thresholds and filters of its own: an account's risk, value
and classes, a project's risk and score, the portfolio's risk, the verdict of a verification,
the root memory's lists (cut off at twelve) and the brief made of them, the growth review's
advice, the points of an opportunity. `FirstOf` is a chain of early returns.
*Pipelines* is the passes: they read the books at the start - the revenue pass twice, in either
order - and then write one file after the other. The deals come by value and then by margin; which of
two equal ones comes first hangs on their dates and titles, which are left out, so either may, and so may
any client's plan (`Orders`, `WritePlan`). A pass evaluates a deal, patches its status, writes the
lead report, two briefs at once, the review, files a request for each commitment and goes on to
the next; a growth pass writes its drafts, the review and the requests; the other services a
document per client or a report. `made` and `filed` are what the pass has written. Any of the steps may be the last
(`EndPass`). The owner edits the deals' files, and the sections of the growth memory. `moves` and
`reopened` are history: how often undisturbed passes changed a deal's status, and which closed
deals they opened; `fresh` says of a pass that nobody changed the books since it began.
*OwnerView* puts the four side by side. None writes what another reads; `cast` says which
of them a behaviour moves, because the product of their states would show nothing more.

## 3. The runs

| run | instance | checks |
| --- | --- | --- |
| `policy_gate` | four approvals, one filed at the start; three calls of every kind in one process; a broad standing approval that expires, a standing growth approval; one clock tick, one crash or failed rename | the lock excludes; nothing happens without the owner's approval; one-offs are burned once; the registry implements the lifecycle; whoever is told to wait read a request the owner could decide, or one whose own decision a fault cut short |
| `policy_gate_review` | enabled-but-reviewed and always-human capabilities, previews, `policy explain`; fair steps | reviews need an approval of the owner; every call returns |
| `retry_scan` | one original run, executed by a dispatcher or by project dispatch, its attempts up to the limit of two and one document to spare; a decision recorded, or not, or in vain, on the end of each; one crash or throw anywhere; fairness | attempts are distinct and bounded; settled only for a reason, and the owner asked no oftener than was taken back or cut short; retried only when no work is under way; the scan implements `BoundedRetry` but for the step that takes an outcome back; every failing run settles unless its attempt is lost |
| `daemon` | three processes, one caller, two deaths or signals denied | one daemon, which the lock names; stop reaches it |
| `scheduler` | two jobs, two processes that come and go for ever, ticks as long as an interval; fairness | a job begins once per interval across restarts; in a daemon that stays every job begins for ever |
| `project_work` | one run asked for any of eight kinds of work, in a project with any kind of repository left by an earlier process; pushing is allowed by configuration, the rest needs the owner; one failure anywhere; any number of scans | a refused diff stays on the machine; a proposed pull request has the verdicts it claims and the commit they were about; a feature ships the tree that was tested; completed means every role was ok; no tree is removed with unsaved work |
| `signals` | one subject of any kind, or a silent client and a blocked run together; the daemon and one caller; two policies, one repeated delivery, one call that throws or dies; fairness | one run per signal and one opportunity per issue, but for calls that overlap; no run is started and left; every lasting condition is answered, but for what an interrupted call had in hand |
| `coordinator` | three calls of eight requests - turns by name, by mention, in a stream, without any name; an intake by api, a deletion, a patch, a revenue pass - over two clients and a project name they share, two opportunities, two births per path, one crash or failure | no orphans; a deleted record does not come back; the thread tells what was done, and what was streamed asked for no work |
| `model_access` | five casts: two sessions of the account; one with two calls and the owner; one with a chain of providers and the owner; two overlapping logins; a login beside a session; three pairs of tokens, one fault; fairness | the refresh token on file can be exchanged; a redirect finds its session; every call ends |
| `owner_view` | two approvals, one action of the owner at a time, one stalled request; two documents with two writes and one, one rebuild beside one search or browse, with SQLite and without; one recorder beside the engine, a decision for the company, for its client or for a client without a log, one patch, one scan, an hour that passes, a crash or a failed write at any step; two passes, one of them revenue, over eighteen states of the books of a client with two projects and two deals, and one edit by the owner; fairness of the screen | what is on the server comes on the screen and what is decided leaves it, nothing stays busy; a search is neither stale nor short of a document; logs, outcome and run agree; `BooksTellTheTruth`: drafts are gated, passes settle, digests agree |
| `one_off_double` | three calls | *violated:* one one-off authorizes two actions |
| `publish_unblocked` | three calls | *violated:* the owner's approval does not unblock a publication |

The types of PolicyGate, AutonomousRetry, Scheduler, Daemon and ModelAccess are only proved
(section 5), not checked; the other modules' `TypeOK` is checked and proved.

`BooksTellTheTruth` has four parts. `DraftsAreGated`: whatever a pass asks the owner for is backed by the
review and a draft of that pass, and a pass that gets to its report has asked for everything its
drafts commit to. `PassesSettle`: of passes that begin and end without an edit between them, no more than two
move a deal (the status is worth points, so that a patch changes the next evaluation), and none
opens a closed deal. `AttentionAgrees` and `MoneyAgrees` relate the digests where they mean the same: a blocked
project is on every list, whoever needs the owner scores below who does not, the brief's pipeline is the
accounts' sum, what the growth review urges is what puts an account at risk. They do not relate what the code
computes differently on purpose or by accident: the portfolio's pipeline of `reports/business.ts:167` has
closed deals in it, and it counts a request only if it names the project exactly.

Deadlock is checked for Daemon and Scheduler. In the others calls, runs and
subjects are used up within the bounds, and everything may have ended.

### Why the bounds are enough

* *Policy.* A race of this code has two or three parties: two calls that matched
  the same approval, and the owner who resolves. Three calls are that. Four ids
  leave room for a request that is filed next to an identical one. One fault is
  one crash between any two steps. Symmetry (fresh ids, calls of one process) is
  used where only safety is checked, in `policy_gate`.
* *Retry.* Attempts of different runs share nothing except the list a scan made;
  one original, its two attempts and one more document let TLC find a third
  attempt, a duplicate or a grandchild if there were one. `StaleAfter` 1 makes any
  pipeline able to outlive the limit. `SettledUnlessLost` is stated in the MC module: the one
  original is run 1.
* *Daemon.* A daemon, its successor and a `daemon run` beside them are three
  processes. A second caller adds nothing to properties that hold only while one
  thing is done at a time. Two deaths leave a stale lock and kill its recovery. `DaemonProofs`
  has no bounds.
* *Scheduler.* Two jobs show that one does not starve the other; with an interval
  of one unit and ticks of up to one unit, a job falls due again during its own
  tick. Two processes recur without bound, so no number of restarts is left out.
* *Dispatch.* Two dispatches of a project share its repository, its link and its
  approvals, nothing else: a run's tree and branch bear its id. What a second one can do to the
  first is therefore a repository in any of its states (`RepoBefore`), a link that
  appears, a permit that is gone. `MaxChanged` 2 lies between one file and
  too many; two grants are one for each of the gates that is not enabled.
* *Signals.* Signals share the list of runs alone, which two subjects of different
  jobs show; every kind is checked by itself. A caller overlaps with the daemon, and
  a third scan would overlap as the second does. `MaxStamp` lets a condition
  change while it is being answered. The caller makes the memory scan and the
  delivery; the operational scan is the daemon's alone in the code, too.
* *Coordinator.* Two calls race and a third, which may be a retry, meets what they left.
  Records reborn twice tell a new record from a resurrected one. Two clients
  share the project's name, as `intake.ts:465` lets them. Calls and opportunities are
  interchangeable, and only safety is checked.
* *Models.* Who meets whom is a cast, since the product of all would only repeat it:
  sessions share the file, calls of a session its adapter, logins the pending
  variable and the port. Three pairs are the first, its successor and that one's.

* *Owner's view.* A fan-out of the tick and one after an action are two, which is what
  overlaps; a second approval tells the stale one from the fresh one. Two searches are a builder and
  the one who finds its file; two writes of a document are one before and one during the
  search. One recorder, the engine and one scan are the three that write a run from a copy of their own; the
patches of a dispatch follow one another, and the second is like the first. The books are chosen so that a
deal stands at each side of the thresholds (3000, 30 %, 65 points) and a project is blocked, waiting, failing, idle or well;
two passes overlap, and a third would as the second does; one edit closes a deal before, between or under them.
The loop over the deals is walked with two of them, though in these books only one at a time is worth a proposal.

### Fairness

* PolicyGate: weak fairness of every call's steps. That is the event loop; nothing
  is assumed of the owner, of new calls or of the clock.
* AutonomousRetry: a pipeline that can go on does (commands and network calls
  have timeouts), the daemon scans again and again (what `JobsKeepRunning` says of the
  scheduler), time passes. No run has to start, nothing has to fail.
* Scheduler: the interval fires in a process that is up, jobs end, time passes. No
  process has to start, stop or die. A job that never ends would hold the tick's
  in-flight flag for ever (`scheduler.ts:193`); that is outside this assumption.
* Signals: time passes, a begun call goes on; strong fairness of each of the
  daemon's jobs, which is `Scheduler!JobsKeepRunning` (a job begins again and again, but not in the
  middle of another), and of GitHub's first delivery of an event. No condition has to
  come up or last.
* ModelAccess: a refresh that was begun goes on and a request gets an answer or an
  error. No caller has to wait or to give up.
* OwnerView: the dashboard's interval fires, a request is served or ends by its 30 s timer,
  the renderer's handlers go on. Nobody has to act.
* Daemon, ProjectDispatch and Coordinator: no liveness is claimed. A daemon that was told to stop waits in
  `server.close()` (`cli/src/main.ts:1626`) for its open event streams before it
  gives the lock back, so that a connected dashboard can keep it; a dispatch that throws or dies
  leaves its document in progress until a scan finds it; a turn of the conversation that fails is simply over.

## 4. What disagrees with the documentation

The two violated runs each check a sentence of the repository:

1. *One-offs* (`policy/engine.ts:257`). `consumeOnGrant()` ignores what `consume()`
   returned. Two calls match the same one-off, both queue to consume it, one
   burns it, both are allowed. "It cannot authorize a second one" says
   `registries/approval.ts:323`. `BurnedOnce` holds: it is burned once - but more
   than one may proceed on it.
2. *Publications* (`github/pr-publisher.ts:613`). They are evaluated under a capability
   scope and request approval under the project's id; `match()` compares scopes,
   so approving the request changes nothing. The capability service uses one
   scope for both and is unblocked.

Met while modelling, no run spent on it:

* *Approvals.* `resolve()` writes the decision before it removes the pending copy
  (`registries/approval.ts:250`); a crash or failed rename there leaves a copy that can be
  resolved again, and the new record forgets that it was consumed. Two blocked calls
  can file two identical requests. An approval that only satisfied a review gate is not consumed.
* *Retries.* The child is created before the parent records the attempt
  (`autonomy/retry.ts:425`). If the dispatch throws in between, every later scan finds the
  child, calls the attempt a duplicate and leaves the run alone for ever, neither
  retried nor escalated; `SettledUnlessLost` is what is left. The decision on a failed run is linked by a
  write of the whole document as it was read before the logs were written (`memory/decisions.ts:249`, no lock):
  an escalation, a recovery or an attempt recorded meanwhile is gone, and an escalated run is escalated again
  (`erased`). Two scans at a time can
  start the same attempt.
* *Daemon.* The refused second daemon calls `markError()` (`cli/src/main.ts:1600`), and
  `daemon status` shows an error from then on, though the first one runs
  (`docs/cli.md:332`); `stop` still reaches it, through the lock. Without the `~hasty` condition
  `OneDaemon` fails: `stop; run; run` typed quickly lets the first daemon's own
  `releaseLock()` or the `stop()` unlink the second one's lock, two recoveries of one stale lock
  can each remove the other's, and `start` can kill its own child when the child's
  lock file appears between its own read and create.
* *Dispatch.* A bug run tests before it develops, and the fix is never tested
  (`docs/project-workspaces.md:37` describes tests after development). A run parked
  for the owner is marked in progress and executed (`project-dispatch.ts:394`). The
  stub's start says completed, in the run's document and in the company's memory, before
  the pipeline runs. Delivery never hands over the artifact that could ask for a security
  review; work that QA passed for want of tests, or with a low finding, can never be delivered.
  The limit on changed files counts entries of `git status`, where a new directory
  is one. What tests leave in the tree is committed by `git add -A`. A
  repository created but not linked makes every later provisioning fail. A pull request
  whose report cannot be written is told as blocked. Two dispatches may find a
  repository initialised but without a commit, though `ensureRepo` says "with a
  committed base branch". An owner's build without its authorization record goes on,
  though its comment says otherwise. A crash leaves the tree behind.
* *Signals.* The sync writes to the project's record every time it has looked
  (`github/signal-sync.ts:399`, every 15 minutes), and the operational trigger measures how long
  a project is blocked by that record's last change, with a threshold of a day. A blocked
  project whose repository is linked is therefore never triaged, though
  `docs/always-on-autonomy.md:244` says that one blocked past the threshold is.
  `EverySignalIsTriaged` leaves such projects out. Two scans at a time start two runs for one signal. A report that was
  written before its triggers ran makes the redelivery a duplicate: what it should have
  started is lost. Sources of stale work have no time in them, so that a second
  staleness counts as the first. The content source names days, and a parked or failed
  fulfilment keeps it occupied.
* *Conversation.* The intake looks a project up by its slug alone (`intake.ts:465`): an
  intake for client B that names client A's project attaches to it, and its run
  bears B's client and A's project, although `docs/memory-model.md` keeps clients
  apart. Two intakes of one new name both create it; the second document overwrites
  the first, whose project is orphaned (`crowded`). A half-made
  directory blocks its name for ever. Messages without any name share one client, the
placeholder (`intake.ts:359`). Messages are saved at the end, so that a retry after
  a throw works twice. Two builds can both pass the server's guard
  (`server.ts:538`), and a blocked feature run holds it for ever. Nothing in production
  calls the deletion of a client yet.
* *Models.* A refresh is shared within an adapter, and every session has an adapter of
  its own: two sessions present the same refresh token, and the loser's calls fail, though
  `openai-codex.ts:288` promises a single flight. A 401 is not retried after a refresh. A
  refresh writes back the default model of its router's snapshot over the owner's
  newer choice. A change of something else - the default model, "without touching its
  OAuth tokens", or another provider - can write back a refresh token that was
  exchanged meanwhile (`crossed`). Tokens of the environment rotate without being stored. Completing
  one login closes a newer one; two overlapping logins leak the server on port 1455
  (`clashed`).

## 5. The proofs

All theorems are about the specification for *every* value of its constants, from
the named assumptions in the modules: `RegistryAssumption` and `PolicyAssumption`
(types of the constants, what each kind of caller asks), `EngineAssumption` and
`RetryAssumption` (bounds are natural numbers), `SchedulerAssumption` (there is a job, intervals are
not zero), Daemon's types of its constants, `StoreAssumption`, `LoginAssumption` and `AccessAssumption` (types,
who the writers are, there is room for one pair of tokens), `DispatchAssumption` with those of its three
parts (types, at least one changed file is allowed), `SignalAssumption` (what each caller calls),
`RegistriesAssumption` and `CoordinatorAssumption` (the kinds of paths are disjoint, a message names a business
exactly when the text does), `DashboardAssumption`, `IndexAssumption`, `MemoryAssumption`, `BooksAssumption` and
`PipelinesAssumption` (types and bounds, finitely many clients, projects and deals, which services a pass may be of). TLC evaluates them in every run.

| theorem | says | argument |
| --- | --- | --- |
| `TypeCorrect` (PolicyGateProofs) | PolicyGate's types | `TypeInv`, step by step |
| `LockCorrect` | `LockExclusive` | every call inside a lock is at the head of the chain its process keeps for the approval; the chain's head is one call; a crash empties the chains of a process and ends its calls together |
| `OwnerControl` | `ActsUnderOwnerApproval` | `OwnerInv`: whatever is resolved as approved was approved by a call of the owner, and so was whatever a call that was allowed goes by, with a covering request; `FiledInv` says that every id anywhere was filed, and a request never changes. Both are needed: a later `resolve()` may overwrite the decision a call has acted on, so that the invariant has to speak of the history and not of the file |
| `ReviewControl` | `ReviewedByOwner` | the same invariant |
| `BurnsOnce` | `BurnedOnce` | `OnceInv`, for a process that is left alone: a call that came to the head of the chain and read still reads the same when it writes (`AtWork`), an open pending copy belongs to an undecided approval or to the call that is just archiving it (`SpentOrNot`). With `OneHolder`, from the lock, no two calls are between the read and the burn |
| `OwnerIsAsked` | `WaitsForTheOwner` | `ArchivedInv`: an archived copy is in the directory only while the `resolve()` that renamed it has yet to unlink it, or because that `resolve()` died or its unlink failed; a call takes from its list only what it finds in the directory when it reads it |
| `LifecycleImplemented` | `ImplementsLifecycle` | writing a decision decides, stamping spends, filing files, and of every other step the phases do not change (`NextImplements`); that what is decided was pending and what is spent was open is `OnceInv` |
| `RetryTypeCorrect` (AutonomousRetryProofs) | AutonomousRetry's types | with `SourcesKept` and `CandidatesOriginal`, which make what a scan works on a run that exists |
| `RetriesDistinct` | `AttemptsDistinct` | `AttemptInv`: parents are originals, no two children share parent and attempt, and the attempt a lone scan is about to start is still free. The stale records that the engine and the reconciliation write back can lower `attempts` of a run, never the children's own fields, which is what the scan looks up |
| `RetriesWhenOver` | `RetriedWhenOver`, for any number of scans | `OverInv`: a document that says failed or blocked belongs to a call that is not at work or overtaken, and so does every copy of it: in the engine, held to be linked (`CopyIsOver`), in a scan's stale list, among its candidates |
| `SettledWithReason` | `SettledForAReason` | `ReasonInv`: wherever a record says recovered or escalated - on disk, in a scan's stale list, in the copy a decision is linked in - its reason is there, and reasons never go away; the record the engine executes never says it. For the bound on questions `AloneInv`: a lone scan asks for nothing that is settled, and one more than before costs a fault or a link that took the escalation back (`AskedAtMostOnce`); such a link is the last thing the call of a run does (`ErasedIsOver`), and it adds nothing (`CopiesHonest`). The stale list is why the plain property is not inductive: the reconciliation may write an old settlement back |
| `BoundedRetryImplemented` | `ImplementsBoundedRetry` | `StartChild` begins an attempt, the two patches settle, every other step changes neither, except the links `erased` names, which the property leaves out; the bound is a count: the attempts of a run are distinct numbers between one and the limit (`OneMoreTry`) |
| `SchedulerTypeCorrect` (DaemonProofs) | Scheduler's types | with `Placed`: a tick is at a job exactly when it does something |
| `OncePerIntervalHolds` | `OncePerInterval` | `IntervalInv`: the cursor on disk is the last time the job really began (`Recorded`); one tick at a time unless `crowded`; what was due at the check stays due until it begins (`StillDue`), since time ages the tick and the cursor alike |
| `TypeCorrect` (DaemonProofs) | Daemon's types | `TypeInv` |
| `OneDaemonAlways`, `HoldsTheLockAlways`, `StopReachesAlways` | `OneDaemon`; a daemon that serves is the one the lock names; `StopReachesDaemon`, for any number of processes and callers | `SerialInv`: without haste one call of the owner is under way (`OneCall`), one process is coming up or closing (`OnePassing`) and not while a call works on others (`Attended`); then the lock names the daemon there is or the child a `start` is taking it for (`Named`), a stale lock names somebody gone (`Gone`), and what a recovery read is still what is on disk (`Only`, `Taken`). The property alone is not inductive: a removal is justified by a read some steps ago, and only the order of calls keeps that read true |
| `CoordinatorTypeCorrect` (CoordinatorProofs) | Coordinator's types | what each helper of the calls returns, then one action after the other |
| `NothingIsOrphaned` | `NoOrphans`, for any number of calls, names and births | `CoordinatorInv`: two calls at a time never have a turn on one path (`Exclusive`), and what they make or delete under one name is in `crowded` (`Remembered`). Whoever writes back or removes has the turn, and what it read is still there (`Holding`, `Basis`); a record is made where there is none (`Absent`); the client of an intake stays (`HasClient`); and of a deletion's client nothing is left behind the point it has come to (`Cascading`) - the order of the cascade, which is what the property is about |
| `ThreadIsTrue` | `ThreadTellsTheTruth` | the same invariant: `SoFar` says of each place of a turn what it has done and not done by then, and `Theirs` that no other call undoes it but a deletion, which is in `gone` |
| `DeletedForGood` | `DeletedStaysGone` | only a patch writes a record that it did not make, and `Holding` says that the record is there when it does |
| `StreamLosesNothing` | no message that `stream()` answers by itself is one `process()` would have saved, opened work for or refused, whatever the model plans | the tests of `process()` that come after the planner only catch what the test of `stream()` catches, too (`WordsOfATool`) |
| `PlanOpensNothing` | whatever the model plans, a turn becomes an intake only if the classifier of intakes finds the owner's own words asking for one and for no dry run, they are no question about status or clients and no mere client to save - and then it would have been one with no plan, and is not streamed past the coordinator | `Route` leaves a planned intake to the words, and each list of words excludes the ones before it |
| `DispatchTypeCorrect` (ProjectDispatchProofs) | ProjectDispatch's types | what each role, command and gate returns (`StepDoes`, `JudgedLocal`), then one action after the other |
| `RefusedNeverLeaves`, `ProposalsReviewed`, `FeaturesShipTested` | `RefusedStaysHome`, `ProposedMeansReviewed`, `FeatureShipsWhatWasTested`, for any number of dispatches side by side | `DispatchInv`: a run's branch, tree and document are its own (`StepsApart`), so it speaks of one run; only a scan writes another's document, and what it says of completed work then is in `overtaken`. `failed` is set by the roles only and never taken back, a refused diff sets it (`RefusedFails`), the status is written from it (`Told`) and delivery is entered by that status (`Passed`); what was committed after development is what was tested (`TestedAfterwards`); the branch is not committed to between push and proposal (`PushedLast`, `CommittedOnce`) |
| `StatusTrue`, `WorkKept` | `StatusTellsOutcome`, `WorkIsKept` | the same invariant: the pipeline ends behind its last role or by a throw (`WentThrough`), and at the release the tree is what the branch has or its commit failed (`KeptInTree`) |
| `SignalsTypeCorrect` (SignalsProofs) | Signals' types | what the scans, imports and fulfilments return, then one action after the other |
| `SignalsRunOnce`, `IssuesImportedOnce` | `OneRunPerSignal`, `OneOpportunityPerIssue`, for any number of callers, signals and policies | `Seen`: what a call knows is every entry there was when it looked, and its own since. So an entry with the source of an earlier one was made by a call that looked before that one was entered, which is the exception the property names |
| `NoRunLeftBehind` | `NoRunIsForgotten` | a call that starts a run has it in hand at once, and lets go of it by parking or dispatching it - or dies, which is `lost` |
| `TypeCorrect` (ModelAccessProofs) | ModelAccess's types, and that a waiting call has a refresh to wait for | `TypeStep`; a choice of the router is one of its chain (`SelectedIsProvider`), the least of a nonempty set of positions |
| `RedirectServed` | `RedirectIsServed`, for any number of logins | `PortHeld`: while none overlap, an authorization that is being opened has the port and nothing is pending, and one that is pending has the port |
| `CredentialKept` | `CredentialSurvives`, for any number of sessions, requests, logins and faults | `Secrets`: a refresh token only its receiver has seen - a session before it is stored, a request, a login - is live, in no other place and different from every other such token, so nobody can exchange it before it is on file; `Issued`: no token anywhere is newer than the last one issued, so a new one is a secret. What else is written to the file is what its writer read, which is on file still or named by `crossed` |
| `OwnerViewTyped` (OwnerViewProofs) | OwnerView's types: Dashboard's, MemoryIndex's, CompanyMemory's and Pipelines' | `OwnerInv`, which puts the four invariants side by side as the specification does its parts (`OneMoves`); a pass has at each place the fields that place reads (`PassesPlaced`) |
| `SearchesTellTheTruth` | `SearchTellsTheTruth`, for any number of searches, rebuilds, browses and documents | `IndexInv`: what a search has listed lies between its floor and the disk, and of two searches at work each listed above the other's floor (`FloorsBelow`), because a floor reaches back to the oldest search under way when its own began; a row holds what was read after its stamp (`RowsRight`); unless a temporary name was shared, a file is installed when it is complete (`FilesWhole`). That an index is fresh when it is checked is not inductive: it is queried later |
| `RecordsAgreeAlways` | `LedgerAndRunAgree`, for any number of recorders and scans, any number of patches and any destinations | `RecordsInv`: a decision that the run or any copy of it names has its logs behind it (`LogsBeforeLinks`); a status that was written while nobody else held a copy is in the run and in every copy that will be written back (`StatusKept`), and so is a link made while nobody else held one (`LinksKept`). The property alone is not inductive: it says nothing of the copies |
| `BooksTellTheTruthAlways` | `BooksTellTheTruth`, for any books, limits, services and number of passes | `BooksInv`. Gates: of a pass's drafts those of earlier deals are asked for, and those of the one at hand are or will be (`Gated`). Settling: what an undisturbed pass has still to go through is open (`Undisturbed`) and `MovesFit` bounds the moves, see below. The digests: `AttentionShared` compares the chains of conditions case by case, `MoneyShared` reduces the sums per account to sums over the deals (`AccountsAddUp`), by induction over the finite sets they run over |

But for `StreamLosesNothing` and `PlanOpensNothing`, which are about every message, each theorem
is the usual three facts - the invariant holds initially, every
step keeps it, it implies the property - with one named step per action and the
frame lemmas (who changes whose variables) stated once. An action property follows from the
invariant of its module and a look at the steps that can change what it speaks of. The two refinements are conditional as
the promises are: a step of an undisturbed process (of a lone scanner with no live run given up)
is a step of the abstract specification or a stutter, and the initial states map to initial states.
Each inductive invariant was checked by TLC on the instance of its run before it was proved.

One attempt failed for a good reason. `NoOrphans` used to excuse an orphan only when its client's name was in
`crowded`. The step of a patch could not be proved, and with four calls TLC shows why: two
intakes make the same project for two clients, the second record overwriting the first after a patch
has read the first; the second client is deleted with that project; the patch writes the first
record back, of whose client nothing need be left. It takes two calls under one project name, so the exemption now names the
project as well; three calls, which the run has, are too few to meet it.

`BooksTellTheTruth` shows what an instance can hide. That undisturbed passes move a deal twice at most, and not
without end, rests on numbers: a patch changes what the status is worth (15, 18, 20 points and so on), and
through the count of stalled deals the account's score - but that by ten points at most, and only a fifth of it gets
into the deal's. So the score without the status stays within two points of `Most`, which passes do not change,
and `MovesFit` lists which status a deal can have after one and after two moves for each `Most`; there is no entry for
three (`TurnsFew` goes through them). That needs the passes to work on what they read as long as nothing disturbs
them (`Informed`: the two readings are `Alike` the books, no deal is met twice and those still to come have the
status that was read), and the rounding of the account's score, worked out in integers (`DivSpec`, `ScoreLessIs`).
The instance has two deals and eighteen states of the books; the theorem has any values and margins, any number of deals,
of clients and of passes.

Every invariant the runs check is stated by a theorem.

Out of the prover's reach, and left to TLC: everything temporal under fairness
(`EveryCallReturns`, `SettledUnlessLost`, `JobsKeepRunning`,
`EverySignalIsTriaged`, `EveryCallSettles`, `ScreenCatchesUp`), ENABLED, induction over data
(but for finite sets, whose subsets `SetInduction` of OwnerViewProofs goes through by the size of the smallest
counterexample) and RECURSIVE operators, of which the modules have none.

## 6. The plan

Done: approvals and retries, daemon and scheduler, project dispatch, signals, the
conversation's records, access to models, the owner's view; the theorems of section 5. Next, in this order:

* two daemons that serve when the owner does not wait (`supervisor.ts:164`), as a run of its own;
* scans of retries that overlap (`retry.ts:401`), which `RetriesDistinct` leaves to a single caller;
* the renewal of a project's time by the github sync (`signal-sync.ts:399`), which another job measures.

### Not modelled

* *Data.* Prompt texts and what a model answers (a free choice), parsing and
  rendering, tables (catalog, roles, templates, translations), network clients (a call
  answers or fails), the score and the SQL of the memory index, the prose of drafts, reports and plans. The renderer's views show the slices
  Dashboard keeps; how they look is left out.
* *What Pipelines leaves out.* The revenue pass files its requests every time it runs, without
  looking for open ones, and can turn `proposal_sent` back into `proposal_draft`
  (`revenue/pipeline.ts:214`); a pass that is under way when a deal is closed opens it again, which `PassesSettle`
  excuses (`fresh`). A growth draft exists before its request does.
* *A second process beside `withFileLock`.* Read-modify-write of one document from two processes
  can lose a change anywhere; the modules say of each file whose turn it is in one process.
* *A job that hangs* holds the scheduler's in-flight flag for ever (`daemon/scheduler.ts:193`).
* *ROOT.md.* What consolidation writes was gathered outside the lock
  (`memory/consolidation.ts:294`): an older text may replace a newer one until the next time.
* *What `LedgerAndRunAgree` excludes* (`undercut`, `last`): `recordDecision()` writes the run back as it read it,
  without the lock (`memory/decisions.ts:249`), and can undo a status that was written meanwhile; a transition of
  the engine, or the reconciliation of a listed run (`runs/engine.ts:499`), erases the link of a decision recorded while
  it held its copy. Nothing is claimed of a link, or a status, written while somebody else held one; what is written while nobody does
  is never lost, and in no case does a run name a decision its logs lack. A decision kept to a memory scope whose
  client or project has no log leaves a run with a link to a decision that is written nowhere (`memory/decisions.ts:103`); no caller but
  the tests uses a scope.
* *What MemoryIndex leaves out.* The files are listed in one step; the limits of a search and the categories of `browse()` only drop
  hits; a file that cannot be read is indexed empty (`sqlite-index.ts:314`) here only because it was removed.
* *Outcomes of dispatched runs.* `writeRunOutcomeMemory()` is called by the engine alone. A run the stub completes
  and project dispatch or the coordinator then blocks by `patch()` stays "completed" in
  RUNS.md and DECISIONS.md and leaves nothing in RISKS.md, though `run-outcomes.ts:12` speaks of every
  terminal run.
* *The index path.* `memory/global.ts:114` uses the default path of the index while the
  browser and the command line use the configured one, contrary to `index-path.ts:8`.
* *What `SearchTellsTheTruth` excludes*: a rewrite within a millisecond that keeps the size, and two
  builders with one temporary name.
* *The desktop.* An older fan-out may show a decided approval again until the next one. A dialog
  dismissed while it submits closes, or shows its error in, the dialog that is open when
  the answer comes (`ApprovalsView.tsx:143`). The sheet has no guard against a second tap: the server answers
  409. `api()` gives up after 30 s what the server goes on to do. The build card stops polling at the first terminal
  status, which may be the stub's "completed" or a previous run's. The login dialog waits 30 s for a
  login that may take five minutes. The audit stream falls back to polling and never
  reconnects. On macOS closing the last window stops the api server and `activate` does not start it again.
  A change of the settings reaches the configuration of the server's process only.
* *Intake and build.* See section 4, *Conversation*; the build a turn starts is one more ProjectDispatch.
* *The http api and the command line* call the services; what can go wrong in them is in the service's module.

## 7. Running it

```
tlasany PolicyGate.tla
tlc -workers 2 -config MCPolicyGate.cfg MCPolicyGate
tlc -workers 2 -config MCAutonomousRetry.cfg MCAutonomousRetry
tlapm PolicyGateProofs.tla
```

Each passing run takes at most a few minutes and between 10^4 and 1.5 * 10^6 states. Operators
under a comment "Seeded fault" are wrong on purpose: each is a plausible bug that, put in
the place of the definition after it, makes TLC report the property `PROJECT.json` names
under "mutants". They take no part in the specifications.
