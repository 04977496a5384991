# A TLA+ verification project for cst

`cst` is a task ledger shared by several agents. Its only state is one
append-only file, `.cst/events.jsonl`; every command takes a file lock, replays
the file through a checked reducer, decides, and appends. Commands that run
shell checks (`run`, `run --acceptance`, `done`) release the lock while the
shell works and come back later with a guard captured before. This directory
models that system, model-checks it with TLC and proves part of it with TLAPS.

## Inventory

Paths are relative to `src/internal/cst/` unless they start with `src/`.

| Component | State | Operations | Interacts with | What makes it correct |
| --- | --- | --- | --- | --- |
| Event store (`store.go`) | log file, lock file, temporary file | lock, replay, append a batch by write + rename + directory sync | every transaction | a batch is in the log entirely or not at all, whatever crashes; two processes never append over each other; what a command reports agrees with the log |
| Transaction (`tx.go` `WithStore`) | snapshot, pending events | repair leases, run the body, append | store, reducer, worker store guard | lease repair stays when the body refuses; a body's events go in together |
| Checked reducer (`reducer.go`) | nodes, claims, attempts, runs, evidence, holds, markers | `Apply`, one case per event type | store (replay), transactions | what a command appended can always be replayed |
| Claim protocol (`tx.go`, `handlers.go`) | claim (actor, lease, attempt) per task, attempts | take, release, hold, renew, abandon, cancel | runner (renewal goroutine), completion | one open attempt per task; a live claim is never taken away; a late command never acts on a claim that replaced its own |
| Completion (`handlers.go`, `reducer.go`, `acceptance_run_set.go`) | runs, evidence, acceptance, the guard held by a process | probe, run acceptance, done, cite evidence | claim protocol, runner, context drift, obligations | a task completes on evidence of its own attempt that proves the acceptance in force; facts of executed commands are not lost |
| Node tree (`tx.go`, `reducer.go`, `query.go`) | goals, tasks, rules, parents, prerequisites, status, archive markers | add, revise (move), promote rule, cancel, archive, unarchive | claims, obligations, boundaries | one tree, no cycles, nothing open under what is closed or archived |
| Obligations (`obligation_coverage.go`) | names required and promised | coverage of a subtree | completion, goal status, archive | what was covered when closed stays covered |
| Boundary partition (`boundary_partition.go`, `envelope.go`) | owned paths per node | disjointness of siblings, containment in the parent, after every event | tree, prerequisites | active siblings that may run together own disjoint paths |
| Acceptance context (`context_drift.go`, `exec_identity.go`, `acceptance_run_set.go`) | digest of the checkout per run | capture after each check, compare within a run set and at completion | completion, git, everybody who edits the checkout | a completion cites runs of the checkout it completes, or says that it does not |
| Worker frontier (`worker_frontier.go`) | none (a view); the action a process executes | list admissible actions, run one of them | all queries, the claim protocol | what is offered is accepted, and executed on what it was bound to |
| Next (`next.go`) | none (a view) | one action or repair for an actor | all queries, the agent that follows it | it never ends while work is left, nor hides work that could go on |
| Worker store guard (`worker_store_guard.go`) | binding file in the git directory | bind, detect, refuse | transactions | a worker mutates the ledger it was bound to |
| Configuration (`config.go`) | lease time, renewal interval, timeouts | load, validate | claim protocol, runner | renewal comes before expiry |
| Runner (`runner.go`) | child process, artifacts | run with timeout, renew meanwhile | completion | every command ends; the lease is kept alive |
| Evidence payloads, views, UI, command line | none | validation, rendering, dispatch | all | not state |

What is hard here, and hard to test: the gap between the transactions of one
command, in which others act (and other processes of the same actor name act as
if they were the owner); leases that expire, are repaired by whoever comes next,
and are renewed by a goroutine; facts recorded after their claim is gone; a
process killed half way; a tree that is moved about after something in it was
closed, archived or waited for; a checkout that others edit while it is being
tested; views that are acted upon after the ledger has moved on. `PROJECT.json` lists these hazards at their
lines with the properties aimed at them, and those still without one.

## Modules

| Module | Models |
| --- | --- |
| `ClaimProtocol` | take, release, hold, revise acceptance, cancel, evidence, run, done, with claims, attempts, runs, evidence and the concurrent processes |
| `TaskContract` | what a task promises, without processes and evidence; `ClaimProtocol` implements it (`KeepsContract`) |
| `MCClaimProtocol` | small instances of `ClaimProtocol`; the runs `claim_race`, `claim_tree`, `claim_live`, `claim_misfiled` and `claim_lost` |
| `ClaimProtocolProofs` | safety of `ClaimProtocol`, and that it implements `TaskContract`, proved |
| `EventStore` | one transaction over the shared file: lock, replay, repair, append by write, sync, rename and directory sync, with failing calls, killed processes and power failures |
| `AtomicLog` | what the store promises: a log that grows by whole batches; `EventStore` implements it (`KeepsLog`) |
| `EventStoreProofs` | safety of `EventStore` and its refinement, proved |
| `NodeTree` | goals, tasks, rules: creation, moves, prerequisites, obligations, owned paths, closing, archiving |
| `NodeTreeProofs` | the tree, prerequisites and closed subtrees of `NodeTree`, proved |
| `NodeWorkProofs` | coverage, archiving and the boundary partition of `NodeTree`, proved |
| `WorkerFrontier` | `ClaimProtocol` with processes that use `worker-status` and `worker-run` |
| `MCWorkerFrontier` | its small instance, run `claim_evidence` |
| `WorkerFrontierProofs` | its properties, and those of completion with workers, proved |
| `NextView` | what `cst next` says of a ledger of `NodeTree` |
| `NextViewProofs` | its properties, proved |
| `AgentLoop` | an agent that executes what `NextView` says, and whether it ends |
| `AgentLoopProofs` | that it is never stuck and always advances, proved; it implements `NodeTree` |
| `AcceptanceContext` | the checkout, what git tells of it in a directory, the checks of one task and what a completion asks of both |
| `MCContext` | its small instance, run `context` |
| `AcceptanceContextProofs` | its properties, proved |

### ClaimProtocol

A transaction holds the lock from replay to append, so it is one action. A
command with several transactions leaves a record in `session[s]` between them:

| Code | Model |
| --- | --- |
| `Node.Claim` (actor, lease id, attempt id) | `claim[t]`; lease and attempt ids are minted together in `claim_taken` and stay together, so one value stands for both |
| `LeaseExpiresAt < now` | `t \in expired`; the clock is `Expire`, a renewal removes `t` |
| `State.Attempts` | `attempt`, with the event that ended each |
| `ScriptRuns`, `Evidence`, completion fields | `runs`, `evidence`, `completion` |
| acceptance (verify checks, or review) | `acceptance[t]`, a set of checks, empty for review |
| `CompletionGuard` held by a process | `session[s].attempt`, `.acc` |
| `WithStore` with `RepairLease` | primed state built from `RepairedClaims`; `RepairAndRefuse` when the body fails |
| `WithStore` without it (add, first step of `done`, `recordScriptRunsOnly`) | primed state built from `claim` as it is |
| `done`, `run --acceptance` | `BeginDone` / `BeginRunAcceptance`, `FinishShell`, then `CommitDone` / `CommitRunSet`, or `RefuseCommit` and `RecordScriptRunsOnly`, or `RejectCommit` |
| `done --from-acceptance`, `done` on a review | `BeginCitingDone`, `CiteAndComplete` or `RefuseCitation` |
| `run -- cmd` | `BeginProbe`, `FinishShell`, `RecordScriptRunsOnly` |
| changed paths against the boundary of the task and against `boundary` evidence (`reducer.go:852-857`) | `WithinBoundary`; each run notes in `strays` the limits that the paths changed at its end do not keep to |
| renewal goroutine | `Renew` |
| a killed process | `Kill` |

`Run.under` and `Evidence.by` are history fields: under which attempt a command
executed, and whether cst or a user wrote a run set. No guard reads them.

Abstractions. The tree is fixed by constants (tasks are added to it in any
order); goals are the absence of a parent. Obligations of a task may or may not
be covered (`Obliged`). Paths are left out: that a run of a task in `Bounded`
changed a path outside of a limit, or that git told nothing of its checkout, is
chosen freely when it ends, per check and per limit. A drifted checkout is a
refusal that may happen at any time; `AcceptanceContext` says when. Evidence
kinds are those completion tells apart: two that may complete a review, of which
one also limits changed paths (`boundary`) and one stands for all others
(`note`); one that may only accompany it (`commit`); and the run set.
`context_drift` evidence, attempts without id and completions from older
versions are left out, and so are user run sets that name runs that do not
exist: the reducer refuses them when cited, as it refuses the others.

### NodeTree

| Code | Model |
| --- | --- |
| `Node.Kind`, `ParentID`, `Children` | `kind`, `parent`; children are the nodes with that parent |
| `Node.After` | `after` |
| `Completed` / `Canceled` | `status`; a goal has none of its own (`NodeStatus`), it is `Completed` with its subtree |
| `Boundary.SuccessObligations`, `ObligationClaims` | `required`, `promised` |
| `ArchivedAt` | `archived`; `IsArchived` looks upwards |
| `Boundary.Owned` | `owned`, a set of paths; a path is the set of the files at or below it, so containment of paths is inclusion |
| `validateBoundaryPartition` at the end of `Apply` | the conjunct `BoundaryPartition'` of `Next`: an event that breaks it is refused |
| claims | the set `claimed`; every repairing command keeps those in `live` and abandons the others |

Walks along parents and prerequisites are least fixed points over sets of
nodes (`IsAncestor`, `HasPrereqPath`), so no definition is recursive and all of
them can be proved about. `Revise` is the whole handler: move, prerequisites
and declarations in one event, with the transaction's check in the old tree and
the reducer's in the new one. The partition is asked of active siblings only
(`Participates`) and lets an ordered pair overlap, so that it takes the readiness
of tasks besides to keep two workers apart (`ClaimedSiblingsApart`). The
boundary of a goal is asked of its children only as long as both are active.

### NextView and AgentLoop

`NextView` adds no state: it has one operator for each answer of `BuildNextView`
(`OffersTake`, `OffersWork`, `RepairsTask`, `RepairsRoot`, `AsksForWork`, `NoOp`,
`Blocked`), for an actor who holds the claims `mine`. Claims carry no time in
`NodeTree`, so the earliest claim of an actor is any of them. The worktree is
clean: with uncommitted changes that no claim covers, `next` asks to reconcile
them before anything else.

`AgentLoop` has somebody plan with `add`, `hold` and `cancel` and hand the plan
over to one agent, who runs `next` and executes its answer until it is `no-op`,
`blocked` or a request for input, as the skill and README of the program
prescribe. `Prove` stands for acceptance runs that pass in the end, or for the
evidence a review asks for. `RepairTask` replaces the claims of the task by one
obligation, as `revise --obligation-claim` does.

### WorkerFrontier

| Code | Model |
| --- | --- |
| `BoundAction` | `Bound`: kind, task, attempt and cited evidence; store, actor and envelope do not change here |
| the revision in the action id | offer and acceptance are one step (`Select`): any append in between changes every id |
| `DoWorkerRun`, first transaction | `Select`, which needs that no lease is to be repaired, since the repair is an append; otherwise `RepairAndRefuse` |
| the dispatch on the kind | `Execute`: the ordinary `take`, `run --acceptance` or `done`, on whatever the ledger holds by then |
| `DoDone` with an evidence id | `Finish`; `chosen[s]` keeps what the action cited |
| a refusal of what was selected | `Fail` |

Everything else is an action of `ClaimProtocol`, so that worker commands and
plain commands of the same actor meet.

### AcceptanceContext

| Code | Model |
| --- | --- |
| commits, HEAD, branch, index, work tree | `commits`, `head`, `branch`, `index`, `tree`; contents are small numbers and one of them is absence |
| other people, editors, git | `Environment`: edit, stage, commit, switch to a commit or only to a branch, append to the ledger |
| `resolveExecCWD`, `PARALLEL_WORKTREE` | `at`, a `Place`: the directory a command runs in, and a label |
| what a name means in a directory | `Resolve[dir][name]`; at the root every name is itself, elsewhere it may be another file or none |
| `git diff -- paths`, relative to the directory | `Staged`, `Unstaged` of `Meant(F, dir)` |
| `git status`, relative to the root | `Status`, `ShortStatus`, with renames and directories that hold only untracked files |
| `untrackedManifestHashForPaths` | `Manifest`: the names of the untracked files below the directory, each read from the root |
| `gitIdentityDigest`, `scopedDigest`, `outOfScopeDigest`, `execContextDigest` | `Whole`, `Scoped`, `OutOfScope`, `ContextAt`: what is hashed, in place of the hash |
| `runScript` | `RunCheck`: the context after the command, before its output is written |
| `buildAcceptanceRunSetData` | `Mixed`: all checks of a run set have one context |
| `acceptanceContextDecision` | `Drifted` and `Discloses` |
| surface, owned paths, exec_cwd | `envelope`, chosen at the start: it cannot be revised while the task is claimed |
| a ledger inside the checkout that git does not ignore | `envelope.ledger`: untracked or tracked, each append changes what git sees, but for an untracked ledger asked from a subdirectory without owned paths |

A shot is what a check leaves behind: the checkout it saw, where it ran and how
long the ledger was (`saw`, `place`, `time`). The code keeps the digests only,
which are a function of the shot (`ContextOf`); guards read `ContextOf`, and
properties compare `saw` with the checkout at the end, never digests with
digests. They say how much a completion may have missed: at the root of the
checkout nothing (`Visible` is every file), in a subdirectory the contents of
untracked files, wherever they are.

### EventStore

The other modules take a transaction as one action. This one shows why they
may: it has the steps of a transaction and leaves out what the events say.

| Code | Model |
| --- | --- |
| `flock` on `events.lock` | `lock`; a process that dies drops it (`Kill`) |
| `events.jsonl` as processes read it | `file`, a sequence of batches |
| `events.jsonl` as a power failure leaves it | a member of `disk`: every content renamed into place since the directory was last synced, and the one before |
| a temporary file renamed before its data is on disk | a content that is not `whole` |
| `ReplayAt`, `Apply` | `Replay`, which fixes `view[p]` |
| `AppendAt` for the lease repair, then for the body | `Write(p, "repair")`, `Write(p, "body")` |
| `Sync`, `Rename`, `syncDir` in `writeFileAtomically` | the actions of those names, each with its failure |
| the end of `WithStore` | `Finish`, or `FailToBind` when the worker binding cannot be written |

`Batch.saw` is a history field: the ids of the batches whose replay accepted
this one. `AppendAt` reads the file again and never looks at what was replayed,
so that `saw` is the whole prefix before the batch (`Serialized`) is a property
of the lock. A transaction that only reads, is refused by its body or cannot
read the log ends without events (`EndWithoutEvents`). The temporary file of a
killed process stays behind under a random name that nothing opens. A rename is
atomic for readers; nothing else is assumed of the file system. The store
directory itself is taken to exist durably.

## Runs

| Run | Instance | What it shows |
| --- | --- | --- |
| `claim_race` | 1 task, 3 processes of 2 actors, 2 attempts, 1 check, 1 fact, 1 record | all commands race for one task: leases, guards, terminal states and the contract hold, lapsed leases are revived only by commands of their own attempt, and facts stay with the actor that executed them |
| `claim_evidence` | 1 task with a boundary, 2 processes of one actor with and without `worker-run`, 2 attempts, 1 fact, 1 free record | completion only on evidence of the completing attempt, within the boundary; the frontier agrees with the reducer but for the boundary; worker actions complete what they were bound to |
| `claim_tree` | a task, its child and a task waiting for it, 2 actors | closed tasks stay settled |
| `claim_live` | 1 task, 2 actors, 2 attempts, 2 facts, nobody killed | no command hangs, orphaned claims are given up, executed runs are recorded |
| `claim_misfiled` (violation) | 1 task, 2 processes of one actor | a run executed under one attempt is filed under the one that replaced it |
| `claim_lost` (violation) | as `claim_live`, with one fact and an obligation | runs are lost when the reducer rejects the completion |
| `node_tree` | 4 nodes, no paths | tree, prerequisites, closing and archiving |
| `node_cover` | 3 nodes, 1 obligation, 1 path | what was covered stays covered, what was archived stays complete, claimed siblings own no common path; `next` ends only when all is done and is blocked only for a cause |
| `agent_loop` | plans of 3 nodes with 1 obligation, 1 node more for repairs, no paths | the agent is never left with a command that is refused, each of its steps adds to the plan's progress, and the loop ends |
| `context` | 2 files and the root and a subdirectory, 3 contents, 2 branches, 2 labels, 6 envelopes, 2 checks, 2 commits, 2 changes by others | completions against the checkout their checks saw, from either directory |
| `node_ancestor` (violation) | 3 nodes | a task may be created waiting for the goal it is part of |
| `event_store` | 3 processes, 5 batches | serial transactions, no torn log, acknowledged batches survive, refinement of `AtomicLog` |

Bounds. Two attempts of one task are what a stale guard needs: the one it holds
and the one that replaced it. Two processes of one actor and one of another
cover both kinds of race, since ownership is by actor name. `MaxRuns` bounds the
facts in the log and about to be, `MaxEvidence` the records written outside
`done`; with two facts a run of each attempt coexists and two actors run scripts at
once (`claim_live`), and where there is one fact, a user-composed run set stands for
the other (`claim_race`, `claim_evidence`). Four nodes allow a move
between two branches below the root, a cycle of two or three prerequisites, and
an open task two levels below a closed one; three nodes are a root and two
siblings, which is what the partition, coverage and the causes of a block are
about, and four nodes without obligations gave the same answers for `next`. A plan
of three nodes reaches every answer of `next` and every repair; the run has no
paths, as the partition never refuses the agent anything
(`PartitionNeverStopsTheAgent`, a theorem for any paths). In `context`, a file at
the root and one in a subdirectory that has the same name there are what names
relative to one directory and read from another can confuse; three contents are
absence, what was committed and something else; two changes let others change and
restore a file, stage and commit it, or touch two files, between two checks or
between a check and the completion, and a history of two commits lets them switch
between them. The six envelopes have every surface, directory and kind of ledger,
with owned files and without. Branches and labels are compared for equality only,
so the run takes them as symmetric. `MaxRunSet` keeps a command from being started
after a recorded run set, not from citing it. In `EventStore` the lock
serialises the processes, so two would do; five batches leave room for a
repair and a body of one command, a power failure that takes them back, and the
same again by others (`MaxBatch` counts the batches lost too). With every bound, the commands that
would exceed it are not started; nothing is cut in the middle of one. Deadlock
is not checked: every task may end closed and every id be used.

Fairness (`FairSpec`, run `claim_live`). `WF` of `Continue(s)`: a process that is
not killed finishes its command, because the runner kills a check at its timeout
and transactions do not block forever. `WF` of `Expire(t)`: time passes; nothing
is assumed of renewals, which may go on as long as a command does. `WF` of
`RepairAndRefuse`: somebody keeps using commands that repair leases, without
which the code reclaims nothing. `OrphansReclaimed` assumes besides that the
processes of the owner end.

`AgentSpec` (run `agent_loop`) has `WF` of `AgentStep`: the agent goes on as long
as `next` returns something. There is nothing to assume of the plan, which may
never be handed over, nor of the tests, whose passing is `Prove`. `AgentAdvances` and
`AgentFinishes` exclude plans with a task whose missing obligations the repair cannot supply
(`Repairable`, see below).

## Findings

1. `claim_misfiled`: a run is filed under the attempt its actor owns when the run
   is recorded (`tx.go:939`), not the one it ran under, against README.md:91-94.
2. `claim_lost`: runs of `done` are dropped when the reducer rejects the completion,
   against the comment at `handlers.go:928`.
3. `node_ancestor`: the check "cannot depend on ancestor" (`reducer.go:1087`) cannot
   fire when a task is created, and a move does not repeat it.

Met while modelling, and not runs of their own:

- The renewal goroutine (`tx.go:994`) renews for actors that are not explicit, and
  after expiry, against README.md:626-627 (`Renew` does the same).
- An error of `syncDir` after the rename (`store.go:325`), or of the worker binding
  after the append (`tx.go:92`), is reported for a transaction that is committed,
  against the comments at `tx.go:10` and `tx.go:35` (`FailToSyncDir`, `FailToBind`).
- A `take` or `run_acceptance` that `worker-run` selected may execute under an
  attempt that replaced the one it was bound to; README.md:357-360 says that stale
  actions are refused. Completions are bound (`BoundCompletion`).
- With two missing obligations on one task, `next` prints one `revise
  --obligation-claim` per obligation (`next.go:352`), each of which replaces what
  the one before claimed (`tx.go:421`, `reducer.go:262`); the same repair comes back
  as long as the loop runs. A ready task with a completed child is not a static leaf
  (`obligation_coverage.go:50`), so that no claim of its own is ever counted. Both
  are what `Repairable` excludes.
- With uncommitted changes, `next` asks to add a task under the root that owns the
  path (`next.go:394`), which the boundary partition may refuse.
- The reducer refuses a completion also for the paths its runs changed
  (`reducer.go:852-857`), by the same plain errors as in finding 2, so that the runs
  are dropped there too (`RejectCommit`).
- In a subdirectory, `git ls-files --others` names the untracked files below it
  relative to it (`exec_identity.go:138`), and the names are read from the root of
  the checkout (`exec_identity.go:155`): what is hashed is another file, or none.
  Owned pathspecs are relative to the directory too (`exec_identity.go:92-95`), while
  the status they are joined with is relative to the root (`exec_identity.go:83`).
  A later edit of an untracked file, and in scope of an owned file that was already
  modified, then neither refuses a completion nor is disclosed. README.md:342-343 has
  `--scope` paths relative to the execution checkout, and README.md:349-353 describes
  drift without this exception; `Visible` and `Meant` in the properties state it.
- The branch name is in the digest (`exec_identity.go:67`, `exec_identity.go:263`): a
  switch to a new branch at the same HEAD makes a run set `mixed`, refuses a private
  completion and is disclosed as drift of a shared one, with no file changed.
- The scoped digest has no HEAD in it (`exec_identity.go:281`), so that a commit of
  the owned files to another HEAD with the same differences is no drift in scope:
  `ScopedSameUnderHead` says what is left, and `SharedDriftDisclosed` that the
  change is at least on record.
- A ledger that git sees inside the checkout makes every acceptance of several
  noisy checks `mixed` and every private completion drifted (`RefusalsHaveCause`).

## Proofs

`ClaimProtocolProofs` proves, for every value of the constants that satisfies
`ConstantsTyped`, the invariants and action properties of `claim_race`,
`claim_tree`, and `CompletionJustified`. The inductive invariant `IInv` adds to them:

- a busy process is busy on a task, and one about to commit has passed every
  check of its guard (`BusyOnTask`, `CommitPassed`);
- the runs a record of cst names are in the log (`CitedRunsRecorded`).

`ClaimAttemptAgreement` is what makes the rest inductive: a guard that compares
the attempt id is as good as one that compares the whole claim, because an
attempt has one task and one owner for ever. `ClosedTasksSettled` holds by the
guards of both ends: a child is only added under an open parent, a parent only
closed without open children. Repairing leases and ending a claim appear in
most actions, so their effect on `ClaimAttemptAgreement` is stated once
(`RepairAgrees`, `EndClaimAgrees`, `TakeAgrees`). `RunsAreRecorded` proves
`ExecutedRunsRecorded` when no task has obligations or a boundary and no process
is killed: then a commit whose guard holds is never rejected by the reducer,
because the run set it built proves the acceptance. The run `claim_lost` shows that
the first of these conditions is needed; a run that strays from a boundary is
refused in the same place. `RunsAreRecordedUnlessRefused` says the same of one
task, whatever the others have. `LeasesAreRevivedByHolders` (`LeasesRevivedByHolder`)
is about the one append that no reducer checks, the renewal: its own comparison of
the attempt is what keeps a command from reviving the lease that replaced its own.

`ContractKept` is `Spec => KeepsContract`: every step is a step
of `TaskContract` or leaves its variables alone. A renewal is `Revive`, every
refusing command is `Sweep` or nothing.

Three theorems say more of what happens between the transactions of one command:

- `FactsAreOfTheirActor` (`FactsStayWithActor`) is how far a fact can be misfiled.
  `claim_misfiled` shows that a run may end up under another attempt than the one it
  ran under; it is an attempt of the same actor on the same task, because the
  attempt is looked up by actor (`OwnAttempt`) and an attempt never changes hands.
- `GuardedCommitsAreAccepted` compares the handler with the reducer. The handler
  decides by the guard it captured, the reducer by its own rules, in other code; as
  long as the guard holds, the reducer accepts the run set that the handler built,
  unless a check strayed from the boundary the task declares or, which the theorem
  leaves aside, an obligation is missing.
  It needs the invariant `ChecksToRun`: a command that runs checks has some to run.
  Without obligations and boundaries nothing is left to refuse, which gives
  `RunsAreRecorded`.
- `CommandsGoForward` is the safety half of `CommandsReturn`: a command that is
  executing has, after each step of its own, fewer steps left (`StepsLeft`) or none,
  and no step of others gives it more. What is left to TLC is that it does go on.

`NodeTreeProofs` proves, for every `MaxNode` and `Obligation`, `TypeOK`, `OneTree`,
`PrereqsAcyclic` and `ClosedSubtreesSettled`. The invariant `TreeInv` adds that
ids are handed out without gaps (`Dense`), prerequisites exist (`PrereqsExist`)
and, in place of `ClosedSubtreesSettled`, its local form: no child of a closed
task is open (`ChildrenSettled`). That the local form, which is what the code
checks, gives the global one is the lemma `NotBelowClosed`.

`EventStoreProofs` proves, for any processes and any `MaxBatch`, all properties of
`event_store`, its refinement included. The invariant `StoreInv` adds to them:

- whatever a power failure leaves is a beginning of the file, and one of the
  contents it may leave is the shortest (`DiskBegins`);
- ids are not used twice (`IdsUsed`);
- how far a process is says what its view, its temporary file and the disk hold
  (`Coherent`): its view is the file from replay to rename, and after the
  directory sync the disk holds exactly that file.

With `TypeOK`, by which only the holder of the lock is in a transaction, the
steps of one process leave `Coherent` of the others alone (`OthersIdle`). The
refinement maps `kept` to the length of the shortest content a power failure may
leave; `Rename` is `AppendBatch`, `SyncDir` is `Keep`, `Finish` is `Answer` and a
power failure is `Lose`.

`NodeWorkProofs` proves the rest of `NodeTree`: `CompletionsStayCovered`,
`ArchivedStaysComplete`, `ArchivedIsFrozen` and `ClaimedSiblingsApart`, for any
nodes, obligations and paths. The argument has one lemma for all steps
(`StepSound`): no command gives a closed or archived node another place or other
declarations, or a parent that is closed or archived. So the subtree of such a
node keeps its goals and tasks (`ClosedTaskWorkers`, `ArchivedSubtree`), and with
them what it declares, promises and misses. `WorkInv` adds that claimed tasks
waited for what is completed (`WorkFollows`); a chain of prerequisites from a
claimed task then meets no other claimed one, which with the partition is
`ClaimedSiblingsApart`. `PartitionNeverStopsWork` answers the opposite question:
`Apply` validates the partition after every event, so a command could be refused
for it that has nothing to do with paths. It is not: a step that adds no
participant, moves nothing and drops no prerequisite keeps the partition
(`FewerParticipants`), and only planning does any of these.

`NextViewProofs` proves `NoOpIsFinal` and `BlockedHasCause`. Every node is below
the root (`AllBelowRoot`), so a complete root means a complete tree. If nothing is
claimed, held or failed, the open tasks themselves are the circle: each waits for
one of them (`NotReadyWaits`), prerequisites are acyclic, and a finite tree has a
lowest node in every set (`LowestNode`, by counting: parents cannot map a proper
part of a finite set onto the set).

`AgentLoopProofs` proves everything about the agent loop that needs no fairness,
for plans of any size. The invariant `AgentInv` adds to that of `next` that the agent
works on one task at a time, which was ready and misses no obligation when it was
taken, and that nothing is archived. From it: the agent only uses commands of
`NodeTree` (`AgentUsesCommands`), so that all theorems above hold of it; `next` never
gives it a command that is refused (`AgentIsNeverStuck`), not even by the partition
(`PartitionNeverStopsTheAgent`); and each of its steps adds one of the `Facts`, takes
none back and keeps the plan `Repairable` (`AgentAdvances`). The hard case is a
repair: it must add a node that covers or claims something for the first time,
although it replaces what the task claimed before. `Repairable` and the lemma
`LeafMissesItsOwn` say why: a leaf misses only what it requires itself, so that one
claim settles it. Facts are about nodes (`FactsAreAboutNodes`), hence finitely many:
the agent takes at most five steps for each node.

`WorkerFrontierProofs` uses that every step of `WorkerFrontier` is a step of
`ClaimProtocol` or leaves its variables alone, as its actions are written (the lemma
`WorkersAreClaimants`), so that the invariant of the claim protocol holds with
workers. The invariant `WellBound` says that what an action cites is of the task and
the attempt the action is bound to; the reducer takes evidence of the completing
attempt only, which is `BoundCompletion`. `FrontierMatchesReducer` compares two
definitions, one of the frontier and one of the reducer, in every state of the
invariant: what the reducer would accept is offered, and what is offered it would
accept, but for a run that strays from the declared boundary. Obligations are left
out of both sides. `WorkerCompletionsJustified` carries `CompletionJustified` and
`RunSetsWitnessed` over from the claim protocol.

`AcceptanceContextProofs` proves all properties of `context` for any files,
directories, meanings of names, contents, envelopes, number of checks and bounds.
The core is how much a context tells of the checkout it was taken from. Differences
from a known commit determine the index (`DiffDetermines`), and with it the work
tree of tracked files; the manifest determines the untracked files at the root, where
names mean themselves (`ManifestTells`), and none below it. So equal contexts mean
one HEAD, branch and index and the same `Visible` files (`WholeTells`, `ContextTells`),
and equal scopes under one HEAD the same files of those the owned names mean
(`ScopeTells`). The opposite direction gives the causes of refusals: an unchanged
checkout, seen from the same place, has the same context (`SameContext`), and
unchanged owned files have the same scope (`ScopeKept`). For the latter a file counts
as changed also when git pairs it with another as renamed, and an owned name stands
for two files: what it means in the directory and what it means at the root.

Assumptions on constants are named in the modules that declare them, and TLC
evaluates them in the runs. Every invariant, action property and refinement that a
passing run checks is also a theorem. Only model-checked are the liveness properties
`CommandsReturn` and `OrphansReclaimed` (`claim_live`) and `AgentFinishes`
(`agent_loop`): they need fairness and `ENABLED`, of which the provers know
nothing. Of the first and the last the theorems have the measure that goes down
(`CommandsGoForward`, `AgentAlwaysAdvances`) and that some command is accepted
(`AgentIsNeverStuck`), and TLC the rest, on small instances.

## Plan

Done: the claim protocol with its contract, the node tree with the boundary
partition, the store with its refinement, the acceptance context, the worker
frontier and `next`, each with its proofs. Candidates for more, in this order:

1. `next` on a worktree with uncommitted changes, where reconciling may be refused.
2. The changed paths of a run (`changedPathsForAcceptanceRunSet`) from the checkout of
   `AcceptanceContext`, in place of the free choice of `strays`.
3. Lease timing with a clock (`renew_every < lease_ttl`).
4. Sizes of events in `EventStore`.

## Not modelled

Rendering, UI, flag parsing, evidence payload shapes: no state. Claims and
recovery views: projections of what `ClaimProtocol` has. The worker store binding:
lookups of the file system and of git before a command, on state that nothing here
changes; only the failure to write it is modelled. Sizes of events: replay refuses
a line of more than 16 MiB (`store.go:355`), which nothing prevents from being
appended. Waiting across the tree (a goal that contains a task waiting for another
goal that contains a task waiting for the first) is accepted by the code; it is
one of the causes in `BlockedHasCause`. Of git: ignored and unmerged files, renames
with other contents, directories without git or in another checkout, and captures
torn between two git commands.
