------------------------- MODULE AcceptanceContext -------------------------
(***************************************************************************)
(* The execution context of an acceptance: what `run --acceptance` and     *)
(* `done` remember of the checkout their checks ran in, and what they ask  *)
(* of it when the task is completed (exec_identity.go, context_drift.go,   *)
(* acceptance_run_set.go, worker_frontier.go).                             *)
(*                                                                         *)
(* One worker has a claim on one task, whose envelope cannot be revised    *)
(* while it is claimed, and the evidence of an earlier attempt is refused  *)
(* (ClaimProtocol).  Everybody else may edit, stage, commit and switch in  *)
(* the checkout at any time, and append to the ledger, which git may or    *)
(* may not see inside the checkout.  A digest stands for what is hashed.   *)
(*                                                                         *)
(* Commands run in a directory of the checkout.  git answers some of the   *)
(* questions asked there for the whole checkout and some for what is below *)
(* the directory, with names relative to it, and these names are then read *)
(* from the root.                                                          *)
(***************************************************************************)
EXTENDS Naturals, Sequences, FiniteSets

CONSTANTS
    File,        \* files of the checkout, by their names from its root
    Version,     \* contents of a file
    Absent,      \* no such file, one of the versions
    NoFile,      \* not one of the files
    Dir,         \* directories of the checkout that commands run in
    Root,        \* its root
    NoDir,       \* no directory given
    Resolve,     \* the file that a name means in a directory
    Branch,      \* names of branches
    Label,       \* values of PARALLEL_WORKTREE
    Envelopes,   \* the envelopes a task may have
    Histories,   \* the commits there may be at first
    Checks,      \* number of checks of the task
    MaxCommit,   \* bound: no commit is made beyond this many
    MaxStore,    \* bound: the ledger grows up to this many appends
    MaxRunSet,   \* bound: no check is run again after this many run sets
    MaxTouch     \* bound: others change something this many times

Content == [File -> Version]

\* Surface, owned files and exec_cwd of the task, and whether git ignores the
\* ledger and its artifacts, lists them as untracked, or tracks them.
Envelope == [surface : {"shared", "private"}, owned : SUBSET File,
             cwd : Dir \cup {NoDir},
             ledger : {"ignored", "untracked", "tracked"}]

\* A name means itself at the root; a private surface needs an exec_cwd
\* (normalizeExecutionEnvelope).
ASSUME ContextTyped ==
    /\ Absent \in Version /\ NoFile \notin File
    /\ Root \in Dir /\ NoDir \notin Dir
    /\ Resolve \in [Dir -> [File -> File \cup {NoFile}]]
    /\ \A f \in File : Resolve[Root][f] = f
    /\ Envelopes \subseteq {e \in Envelope :
                               e.surface = "private" => e.cwd # NoDir}
    /\ Histories \subseteq Seq(Content) \ {<<>>}
    /\ Checks \in Nat \ {0}
    /\ MaxCommit \in Nat \ {0}
    /\ MaxStore \in Nat /\ MaxRunSet \in Nat /\ MaxTouch \in Nat

VARIABLES
    envelope,    \* the envelope of the task
    commits,     \* the contents of every commit
    head,        \* the commit checked out
    branch,      \* the branch checked out
    index,       \* staged contents
    tree,        \* contents of the working tree
    store,       \* appends to the ledger and its artifacts so far
    touches,     \* changes that others made so far
    command,     \* the command the worker executes
    at,          \* where: its directory and PARALLEL_WORKTREE
    shots,       \* its checks so far: what each left behind, where and when
    passed,      \* whether all of them passed
    runSets,     \* acceptance run sets recorded under the attempt
    outcome      \* how a command ended, if the last step ended one

checkout == <<commits, head, branch, index, tree>>
worker == <<command, at, shots, passed>>
vars == <<envelope, checkout, store, touches, worker, runSets, outcome>>

Place == [dir : Dir, label : Label]
NoPlace == [dir |-> NoDir]

Private == envelope.surface = "private"
Ignored == envelope.ledger = "ignored"

-----------------------------------------------------------------------------
(* What git says of a checkout c *)

\* The checkout as it is.
Now == [head |-> head, branch |-> branch, base |-> commits[head],
        index |-> index, tree |-> tree]

Tracked(c) == {f \in File : c.index[f] # Absent}
Untracked(c) == {f \in File : c.index[f] = Absent /\ c.tree[f] # Absent}

\* The files that the names F mean in directory d: a pathspec.
Meant(F, d) == {Resolve[d][f] : f \in F} \cap File

\* git diff from a to b, restricted to the files F.
Diff(a, b, F) == {<<f, a[f], b[f]>> : f \in {g \in F : a[g] # b[g]}}

Staged(c, F) == Diff(c.base, c.index, F)
Unstaged(c, F) == Diff(c.index, c.tree, F \cap Tracked(c))

\* git status pairs a deleted file with an added one of the same contents.
Moved(c, f, g) == /\ c.base[f] # Absent /\ c.index[f] = Absent
                  /\ c.base[g] = Absent /\ c.index[g] = c.base[f]
Renamed(c) == {f \in File : \E g \in File : Moved(c, f, g) \/ Moved(c, g, f)}

Code(a, b) == CASE a = b -> "same"
                [] a # b /\ a = Absent -> "added"
                [] a # b /\ b = Absent -> "deleted"
                [] OTHER -> "modified"

\* The codes that git status gives the files F, but for the hidden ones among
\* the untracked files.
Status(c, F, hidden) ==
    {<<f, Code(c.base[f], c.index[f]), f \in Renamed(c),
       IF f \in hidden THEN "same" ELSE Code(c.index[f], c.tree[f])>> : f \in F}

\* git status --short lists a directory with only untracked files as one.
OnlyUntracked(c) ==
    {d \in Dir \ {Root} : /\ Meant(File, d) \cap Untracked(c) # {}
                          /\ Meant(File, d) \cap Tracked(c) = {}}
ShortStatus(c) ==
    <<Status(c, File, Untracked(c) \cap UNION {Meant(File, d) :
                                                  d \in OnlyUntracked(c)}),
      OnlyUntracked(c)>>

\* untrackedManifestHashForPaths: git lists the untracked files below d by
\* their names there, and the files of these names are read from the root.
Manifest(c, d, F) ==
    {<<f, c.tree[f]>> : f \in {g \in F : /\ Resolve[d][g] \in Untracked(c)
                                         /\ c.tree[g] # Absent}}

-----------------------------------------------------------------------------
(* Identities *)

\* An untracked ledger is hashed from the root; with owned files, the names of
\* its artifacts are listed from everywhere.
SeesLedger(d) ==
    \/ envelope.ledger = "tracked"
    \/ envelope.ledger = "untracked" /\ (d = Root \/ envelope.owned # {})

\* gitIdentityDigest, after n appends to the ledger.
Whole(c, d, n) ==
    [head |-> c.head, branch |-> c.branch, status |-> ShortStatus(c),
     staged |-> Staged(c, File), unstaged |-> Unstaged(c, File),
     untracked |-> Manifest(c, d, File),
     store |-> IF SeesLedger(d) THEN n ELSE 0]

\* Mutant: staged changes are forgotten.
ScopedUnstaged(c, d) ==
    LET F == envelope.owned IN
    [status |-> Status(c, F, {}),
     staged |-> {}, unstaged |-> Unstaged(c, Meant(F, d)),
     untracked |-> Manifest(c, d, F)]

\* scopedDigest, in which there is no HEAD.  Of the owned paths, the codes are
\* those of the names from the root, and the diffs those of the names in d.
Scoped(c, d) ==
    LET F == envelope.owned IN
    [status |-> Status(c, F, {}),
     staged |-> Staged(c, Meant(F, d)), unstaged |-> Unstaged(c, Meant(F, d)),
     untracked |-> Manifest(c, d, F)]

\* outOfScopeDigest, next to the one of the whole.
OutOfScope(c) ==
    IF envelope.owned = {} THEN {} ELSE Status(c, File \ envelope.owned, {})

\* CaptureExecIdentity of the checkout c, at a place.
ContextAt(c, place, n) ==
    [dir |-> place.dir, label |-> place.label, whole |-> Whole(c, place.dir, n),
     scoped |-> Scoped(c, place.dir), outside |-> OutOfScope(c)]

Context(place) == ContextAt(Now, place, store)

\* The context that was recorded with a check.
ContextOf(shot) == ContextAt(shot.saw, shot.place, shot.time)

\* Mutant: the contexts of one run set are compared in scope only.
MixedInScope(ss) ==
    \E i \in DOMAIN ss : ContextOf(ss[i]).scoped # ContextOf(ss[1]).scoped

\* buildAcceptanceRunSetData: all checks of a run set have one context.
Mixed(ss) == \E i \in DOMAIN ss : ContextOf(ss[i]) # ContextOf(ss[1])

\* Mutant: a private checkout is compared in scope only.
DriftedInScope(ss, now) ==
    LET then == ContextOf(ss[1]) IN
    now.dir # then.dir \/ now.scoped # then.scoped

\* Mutant: a shared checkout is compared as a whole.
DriftedAtAll(ss, now) == now # ContextOf(ss[1])

\* acceptanceContextDecision: the completion is rejected,
Drifted(ss, now) ==
    LET then == ContextOf(ss[1]) IN
    \/ now.dir # then.dir
    \/ IF Private THEN now # then ELSE now.scoped # then.scoped

\* Mutant: HEAD is not looked at.
DisclosesChanges(ss, now) ==
    LET then == ContextOf(ss[1]) IN
    /\ ~Private
    /\ \/ [now.whole EXCEPT !.head = 0] # [then.whole EXCEPT !.head = 0]
       \/ now.outside # then.outside

\* or accepted with context_drift evidence.
Discloses(ss, now) ==
    LET then == ContextOf(ss[1]) IN
    ~Private /\ (now.whole # then.whole \/ now.outside # then.outside)

-----------------------------------------------------------------------------
NoOutcome == [result |-> "none"]

Init ==
    /\ envelope \in Envelopes
    /\ commits \in Histories
    /\ head \in DOMAIN commits /\ branch \in Branch
    /\ index = commits[head] /\ tree = commits[head]
    /\ store = 0 /\ touches = 0
    /\ command = "none" /\ at = NoPlace /\ shots = <<>> /\ passed = TRUE
    /\ runSets = {}
    /\ outcome = NoOutcome

-----------------------------------------------------------------------------
(* Everybody else *)

\* An append nobody can see in the checkout is not followed.
AppendOnce ==
    IF Ignored
    THEN UNCHANGED store
    ELSE store < MaxStore /\ store' = store + 1

Edit(f, v) ==
    /\ v # tree[f]
    /\ tree' = [tree EXCEPT ![f] = v]
    /\ UNCHANGED <<commits, head, branch, index, store>>

Stage(f) ==
    /\ index[f] # tree[f]
    /\ index' = [index EXCEPT ![f] = tree[f]]
    /\ UNCHANGED <<commits, head, branch, tree, store>>

Commit ==
    /\ index # commits[head]
    /\ Len(commits) < MaxCommit
    /\ commits' = Append(commits, index)
    /\ head' = Len(commits')
    /\ UNCHANGED <<branch, index, tree, store>>

\* git switch or reset, to another branch where HEAD is, or to another commit
\* with nothing of one's own in the way.
Switch(c, b) ==
    /\ <<c, b>> # <<head, branch>>
    /\ c # head => index = commits[head] /\ tree = index
    /\ head' = c /\ branch' = b
    /\ index' = IF c = head THEN index ELSE commits[c]
    /\ tree' = IF c = head THEN tree ELSE commits[c]
    /\ UNCHANGED <<commits, store>>

\* Another worker's command, or the renewal of this one's claim.
AppendElsewhere ==
    /\ ~Ignored
    /\ AppendOnce
    /\ UNCHANGED checkout

Environment ==
    /\ command # "over"
    /\ touches < MaxTouch
    /\ touches' = touches + 1
    /\ outcome' = NoOutcome
    /\ UNCHANGED <<envelope, worker, runSets>>
    /\ \/ \E f \in File : Stage(f) \/ \E v \in Version : Edit(f, v)
       \/ Commit
       \/ \E c \in DOMAIN commits, b \in Branch : Switch(c, b)
       \/ AppendElsewhere

-----------------------------------------------------------------------------
(* The worker *)

\* The first transaction of `run --acceptance` and of `done`.  --exec-cwd comes
\* before the exec_cwd of the envelope, and that before where cst was started.
Begin(cmd, place) ==
    /\ command = "none"
    /\ Cardinality(runSets) < MaxRunSet
    /\ command' = cmd /\ at' = place
    /\ outcome' = NoOutcome
    /\ UNCHANGED <<envelope, checkout, store, touches, shots, passed, runSets>>

\* Mutant: checks are repeated until they pass.
RunCheckAgain(ok, noisy) ==
    /\ command \in {"run", "done"}
    /\ Len(shots) < Checks \/ ~passed
    /\ shots' = Append(shots, [saw |-> Now, place |-> at, time |-> store])
    /\ passed' = (passed /\ ok)
    /\ IF noisy THEN AppendOnce ELSE UNCHANGED store
    /\ outcome' = NoOutcome
    /\ UNCHANGED <<envelope, checkout, touches, command, at, runSets>>

\* runScript: the context is captured when the command has ended and before its
\* output, if it has any, is written to an artifact.  A failed check does not
\* keep the others from running.
RunCheck(ok, noisy) ==
    /\ command \in {"run", "done"}
    /\ Len(shots) < Checks
    /\ shots' = Append(shots, [saw |-> Now, place |-> at, time |-> store])
    /\ passed' = (passed /\ ok)
    /\ IF noisy THEN AppendOnce ELSE UNCHANGED store
    /\ outcome' = NoOutcome
    /\ UNCHANGED <<envelope, checkout, touches, command, at, runSets>>

Return(result, ss, place, drift) ==
    /\ outcome' = [result |-> result, shots |-> ss, now |-> Now, at |-> place,
                   drift |-> drift]
    /\ command' = IF result = "completed" THEN "over" ELSE "none"
    /\ at' = NoPlace /\ shots' = <<>> /\ passed' = TRUE
    /\ UNCHANGED <<envelope, checkout, touches>>

\* recordScriptRunsOnly, after a failed check or a refused run set.
RecordScriptRunsOnly ==
    /\ command \in {"run", "done"} /\ Len(shots) = Checks
    /\ \/ ~passed /\ Return("failed", shots, at, FALSE)
       \/ passed /\ Mixed(shots) /\ Return("mixed", shots, at, FALSE)
    /\ AppendOnce
    /\ UNCHANGED runSets

Ready(cmd) == command = cmd /\ Len(shots) = Checks /\ passed /\ ~Mixed(shots)

\* The last transaction of `run --acceptance`.
RecordRunSet ==
    /\ Ready("run")
    /\ runSets' = runSets \cup {shots}
    /\ Return("recorded", shots, at, FALSE)
    /\ AppendOnce

\* The last transaction of `done`: the run set and the completion together,
\* after the checkout was looked at once more.  When it is refused, only the
\* runs are recorded.
Complete ==
    /\ Ready("done")
    /\ \/ /\ Drifted(shots, Context(at))
          /\ Return("drifted", shots, at, FALSE)
       \/ /\ ~Drifted(shots, Context(at))
          /\ Return("completed", shots, at, Discloses(shots, Context(at)))
    /\ AppendOnce
    /\ UNCHANGED runSets

\* `done --from-acceptance`, and complete_from_acceptance of `worker run`: in
\* the exec_cwd of the envelope, or else where cst was started.
CompleteFromAcceptance(ss, place) ==
    /\ command = "none"
    /\ envelope.cwd \in {NoDir, place.dir}
    /\ \/ /\ Drifted(ss, Context(place))
          /\ Return("drifted", ss, place, FALSE)
          /\ UNCHANGED store
       \/ /\ ~Drifted(ss, Context(place))
          /\ Return("completed", ss, place, Discloses(ss, Context(place)))
          /\ AppendOnce
    /\ UNCHANGED runSets

Next ==
    \/ Environment
    \/ \E cmd \in {"run", "done"}, place \in Place : Begin(cmd, place)
    \/ \E ok, noisy \in BOOLEAN : RunCheck(ok, noisy)
    \/ RecordScriptRunsOnly
    \/ RecordRunSet
    \/ Complete
    \/ \E ss \in runSets, place \in Place : CompleteFromAcceptance(ss, place)

Spec == Init /\ [][Next]_vars

-----------------------------------------------------------------------------
(* Properties *)

Snapshot == [head : Nat, branch : Branch, base : Content, index : Content,
             tree : Content]

\* A shot shows the checkout at some time of the ledger, from some place.
IsShot(shot) ==
    /\ shot = [saw |-> shot.saw, place |-> shot.place, time |-> shot.time]
    /\ shot.saw \in Snapshot
    /\ shot.saw.head \in DOMAIN commits
    /\ shot.saw.base = commits[shot.saw.head]
    /\ shot.place \in Place /\ shot.time \in 0 .. store

AreShots(ss, n) ==
    DOMAIN ss = 1 .. n /\ \A i \in 1 .. n : IsShot(ss[i])

TypeOK ==
    /\ envelope \in Envelopes
    /\ commits \in Seq(Content) /\ head \in DOMAIN commits
    /\ branch \in Branch
    /\ index \in Content /\ tree \in Content
    /\ store \in Nat /\ touches \in Nat
    /\ command \in {"none", "run", "done", "over"} /\ passed \in BOOLEAN
    /\ at \in IF command \in {"run", "done"} THEN Place ELSE {NoPlace}
    /\ \E n \in 0 .. Checks : AreShots(shots, n)
    /\ \A ss \in runSets : AreShots(ss, Checks)
    /\ outcome # NoOutcome =>
          /\ outcome.result \in {"failed", "mixed", "recorded", "drifted",
                                "completed"}
          /\ AreShots(outcome.shots, Checks)
          /\ outcome.now \in Snapshot /\ outcome.at \in Place
          /\ outcome.drift \in BOOLEAN

Ended(result) == outcome.result = result

\* The files whose contents the digests of a check in directory d tell: at the
\* root all, below it only the tracked ones.
Visible(c, d) == IF d = Root THEN File ELSE Tracked(c)

\* The checkouts a and b are the same, as far as it shows in directory d.
Same(a, b, d) ==
    /\ a.head = b.head /\ a.branch = b.branch /\ a.index = b.index
    /\ \A f \in Visible(a, d) : a.tree[f] = b.tree[f]

\* The checkout at the end of the command is the one every check left behind,
\* and the command looks at it from the same directory.
Unchanged ==
    \A i \in DOMAIN outcome.shots :
        LET shot == outcome.shots[i] IN
        /\ shot.place.dir = outcome.at.dir
        /\ Same(shot.saw, outcome.now, outcome.at.dir)

\* A file is as it was, staged and not.
SameFile(a, b, f) == a.index[f] = b.index[f] /\ a.tree[f] = b.tree[f]

\* A task on a private checkout completes only if the whole checkout is as
\* every one of its checks left it, however often others touched it in between:
\* HEAD, branch, index and files.  When the commands run below the root of the
\* checkout it is so of the tracked files only: the contents of untracked ones
\* are in no digest (exec_identity.go:138-155).
PrivateUnchanged == Ended("completed") /\ Private => Unchanged

\* A task on a shared checkout completes on a changed checkout only with
\* context_drift evidence, where below the root untracked files count for
\* nothing; and with that evidence only if something changed: HEAD, the branch,
\* the index or a file.
SharedDriftDisclosed ==
    Ended("completed") /\ ~Private =>
        /\ ~outcome.drift => Unchanged
        /\ outcome.drift /\ Ignored =>
              \E i \in DOMAIN outcome.shots : outcome.shots[i].saw # outcome.now

\* As long as HEAD stays, a task on a shared checkout completes only if the
\* files it owns are as its checks left them, in the index and in the tree.
\* Below the root these are the files the owned names mean there, and of those
\* only the tracked ones.
ScopedSameUnderHead ==
    Ended("completed") /\ ~Private =>
        \A i \in DOMAIN outcome.shots :
            LET saw == outcome.shots[i].saw
                d == outcome.at.dir IN
            saw.head = outcome.now.head =>
                \A f \in Meant(envelope.owned, d) :
                    /\ saw.index[f] = outcome.now.index[f]
                    /\ f \in Visible(saw, d) =>
                          saw.tree[f] = outcome.now.tree[f]

\* What a run set says its checks passed in is one state of the checkout, as
\* far as it shows in their directory, although others may touch it between two
\* checks.
RunSetsOfOneCheckout ==
    \A ss \in runSets : \A i, j \in DOMAIN ss :
        /\ ss[i].place.dir = ss[j].place.dir
        /\ Same(ss[i].saw, ss[j].saw, ss[i].place.dir)

\* Under the same HEAD the owned files are as they were, and so is whether git
\* pairs one of them as renamed.  Below the root an owned name stands for two
\* files: what it means there, and what it means at the root.
OwnedUnchanged(saw, now, d) ==
    LET F == envelope.owned IN
    /\ saw.head = now.head
    /\ \A f \in F \cup Meant(F, d) : SameFile(saw, now, f)
    /\ Renamed(saw) \cap F = Renamed(now) \cap F

\* A command is refused for its context only if there is a cause: a checkout
\* that changed between two checks; another directory than that of the checks;
\* on a private checkout any change to it or another PARALLEL_WORKTREE; on a
\* shared one a change to what the task owns or to HEAD.  A ledger that git sees
\* in the checkout is a cause of its own: the checks' artifacts are in it.
RefusalsHaveCause ==
    /\ Ended("mixed") /\ Ignored =>
          \E i, j \in DOMAIN outcome.shots :
             outcome.shots[i].saw # outcome.shots[j].saw
    /\ Ended("drifted") =>
          \E i \in DOMAIN outcome.shots :
             LET shot == outcome.shots[i] IN
             \/ shot.place.dir # outcome.at.dir
             \/ Private /\ \/ ~Ignored
                           \/ shot.place.label # outcome.at.label
                           \/ shot.saw # outcome.now
             \/ ~Private /\ ~OwnedUnchanged(shot.saw, outcome.now,
                                            outcome.at.dir)
=============================================================================
