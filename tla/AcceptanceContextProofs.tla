---------------------- MODULE AcceptanceContextProofs ----------------------
(***************************************************************************)
(* Proofs about the execution context of acceptances, for any files,       *)
(* directories, contents, branches, checks and number of commits.          *)
(*                                                                         *)
(* The argument: HEAD and the diffs of the files F determine what of F is  *)
(* tracked (DiffsTell), because a commit never changes, and at the root    *)
(* the manifest determines the rest of F (ManifestTells); so from one      *)
(* directory equal digests stand for checkouts that are the same as far as *)
(* it shows there (WholeTells, ScopeTells), and equal checkouts have equal *)
(* digests (ScopeKept, SameContext).  What remains is that every context   *)
(* anybody compares is the one of a checkout that existed at some time     *)
(* (Shot), and that the checks of one command ran at one place.            *)
(***************************************************************************)
EXTENDS AcceptanceContext, TLAPS

\* What a check can have left behind so far.
Shot == [saw : {c \in Snapshot : /\ c.head \in DOMAIN commits
                                 /\ c.base = commits[c.head]},
         place : Place, time : 0 .. store]

AllShots(ss) == /\ ss \in Seq(Shot) /\ Len(ss) = Checks
                /\ \A i \in DOMAIN ss : ss[i].place = ss[1].place

CheckoutTyped ==
    /\ envelope \in Envelopes
    /\ commits \in Seq(Content) /\ head \in DOMAIN commits
    /\ branch \in Branch
    /\ index \in Content /\ tree \in Content
    /\ store \in Nat /\ touches \in Nat

ShotsTyped ==
    /\ command \in {"none", "run", "done", "over"} /\ passed \in BOOLEAN
    /\ at \in IF command \in {"run", "done"} THEN Place ELSE {NoPlace}
    /\ shots \in Seq(Shot) /\ Len(shots) <= Checks
    /\ \A i \in DOMAIN shots : shots[i].place = at
    /\ \A ss \in runSets : AllShots(ss) /\ ~Mixed(ss)

OutcomeTyped ==
    outcome # NoOutcome =>
        /\ outcome.result \in {"failed", "mixed", "recorded", "drifted",
                               "completed"}
        /\ AllShots(outcome.shots)
        /\ outcome.now \in Snapshot /\ outcome.at \in Place
        /\ outcome.drift \in BOOLEAN

Verdicts == /\ PrivateUnchanged /\ SharedDriftDisclosed
            /\ ScopedSameUnderHead /\ RefusalsHaveCause

ContextInv == CheckoutTyped /\ ShotsTyped /\ OutcomeTyped /\ Verdicts

-----------------------------------------------------------------------------
(* What the digests tell *)

LEMMA DiffDetermines ==
    ASSUME NEW a, NEW b, NEW c, NEW F, Diff(a, b, F) = Diff(a, c, F)
    PROVE  \A f \in F : b[f] = c[f]
<1> SUFFICES ASSUME NEW f \in F, b[f] # c[f] PROVE FALSE
  OBVIOUS
<1>1. ASSUME NEW x, NEW y, a[f] # x[f], y[f] # x[f],
             Diff(a, x, F) \subseteq Diff(a, y, F)
      PROVE  FALSE
  <2>1. <<f, a[f], x[f]>> \in Diff(a, y, F)
    BY <1>1 DEF Diff
  <2>2. PICK g \in F : <<f, a[f], x[f]>> = <<g, a[g], y[g]>>
    BY <2>1 DEF Diff
  <2> QED  BY <1>1, <2>2
<1> QED  BY <1>1

\* With the same HEAD, the diffs of F determine what is tracked of F.
LEMMA DiffsTell ==
    ASSUME NEW a, NEW b, a.base = b.base, NEW F \in SUBSET File,
           Staged(a, F) = Staged(b, F), Unstaged(a, F) = Unstaged(b, F)
    PROVE  /\ \A f \in F : a.index[f] = b.index[f]
           /\ \A f \in F \cap Tracked(a) : a.tree[f] = b.tree[f]
<1>1. \A f \in F : a.index[f] = b.index[f]
  BY DiffDetermines DEF Staged
<1>2. F \cap Tracked(a) = F \cap Tracked(b)
  BY <1>1 DEF Tracked
<1>3. Diff(a.index, b.tree, F \cap Tracked(a))
         = Diff(b.index, b.tree, F \cap Tracked(a))
  BY <1>1 DEF Diff
<1>4. Diff(a.index, a.tree, F \cap Tracked(a))
         = Diff(a.index, b.tree, F \cap Tracked(a))
  BY <1>2, <1>3 DEF Unstaged
<1>5. \A f \in F \cap Tracked(a) : a.tree[f] = b.tree[f]
  BY <1>4, DiffDetermines
<1> QED  BY <1>1, <1>5

\* At the root, the manifest determines what is not tracked.
LEMMA ManifestTells ==
    ASSUME NEW a, NEW b, NEW F \in SUBSET File,
           \A f \in F : a.index[f] = b.index[f],
           Manifest(a, Root, F) = Manifest(b, Root, F)
    PROVE  \A f \in F \ Tracked(a) : a.tree[f] = b.tree[f]
<1>1. ASSUME NEW c, NEW d, NEW f \in F, c.index[f] = Absent,
             c.tree[f] # Absent, Manifest(c, Root, F) \subseteq Manifest(d, Root, F)
      PROVE  c.tree[f] = d.tree[f]
  <2>1. Resolve[Root][f] \in Untracked(c)
    BY <1>1, ContextTyped DEF Untracked
  <2>2. <<f, c.tree[f]>> \in Manifest(c, Root, F)
    BY <1>1, <2>1 DEF Manifest
  <2>3. PICK g \in F : <<f, c.tree[f]>> = <<g, d.tree[g]>>
    BY <1>1, <2>2 DEF Manifest
  <2> QED  BY <2>3
<1>2. ASSUME NEW f \in F \ Tracked(a), a.tree[f] # b.tree[f] PROVE FALSE
  <2>1. a.index[f] = Absent /\ b.index[f] = Absent
    BY <1>2 DEF Tracked
  <2> QED  BY <1>1, <1>2, <2>1
<1> QED  BY <1>2

\* Equal digests of the whole, in one directory, stand for checkouts that are
\* the same as far as it shows there.
LEMMA WholeTells ==
    ASSUME NEW a \in Snapshot, NEW b \in Snapshot, NEW d, NEW m, NEW n,
           a.head = b.head => a.base = b.base,
           Whole(a, d, m) = Whole(b, d, n)
    PROVE  Same(a, b, d)
<1>1. /\ a.head = b.head /\ a.branch = b.branch /\ a.base = b.base
      /\ Staged(a, File) = Staged(b, File)
      /\ Unstaged(a, File) = Unstaged(b, File)
      /\ Manifest(a, d, File) = Manifest(b, d, File)
  BY DEF Whole
<1>2. /\ \A f \in File : a.index[f] = b.index[f]
      /\ \A f \in File \cap Tracked(a) : a.tree[f] = b.tree[f]
  BY <1>1, DiffsTell
<1>3. a.index = b.index
  BY <1>2 DEF Snapshot, Content
<1>4. d = Root => \A f \in File \ Tracked(a) : a.tree[f] = b.tree[f]
  BY <1>1, <1>2, ManifestTells
<1> QED  BY <1>1, <1>2, <1>3, <1>4 DEF Same, Visible, Tracked

\* Likewise the digest of the scope, for what the owned names mean there.
LEMMA ScopeTells ==
    ASSUME NEW a, NEW b, NEW d, a.base = b.base,
           envelope.owned \in SUBSET File, Scoped(a, d) = Scoped(b, d)
    PROVE  \A f \in Meant(envelope.owned, d) :
              /\ a.index[f] = b.index[f]
              /\ f \in Visible(a, d) => a.tree[f] = b.tree[f]
<1> DEFINE F == envelope.owned
           G == Meant(F, d)
<1>1. /\ Staged(a, G) = Staged(b, G) /\ Unstaged(a, G) = Unstaged(b, G)
      /\ Manifest(a, d, F) = Manifest(b, d, F)
  BY DEF Scoped
<1>2. G \in SUBSET File
  BY DEF Meant
<1> HIDE DEF G
<1>3. /\ \A f \in G : a.index[f] = b.index[f]
      /\ \A f \in G \cap Tracked(a) : a.tree[f] = b.tree[f]
  BY <1>1, <1>2, DiffsTell
<1>4. CASE d = Root
  <2>1. G = F
    BY <1>4, ContextTyped DEF Meant, G
  <2>2. \A f \in F \ Tracked(a) : a.tree[f] = b.tree[f]
    BY <1>1, <1>3, <1>4, <2>1, ManifestTells
  <2> QED  BY <1>3, <2>1, <2>2 DEF G
<1>5. CASE d # Root
  BY <1>3, <1>5 DEF Visible, G
<1> QED  BY <1>4, <1>5

\* And conversely.
LEMMA ScopeKept ==
    ASSUME NEW a, NEW b, NEW d \in Dir, a.base = b.base, a.head = b.head,
           envelope.owned \in SUBSET File, OwnedUnchanged(a, b, d)
    PROVE  Scoped(a, d) = Scoped(b, d)
<1> DEFINE F == envelope.owned
           G == Meant(F, d)
<1>1. /\ \A f \in F \cup G : a.index[f] = b.index[f] /\ a.tree[f] = b.tree[f]
      /\ Renamed(a) \cap F = Renamed(b) \cap F
  BY DEF OwnedUnchanged, SameFile
<1>2. Status(a, F, {}) = Status(b, F, {})
  <2>1. \A f \in F : (f \in Renamed(a)) = (f \in Renamed(b))
    BY <1>1
  <2> HIDE DEF F
  <2> QED  BY <1>1, <2>1 DEF Status
<1>3. G \in SUBSET File /\ \A g \in F : Resolve[d][g] \in File => Resolve[d][g] \in G
  BY DEF Meant
<1> HIDE DEF G
<1>4. G \cap Tracked(a) = G \cap Tracked(b)
  BY <1>1 DEF Tracked
<1>5. Staged(a, G) = Staged(b, G) /\ Unstaged(a, G) = Unstaged(b, G)
  BY <1>1, <1>4 DEF Staged, Unstaged, Diff
<1>6. Manifest(a, d, F) = Manifest(b, d, F)
  <2>1. \A g \in F : Resolve[d][g] \in Untracked(a) <=> Resolve[d][g] \in Untracked(b)
    BY <1>1, <1>3 DEF Untracked
  <2> QED  BY <1>1, <2>1 DEF Manifest
<1> QED  BY <1>2, <1>5, <1>6 DEF Scoped, G

\* Of one checkout, from one place, there is one context, but for a ledger that
\* git sees.
LEMMA SameContext ==
    ASSUME NEW x, NEW y, x.saw = y.saw, x.place = y.place, Ignored
    PROVE  ContextOf(x) = ContextOf(y)
BY DEF ContextOf, ContextAt, Whole, SeesLedger, Ignored

\* Equal contexts are of the same place and the same checkout, as far as it
\* shows there.
LEMMA ContextTells ==
    ASSUME NEW x \in Shot, NEW y \in Shot,
           x.place.dir = y.place.dir,
           ContextOf(x).whole = ContextOf(y).whole
    PROVE  Same(x.saw, y.saw, x.place.dir)
<1>1. /\ x.saw \in Snapshot /\ y.saw \in Snapshot
      /\ x.saw.head = y.saw.head => x.saw.base = y.saw.base
  BY DEF Shot
<1>2. Whole(x.saw, x.place.dir, x.time) = Whole(y.saw, x.place.dir, y.time)
  BY DEF ContextOf, ContextAt
<1> QED  BY <1>1, <1>2, WholeTells

-----------------------------------------------------------------------------
(* What was seen stays seen *)

OwnedTyped == envelope.owned \in SUBSET File

LEMMA EnvelopeTyped == CheckoutTyped => OwnedTyped
  BY ContextTyped DEF CheckoutTyped, Envelope, OwnedTyped

NowAt(place) == [saw |-> Now, place |-> place, time |-> store]

LEMMA NowIsShot ==
    ASSUME CheckoutTyped, NEW place \in Place
    PROVE  /\ Now \in Snapshot /\ NowAt(place) \in Shot
           /\ NowAt(place).saw = Now /\ NowAt(place).place = place
           /\ ContextOf(NowAt(place)) = Context(place)
<1>1. head \in Nat /\ commits[head] \in Content
  BY DEF CheckoutTyped
<1>2. Now \in Snapshot
  BY <1>1 DEF CheckoutTyped, Now, Snapshot
<1>3. store \in 0 .. store
  BY DEF CheckoutTyped
<1>4. Now.head \in DOMAIN commits /\ Now.base = commits[Now.head]
  BY DEF CheckoutTyped, Now
<1> QED  BY <1>2, <1>3, <1>4 DEF Context, ContextOf, NowAt, Shot

\* Time goes by: commits are added, none is changed, and the ledger grows.
Later ==
    /\ envelope' = envelope
    /\ commits' = commits \/ commits' = Append(commits, index)
    /\ store' \in Nat /\ store <= store'

LEMMA MixedStays ==
    ASSUME envelope' = envelope, NEW ss
    PROVE  Mixed(ss)' <=> Mixed(ss)
<1>1. \A c, d, n : Whole(c, d, n)' = Whole(c, d, n)
  BY DEF Whole, SeesLedger
<1>2. \A c, d : Scoped(c, d)' = Scoped(c, d)
  BY DEF Scoped
<1>3. \A c : OutOfScope(c)' = OutOfScope(c)
  BY DEF OutOfScope
<1>4. \A x : ContextOf(x)' = ContextOf(x)
  BY <1>1, <1>2, <1>3 DEF ContextOf, ContextAt
<1> QED  BY <1>4 DEF Mixed

LEMMA ShotsStay ==
    ASSUME CheckoutTyped, Later
    PROVE  /\ Shot \subseteq Shot'
           /\ \A ss \in Seq(Shot) : ss \in Seq(Shot')
           /\ \A ss : AllShots(ss) => AllShots(ss)'
<1>1. \A h \in DOMAIN commits : h \in DOMAIN commits' /\ commits'[h] = commits[h]
  BY DEF CheckoutTyped, Later
<1>2. 0 .. store \subseteq 0 .. store'
  BY DEF CheckoutTyped, Later
<1>3. Shot \subseteq Shot'
  BY <1>1, <1>2 DEF Shot
<1>4. \A ss \in Seq(Shot) : ss \in Seq(Shot')
  BY <1>3
<1> QED  BY <1>3, <1>4 DEF AllShots

-----------------------------------------------------------------------------
(* Verdicts *)

\* The checks of an unmixed list left one checkout behind.
LEMMA OneCheckout ==
    ASSUME NEW ss, AllShots(ss), ~Mixed(ss)
    PROVE  \A i, j \in DOMAIN ss : /\ ss[i].place.dir = ss[j].place.dir
                                   /\ Same(ss[i].saw, ss[j].saw, ss[i].place.dir)
<1> TAKE i, j \in DOMAIN ss
<1>1. ss[i] \in Shot /\ ss[j] \in Shot /\ ss[i].place = ss[j].place
  BY DEF AllShots
<1>2. ContextOf(ss[i]) = ContextOf(ss[j])
  BY DEF Mixed
<1> QED  BY <1>1, <1>2, ContextTells

LEMMA MixedHasCause ==
    ASSUME NEW ss, AllShots(ss), Mixed(ss), Ignored
    PROVE  \E i, j \in DOMAIN ss : ss[i].saw # ss[j].saw
<1>1. PICK i \in DOMAIN ss : ContextOf(ss[i]) # ContextOf(ss[1])
  BY DEF Mixed
<1>2. 1 \in DOMAIN ss /\ ss[i].place = ss[1].place
  BY ContextTyped DEF AllShots
<1> QED  BY <1>1, <1>2, SameContext

\* What is required of a completion on the checks ss.
UnchangedSince(ss, place) ==
    \A i \in DOMAIN ss : /\ ss[i].place.dir = place.dir
                         /\ Same(ss[i].saw, Now, place.dir)
ScopeSameSince(ss, place) ==
    \A i \in DOMAIN ss : ss[i].saw.head = head =>
        \A f \in Meant(envelope.owned, place.dir) :
            /\ ss[i].saw.index[f] = Now.index[f]
            /\ f \in Visible(ss[i].saw, place.dir) =>
                  ss[i].saw.tree[f] = Now.tree[f]

LEMMA CompletionVerdict ==
    ASSUME CheckoutTyped, NEW ss, AllShots(ss), ~Mixed(ss),
           NEW place \in Place, ~Drifted(ss, Context(place))
    PROVE  /\ Private \/ ~Discloses(ss, Context(place)) =>
                 UnchangedSince(ss, place)
           /\ Discloses(ss, Context(place)) /\ Ignored =>
                 \E i \in DOMAIN ss : ss[i].saw # Now
           /\ ~Private => ScopeSameSince(ss, place)
<1> DEFINE now == NowAt(place)
<1>1. now \in Shot /\ now.saw = Now /\ now.place = place
      /\ ContextOf(now) = Context(place)
  BY NowIsShot
<1> HIDE DEF now
<1>2. 1 \in DOMAIN ss /\ \A i \in DOMAIN ss : ss[i] \in Shot
  BY ContextTyped DEF AllShots
<1>3. \A i \in DOMAIN ss : ContextOf(ss[i]) = ContextOf(ss[1])
  BY DEF Mixed
<1>4. \A i \in DOMAIN ss : ss[i].place.dir = place.dir
  <2>1. ContextOf(ss[1]).dir = ss[1].place.dir
    BY DEF ContextOf, ContextAt
  <2>2. Context(place).dir = place.dir
    BY DEF Context, ContextAt
  <2> QED  BY <1>2, <2>1, <2>2 DEF Drifted, AllShots
<1>5. ASSUME Private \/ ~Discloses(ss, Context(place))
      PROVE  UnchangedSince(ss, place)
  <2>1. Context(place).whole = ContextOf(ss[1]).whole
    BY <1>5 DEF Drifted, Discloses
  <2>2. ASSUME NEW i \in DOMAIN ss PROVE Same(ss[i].saw, Now, place.dir)
    <3>1. ss[i] \in Shot /\ ss[i].place.dir = now.place.dir
      BY <1>1, <1>2, <1>4
    <3>2. ContextOf(ss[i]).whole = ContextOf(now).whole
      BY <1>1, <1>3, <2>1
    <3> QED  BY <1>1, <1>4, <3>1, <3>2, ContextTells
  <2> QED  BY <1>4, <2>2 DEF UnchangedSince
<1>6. ASSUME Discloses(ss, Context(place)), Ignored
      PROVE  ss[1].saw # Now
  <2>1. /\ Context(place).whole = Whole(Now, place.dir, store)
        /\ Context(place).outside = OutOfScope(Now)
        /\ ContextOf(ss[1]).whole = Whole(ss[1].saw, place.dir, ss[1].time)
        /\ ContextOf(ss[1]).outside = OutOfScope(ss[1].saw)
    BY <1>2, <1>4 DEF Context, ContextOf, ContextAt
  <2>2. \A m, n : Whole(Now, place.dir, m) = Whole(Now, place.dir, n)
    BY <1>6 DEF Whole, SeesLedger, Ignored
  <2> QED  BY <1>6, <2>1, <2>2 DEF Discloses
<1>7. ASSUME ~Private PROVE ScopeSameSince(ss, place)
  <2>1. ASSUME NEW i \in DOMAIN ss, ss[i].saw.head = head
        PROVE  \A f \in Meant(envelope.owned, place.dir) :
                  /\ ss[i].saw.index[f] = Now.index[f]
                  /\ f \in Visible(ss[i].saw, place.dir) =>
                        ss[i].saw.tree[f] = Now.tree[f]
    <3>1. Context(place).scoped = ContextOf(ss[i]).scoped
      BY <1>3, <1>7 DEF Drifted
    <3>2. Scoped(ss[i].saw, place.dir) = Scoped(Now, place.dir)
      BY <1>4, <3>1 DEF Context, ContextOf, ContextAt
    <3>3. ss[i].saw.base = commits[head] /\ Now.base = commits[head]
      BY <1>2, <2>1 DEF Shot, Now
    <3>4. envelope.owned \in SUBSET File
      BY EnvelopeTyped DEF OwnedTyped
    <3> QED  BY <3>2, <3>3, <3>4, ScopeTells
  <2> QED  BY <2>1 DEF ScopeSameSince
<1> QED  BY <1>2, <1>5, <1>6, <1>7

\* A refused completion has its cause.
LEMMA DriftHasCause ==
    ASSUME CheckoutTyped, NEW ss, AllShots(ss), NEW place \in Place,
           Drifted(ss, Context(place)),
           ss[1].place.dir = place.dir
    PROVE  /\ Private /\ Ignored /\ ss[1].place.label = place.label =>
                 ss[1].saw # Now
           /\ ~Private => ~OwnedUnchanged(ss[1].saw, Now, place.dir)
<1> DEFINE now == NowAt(place)
<1>1. now \in Shot /\ now.saw = Now /\ now.place = place
      /\ ContextOf(now) = Context(place)
  BY NowIsShot
<1> HIDE DEF now
<1>2. 1 \in DOMAIN ss /\ ss[1] \in Shot
  BY ContextTyped DEF AllShots
<1>3. Context(place).dir = ContextOf(ss[1]).dir
  BY DEF Context, ContextOf, ContextAt
<1>4. ASSUME Private, Ignored, ss[1].place.label = place.label
      PROVE  ss[1].saw # Now
  <2>1. ss[1].place = place
    BY <1>2, <1>4 DEF Shot, Place
  <2> QED  BY <1>1, <1>3, <1>4, <2>1, SameContext DEF Drifted
<1>5. ASSUME ~Private, OwnedUnchanged(ss[1].saw, Now, place.dir)
      PROVE  FALSE
  <2>1. ss[1].saw.head = Now.head /\ ss[1].saw.base = Now.base
    BY <1>2, <1>5 DEF OwnedUnchanged, Shot, Now
  <2>2. envelope.owned \in SUBSET File /\ place.dir \in Dir
    BY EnvelopeTyped DEF OwnedTyped, Place
  <2>3. Scoped(ss[1].saw, place.dir) = Scoped(Now, place.dir)
    BY <1>5, <2>1, <2>2, ScopeKept
  <2>4. Context(place).scoped = ContextOf(ss[1]).scoped
    BY <2>3 DEF Context, ContextOf, ContextAt
  <2> QED  BY <1>3, <1>5, <2>4 DEF Drifted
<1> QED  BY <1>4, <1>5

-----------------------------------------------------------------------------
(* The invariant *)

LEMMA ContextInit == Init => ContextInv
<1> SUFFICES ASSUME Init PROVE ContextInv
  OBVIOUS
<1>1. commits \in Seq(Content) /\ head \in DOMAIN commits
  BY ContextTyped DEF Init
<1>2. commits[head] \in Content
  BY <1>1
<1>3. CheckoutTyped
  BY <1>1, <1>2 DEF Init, CheckoutTyped
<1>4. ShotsTyped
  BY ContextTyped DEF Init, ShotsTyped
<1>5. OutcomeTyped /\ Verdicts
  BY DEF Init, OutcomeTyped, Verdicts, NoOutcome, PrivateUnchanged,
         SharedDriftDisclosed, ScopedSameUnderHead, RefusalsHaveCause, Ended
<1> QED  BY <1>3, <1>4, <1>5 DEF ContextInv

\* A step that ends no command says nothing of one.
LEMMA SilentStep ==
    ASSUME ContextInv, Later, CheckoutTyped',
           command' \in {"none", "run", "done", "over"}, passed' \in BOOLEAN,
           at' \in IF command' \in {"run", "done"} THEN Place ELSE {NoPlace},
           shots' \in Seq(Shot'), Len(shots') <= Checks,
           \A i \in DOMAIN shots' : shots'[i].place = at',
           runSets' = runSets, outcome' = NoOutcome
    PROVE  ContextInv'
<1>1. \A ss : AllShots(ss) => AllShots(ss)'
  BY ShotsStay DEF ContextInv
<1>2. \A ss : Mixed(ss)' <=> Mixed(ss)
  BY MixedStays DEF Later
<1>3. ShotsTyped'
  BY <1>1, <1>2 DEF ShotsTyped, ContextInv
<1>4. OutcomeTyped' /\ Verdicts'
  BY DEF OutcomeTyped, Verdicts, NoOutcome, PrivateUnchanged,
         SharedDriftDisclosed, ScopedSameUnderHead, RefusalsHaveCause, Ended
<1> QED  BY <1>3, <1>4 DEF ContextInv

LEMMA EnvironmentStep ==
    ASSUME ContextInv, Environment
    PROVE  ContextInv'
<1>1. CheckoutTyped /\ ShotsTyped
  BY DEF ContextInv
<1>2. /\ touches' \in Nat /\ outcome' = NoOutcome
      /\ UNCHANGED <<envelope, command, at, shots, passed, runSets>>
  BY <1>1 DEF Environment, CheckoutTyped, worker
<1>3. \A c \in DOMAIN commits : commits[c] \in Content
  BY <1>1 DEF CheckoutTyped
<1>4. ASSUME NEW f \in File, NEW v \in Version, Edit(f, v)
      PROVE  Later /\ CheckoutTyped'
  BY <1>1, <1>2, <1>4 DEF Edit, Later, CheckoutTyped, Content
<1>5. ASSUME NEW f \in File, Stage(f)
      PROVE  Later /\ CheckoutTyped'
  <2>1. tree[f] \in Version
    BY <1>1 DEF CheckoutTyped, Content
  <2> QED  BY <1>1, <1>2, <1>5, <2>1 DEF Stage, Later, CheckoutTyped, Content
<1>6. ASSUME Commit
      PROVE  Later /\ CheckoutTyped'
  <2>1. /\ commits' \in Seq(Content) /\ Len(commits') = Len(commits) + 1
        /\ head' \in DOMAIN commits'
    BY <1>1, <1>6 DEF Commit, CheckoutTyped
  <2> QED  BY <1>1, <1>2, <1>6, <2>1 DEF Commit, Later, CheckoutTyped
<1>7. ASSUME NEW c \in DOMAIN commits, NEW b \in Branch, Switch(c, b)
      PROVE  Later /\ CheckoutTyped'
  BY <1>1, <1>2, <1>3, <1>7 DEF Switch, Later, CheckoutTyped
<1>8. ASSUME AppendElsewhere
      PROVE  Later /\ CheckoutTyped'
  BY <1>1, <1>2, <1>8
  DEF AppendElsewhere, AppendOnce, checkout, Later, CheckoutTyped
<1>9. Later /\ CheckoutTyped'
  BY <1>4, <1>5, <1>6, <1>7, <1>8 DEF Environment
<1>10. /\ shots' \in Seq(Shot') /\ Len(shots') <= Checks
       /\ \A i \in DOMAIN shots' : shots'[i].place = at'
  BY <1>1, <1>2, <1>9, ShotsStay DEF ShotsTyped
<1> QED  BY <1>1, <1>2, <1>9, <1>10, SilentStep DEF ShotsTyped

LEMMA WorkStep ==
    ASSUME ContextInv,
           \/ \E cmd \in {"run", "done"}, place \in Place : Begin(cmd, place)
           \/ \E ok, noisy \in BOOLEAN : RunCheck(ok, noisy)
    PROVE  ContextInv'
<1>1. CheckoutTyped /\ ShotsTyped
  BY DEF ContextInv
<1>2. ASSUME NEW cmd \in {"run", "done"}, NEW place \in Place, Begin(cmd, place)
      PROVE  ContextInv'
  <2>1. Later /\ CheckoutTyped'
    BY <1>1, <1>2 DEF Begin, checkout, Later, CheckoutTyped
  <2>2. DOMAIN shots = {}
    <3>1. at = NoPlace
      BY <1>1, <1>2 DEF Begin, ShotsTyped
    <3>2. NoPlace \notin Place
      BY ContextTyped DEF NoPlace, Place
    <3>3. \A i \in DOMAIN shots : shots[i] \in Shot
      BY <1>1 DEF ShotsTyped
    <3>4. \A x \in Shot : x.place \in Place
      BY DEF Shot
    <3> QED  BY <1>1, <3>1, <3>2, <3>3, <3>4 DEF ShotsTyped
  <2>3. /\ shots' = shots /\ runSets' = runSets /\ outcome' = NoOutcome
        /\ command' = cmd /\ at' = place /\ passed' = passed
    BY <1>2 DEF Begin
  <2>4. shots' \in Seq(Shot') /\ Len(shots') <= Checks
    BY <1>1, <2>1, <2>3, ShotsStay DEF ShotsTyped
  <2>5. passed' \in BOOLEAN
    BY <1>1, <2>3 DEF ShotsTyped
  <2> QED  BY <2>1, <2>2, <2>3, <2>4, <2>5, SilentStep
<1>3. ASSUME NEW ok \in BOOLEAN, NEW noisy \in BOOLEAN, RunCheck(ok, noisy)
      PROVE  ContextInv'
  <2>1. Later /\ CheckoutTyped'
    BY <1>1, <1>3 DEF RunCheck, AppendOnce, checkout, Later, CheckoutTyped
  <2>2. at \in Place
    BY <1>1, <1>3 DEF RunCheck, ShotsTyped
  <2> DEFINE x == NowAt(at)
  <2>3. x \in Shot' /\ x.place = at
    BY <1>1, <2>1, <2>2, NowIsShot, ShotsStay
  <2>4. shots \in Seq(Shot')
    BY <1>1, <2>1, ShotsStay DEF ShotsTyped
  <2>5. shots' = Append(shots, x) /\ Len(shots) < Checks
    BY <1>3 DEF RunCheck, NowAt
  <2> HIDE DEF x
  <2>6. shots' \in Seq(Shot') /\ Len(shots') <= Checks
    BY <2>3, <2>4, <2>5, ContextTyped
  <2>7. /\ command' = command /\ runSets' = runSets /\ outcome' = NoOutcome
        /\ passed' = (passed /\ ok) /\ at' = at
    BY <1>3 DEF RunCheck
  <2>8. \A i \in DOMAIN shots' : shots'[i].place = at'
    BY <1>1, <2>3, <2>4, <2>5, <2>7 DEF ShotsTyped
  <2>9. /\ command' \in {"none", "run", "done", "over"} /\ passed' \in BOOLEAN
        /\ at' \in IF command' \in {"run", "done"} THEN Place ELSE {NoPlace}
    BY <1>1, <2>7 DEF ShotsTyped
  <2> QED  BY <2>1, <2>6, <2>7, <2>8, <2>9, SilentStep
<1> QED  BY <1>2, <1>3

\* A command ends with a result about the checks ss, looking at the checkout
\* from a place.
Answered(result, ss, place, drift) ==
    /\ Return(result, ss, place, drift)
    /\ store' = store \/ AppendOnce
    /\ result \in {"failed", "mixed", "recorded", "drifted", "completed"}
    /\ AllShots(ss) /\ place \in Place
    /\ runSets' = runSets \/ (runSets' = runSets \cup {ss} /\ ~Mixed(ss))
    /\ drift \in BOOLEAN
    /\ result = "completed" => /\ ~Mixed(ss)
                               /\ ~Drifted(ss, Context(place))
                               /\ drift = Discloses(ss, Context(place))
    /\ result = "mixed" => Mixed(ss)
    /\ result = "drifted" => Drifted(ss, Context(place))

LEMMA AnswerStep ==
    ASSUME ContextInv, NEW result, NEW ss, NEW place, NEW drift,
           Answered(result, ss, place, drift)
    PROVE  ContextInv'
<1>1. CheckoutTyped /\ ShotsTyped
  BY DEF ContextInv
<1>2. /\ outcome' = [result |-> result, shots |-> ss, now |-> Now,
                     at |-> place, drift |-> drift]
      /\ shots' = <<>> /\ passed' = TRUE /\ at' = NoPlace
      /\ command' = IF result = "completed" THEN "over" ELSE "none"
      /\ UNCHANGED <<envelope, commits, head, branch, index, tree, touches>>
  BY DEF Answered, Return, checkout
<1>3. Later /\ CheckoutTyped'
  BY <1>1, <1>2 DEF Answered, AppendOnce, Later, CheckoutTyped
<1>4. \A s : AllShots(s) => AllShots(s)'
  BY <1>1, <1>3, ShotsStay
<1>5. ShotsTyped'
  <2>1. \A s : Mixed(s)' <=> Mixed(s)
    BY <1>2, MixedStays
  <2>2. \A s \in runSets' : AllShots(s)' /\ ~Mixed(s)'
    BY <1>1, <1>4, <2>1 DEF Answered, ShotsTyped
  <2>3. /\ shots' \in Seq(Shot') /\ Len(shots') <= Checks
        /\ \A i \in DOMAIN shots' : shots'[i].place = at'
    BY <1>2, ContextTyped
  <2> QED  BY <1>2, <2>2, <2>3 DEF ShotsTyped
<1>6. place \in Place /\ AllShots(ss) /\ 1 \in DOMAIN ss
  BY ContextTyped DEF Answered, AllShots
<1>7. OutcomeTyped'
  BY <1>1, <1>2, <1>4, <1>6, NowIsShot DEF OutcomeTyped, Answered
<1>8. /\ outcome'.result = result /\ outcome'.shots = ss
      /\ outcome'.now = Now /\ outcome'.at = place /\ outcome'.drift = drift
  BY <1>2
<1>9. /\ Private' <=> Private
      /\ Ignored' <=> Ignored
      /\ envelope' = envelope
  BY <1>2 DEF Private, Ignored
<1>10. ASSUME result = "completed"
       PROVE  /\ Private \/ ~drift => UnchangedSince(ss, place)
              /\ drift /\ Ignored => \E i \in DOMAIN ss : ss[i].saw # Now
              /\ ~Private => ScopeSameSince(ss, place)
  BY <1>1, <1>6, <1>10, CompletionVerdict DEF Answered
<1>11. PrivateUnchanged' /\ SharedDriftDisclosed'
  <2>1. UnchangedSince(ss, place) => Unchanged'
    BY <1>8 DEF UnchangedSince, Unchanged
  <2> QED
    BY <1>8, <1>9, <1>10, <2>1 DEF PrivateUnchanged, SharedDriftDisclosed, Ended
<1>12. ScopedSameUnderHead'
  <2>1. Now.head = head
    BY DEF Now
  <2> QED
    BY <1>8, <1>9, <1>10, <2>1 DEF ScopedSameUnderHead, Ended, ScopeSameSince
<1>13. RefusalsHaveCause'
  <2>1. ASSUME result = "mixed", Ignored
        PROVE  \E i, j \in DOMAIN ss : ss[i].saw # ss[j].saw
    BY <2>1, MixedHasCause DEF Answered
  <2>2. ASSUME result = "drifted", ss[1].place.dir = place.dir
        PROVE  /\ Private /\ Ignored /\ ss[1].place.label = place.label =>
                     ss[1].saw # Now
               /\ ~Private => ~OwnedUnchanged(ss[1].saw, Now, place.dir)
    BY <1>1, <1>6, <2>2, DriftHasCause DEF Answered
  <2>3. ASSUME result = "drifted"
        PROVE  \/ ss[1].place.dir # place.dir
               \/ Private /\ \/ ~Ignored
                             \/ ss[1].place.label # place.label
                             \/ ss[1].saw # Now
               \/ ~Private /\ ~OwnedUnchanged(ss[1].saw, Now, place.dir)
    BY <2>2, <2>3
  <2>4. (Ended("mixed") /\ Ignored =>
           \E i, j \in DOMAIN outcome.shots :
              outcome.shots[i].saw # outcome.shots[j].saw)'
    BY <1>8, <1>9, <2>1 DEF Ended
  <2>5. (Ended("drifted") =>
           LET shot == outcome.shots[1] IN
           \/ shot.place.dir # outcome.at.dir
           \/ Private /\ \/ ~Ignored
                         \/ shot.place.label # outcome.at.label
                         \/ shot.saw # outcome.now
           \/ ~Private /\ ~OwnedUnchanged(shot.saw, outcome.now, outcome.at.dir))'
    BY <1>8, <1>9, <2>3 DEF Ended, OwnedUnchanged
  <2>6. (1 \in DOMAIN outcome.shots)'
    BY <1>6, <1>8
  <2> QED  BY <2>4, <2>5, <2>6 DEF RefusalsHaveCause
<1> QED  BY <1>3, <1>5, <1>7, <1>11, <1>12, <1>13 DEF ContextInv, Verdicts

LEMMA CommandEnds ==
    ASSUME ContextInv,
           \/ RecordScriptRunsOnly \/ RecordRunSet \/ Complete
           \/ \E ss \in runSets, place \in Place :
                 CompleteFromAcceptance(ss, place)
    PROVE  \E result, ss, place, drift : Answered(result, ss, place, drift)
<1>1. ASSUME command \in {"run", "done"}, Len(shots) = Checks
      PROVE  AllShots(shots) /\ at \in Place
  <2>1. ShotsTyped
    BY DEF ContextInv
  <2> QED  BY <1>1, <2>1, ContextTyped DEF ShotsTyped, AllShots
<1>2. \A ss, place : Discloses(ss, Context(place)) \in BOOLEAN
  BY DEF Discloses
<1>3. CASE RecordScriptRunsOnly
  <2>1. AllShots(shots) /\ at \in Place /\ AppendOnce /\ runSets' = runSets
    BY <1>1, <1>3 DEF RecordScriptRunsOnly
  <2>2. \/ Return("failed", shots, at, FALSE)
        \/ Mixed(shots) /\ Return("mixed", shots, at, FALSE)
    BY <1>3 DEF RecordScriptRunsOnly
  <2>3. \/ Answered("failed", shots, at, FALSE)
        \/ Answered("mixed", shots, at, FALSE)
    BY <2>1, <2>2 DEF Answered
  <2> QED  BY <2>3
<1>4. CASE RecordRunSet
  <2>1. /\ AllShots(shots) /\ at \in Place /\ ~Mixed(shots) /\ AppendOnce
        /\ Return("recorded", shots, at, FALSE)
        /\ runSets' = runSets \cup {shots}
    BY <1>1, <1>4 DEF RecordRunSet, Ready
  <2>2. Answered("recorded", shots, at, FALSE)
    BY <2>1 DEF Answered
  <2> QED  BY <2>2
<1>5. CASE Complete
  <2>1. /\ AllShots(shots) /\ at \in Place /\ ~Mixed(shots) /\ AppendOnce
        /\ runSets' = runSets
    BY <1>1, <1>5 DEF Complete, Ready
  <2>2. \/ Drifted(shots, Context(at)) /\ Return("drifted", shots, at, FALSE)
        \/ /\ ~Drifted(shots, Context(at))
           /\ Return("completed", shots, at, Discloses(shots, Context(at)))
    BY <1>5 DEF Complete
  <2>3. \/ Answered("drifted", shots, at, FALSE)
        \/ Answered("completed", shots, at, Discloses(shots, Context(at)))
    BY <1>2, <2>1, <2>2 DEF Answered
  <2> QED  BY <2>3
<1>6. ASSUME NEW ss \in runSets, NEW place \in Place,
             CompleteFromAcceptance(ss, place)
      PROVE  \E result, drift : Answered(result, ss, place, drift)
  <2>1. AllShots(ss) /\ ~Mixed(ss) /\ runSets' = runSets
    BY <1>6 DEF CompleteFromAcceptance, ContextInv, ShotsTyped
  <2>2. /\ store' = store \/ AppendOnce
        /\ \/ Drifted(ss, Context(place)) /\ Return("drifted", ss, place, FALSE)
           \/ /\ ~Drifted(ss, Context(place))
              /\ Return("completed", ss, place, Discloses(ss, Context(place)))
    BY <1>6 DEF CompleteFromAcceptance
  <2>3. \/ Answered("drifted", ss, place, FALSE)
        \/ Answered("completed", ss, place, Discloses(ss, Context(place)))
    BY <1>2, <2>1, <2>2 DEF Answered
  <2> QED  BY <2>3
<1> QED  BY <1>3, <1>4, <1>5, <1>6

LEMMA ContextStep == ContextInv /\ [Next]_vars => ContextInv'
<1> SUFFICES ASSUME ContextInv, [Next]_vars PROVE ContextInv'
  OBVIOUS
<1>1. CASE Environment
  BY <1>1, EnvironmentStep
<1>2. CASE \/ \E cmd \in {"run", "done"}, place \in Place : Begin(cmd, place)
           \/ \E ok, noisy \in BOOLEAN : RunCheck(ok, noisy)
  BY <1>2, WorkStep
<1>3. CASE \/ RecordScriptRunsOnly \/ RecordRunSet \/ Complete
           \/ \E ss \in runSets, place \in Place :
                 CompleteFromAcceptance(ss, place)
  BY <1>3, CommandEnds, AnswerStep
<1>4. CASE UNCHANGED vars
  <2>1. UNCHANGED <<envelope, commits, head, branch, index, tree, store,
                    touches, command, at, shots, passed, runSets, outcome>>
    BY <1>4 DEF vars, checkout, worker
  <2>2. Shot' = Shot
    BY <2>1 DEF Shot
  <2>3. \A ss : AllShots(ss)' <=> AllShots(ss)
    BY <2>2 DEF AllShots
  <2>4. \A ss : Mixed(ss)' <=> Mixed(ss)
    BY <2>1, MixedStays
  <2>5. CheckoutTyped' /\ ShotsTyped' /\ OutcomeTyped'
    BY <2>1, <2>2, <2>3, <2>4
    DEF ContextInv, CheckoutTyped, ShotsTyped, OutcomeTyped
  <2>6. Verdicts'
    BY <2>1 DEF ContextInv, Verdicts, PrivateUnchanged, SharedDriftDisclosed,
                ScopedSameUnderHead, RefusalsHaveCause, Ended, Unchanged,
                OwnedUnchanged, Private, Ignored
  <2> QED  BY <2>5, <2>6 DEF ContextInv
<1> QED  BY <1>1, <1>2, <1>3, <1>4 DEF Next

LEMMA ContextInvariant == Spec => []ContextInv
  BY ContextInit, ContextStep, PTL DEF Spec

-----------------------------------------------------------------------------
(* The theorems *)

\* Contexts that were recorded are those of a checkout that existed.
THEOREM ContextIsTyped == Spec => []TypeOK
<1>1. ASSUME NEW ss \in Seq(Shot) PROVE AreShots(ss, Len(ss))
  <2>1. DOMAIN ss = 1 .. Len(ss) /\ \A i \in 1 .. Len(ss) : ss[i] \in Shot
    OBVIOUS
  <2>2. \A x \in Shot : IsShot(x)
    BY DEF Shot, IsShot
  <2> QED  BY <2>1, <2>2 DEF AreShots
<1>2. ContextInv => TypeOK
  <2> SUFFICES ASSUME ContextInv PROVE TypeOK
    OBVIOUS
  <2>1. CheckoutTyped /\ ShotsTyped /\ OutcomeTyped
    BY DEF ContextInv
  <2>2. Len(shots) \in 0 .. Checks /\ AreShots(shots, Len(shots))
    BY <1>1, <2>1, ContextTyped DEF ShotsTyped
  <2>3. \A ss : AllShots(ss) => AreShots(ss, Checks)
    BY <1>1 DEF AllShots
  <2> QED  BY <2>1, <2>2, <2>3
           DEF CheckoutTyped, ShotsTyped, OutcomeTyped, TypeOK
<1> QED  BY <1>2, ContextInvariant, PTL

\* A private checkout is, at completion, as every check left it: below its root
\* as far as the tracked files go.
THEOREM PrivateStaysUnchanged == Spec => []PrivateUnchanged
<1>1. ContextInv => PrivateUnchanged
  BY DEF ContextInv, Verdicts
<1> QED  BY <1>1, ContextInvariant, PTL

\* On a shared checkout a change that shows where the command ran is disclosed,
\* and only a change is.
THEOREM SharedDriftIsDisclosed == Spec => []SharedDriftDisclosed
<1>1. ContextInv => SharedDriftDisclosed
  BY DEF ContextInv, Verdicts
<1> QED  BY <1>1, ContextInvariant, PTL

\* Under one HEAD what the owned names mean where the command ran is, at
\* completion, as the checks left it.
THEOREM ScopeStaysSame == Spec => []ScopedSameUnderHead
<1>1. ContextInv => ScopedSameUnderHead
  BY DEF ContextInv, Verdicts
<1> QED  BY <1>1, ContextInvariant, PTL

\* The checks of a recorded run set passed in one state of the checkout, as far
\* as it shows where they ran.
THEOREM RunSetsAreOfOneCheckout == Spec => []RunSetsOfOneCheckout
<1>1. ContextInv => RunSetsOfOneCheckout
  BY OneCheckout DEF ContextInv, ShotsTyped, RunSetsOfOneCheckout
<1> QED  BY <1>1, ContextInvariant, PTL

\* No command is refused for its context without a cause.
THEOREM RefusalsAreCaused == Spec => []RefusalsHaveCause
<1>1. ContextInv => RefusalsHaveCause
  BY DEF ContextInv, Verdicts
<1> QED  BY <1>1, ContextInvariant, PTL
=============================================================================
