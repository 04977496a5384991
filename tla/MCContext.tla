----------------------------- MODULE MCContext -----------------------------
(* A small instance of AcceptanceContext for TLC. *)
EXTENDS AcceptanceContext, TLC

CONSTANTS p, sp, root, sub

\* p is a file at the root, sp the file of that name in the directory sub.
Names == (root :> (p :> p @@ sp :> sp)) @@ (sub :> (p :> sp @@ sp :> NoFile))

Shared(owned, ledger) ==
    [surface |-> "shared", owned |-> owned, cwd |-> NoDir, ledger |-> ledger]
PrivateIn(dir, ledger) ==
    [surface |-> "private", owned |-> {p}, cwd |-> dir, ledger |-> ledger]

\* Every surface, directory and kind of ledger, with owned files and without.
SomeEnvelopes ==
    {Shared({p}, "ignored"), Shared({}, "ignored"), Shared({sp}, "untracked"),
     PrivateIn(root, "ignored"), PrivateIn(sub, "ignored"),
     PrivateIn(root, "tracked")}

\* One commit with p alone, and perhaps another in which sp is added.
OnlyP == p :> 1 @@ sp :> 0
SomeHistories == {<<OnlyP>>, <<OnlyP, p :> 1 @@ sp :> 1>>}

\* Branches and values of PARALLEL_WORKTREE are alike.
Alike == Permutations(Branch) \cup Permutations(Label)
=============================================================================
