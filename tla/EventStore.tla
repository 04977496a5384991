----------------------------- MODULE EventStore -----------------------------
(***************************************************************************)
(* The event store of cst and the transaction around it: WithStore (tx.go) *)
(* over the lock, the replay and the atomic append of store.go, step by    *)
(* step, with processes killed and power lost between any two steps.       *)
(*                                                                         *)
(* What a transaction decides is left to the other modules.  Here it       *)
(* appends a batch of events, perhaps after a batch that repairs leases,   *)
(* and every batch remembers the log it was decided on.                    *)
(***************************************************************************)
EXTENDS Naturals, Sequences

CONSTANTS
    Process,    \* processes that run transactions
    NoProcess,
    MaxBatch    \* bound: no batch is written beyond this many

ASSUME ProcessesTyped == NoProcess \notin Process /\ MaxBatch \in Nat

VARIABLES
    lock,      \* the process that holds events.lock
    file,      \* events.jsonl, as every process reads it
    disk,      \* what events.jsonl may be after a power failure
    tmp,       \* the temporary file each process writes
    step,      \* how far each process is in its transaction
    writing,   \* whether a process appends the lease repair or its own events
    view,      \* the batches the state of a transaction was built from
    nextBatch, \* the id of the next batch
    acked,     \* batches whose command reported success
    refused    \* batches whose command reported an error

vars == <<lock, file, disk, tmp, step, writing, view, nextBatch, acked,
          refused>>

-----------------------------------------------------------------------------
Id == 1 .. MaxBatch

\* `saw` is a history field: the ids of the batches the events were decided on.
Batch == [id : Id, saw : Seq(Id)]

\* A file whose content had not reached the disk when it was renamed may turn
\* out not to be whole.
Content == [batches : Seq(Batch), whole : BOOLEAN]
Empty == [batches |-> <<>>, whole |-> TRUE]
Temp == [batches : Seq(Batch), synced : BOOLEAN]
NoTemp == [batches |-> <<>>, synced |-> FALSE]

Step == {"idle", "locked", "replayed", "repaired", "written", "synced",
         "renamed", "appended"}

\* Besides the types: a process in a transaction is the one that has the lock.
TypeOK ==
    /\ \A p \in Process : step[p] # "idle" => lock = p
    /\ lock \in Process \cup {NoProcess}
    /\ file \in Content
    /\ disk \subseteq Content /\ file \in disk
    /\ tmp \in [Process -> Temp]
    /\ step \in [Process -> Step]
    /\ writing \in [Process -> {"repair", "body"}]
    /\ view \in [Process -> Seq(Batch)]
    /\ nextBatch \in 1 .. MaxBatch + 1
    /\ acked \subseteq Id
    /\ refused \subseteq Id

Init ==
    /\ lock = NoProcess
    /\ file = Empty
    /\ disk = {Empty}
    /\ tmp = [p \in Process |-> NoTemp]
    /\ step = [p \in Process |-> "idle"]
    /\ writing = [p \in Process |-> "body"]
    /\ view = [p \in Process |-> <<>>]
    /\ nextBatch = 1
    /\ acked = {}
    /\ refused = {}

-----------------------------------------------------------------------------
Ids(batches) == [i \in DOMAIN batches |-> batches[i].id]
IdsIn(batches) == {batches[i].id : i \in DOMAIN batches}

\* The batch process p is appending is the last of its temporary file.
Mine(p) == tmp[p].batches[Len(tmp[p].batches)]

\* The command is over: the lock is free, and the temporary file is removed, or
\* left behind under a name nobody uses again.
Return(p) ==
    /\ step' = [step EXCEPT ![p] = "idle"]
    /\ tmp' = [tmp EXCEPT ![p] = NoTemp]
    /\ view' = [view EXCEPT ![p] = <<>>]
    /\ writing' = [writing EXCEPT ![p] = "body"]
    /\ lock' = NoProcess

\* A failed append of the command's own events is reported for them.
Refuse(p) ==
    refused' = refused \cup (IF writing[p] = "body" THEN {Mine(p).id} ELSE {})

-----------------------------------------------------------------------------
(* One transaction *)

\* Mutant: the lock is shared.
AcquireShared(p) ==
    /\ step[p] = "idle"
    /\ lock' = p
    /\ step' = [step EXCEPT ![p] = "locked"]
    /\ UNCHANGED <<file, disk, tmp, writing, view, nextBatch, acked, refused>>

\* AcquireLockAt.
Acquire(p) ==
    /\ step[p] = "idle"
    /\ lock = NoProcess
    /\ lock' = p
    /\ step' = [step EXCEPT ![p] = "locked"]
    /\ UNCHANGED <<file, disk, tmp, writing, view, nextBatch, acked, refused>>

\* ReplayAt and Apply.
Replay(p) ==
    /\ step[p] = "locked"
    /\ file.whole
    /\ view' = [view EXCEPT ![p] = file.batches]
    /\ step' = [step EXCEPT ![p] = "replayed"]
    /\ UNCHANGED <<lock, file, disk, tmp, writing, nextBatch, acked, refused>>

\* A log that cannot be read, a command that only reads, or one whose body
\* refuses: the transaction ends without events of its own.
EndWithoutEvents(p) ==
    /\ step[p] \in {"locked", "replayed", "repaired"}
    /\ Return(p)
    /\ UNCHANGED <<file, disk, nextBatch, acked, refused>>

\* AppendAt: the batch decided on the view, behind the file as it is now.
Write(p, what) ==
    /\ step[p] = "replayed" \/ (step[p] = "repaired" /\ what = "body")
    /\ nextBatch \in Id
    /\ nextBatch' = nextBatch + 1
    /\ tmp' = [tmp EXCEPT ![p] =
          [batches |-> Append(file.batches,
                              [id |-> nextBatch, saw |-> Ids(view[p])]),
           synced |-> FALSE]]
    /\ writing' = [writing EXCEPT ![p] = what]
    /\ step' = [step EXCEPT ![p] = "written"]
    /\ UNCHANGED <<lock, file, disk, view, acked, refused>>

\* Mutant: the temporary file is not synced.
SyncNothing(p) ==
    /\ step[p] = "written"
    /\ step' = [step EXCEPT ![p] = "synced"]
    /\ UNCHANGED <<lock, file, disk, tmp, writing, view, nextBatch, acked,
                   refused>>

\* Chmod, Sync and Close.
Sync(p) ==
    /\ step[p] = "written"
    /\ tmp' = [tmp EXCEPT ![p].synced = TRUE]
    /\ step' = [step EXCEPT ![p] = "synced"]
    /\ UNCHANGED <<lock, file, disk, writing, view, nextBatch, acked, refused>>

\* Any failure before the rename removes the temporary file.
FailToWrite(p) ==
    /\ step[p] \in {"written", "synced"}
    /\ Refuse(p)
    /\ Return(p)
    /\ UNCHANGED <<file, disk, nextBatch, acked>>

\* From now on every process reads the new file; which of the two a power
\* failure leaves is open until the directory is synced.
Rename(p) ==
    LET content(whole) == [batches |-> tmp[p].batches, whole |-> whole] IN
    /\ step[p] = "synced"
    /\ file' = content(TRUE)
    /\ disk' = disk \cup {content(TRUE)}
                    \cup (IF tmp[p].synced THEN {} ELSE {content(FALSE)})
    /\ step' = [step EXCEPT ![p] = "renamed"]
    /\ UNCHANGED <<lock, tmp, writing, view, nextBatch, acked, refused>>

\* Mutant: the directory is not synced.
SyncDirNothing(p) ==
    /\ step[p] = "renamed"
    /\ step' = [step EXCEPT
          ![p] = IF writing[p] = "repair" THEN "repaired" ELSE "appended"]
    /\ view' = [view EXCEPT ![p] = tmp[p].batches]
    /\ UNCHANGED <<lock, file, disk, tmp, writing, nextBatch, acked, refused>>

\* syncDir.  After the repair the state is built again, from the replayed
\* events and the appended ones.
SyncDir(p) ==
    /\ step[p] = "renamed"
    /\ disk' = {file}
    /\ step' = [step EXCEPT
          ![p] = IF writing[p] = "repair" THEN "repaired" ELSE "appended"]
    /\ view' = [view EXCEPT ![p] = tmp[p].batches]
    /\ UNCHANGED <<lock, file, tmp, writing, nextBatch, acked, refused>>

\* syncDir fails: an error, although the file has been replaced.
FailToSyncDir(p) ==
    /\ step[p] = "renamed"
    /\ Refuse(p)
    /\ Return(p)
    /\ UNCHANGED <<file, disk, nextBatch, acked>>

\* recordWorkerStoreBindings, then the end of the transaction.
Finish(p) ==
    /\ step[p] = "appended"
    /\ acked' = acked \cup {Mine(p).id}
    /\ Return(p)
    /\ UNCHANGED <<file, disk, nextBatch, refused>>

\* The binding cannot be written: an error, after the commit.
FailToBind(p) ==
    /\ step[p] = "appended"
    /\ Refuse(p)
    /\ Return(p)
    /\ UNCHANGED <<file, disk, nextBatch, acked>>

-----------------------------------------------------------------------------
(* The environment *)

\* The process dies; the kernel closes its files and so drops its lock.
Kill(p) ==
    /\ step[p] # "idle"
    /\ Return(p)
    /\ UNCHANGED <<file, disk, nextBatch, acked, refused>>

PowerFailure ==
    \E content \in disk :
        /\ file' = content
        /\ disk' = {content}
        /\ lock' = NoProcess
        /\ tmp' = [p \in Process |-> NoTemp]
        /\ step' = [p \in Process |-> "idle"]
        /\ writing' = [p \in Process |-> "body"]
        /\ view' = [p \in Process |-> <<>>]
        /\ UNCHANGED <<nextBatch, acked, refused>>

Transaction(p) ==
    \/ Acquire(p)
    \/ Replay(p)
    \/ EndWithoutEvents(p)
    \/ \E what \in {"repair", "body"} : Write(p, what)
    \/ Sync(p)
    \/ FailToWrite(p)
    \/ Rename(p)
    \/ SyncDir(p)
    \/ FailToSyncDir(p)
    \/ Finish(p)
    \/ FailToBind(p)

Next ==
    \/ \E p \in Process : Transaction(p) \/ Kill(p)
    \/ PowerFailure

Spec == Init /\ [][Next]_vars

-----------------------------------------------------------------------------
(* Properties *)

\* Transactions are serial: every batch was decided on exactly the batches
\* before it, in the file and in whatever a power failure leaves of it, so the
\* reducer that accepted it then accepts it in every later replay.
Serial(batches) ==
    \A i \in DOMAIN batches : batches[i].saw = SubSeq(Ids(batches), 1, i - 1)

Serialized == \A content \in disk : Serial(content.batches)

\* No crash leaves a log that cannot be read.
LogWhole == \A content \in disk : content.whole

\* What a command reported as done is in the log for good, power failures
\* included.
AckedSurvive == \A content \in disk : acked \subseteq IdsIn(content.batches)

\* The length of the shortest of some contents: what no power failure takes.
Shortest(contents) ==
    CHOOSE n \in {Len(content.batches) : content \in contents} :
        \A content \in contents : n <= Len(content.batches)

Log == INSTANCE AtomicLog WITH
    log <- file.batches,
    kept <- Shortest(disk),
    answered <- acked

\* The store is the log that AtomicLog promises: transactions of any number of
\* processes, killed and cut off anywhere, append whole batches one by one.

KeepsLog == Log!Spec
=============================================================================
