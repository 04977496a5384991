-------------------------- MODULE EventStoreProofs --------------------------
(***************************************************************************)
(* Safety of the event store, for any number of processes and batches:     *)
(* transactions are serial, the log is always readable, what was answered  *)
(* with success survives, and the store implements AtomicLog.              *)
(***************************************************************************)
EXTENDS EventStore, SequenceTheorems, TLAPS

-----------------------------------------------------------------------------
(* Sequences of batches *)

LEMMA IdsTyped ==
    ASSUME NEW s \in Seq(Batch)
    PROVE  /\ Ids(s) \in Seq(Id)
           /\ Len(Ids(s)) = Len(s)
           /\ \A i \in 1 .. Len(s) : Ids(s)[i] = s[i].id
<1>1. DOMAIN s = 1 .. Len(s) /\ Len(s) \in Nat
  BY LenProperties
<1>2. \A i \in 1 .. Len(s) : s[i].id \in Id
  <2>1. \A i \in 1 .. Len(s) : s[i] \in Batch
    BY ElementOfSeq
  <2> QED BY <2>1 DEF Batch
<1>3. Ids(s) \in [1 .. Len(s) -> Id]
  BY <1>1, <1>2 DEF Ids
<1> QED BY <1>1, <1>3, IsASeq, LenProperties DEF Ids

LEMMA IdsOfAppend ==
    ASSUME NEW s \in Seq(Batch), NEW b \in Batch
    PROVE  Ids(Append(s, b)) = Append(Ids(s), b.id)
<1> DEFINE t == Append(s, b)
<1>1. /\ t \in Seq(Batch)
      /\ Len(t) = Len(s) + 1
      /\ \A i \in 1 .. Len(s) : t[i] = s[i]
      /\ t[Len(s) + 1] = b
  BY AppendProperties
<1>2. b.id \in Id
  BY DEF Batch
<1>3. /\ Append(Ids(s), b.id) \in Seq(Id)
      /\ Len(Append(Ids(s), b.id)) = Len(s) + 1
      /\ \A i \in 1 .. Len(s) : Append(Ids(s), b.id)[i] = s[i].id
      /\ Append(Ids(s), b.id)[Len(s) + 1] = b.id
  BY <1>2, IdsTyped, AppendProperties
<1>4. /\ Ids(t) \in Seq(Id) /\ Len(Ids(t)) = Len(s) + 1
      /\ \A i \in 1 .. Len(t) : Ids(t)[i] = t[i].id
  BY <1>1, IdsTyped
<1>5. Len(s) \in Nat
  BY LenProperties
<1>6. \A i \in 1 .. Len(s) + 1 : Ids(t)[i] = Append(Ids(s), b.id)[i]
  BY <1>1, <1>3, <1>4, <1>5
<1> QED BY <1>3, <1>4, <1>6, SeqEqual

\* The next transaction's batch keeps a serial log serial.
LEMMA SerialAppend ==
    ASSUME NEW s \in Seq(Batch), Serial(s), NEW id \in Id
    PROVE  LET b == [id |-> id, saw |-> Ids(s)] IN
           b \in Batch /\ Append(s, b) \in Seq(Batch) /\ Serial(Append(s, b))
<1> DEFINE b == [id |-> id, saw |-> Ids(s)]
           t == Append(s, b)
<1>1. b \in Batch
  BY IdsTyped DEF Batch
<1>2. /\ t \in Seq(Batch)
      /\ Len(t) = Len(s) + 1
      /\ \A i \in 1 .. Len(s) : t[i] = s[i]
      /\ t[Len(s) + 1] = b
  BY <1>1, AppendProperties
<1>3. Ids(t) = Append(Ids(s), id)
  BY <1>1, IdsOfAppend
<1>4. /\ Ids(s) \in Seq(Id) /\ Len(Ids(s)) = Len(s) /\ Len(s) \in Nat
  BY IdsTyped, LenProperties
<1>5. ASSUME NEW i \in 1 .. Len(s) + 1
      PROVE  SubSeq(Ids(t), 1, i - 1) = SubSeq(Ids(s), 1, i - 1)
  <2>1. Ids(t) \in Seq(Id) /\ Len(Ids(t)) = Len(s) + 1
    BY <1>2, IdsTyped
  <2>2. \A j \in 1 .. i - 1 : Ids(t)[j] = Ids(s)[j]
    BY <1>3, <1>4, AppendProperties
  <2>3. /\ SubSeq(Ids(t), 1, i - 1) \in Seq(Id)
        /\ Len(SubSeq(Ids(t), 1, i - 1)) = i - 1
        /\ \A j \in 1 .. i - 1 : SubSeq(Ids(t), 1, i - 1)[j] = Ids(t)[j]
    BY <1>4, <2>1
  <2>4. /\ SubSeq(Ids(s), 1, i - 1) \in Seq(Id)
        /\ Len(SubSeq(Ids(s), 1, i - 1)) = i - 1
        /\ \A j \in 1 .. i - 1 : SubSeq(Ids(s), 1, i - 1)[j] = Ids(s)[j]
    BY <1>4
  <2> QED BY <2>2, <2>3, <2>4, SeqEqual
<1>6. SubSeq(Ids(s), 1, Len(s)) = Ids(s)
  BY <1>4, SubSeqFull
<1>7. ASSUME NEW i \in DOMAIN t
      PROVE  t[i].saw = SubSeq(Ids(t), 1, i - 1)
  <2>1. i \in 1 .. Len(s) + 1
    BY <1>2, LenProperties
  <2>2. CASE i \in 1 .. Len(s)
    BY <1>2, <1>5, <2>1, <2>2, LenProperties DEF Serial
  <2>3. CASE i = Len(s) + 1
    BY <1>2, <1>4, <1>5, <1>6, <2>1, <2>3
  <2> QED BY <1>4, <2>1, <2>2, <2>3
<1> QED BY <1>1, <1>2, <1>7 DEF Serial

-----------------------------------------------------------------------------
(* The inductive invariant *)

\* s is the beginning of t.
Begins(s, t) ==
    Len(s) <= Len(t) /\ \A i \in 1 .. Len(s) : s[i] = t[i]

\* What power failures may leave is the file or a beginning of it, and one of
\* them is the shortest.
DiskBegins ==
    /\ \A content \in disk : Begins(content.batches, file.batches)
    /\ \E least \in disk : \A content \in disk :
          Len(least.batches) <= Len(content.batches)

\* The process in the transaction works on the file as it is.
Coherent(p) ==
    /\ step[p] \in {"replayed", "repaired", "written", "synced"} =>
          view[p] = file.batches
    /\ step[p] \in {"written", "synced"} =>
          \E id \in Id :
             /\ tmp[p].batches =
                   Append(file.batches, [id |-> id, saw |-> Ids(file.batches)])
             /\ id < nextBatch
             /\ \A i \in 1 .. Len(file.batches) : file.batches[i].id # id
    /\ step[p] = "synced" => tmp[p].synced
    /\ step[p] \in {"renamed", "appended"} =>
          tmp[p].batches = file.batches /\ Len(file.batches) > 0
    /\ step[p] = "appended" => disk = {file}

IdsUsed == \A i \in 1 .. Len(file.batches) : file.batches[i].id < nextBatch

StoreInv ==
    /\ TypeOK
    /\ LogWhole
    /\ Serialized
    /\ AckedSurvive
    /\ DiskBegins
    /\ IdsUsed
    /\ \A p \in Process : Coherent(p)

-----------------------------------------------------------------------------
(* A step of one process leaves the others outside their transactions *)

\* Steps that change no file: what power failures may leave is the same.
LEMMA FilesKept ==
    ASSUME StoreInv, UNCHANGED <<file, disk>>, acked' = acked,
           nextBatch' \in Nat, nextBatch <= nextBatch'
    PROVE  /\ LogWhole' /\ Serialized' /\ AckedSurvive' /\ DiskBegins'
           /\ IdsUsed'
<1>1. LogWhole' /\ Serialized' /\ AckedSurvive' /\ DiskBegins'
  BY DEF StoreInv, LogWhole, Serialized, AckedSurvive, DiskBegins, Begins
<1>2. IdsUsed'
  <2>1. file.batches \in Seq(Batch) /\ nextBatch \in Nat
    BY ProcessesTyped DEF StoreInv, TypeOK, Content
  <2>2. \A i \in 1 .. Len(file.batches) : file.batches[i] \in Batch
    BY <2>1, ElementOfSeq
  <2>3. \A i \in 1 .. Len(file.batches) : file.batches[i].id \in Nat
    BY <2>2, ProcessesTyped DEF Batch, Id
  <2> QED BY <2>1, <2>3 DEF StoreInv, IdsUsed
<1> QED BY <1>1, <1>2

LEMMA OthersIdle ==
    ASSUME StoreInv, NEW p \in Process, step[p] # "idle",
           NEW q \in Process, q # p
    PROVE  step[q] = "idle"
BY DEF StoreInv, TypeOK

\* A command that ends leaves the files and everybody coherent.
LEMMA ReturnCoherent ==
    ASSUME StoreInv, NEW p \in Process, step[p] # "idle", Return(p)
    PROVE  /\ \A q \in Process : step'[q] = "idle"
           /\ \A q \in Process : Coherent(q)'
           /\ lock' \in Process \cup {NoProcess}
           /\ tmp' \in [Process -> Temp]
           /\ step' \in [Process -> Step]
           /\ writing' \in [Process -> {"repair", "body"}]
           /\ view' \in [Process -> Seq(Batch)]
<1>1. \A q \in Process : step'[q] = "idle"
  BY OthersIdle DEF Return, StoreInv, TypeOK
<1>2. \A q \in Process : Coherent(q)'
  BY <1>1 DEF Coherent
<1>3. <<>> \in Seq(Batch) /\ NoTemp \in Temp
  BY EmptySeq DEF NoTemp, Temp
<1> QED BY <1>1, <1>2, <1>3 DEF Return, StoreInv, TypeOK, Step

\* Actions that end a command, whatever they report.
LEMMA EndPreserves ==
    ASSUME StoreInv, NEW p \in Process, step[p] # "idle", Return(p),
           UNCHANGED <<file, disk, nextBatch, acked>>, refused' \subseteq Id
    PROVE  StoreInv'
<1>1. LogWhole' /\ Serialized' /\ AckedSurvive' /\ DiskBegins' /\ IdsUsed'
  BY FilesKept, ProcessesTyped DEF StoreInv, TypeOK
<1>2. TypeOK'
  BY ReturnCoherent DEF StoreInv, TypeOK
<1> QED BY <1>1, <1>2, ReturnCoherent DEF StoreInv

\* The batch a process is appending has an id.
LEMMA MineTyped ==
    ASSUME StoreInv, NEW p \in Process,
           step[p] \in {"written", "synced", "renamed", "appended"}
    PROVE  /\ tmp[p].batches \in Seq(Batch) /\ Len(tmp[p].batches) \in Nat \ {0}
           /\ Mine(p) \in Batch /\ Mine(p).id \in Id
<1>1. tmp[p].batches \in Seq(Batch) /\ file.batches \in Seq(Batch)
  BY DEF StoreInv, TypeOK, Temp, Content
<1>2. Len(tmp[p].batches) \in Nat \ {0}
  <2>1. CASE step[p] \in {"written", "synced"}
    <3>1. PICK id \in Id : tmp[p].batches =
             Append(file.batches, [id |-> id, saw |-> Ids(file.batches)])
      BY <2>1 DEF StoreInv, Coherent
    <3>2. [id |-> id, saw |-> Ids(file.batches)] \in Batch
      BY <1>1, IdsTyped DEF Batch
    <3> QED BY <1>1, <3>1, <3>2, AppendProperties, LenProperties
  <2>2. CASE step[p] \in {"renamed", "appended"}
    BY <1>1, <2>2, LenProperties DEF StoreInv, Coherent
  <2> QED BY <2>1, <2>2
<1>3. Mine(p) \in Batch
  BY <1>1, <1>2, ElementOfSeq DEF Mine
<1> QED BY <1>1, <1>2, <1>3 DEF Batch

-----------------------------------------------------------------------------
(* Each step preserves the invariant *)

LEMMA InitStore == Init => StoreInv
<1> SUFFICES ASSUME Init PROVE StoreInv
  OBVIOUS
<1>1. <<>> \in Seq(Batch) /\ Len(<<>>) = 0 /\ DOMAIN <<>> = {}
  OBVIOUS
<1>2. TypeOK
  BY <1>1, ProcessesTyped
  DEF Init, TypeOK, Content, Empty, Temp, NoTemp, Step, Id
<1>3. LogWhole /\ Serialized /\ AckedSurvive /\ DiskBegins /\ IdsUsed
  BY <1>1 DEF Init, LogWhole, Serialized, Serial, AckedSurvive, DiskBegins,
              Begins, IdsUsed, Empty
<1>4. \A p \in Process : Coherent(p)
  BY DEF Init, Coherent
<1> QED BY <1>2, <1>3, <1>4 DEF StoreInv

LEMMA BeginPreserves ==
    ASSUME StoreInv, NEW p \in Process, Acquire(p) \/ Replay(p)
    PROVE  StoreInv'
<1>1. LogWhole' /\ Serialized' /\ AckedSurvive' /\ DiskBegins' /\ IdsUsed'
  BY FilesKept, ProcessesTyped DEF StoreInv, TypeOK, Acquire, Replay
<1>2. CASE Acquire(p)
  <2>1. \A q \in Process : step[q] = "idle"
    BY <1>2, ProcessesTyped DEF Acquire, StoreInv, TypeOK
  <2>2. TypeOK'
    BY <1>2, <2>1 DEF Acquire, StoreInv, TypeOK, Step
  <2>3. \A q \in Process : step'[q] \in {"idle", "locked"}
    BY <1>2, <2>1 DEF Acquire, StoreInv, TypeOK
  <2>4. \A q \in Process : Coherent(q)'
    BY <2>3 DEF Coherent
  <2> QED BY <1>1, <2>2, <2>4 DEF StoreInv
<1>3. CASE Replay(p)
  <2>1. TypeOK'
    BY <1>3 DEF Replay, StoreInv, TypeOK, Step, Content
  <2>2. \A q \in Process : q # p => step'[q] = "idle"
    BY <1>3, OthersIdle DEF Replay, StoreInv, TypeOK
  <2>3. step'[p] = "replayed" /\ view'[p] = file'.batches
    BY <1>3 DEF Replay, StoreInv, TypeOK
  <2>4. \A q \in Process : Coherent(q)'
    BY <2>2, <2>3 DEF Coherent
  <2> QED BY <1>1, <2>1, <2>4 DEF StoreInv
<1> QED BY <1>2, <1>3

LEMMA WritePreserves ==
    ASSUME StoreInv, NEW p \in Process, NEW what \in {"repair", "body"},
           Write(p, what)
    PROVE  StoreInv'
<1> DEFINE b == [id |-> nextBatch, saw |-> Ids(view[p])]
<1>1. /\ file.batches \in Seq(Batch) /\ view[p] = file.batches
      /\ nextBatch \in Id /\ nextBatch \in Nat /\ step[p] # "idle"
  BY ProcessesTyped DEF StoreInv, TypeOK, Write, Content, Coherent, Id
<1>2. b \in Batch
  BY <1>1, IdsTyped DEF Batch
<1>3. Append(file.batches, b) \in Seq(Batch)
  BY <1>1, <1>2, AppendProperties
<1>4. LogWhole' /\ Serialized' /\ AckedSurvive' /\ DiskBegins' /\ IdsUsed'
  BY <1>1, FilesKept DEF Write
<1>5. TypeOK'
  <2>1. nextBatch' \in 1 .. MaxBatch + 1
    BY <1>1, ProcessesTyped DEF Write, Id
  <2>2. tmp' \in [Process -> Temp]
    BY <1>3 DEF Write, StoreInv, TypeOK, Temp
  <2> QED BY <1>1, <2>1, <2>2 DEF Write, StoreInv, TypeOK, Step
<1>6. \A q \in Process : q # p => step'[q] = "idle"
  BY <1>1, OthersIdle DEF Write, StoreInv, TypeOK
<1>7. Coherent(p)'
  <2>1. /\ step'[p] = "written" /\ view'[p] = file'.batches
        /\ tmp'[p].batches = Append(file'.batches, b)
        /\ b = [id |-> nextBatch, saw |-> Ids(file'.batches)]
    BY <1>1 DEF Write, StoreInv, TypeOK
  <2>2. nextBatch < nextBatch'
    BY <1>1 DEF Write
  <2>3. \A i \in 1 .. Len(file'.batches) : file'.batches[i].id # nextBatch
    BY <1>1 DEF Write, StoreInv, IdsUsed
  <2> QED BY <1>1, <2>1, <2>2, <2>3 DEF Coherent
<1>8. \A q \in Process : Coherent(q)'
  BY <1>6, <1>7 DEF Coherent
<1> QED BY <1>4, <1>5, <1>8 DEF StoreInv

LEMMA SyncPreserves ==
    ASSUME StoreInv, NEW p \in Process, Sync(p)
    PROVE  StoreInv'
<1>1. LogWhole' /\ Serialized' /\ AckedSurvive' /\ DiskBegins' /\ IdsUsed'
  BY FilesKept, ProcessesTyped DEF StoreInv, TypeOK, Sync
<1>2. TypeOK'
  <2>1. tmp' \in [Process -> Temp]
    BY DEF Sync, StoreInv, TypeOK, Temp
  <2> QED BY <2>1 DEF Sync, StoreInv, TypeOK, Step
<1>3. \A q \in Process : q # p => step'[q] = "idle"
  BY OthersIdle DEF Sync, StoreInv, TypeOK
<1>4. /\ step'[p] = "synced" /\ view'[p] = view[p]
      /\ tmp'[p].batches = tmp[p].batches /\ tmp'[p].synced
  BY DEF Sync, StoreInv, TypeOK, Temp
<1>5. Coherent(p)'
  <2>1. UNCHANGED <<file, disk, nextBatch>> /\ step[p] = "written"
    BY DEF Sync
  <2>2. PICK id \in Id :
           /\ tmp[p].batches =
                 Append(file.batches, [id |-> id, saw |-> Ids(file.batches)])
           /\ id < nextBatch
           /\ \A i \in 1 .. Len(file.batches) : file.batches[i].id # id
    BY <2>1 DEF StoreInv, Coherent
  <2>3. view[p] = file.batches
    BY <2>1 DEF StoreInv, Coherent
  <2>4. /\ tmp'[p].batches =
              Append(file'.batches, [id |-> id, saw |-> Ids(file'.batches)])
        /\ id < nextBatch'
        /\ \A i \in 1 .. Len(file'.batches) : file'.batches[i].id # id
    BY <1>4, <2>1, <2>2
  <2> QED BY <1>4, <2>1, <2>3, <2>4 DEF Coherent
<1>6. \A q \in Process : Coherent(q)'
  BY <1>3, <1>5 DEF Coherent
<1> QED BY <1>1, <1>2, <1>6 DEF StoreInv

\* What a rename puts in the place of the file.
LEMMA RenameAppends ==
    ASSUME StoreInv, NEW p \in Process, Rename(p)
    PROVE  \E id \in Id :
              LET b == [id |-> id, saw |-> Ids(file.batches)] IN
              /\ b \in Batch
              /\ \A i \in 1 .. Len(file.batches) : file.batches[i].id # id
              /\ id < nextBatch
              /\ tmp[p].batches = Append(file.batches, b)
              /\ file' = [batches |-> Append(file.batches, b), whole |-> TRUE]
              /\ disk' = disk \cup {file'}
              /\ file' \in Content
              /\ Serial(file'.batches)
              /\ Len(file'.batches) = Len(file.batches) + 1
              /\ Begins(file.batches, file'.batches)
              /\ file'.batches[Len(file.batches) + 1] = b
<1>1. tmp[p].synced /\ file.batches \in Seq(Batch) /\ Serial(file.batches)
  BY DEF StoreInv, TypeOK, Content, Rename, Coherent, Serialized
<1>2. PICK id \in Id :
         /\ tmp[p].batches =
               Append(file.batches, [id |-> id, saw |-> Ids(file.batches)])
         /\ id < nextBatch
         /\ \A i \in 1 .. Len(file.batches) : file.batches[i].id # id
  BY DEF StoreInv, Rename, Coherent
<1> DEFINE b == [id |-> id, saw |-> Ids(file.batches)]
<1>3. /\ b \in Batch /\ Append(file.batches, b) \in Seq(Batch)
      /\ Serial(Append(file.batches, b))
  BY <1>1, SerialAppend
<1>4. /\ Len(Append(file.batches, b)) = Len(file.batches) + 1
      /\ Append(file.batches, b)[Len(file.batches) + 1] = b
      /\ \A i \in 1 .. Len(file.batches) :
            Append(file.batches, b)[i] = file.batches[i]
      /\ Len(file.batches) \in Nat
  BY <1>1, <1>3, AppendProperties, LenProperties
<1>5. /\ file' = [batches |-> Append(file.batches, b), whole |-> TRUE]
      /\ disk' = disk \cup {file'}
  BY <1>1, <1>2 DEF Rename
<1>6. file' \in Content
  BY <1>3, <1>5 DEF Content
<1>7. Begins(file.batches, file'.batches)
  BY <1>4, <1>5 DEF Begins
<1> QED BY <1>2, <1>3, <1>4, <1>5, <1>6, <1>7

LEMMA RenamePreserves ==
    ASSUME StoreInv, NEW p \in Process, Rename(p)
    PROVE  StoreInv'
<1>1. PICK id \in Id :
         LET b == [id |-> id, saw |-> Ids(file.batches)] IN
         /\ b \in Batch
         /\ \A i \in 1 .. Len(file.batches) : file.batches[i].id # id
         /\ id < nextBatch
         /\ tmp[p].batches = Append(file.batches, b)
         /\ file' = [batches |-> Append(file.batches, b), whole |-> TRUE]
         /\ disk' = disk \cup {file'}
         /\ file' \in Content
         /\ Serial(file'.batches)
         /\ Len(file'.batches) = Len(file.batches) + 1
         /\ Begins(file.batches, file'.batches)
         /\ file'.batches[Len(file.batches) + 1] = b
  BY RenameAppends
<1>2. /\ file.batches \in Seq(Batch) /\ Len(file.batches) \in Nat
      /\ DOMAIN file.batches = 1 .. Len(file.batches)
      /\ DOMAIN file'.batches = 1 .. Len(file.batches) + 1
      /\ nextBatch \in Nat
  BY <1>1, LenProperties, ProcessesTyped DEF StoreInv, TypeOK, Content
<1>3. TypeOK'
  <2>1. disk' \subseteq Content /\ file' \in disk'
    BY <1>1 DEF StoreInv, TypeOK
  <2> QED BY <1>1, <2>1 DEF Rename, StoreInv, TypeOK, Step
<1>4. LogWhole'
  BY <1>1 DEF StoreInv, LogWhole
<1>5. Serialized'
  BY <1>1 DEF StoreInv, Serialized
<1>6. AckedSurvive'
  <2>1. IdsIn(file.batches) \subseteq IdsIn(file'.batches)
    BY <1>1, <1>2 DEF IdsIn, Begins
  <2>2. acked \subseteq IdsIn(file.batches)
    BY DEF StoreInv, TypeOK, AckedSurvive
  <2> QED BY <1>1, <2>1, <2>2 DEF Rename, StoreInv, AckedSurvive
<1>7. DiskBegins'
  <2>1. \A content \in disk : /\ Begins(content.batches, file.batches)
                              /\ Len(content.batches) \in Nat
    <3>1. \A content \in disk : content.batches \in Seq(Batch)
      BY DEF StoreInv, TypeOK, Content
    <3> QED BY <3>1, LenProperties DEF StoreInv, DiskBegins
  <2>2. \A content \in disk : Begins(content.batches, file'.batches)
    BY <1>1, <1>2, <2>1 DEF Begins
  <2>3. Begins(file'.batches, file'.batches)
    BY <1>1, <1>2 DEF Begins
  <2>4. PICK least \in disk : \A content \in disk :
           Len(least.batches) <= Len(content.batches)
    BY DEF StoreInv, DiskBegins
  <2>5. Len(least.batches) <= Len(file'.batches)
    BY <1>1, <1>2, <2>1 DEF Begins
  <2> QED BY <1>1, <2>2, <2>3, <2>4, <2>5 DEF DiskBegins
<1>8. IdsUsed'
  <2>1. \A i \in 1 .. Len(file.batches) + 1 : file'.batches[i].id < nextBatch
    BY <1>1, <1>2 DEF StoreInv, IdsUsed, Begins
  <2> QED BY <1>1, <2>1 DEF Rename, IdsUsed
<1>9. \A q \in Process : Coherent(q)'
  <2>1. \A q \in Process : q # p => step'[q] = "idle"
    BY OthersIdle DEF Rename, StoreInv, TypeOK
  <2>2. /\ step'[p] = "renamed" /\ tmp'[p].batches = file'.batches
        /\ Len(file'.batches) > 0
    BY <1>1, <1>2 DEF Rename, StoreInv, TypeOK
  <2> QED BY <2>1, <2>2 DEF Coherent
<1> QED BY <1>3, <1>4, <1>5, <1>6, <1>7, <1>8, <1>9 DEF StoreInv

LEMMA SyncDirPreserves ==
    ASSUME StoreInv, NEW p \in Process, SyncDir(p)
    PROVE  StoreInv'
<1>1. /\ file \in disk /\ file' = file /\ disk' = {file}
      /\ file.batches \in Seq(Batch) /\ Len(file.batches) \in Nat
      /\ tmp[p].batches = file.batches /\ Len(file.batches) > 0
      /\ step[p] = "renamed"
  BY LenProperties DEF StoreInv, TypeOK, Content, Coherent, SyncDir
<1>2. TypeOK'
  <2>1. view' \in [Process -> Seq(Batch)]
    BY <1>1 DEF SyncDir, StoreInv, TypeOK
  <2> QED BY <1>1, <2>1 DEF SyncDir, StoreInv, TypeOK, Step
<1>3. LogWhole' /\ Serialized' /\ AckedSurvive'
  BY <1>1 DEF SyncDir, StoreInv, LogWhole, Serialized, AckedSurvive
<1>4. DiskBegins'
  BY <1>1 DEF DiskBegins, Begins
<1>5. IdsUsed'
  BY <1>1 DEF SyncDir, StoreInv, IdsUsed
<1>6. \A q \in Process : Coherent(q)'
  <2>1. \A q \in Process : q # p => step'[q] = "idle"
    BY <1>1, OthersIdle DEF SyncDir, StoreInv, TypeOK
  <2>2. /\ step'[p] \in {"repaired", "appended"}
        /\ view'[p] = file'.batches /\ tmp'[p].batches = file'.batches
    BY <1>1 DEF SyncDir, StoreInv, TypeOK
  <2> QED BY <1>1, <2>1, <2>2 DEF Coherent
<1> QED BY <1>2, <1>3, <1>4, <1>5, <1>6 DEF StoreInv

LEMMA FinishPreserves ==
    ASSUME StoreInv, NEW p \in Process, Finish(p)
    PROVE  StoreInv'
<1>1. /\ tmp[p].batches = file.batches /\ disk = {file}
      /\ step[p] = "appended" /\ UNCHANGED <<file, disk, nextBatch>>
  BY DEF StoreInv, Coherent, Finish
<1>2. Mine(p).id \in Id /\ Mine(p).id \in IdsIn(file.batches)
  <2>1. /\ file.batches \in Seq(Batch) /\ Len(file.batches) \in Nat \ {0}
        /\ Mine(p).id \in Id
    BY <1>1, MineTyped
  <2>2. DOMAIN file.batches = 1 .. Len(file.batches)
    BY <2>1, LenProperties
  <2> QED BY <1>1, <2>1, <2>2 DEF Mine, IdsIn
<1>3. TypeOK'
  BY <1>1, <1>2, ReturnCoherent DEF Finish, StoreInv, TypeOK
<1>4. LogWhole' /\ Serialized' /\ DiskBegins' /\ IdsUsed'
  BY <1>1 DEF StoreInv, LogWhole, Serialized, DiskBegins, IdsUsed
<1>5. AckedSurvive'
  BY <1>1, <1>2 DEF Finish, StoreInv, AckedSurvive
<1>6. \A q \in Process : Coherent(q)'
  BY <1>1, ReturnCoherent DEF Finish
<1> QED BY <1>3, <1>4, <1>5, <1>6 DEF StoreInv

LEMMA PowerFailurePreserves ==
    ASSUME StoreInv, PowerFailure
    PROVE  StoreInv'
<1>1. PICK content \in disk : file' = content /\ disk' = {content}
  BY DEF PowerFailure
<1>2. /\ content \in Content /\ Begins(content.batches, file.batches)
      /\ Len(content.batches) \in Nat /\ Len(file.batches) \in Nat
  <2>1. content \in Content /\ file \in Content
    BY DEF StoreInv, TypeOK
  <2>2. content.batches \in Seq(Batch) /\ file.batches \in Seq(Batch)
    BY <2>1 DEF Content
  <2> QED BY <2>1, <2>2, LenProperties DEF StoreInv, DiskBegins
<1>3. TypeOK'
  <2>1. <<>> \in Seq(Batch) /\ NoTemp \in Temp
    BY EmptySeq DEF NoTemp, Temp
  <2> QED BY <1>1, <1>2, <2>1 DEF PowerFailure, StoreInv, TypeOK, Step
<1>4. LogWhole' /\ Serialized' /\ AckedSurvive'
  BY <1>1 DEF PowerFailure, StoreInv, LogWhole, Serialized, AckedSurvive
<1>5. DiskBegins'
  BY <1>1, <1>2 DEF DiskBegins, Begins
<1>6. IdsUsed'
  <2>1. \A i \in 1 .. Len(content.batches) : content.batches[i].id < nextBatch
    BY <1>2 DEF StoreInv, IdsUsed, Begins
  <2> QED BY <1>1, <2>1 DEF PowerFailure, IdsUsed
<1>7. \A q \in Process : Coherent(q)'
  BY DEF PowerFailure, Coherent
<1> QED BY <1>3, <1>4, <1>5, <1>6, <1>7 DEF StoreInv

LEMMA StepStore == StoreInv /\ [Next]_vars => StoreInv'
<1> SUFFICES ASSUME StoreInv, [Next]_vars PROVE StoreInv'
  OBVIOUS
<1>1. CASE PowerFailure
  BY <1>1, PowerFailurePreserves
<1>2. ASSUME NEW p \in Process, Transaction(p) PROVE StoreInv'
  <2>1. CASE Acquire(p) \/ Replay(p)
    BY <2>1, BeginPreserves
  <2>2. CASE EndWithoutEvents(p)
    BY <2>2, EndPreserves DEF EndWithoutEvents, StoreInv, TypeOK
  <2>3. CASE \E what \in {"repair", "body"} : Write(p, what)
    BY <2>3, WritePreserves
  <2>4. CASE Sync(p)
    BY <2>4, SyncPreserves
  <2>5. CASE FailToWrite(p) \/ FailToSyncDir(p) \/ FailToBind(p)
    <3>1. /\ step[p] \in {"written", "synced", "renamed", "appended"}
          /\ Refuse(p) /\ Return(p)
          /\ UNCHANGED <<file, disk, nextBatch, acked>>
      BY <2>5 DEF FailToWrite, FailToSyncDir, FailToBind
    <3>2. refused' \subseteq Id
      BY <3>1, MineTyped DEF Refuse, StoreInv, TypeOK
    <3> QED BY <3>1, <3>2, EndPreserves
  <2>6. CASE Rename(p)
    BY <2>6, RenamePreserves
  <2>7. CASE SyncDir(p)
    BY <2>7, SyncDirPreserves
  <2>8. CASE Finish(p)
    BY <2>8, FinishPreserves
  <2> QED BY <1>2, <2>1, <2>2, <2>3, <2>4, <2>5, <2>6, <2>7, <2>8
          DEF Transaction
<1>3. ASSUME NEW p \in Process, Kill(p) PROVE StoreInv'
  BY <1>3, EndPreserves DEF Kill, StoreInv, TypeOK
<1>4. CASE UNCHANGED vars
  <2>1. TypeOK' /\ LogWhole' /\ Serialized' /\ AckedSurvive' /\ DiskBegins'
    BY <1>4 DEF vars, StoreInv, TypeOK, LogWhole, Serialized, AckedSurvive,
                DiskBegins
  <2>2. IdsUsed'
    BY <1>4 DEF vars, StoreInv, IdsUsed
  <2>3. ASSUME NEW p \in Process PROVE Coherent(p)'
    <3>1. UNCHANGED <<file, disk, tmp, step, view, nextBatch>>
      BY <1>4 DEF vars
    <3>2. Coherent(p)
      BY DEF StoreInv
    <3>3. UNCHANGED Ids(file.batches)
      BY <3>1 DEF Ids
    <3> QED BY <3>1, <3>2, <3>3 DEF Coherent
  <2> QED BY <2>1, <2>2, <2>3 DEF StoreInv
<1> QED BY <1>1, <1>2, <1>3, <1>4 DEF Next

-----------------------------------------------------------------------------
(* The theorems *)

\* The invariant of the store, from which the others follow.
THEOREM StoreInvariant == Spec => []StoreInv
BY InitStore, StepStore, PTL DEF Spec

\* Every variable keeps its type, and only the holder of the lock is in a
\* transaction (WithStore holds it from replay to append).
THEOREM StoreTyped == Spec => []TypeOK
<1>1. StoreInv => TypeOK
  BY DEF StoreInv
<1> QED BY <1>1, StoreInvariant, PTL

\* Each batch was decided on exactly the batches before it: AppendAt continues
\* the log its own transaction has replayed.
THEOREM TransactionsAreSerial == Spec => []Serialized
<1>1. StoreInv => Serialized
  BY DEF StoreInv
<1> QED BY <1>1, StoreInvariant, PTL

\* writeFileAtomically never leaves a torn log, wherever it is cut off.
THEOREM LogIsWhole == Spec => []LogWhole
<1>1. StoreInv => LogWhole
  BY DEF StoreInv
<1> QED BY <1>1, StoreInvariant, PTL

\* What WithStore reported as committed survives every crash.
THEOREM AcknowledgedSurvives == Spec => []AckedSurvive
<1>1. StoreInv => AckedSurvive
  BY DEF StoreInv
<1> QED BY <1>1, StoreInvariant, PTL

-----------------------------------------------------------------------------
(* The refinement *)

LEMMA ShortestIs ==
    ASSUME NEW contents, NEW least \in contents,
           \A content \in contents : Len(content.batches) \in Nat,
           \A content \in contents : Len(least.batches) <= Len(content.batches)
    PROVE  Shortest(contents) = Len(least.batches)
<1> DEFINE lens == {Len(content.batches) : content \in contents}
           P(n) == \A content \in contents : n <= Len(content.batches)
<1>1. Len(least.batches) \in lens /\ P(Len(least.batches))
  OBVIOUS
<1>2. \A n \in lens : P(n) => n = Len(least.batches)
  OBVIOUS
<1> QED BY <1>1, <1>2 DEF Shortest

LEMMA ShortestOfOne ==
    ASSUME NEW content, Len(content.batches) \in Nat
    PROVE  Shortest({content}) = Len(content.batches)
<1> DEFINE contents == {content}
<1>1. /\ content \in contents
      /\ \A other \in contents : other = content
  OBVIOUS
<1>2. \A other \in contents : Len(other.batches) \in Nat
  BY <1>1
<1>3. \A other \in contents : Len(content.batches) <= Len(other.batches)
  BY <1>1
<1> HIDE DEF contents
<1>4. Shortest(contents) = Len(content.batches)
  BY <1>1, <1>2, <1>3, ShortestIs
<1> QED BY <1>4 DEF contents

LEMMA BeginningIsSubSeq ==
    ASSUME NEW s \in Seq(Batch), NEW t \in Seq(Batch), Begins(s, t)
    PROVE  s = SubSeq(t, 1, Len(s))
<1>1. /\ Len(s) \in Nat /\ Len(t) \in Nat /\ Len(s) <= Len(t)
      /\ \A i \in 1 .. Len(s) : s[i] = t[i]
  BY LenProperties DEF Begins
<1>2. /\ SubSeq(t, 1, Len(s)) \in Seq(Batch)
      /\ Len(SubSeq(t, 1, Len(s))) = Len(s)
      /\ \A i \in 1 .. Len(s) : SubSeq(t, 1, Len(s))[i] = t[i]
  BY <1>1
<1> QED BY <1>1, <1>2, SeqEqual

\* The store's steps, as AtomicLog sees them.
LEMMA DiskLens ==
    ASSUME StoreInv
    PROVE  /\ \A content \in disk : /\ content.batches \in Seq(Batch)
                                    /\ Len(content.batches) \in Nat
           /\ file \in disk
           /\ \E least \in disk :
                 /\ Shortest(disk) = Len(least.batches)
                 /\ \A content \in disk :
                       Len(least.batches) <= Len(content.batches)
<1>1. \A content \in disk : content.batches \in Seq(Batch)
  BY DEF StoreInv, TypeOK, Content
<1>2. \A content \in disk : Len(content.batches) \in Nat
  BY <1>1, LenProperties
<1>3. PICK least \in disk : \A content \in disk :
         Len(least.batches) <= Len(content.batches)
  BY DEF StoreInv, DiskBegins
<1>4. Shortest(disk) = Len(least.batches)
  BY <1>2, <1>3, ShortestIs
<1> QED BY <1>1, <1>2, <1>3, <1>4 DEF StoreInv, TypeOK

LEMMA InitLog == Init => Log!Init
<1> SUFFICES ASSUME Init PROVE Log!Init
  OBVIOUS
<1>1. disk = {Empty} /\ Len(Empty.batches) = 0 /\ file = Empty
  BY DEF Init, Empty
<1>2. Shortest(disk) = 0
  <2>1. Len(Empty.batches) \in Nat
    BY <1>1
  <2>2. Shortest({Empty}) = Len(Empty.batches)
    BY <2>1, ShortestOfOne
  <2> QED BY <1>1, <2>2
<1> QED BY <1>1, <1>2 DEF Init, Log!Init, Empty

LEMMA RenameIsAppend ==
    ASSUME StoreInv, StoreInv', NEW p \in Process, Rename(p)
    PROVE  Log!AppendBatch
<1>1. PICK id \in Id :
         LET b == [id |-> id, saw |-> Ids(file.batches)] IN
         /\ \A i \in 1 .. Len(file.batches) : file.batches[i].id # id
         /\ file' = [batches |-> Append(file.batches, b), whole |-> TRUE]
         /\ disk' = disk \cup {file'}
         /\ Len(file'.batches) = Len(file.batches) + 1
  BY RenameAppends
<1>2. PICK least \in disk :
         /\ Shortest(disk) = Len(least.batches)
         /\ \A content \in disk : Len(least.batches) <= Len(content.batches)
  BY DiskLens
<1>3. Shortest(disk') = Len(least.batches)
  <2>1. \A content \in disk' : Len(content.batches) \in Nat
    BY DiskLens, <1>1
  <2>2. Len(least.batches) <= Len(file'.batches)
    BY <1>1, <1>2, DiskLens
  <2>3. \A content \in disk' : Len(least.batches) <= Len(content.batches)
    BY <1>1, <1>2, <2>2
  <2> QED BY <1>1, <2>1, <2>3, ShortestIs
<1>4. DOMAIN file.batches = 1 .. Len(file.batches)
  BY DiskLens, LenProperties
<1>5. Log!Ids(file.batches) = Ids(file.batches)
  BY DEF Log!Ids, Ids
<1>6. acked' = acked
  BY DEF Rename
<1>7. file'.batches =
         Append(file.batches, [id |-> id, saw |-> Log!Ids(file.batches)])
  BY <1>1, <1>5
<1>8. Shortest(disk)' = Shortest(disk)
  BY <1>2, <1>3 DEF Shortest
<1> QED BY <1>1, <1>4, <1>6, <1>7, <1>8 DEF Log!AppendBatch

LEMMA FinishIsAnswer ==
    ASSUME StoreInv, NEW p \in Process, Finish(p)
    PROVE  Log!Answer
<1>1. /\ tmp[p].batches = file.batches /\ disk = {file}
      /\ Len(file.batches) > 0 /\ UNCHANGED <<file, disk>>
      /\ acked' = acked \cup {Mine(p).id}
  BY DEF StoreInv, Coherent, Finish
<1>2. Len(file.batches) \in Nat /\ Shortest(disk) = Len(file.batches)
  BY <1>1, DiskLens
<1>3. Mine(p) = file.batches[Len(file.batches)]
  BY <1>1 DEF Mine
<1>4. Len(file.batches) \in 1 .. Shortest(disk)
  BY <1>1, <1>2
<1>5. Shortest(disk)' = Shortest(disk)
  BY <1>1 DEF Shortest
<1> QED BY <1>1, <1>3, <1>4, <1>5 DEF Log!Answer

LEMMA PowerFailureIsLose ==
    ASSUME StoreInv, PowerFailure
    PROVE  Log!Lose
<1>1. PICK content \in disk : file' = content /\ disk' = {content}
  BY DEF PowerFailure
<1>2. /\ Begins(content.batches, file.batches)
      /\ content.batches \in Seq(Batch) /\ file.batches \in Seq(Batch)
      /\ Len(content.batches) \in Nat /\ Len(file.batches) \in Nat
      /\ Shortest(disk) \in Nat /\ Shortest(disk) <= Len(content.batches)
  BY <1>1, DiskLens DEF StoreInv, DiskBegins
<1>3. content.batches = SubSeq(file.batches, 1, Len(content.batches))
  BY <1>2, BeginningIsSubSeq
<1>4. Len(content.batches) \in Shortest(disk) .. Len(file.batches)
  BY <1>2 DEF Begins
<1>5. Shortest(disk') = Len(content.batches)
  BY <1>1, <1>2, ShortestOfOne
<1>6. Shortest(disk)' = Len(content.batches)
  BY <1>5 DEF Shortest
<1> QED BY <1>1, <1>3, <1>4, <1>6 DEF Log!Lose, PowerFailure

LEMMA StepLog == StoreInv /\ StoreInv' /\ [Next]_vars => [Log!Next]_Log!vars
<1> SUFFICES ASSUME StoreInv, StoreInv', [Next]_vars
             PROVE  [Log!Next]_Log!vars
  OBVIOUS
<1>1. CASE PowerFailure
  BY <1>1, PowerFailureIsLose DEF Log!Next
<1>2. CASE UNCHANGED <<file, disk, acked>>
  <2>1. Shortest(disk)' = Shortest(disk)
    BY <1>2 DEF Shortest
  <2> QED BY <1>2, <2>1 DEF Log!vars
<1>3. ASSUME NEW p \in Process, Transaction(p) PROVE [Log!Next]_Log!vars
  <2>1. CASE Rename(p)
    BY <2>1, RenameIsAppend DEF Log!Next
  <2>2. CASE SyncDir(p)
    <3>1. file' = file /\ disk' = {file} /\ acked' = acked
      BY <2>2 DEF SyncDir
    <3>2. Shortest({file}) = Len(file.batches)
      BY DiskLens, ShortestOfOne
    <3>3. Shortest(disk)' = Len(file.batches)
      BY <3>1, <3>2 DEF Shortest
    <3> QED BY <3>1, <3>3 DEF Log!Next, Log!Keep
  <2>3. CASE Finish(p)
    BY <2>3, FinishIsAnswer DEF Log!Next
  <2>4. CASE ~(Rename(p) \/ SyncDir(p) \/ Finish(p))
    <3>1. UNCHANGED <<file, disk, acked>>
      BY <1>3, <2>4
      DEF Transaction, Acquire, Replay, EndWithoutEvents, Write, Sync,
          FailToWrite, FailToSyncDir, FailToBind
    <3> QED BY <1>2, <3>1
  <2> QED BY <2>1, <2>2, <2>3, <2>4
<1>4. ASSUME NEW p \in Process, Kill(p) PROVE [Log!Next]_Log!vars
  BY <1>2, <1>4 DEF Kill
<1>5. CASE UNCHANGED vars
  BY <1>2, <1>5 DEF vars
<1> QED BY <1>1, <1>3, <1>4, <1>5 DEF Next

\* The store implements AtomicLog: for the rest of the program a transaction
\* is one step, however many processes there are and wherever they are cut off.
THEOREM LogKept == Spec => KeepsLog
BY InitLog, StepLog, StoreInvariant, PTL DEF Spec, KeepsLog, Log!Spec
=============================================================================
