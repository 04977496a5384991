CONSTANTS
    p = p  sp = sp
    root = root  sub = sub
    File = {p, sp}
    Version = {0, 1, 2}
    Absent = 0
    NoFile = NoFile  NoDir = NoDir
    Dir = {root, sub}
    Root = root
    Resolve <- Names
    Branch = {b1, b2}
    Label = {l1, l2}
    Envelopes <- SomeEnvelopes
    Histories <- SomeHistories
    Checks = 2
    MaxCommit = 2
    MaxStore = 3
    MaxRunSet = 1
    MaxTouch = 2
SYMMETRY Alike
SPECIFICATION Spec
INVARIANTS
    TypeOK
    PrivateUnchanged
    SharedDriftDisclosed
    ScopedSameUnderHead
    RunSetsOfOneCheckout
    RefusalsHaveCause
CHECK_DEADLOCK FALSE
