SPECIFICATION StoreSpec
CONSTANTS
    t1 = t1
    t2 = t2
    o1 = o1
    o2 = o2
    k1 = k1
    k2 = k2
    c1 = c1
    c2 = c2
    l1 = l1
    l2 = l2
    None = None
    Threads = {t1, t2}
    Operations = {o1, o2}
    Keys = {k1, k2}
    Cases = {c1, c2}
    Tables <- MCTables
    Payloads = {l1, l2}
    MaxEvents = 8
    MaxCalls = 3
INVARIANTS
    JournalIsComplete
    SavedIsDurable
SYMMETRY MCSymmetry
CHECK_DEADLOCK FALSE
