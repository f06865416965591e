CONSTANTS
    Parts = {"file"}
    p1 = p1
    p2 = p2
    p3 = p3
    Procs = {p1, p2, p3}
    MaxCrashes = 1
    SlowWrites = FALSE
    NoFile = NoFile
    t1 = t1
    t2 = t2
    t3 = t3
    s1 = s1
    Txs = {t1, t2, t3}
    Scans = {s1}
    Processes = {p1, p2}
    ProcessOf <- MCProcessOf
    Keys = {1, 2}
    Requests <- MCRequests
    Nobody = Nobody
SPECIFICATION MCSpec
INVARIANTS
    MutualExclusion
SYMMETRY MCSymmetry
