CONSTANTS
    t1 = t1
    t2 = t2
    t3 = t3
    Txs = {t1, t2, t3}
    Paths = {1, 2}
    Values = {"old", "a"}
    Existing = {1}
    Old = "old"
    Absent = Absent
    NoIntent = NoIntent
    NoTx = NoTx
    NoJournal = NoJournal
    Scripts <- MCTwoEdits
    Overlap = TRUE
    Faults = {"recover", "restore"}
    MaxFaults = 1
    MaxDeaths = 1
    MaxForeign = 0
SPECIFICATION Spec
INVARIANTS
    Isolation
    FailedRollbackJournaled
SYMMETRY MCSymmetry
CHECK_DEADLOCK FALSE
