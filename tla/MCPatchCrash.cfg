CONSTANTS
    t1 = t1
    t2 = t2
    t3 = t3
    Txs = {t1, t2, t3}
    Paths = {1, 2}
    Values = {"old", "a", "b"}
    Existing = {1}
    Old = "old"
    Absent = Absent
    NoIntent = NoIntent
    NoTx = NoTx
    NoJournal = NoJournal
    Scripts <- MCScripts
    Overlap = FALSE
    Faults = {"prepare", "mark"}
    MaxFaults = 1
    MaxDeaths = 2
    MaxForeign = 0
SPECIFICATION Spec
INVARIANTS
    RecoveryCleansUp
    NoOrphanBytes
PROPERTIES
    AllOrNothing
SYMMETRY MCSymmetry
CHECK_DEADLOCK FALSE
