CONSTANTS
    t1 = t1
    t2 = t2
    Txs = {t1, t2}
    Paths = {1, 2}
    Values = {"old", "a"}
    Existing = {1}
    Old = "old"
    Absent = Absent
    NoIntent = NoIntent
    NoTx = NoTx
    NoJournal = NoJournal
    Scripts <- MCEditAndRename
    Overlap = FALSE
    Faults = {}
    MaxFaults = 0
    MaxDeaths = 1
    MaxForeign = 0
SPECIFICATION Spec
PROPERTIES
    QuarantineOnlyForeign
CHECK_DEADLOCK FALSE
