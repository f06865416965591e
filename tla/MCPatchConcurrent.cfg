CONSTANTS
    t1 = t1
    t2 = t2
    Txs = {t1, t2}
    Paths = {1, 2}
    Values = {"old", "a", "b"}
    Existing = {1}
    Old = "old"
    Absent = Absent
    NoIntent = NoIntent
    NoTx = NoTx
    NoJournal = NoJournal
    Scripts <- MCScripts
    Overlap = TRUE
    Faults = {"begin", "prepare", "intent", "apply", "mark"}
    MaxFaults = 2
    MaxDeaths = 0
    MaxForeign = 1
SPECIFICATION FairSpec
PROPERTIES
    AllOrNothing
    TransactionEnds
CHECK_DEADLOCK FALSE
