CONSTANTS
    e1 = e1
    u1 = u1
    Edits = {e1}
    Undoers = {u1}
    Paths = {1, 2, 3}
    Values = {"old", "a", "b"}
    Existing = {1, 2}
    Old = "old"
    Absent = Absent
    NoTransaction = NoTransaction
    Scripts <- MCEditAndRename
    MaxFaults = 0
SPECIFICATION UndoSpec
PROPERTIES
    UndoRestores
CHECK_DEADLOCK FALSE
