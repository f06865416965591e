---------------------------- MODULE MCUndoScenes ----------------------------
(* Transactions over three files, the third created by an edit.            *)
EXTENDS Sequences

WriteOp(p, v) == [op |-> "write", path |-> p, to |-> p, value |-> v]
RemoveOp(p) == [op |-> "remove", path |-> p, to |-> p, value |-> "old"]
RenameOp(p, q) == [op |-> "rename", path |-> p, to |-> q, value |-> "old"]

(* An edit that creates a file too, a removal with an edit, a rename with  *)
(* an edit of another file, a file written twice, one removed and written  *)
(* again.                                                                  *)
MCUndoScripts ==
    {<<WriteOp(1, "a"), WriteOp(3, "a")>>, <<RemoveOp(1), WriteOp(2, "a")>>,
     <<RenameOp(1, 3), WriteOp(2, "b")>>, <<WriteOp(2, "a"), WriteOp(2, "b")>>,
     <<RemoveOp(2), WriteOp(2, "b")>>}

(* A file edited and renamed by one transaction.                           *)
MCEditAndRename == {<<WriteOp(1, "a"), RenameOp(1, 3)>>}
=============================================================================
