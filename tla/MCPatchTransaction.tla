------------------------- MODULE MCPatchTransaction -------------------------
(* Model-checking instances of PatchTransaction: two files and contents    *)
(* told apart only by who wrote them.                                      *)
EXTENDS PatchTransaction, TLC

WriteOp(p, v) == [op |-> "write", path |-> p, to |-> p, value |-> v]
RemoveOp(p) == [op |-> "remove", path |-> p, to |-> p, value |-> Old]
RenameOp(p, q) == [op |-> "rename", path |-> p, to |-> q, value |-> Old]

(* One of each: an edit of two files (which creates one that is missing),  *)
(* an edit of one, a removal, a rename.                                    *)
MCScripts ==
    {<<WriteOp(1, "a"), WriteOp(2, "a")>>, <<WriteOp(2, "b")>>,
     <<RemoveOp(1), WriteOp(2, "a")>>, <<RenameOp(1, 2)>>}

(* An edit of two files and one of the second.                             *)
MCTwoEdits == {<<WriteOp(1, "a"), WriteOp(2, "a")>>, <<WriteOp(2, Old)>>}

(* One group that edits a file and renames it.                             *)
MCEditAndRename == {<<WriteOp(1, "a"), RenameOp(1, 2)>>}

MCSymmetry == Permutations(Txs)

=============================================================================
