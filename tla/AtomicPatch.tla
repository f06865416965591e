----------------------------- MODULE AtomicPatch -----------------------------
(***************************************************************************)
(* The executor of atomic patch envelopes (formats/atomic-patch.ts) with   *)
(* the undo entries without a version it keeps (undo/edit-history.ts).     *)
(* One call takes an envelope through validation, snapshot, application    *)
(* and, after a failure, rollback.  A text is a sequence of tokens.        *)
(***************************************************************************)
EXTENDS Naturals, Sequences, SequencesExt, FiniteSets, FiniteSetsExt

CONSTANTS
  AtomicPaths, Missing,
  Trees,          \* what the files may hold when a call begins
  Envelopes,      \* sequences of operations [kind, path, to, text, patches]
  MaxAttempts,    \* maxAttemptsPerFile
  MaxOpFaults     \* bound: filesystem calls that fail

VARIABLES
  contents,       \* what each path holds
  entries,        \* the undo entries of each path, oldest first
  executor,       \* the call of applyAtomicPatch
  before,         \* ghost: the files when the call began
  opFaults        \* how much of MaxOpFaults is used
avars == <<contents, entries, executor, before, opFaults>>

OpFault == opFaults < MaxOpFaults /\ opFaults' = opFaults + 1
IsThere(p) == contents[p] # Missing

-----------------------------------------------------------------------------
(* Phase 1: the files an operation needs are there, the ones it makes are  *)
(* not.  An update that moves is checked at the place it moves to.         *)
ValidOp(op, force) ==
  CASE op.kind = "add"    -> force \/ ~IsThere(op.path)
    [] op.kind = "delete" -> IsThere(op.path)
    [] op.kind = "update" -> IsThere(op.to)
    [] op.kind = "rename" -> IsThere(op.path) /\ ~IsThere(op.to)

(* Phase 2: the files whose content is saved.                              *)
Affected(ops, force) == {op.path : op \in {o \in ToSet(ops) : o.kind # "add" \/ force}}

Statuses(ops, status) == [i \in DOMAIN ops |-> status]

BeginEnvelope(ops, force, skipUndo) ==
  /\ executor.at = "idle"
  /\ IF \A i \in DOMAIN ops : ValidOp(ops[i], force)
     THEN executor' = [executor EXCEPT !.ops = ops, !.at = "save",
                               !.snapshot = ~skipUndo, !.todo = IF skipUndo THEN {} ELSE Affected(ops, force)]
     ELSE executor' = [executor EXCEPT !.ops = ops, !.status = Statuses(ops, "failed"), !.at = "end"]
  /\ before' = contents
  /\ UNCHANGED <<contents, entries, opFaults>>

(* saveUndoState never throws: an entry that cannot be written is missing. *)
Save ==
  /\ executor.at = "save" /\ executor.todo # {}
  /\ LET p == CHOOSE q \in executor.todo : TRUE IN
       /\ \/ /\ entries' = IF IsThere(p) THEN [entries EXCEPT ![p] = Append(@, contents[p])] ELSE entries
             /\ UNCHANGED opFaults
          \/ OpFault /\ UNCHANGED entries
       /\ executor' = [executor EXCEPT !.todo = @ \ {p}]
  /\ UNCHANGED <<contents, before>>

Saved ==
  /\ executor.at = "save" /\ executor.todo = {}
  /\ executor' = [executor EXCEPT !.at = "apply"]
  /\ UNCHANGED <<contents, entries, before, opFaults>>

-----------------------------------------------------------------------------
(* applySingleOperation.                                                   *)
PlacesOf(text, old) == {i \in 1..(Len(text) - Len(old) + 1) : SubSeq(text, i, i + Len(old) - 1) = old}
NotFound == <<"not found">>

(* The first place of the old text takes the new one.                      *)
Replaced(text, patch) ==
  IF text = NotFound \/ PlacesOf(text, patch.old) = {} THEN NotFound
  ELSE LET at == Min(PlacesOf(text, patch.old))
       IN SubSeq(text, 1, at - 1) \o patch.new \o SubSeq(text, at + Len(patch.old), Len(text))

(* Bug: every patch of a file is applied to what the file held.            *)
BugPatched(op, text) == Replaced(text, Last(op.patches))

Patched(op, text) == FoldLeft(Replaced, text, op.patches)

OpPossible(op) ==
  CASE op.kind = "add"    -> TRUE
    [] op.kind = "update" -> IsThere(op.to) /\ Patched(op, contents[op.to]) # NotFound
    [] OTHER              -> IsThere(op.path)

(* An update that moves patches what its target holds and then removes the *)
(* file it is named for, unless that fails, which nobody hears of.         *)
Effect(tree, op) ==
  [p \in AtomicPaths |->
     CASE op.kind = "add" /\ p = op.path    -> op.text
       [] op.kind = "update" /\ p = op.to   -> Patched(op, tree[p])
       [] op.kind = "rename" /\ p = op.to   -> tree[op.path]
       [] op.kind = "delete" /\ p = op.path -> Missing
       [] op.kind \in {"update", "rename"} /\ p = op.path /\ p # op.to -> Missing
       [] OTHER                             -> tree[p]]

Current == executor.ops[Len(executor.status) + 1]

ApplyOp ==
  /\ executor.at = "apply"
  /\ OpPossible(Current)
  /\ \/ contents' = Effect(contents, Current) /\ UNCHANGED opFaults
     \/ /\ Current.kind = "update" /\ Current.to # Current.path /\ OpFault
        /\ contents' = [Effect(contents, Current) EXCEPT ![Current.path] = contents[Current.path]]
  /\ executor' = [executor EXCEPT !.status = Append(@, "applied"), !.tries = 0,
                          !.at = IF Len(executor.status) + 1 = Len(executor.ops) THEN "end" ELSE "apply"]
  /\ UNCHANGED <<entries, before>>

(* A failing operation is tried again, then everything before it is to be  *)
(* rolled back and the rest is skipped.                                    *)
ApplyOpFails ==
  /\ executor.at = "apply"
  /\ (~OpPossible(Current) /\ UNCHANGED opFaults) \/ OpFault
  /\ LET n == Len(executor.status) + 1 IN
     IF executor.tries + 1 < MaxAttempts THEN executor' = [executor EXCEPT !.tries = @ + 1]
     ELSE executor' = [executor EXCEPT
            !.at = IF n = 1 THEN "end" ELSE "rollback",
            !.undone = n,
            !.status = [i \in DOMAIN executor.ops |->
                          IF i < n THEN "rolled_back" ELSE IF i = n THEN "failed" ELSE "skipped"]]
  /\ UNCHANGED <<contents, entries, before>>

-----------------------------------------------------------------------------
(* validateSingleUndoGuard: an entry without a version fits a file that    *)
(* holds what it held when the entry was saved.                            *)
EntryFits(p) == entries[p] # <<>> /\ contents[p] = Last(entries[p])

(* restoreUndoState, which returns false when the entry does not fit, to a *)
(* caller that does not look.                                              *)
RestoreEntry(p) ==
  IF EntryFits(p)
  THEN /\ contents' = [contents EXCEPT ![p] = Last(entries[p])]
       /\ entries' = [entries EXCEPT ![p] = Front(@)]
  ELSE UNCHANGED <<contents, entries>>

(* rollbackSingleOperation, the last applied operation first: a file that  *)
(* was added is unlinked, whatever its path held before.                   *)
RollbackOp ==
  LET op == executor.ops[executor.undone - 1] IN
  /\ executor.at = "rollback"
  /\ \/ /\ IF op.kind = "add" THEN contents' = [contents EXCEPT ![op.path] = Missing] /\ UNCHANGED entries
           ELSE RestoreEntry(op.path)
        /\ UNCHANGED opFaults
     \/ OpFault /\ UNCHANGED <<contents, entries>>
  /\ executor' = [executor EXCEPT !.rolledBack = Append(@, op.path), !.undone = @ - 1,
                          !.at = IF executor.undone = 2 THEN "end" ELSE "rollback"]
  /\ UNCHANGED before

AtomicInit ==
  /\ contents \in Trees
  /\ entries = [p \in AtomicPaths |-> <<>>]
  /\ executor = [at |-> "idle", ops |-> <<>>, todo |-> {}, snapshot |-> FALSE, tries |-> 0, undone |-> 0,
             status |-> <<>>, rolledBack |-> <<>>]
  /\ before = contents
  /\ opFaults = 0

AtomicNext ==
  \/ \E ops \in Envelopes, force, skipUndo \in BOOLEAN : BeginEnvelope(ops, force, skipUndo)
  \/ Save \/ Saved \/ ApplyOp \/ ApplyOpFails \/ RollbackOp

AtomicSpec == AtomicInit /\ [][AtomicNext]_avars

-----------------------------------------------------------------------------
Ended == executor.at = "end"
Success == \A i \in DOMAIN executor.status : executor.status[i] = "applied"

(* What an operation means, on any tree: an update changes every place its *)
(* patches name, each patch in the text the one before it left.            *)
Meant(tree, op) ==
  CASE op.kind = "add"    -> [tree EXCEPT ![op.path] = op.text]
    [] op.kind = "delete" -> [tree EXCEPT ![op.path] = Missing]
    [] op.kind = "rename" -> [tree EXCEPT ![op.to] = tree[op.path], ![op.path] = Missing]
    [] op.kind = "update" -> [tree EXCEPT ![op.path] = FoldLeft(Replaced, @, op.patches)]

(* The order of atomic-patch.ts:477: "Add, then Delete, then Update, then  *)
(* Rename".                                                                *)
ByKind(ops) ==
  LET of(kind) == SelectSeq(ops, LAMBDA op : op.kind = kind)
  IN of("add") \o of("delete") \o of("update") \o of("rename")

(* A call that reports success has applied every operation of the envelope *)
(* exactly once, whatever was tried again on the way, in the order of the  *)
(* envelope or in the one atomic-patch.ts:477 names (the code goes by the  *)
(* envelope; where the two give different files, which was meant is left   *)
(* open); one whose first operation failed, or whose envelope is not valid,*)
(* has changed nothing.  An update that moves patches another file than    *)
(* the one it names (atomic-patch.ts:738), and is left out.                *)
SuccessIsWhole ==
  Ended /\ (\A i \in DOMAIN executor.ops : executor.ops[i].kind = "update" => executor.ops[i].to = executor.ops[i].path) =>
    /\ Success => contents \in {FoldLeft(Meant, before, executor.ops), FoldLeft(Meant, before, ByKind(executor.ops))}
    /\ executor.status[1] = "failed" => contents = before

(* "On failure, all applied operations are rolled back"                    *)
(* (atomic-patch.ts:808): a call that took its snapshot and fails leaves    *)
(* the files as they were.                                                 *)
FailedPatchChangesNothing == Ended /\ ~Success /\ executor.snapshot => contents = before
=============================================================================
