---------------------------- MODULE UndoHistory ----------------------------
(***************************************************************************)
(* The undo history: src/src/undo/edit-history.ts, with getUndoRecords of  *)
(* src/src/mutation/edit-transaction.ts, which makes the records.          *)
(*                                                                         *)
(* An edit is a committed transaction (PatchTransaction shows it to be one *)
(* step); its records are computed under its locks and saved after the     *)
(* commit, one file at a time.  A restore takes no lock: it reads the      *)
(* records, checks the files against them, and only then changes the       *)
(* files, one await after the other, while edits and other restores go on. *)
(***************************************************************************)
EXTENDS Naturals, Sequences, FiniteSets, SequencesExt, FiniteSetsExt

CONSTANTS
    Edits,      \* committed transactions
    Undoers,    \* calls of restoreUndoState
    Paths, Values, Existing, Old, Absent,   \* files, as in PatchTransaction
    Scripts,    \* the operation sequences a transaction may carry
    NoTransaction,  \* no transaction
    MaxFaults   \* bound: filesystem calls that fail, saves cut short

VARIABLES
    store,   \* what each path holds
    undo,    \* the files of .smart-edit-undo
    saving,  \* the records each edit has still to save
    order,   \* the committed edits, oldest first (their timestamps)
    pc,      \* where each restore is
    tx,      \* the transaction it undoes
    recs,    \* the records it loaded, in the order of the directory
    left,    \* those it has still to deal with
    back,    \* the paths its rollback has still to put back
    snap,    \* its captureRollbackSnapshot
    pre,     \* ghost: what the files held before each edit,
    post,    \* and after it
    start,   \* ghost: what they held when each restore began
    calm,    \* ghost: has nobody else changed a file since?
    faults   \* how much of MaxFaults is used

restores == <<pc, tx, recs, left, back, snap>>
ghosts == <<pre, post, start, calm>>
uvars == <<store, undo, saving, order, restores, ghosts, faults>>

FileContents == Values \cup {Absent}
Nothing == [p \in Paths |-> Absent]

UndoInit ==
    /\ store = [p \in Paths |-> IF p \in Existing THEN Old ELSE Absent]
    /\ undo = {}
    /\ saving = [e \in Edits |-> <<>>]
    /\ order = <<>>
    /\ pc = [u \in Undoers |-> "idle"]
    /\ tx = [u \in Undoers |-> NoTransaction]
    /\ recs = [u \in Undoers |-> <<>>]
    /\ left = [u \in Undoers |-> <<>>]
    /\ back = [u \in Undoers |-> {}]
    /\ snap = [u \in Undoers |-> Nothing]
    /\ pre = [e \in Edits |-> Nothing]
    /\ post = [e \in Edits |-> Nothing]
    /\ start = [u \in Undoers |-> Nothing]
    /\ calm = [u \in Undoers |-> TRUE]
    /\ faults = 0

Goto(u, loc) == pc' = [pc EXCEPT ![u] = loc]
Underway(u) == pc[u] \notin {"idle", "true", "false"}

(* Somebody changed a file under every other restore that is underway.     *)
Disturb(who) ==
    calm' = [u \in Undoers |-> calm[u] /\ (u = who \/ ~Underway(u))]

Fault == faults < MaxFaults /\ faults' = faults + 1

-----------------------------------------------------------------------------
(* getUndoRecords.                                                         *)

(* The mutations a script leaves behind: a rename records both its names.  *)
Mutation(p, op, from, to) == [path |-> p, op |-> op, from |-> from, to |-> to]

MutationsOf(o, before) ==
    CASE o.op = "write" ->
            <<Mutation(o.path, IF before[o.path] = Absent THEN "add" ELSE "text",
                       o.path, o.path)>>
      [] o.op = "remove" -> <<Mutation(o.path, "delete", o.path, o.path)>>
      [] o.op = "rename" -> <<Mutation(o.path, "rename", o.path, o.to),
                              Mutation(o.to, "rename", o.path, o.to)>>

Mutations(s, before) == FlattenSeq([i \in DOMAIN s |-> MutationsOf(s[i], before)])

(* A rename is recorded under its new name only, and other mutations of a  *)
(* renamed file not at all.                                                *)
Recordable(ms, i) ==
    IF ms[i].op = "rename" THEN ms[i].path = ms[i].to
    ELSE ~\E j \in DOMAIN ms : ms[j].op = "rename" /\ ms[j].from = ms[i].path

(* One record for each path, made from the first mutation of it.           *)
RecordedMutations(ms) ==
    {i \in DOMAIN ms : /\ Recordable(ms, i)
                       /\ ~\E j \in 1..(i - 1) : /\ Recordable(ms, j)
                                                 /\ ms[j].path = ms[i].path}

UndoRecord(e, m, before, after, n) ==
    [tx |-> e, op |-> m.op, path |-> m.path, from |-> m.from,
     before |-> before[m.from], after |-> after[m.path], count |-> n]

Nth(is, k) == CHOOSE i \in is : Cardinality({j \in is : j <= i}) = k
UndoRecords(e, s, before, after) ==
    LET ms == Mutations(s, before)
        is == RecordedMutations(ms) IN
    [k \in 1..Cardinality(is) |-> UndoRecord(e, ms[Nth(is, k)], before, after, Cardinality(is))]

Atomic == INSTANCE AtomicStore WITH
    Txs <- Edits, committed <- Range(order), outside <- 0

Applicable(s) ==
    \A i \in DOMAIN s :
        /\ s[i].op \in {"remove", "rename"} => store[s[i].path] # Absent
        /\ s[i].op = "rename" => store[s[i].to] = Absent
        /\ s[i].op = "write" => store[s[i].path] # s[i].value

(* A transaction commits; its undo records are in memory.                  *)
Commit(e, s) ==
    /\ e \notin Range(order)
    /\ Applicable(s)
    /\ LET after == Atomic!Result(s, store) IN
       /\ store' = after
       /\ post' = [post EXCEPT ![e] = after]
       /\ saving' = [saving EXCEPT ![e] = UndoRecords(e, s, store, after)]
    /\ pre' = [pre EXCEPT ![e] = store]
    /\ order' = Append(order, e)
    /\ Disturb(NoTransaction)
    /\ UNCHANGED <<undo, restores, start, faults>>

(* saveTransactionUndoRecords: one file after the other.                   *)
SaveRecord(e) ==
    /\ saving[e] # <<>>
    /\ undo' = undo \cup {Head(saving[e])}
    /\ saving' = [saving EXCEPT ![e] = Tail(@)]
    /\ UNCHANGED <<store, order, restores, ghosts, faults>>

(* A save fails, or the process dies: the rest is never saved.             *)
SaveStops(e) ==
    /\ saving[e] # <<>>
    /\ Fault
    /\ saving' = [saving EXCEPT ![e] = <<>>]
    /\ UNCHANGED <<store, undo, order, restores, ghosts>>

-----------------------------------------------------------------------------
(* restoreUndoState and restoreTransactionUndoState.                       *)

Position(e) == CHOOSE i \in DOMAIN order : order[i] = e

(* The most recent record of the path names the transaction to undo; one   *)
(* restore can follow another.                                             *)
Pick(u, p) ==
    LET found == {r \in undo : r.path = p} IN
    /\ ~Underway(u)
    /\ found # {}
    /\ \E r \in found :
          /\ \A q \in found : Position(q.tx) <= Position(r.tx)
          /\ tx' = [tx EXCEPT ![u] = r.tx]
    /\ start' = [start EXCEPT ![u] = store]
    /\ calm' = [calm EXCEPT ![u] = TRUE]
    /\ Goto(u, "load")
    /\ UNCHANGED <<store, undo, saving, order, recs, left, back, snap, pre, post, faults>>

(* Bug: a transaction some of whose records are missing is undone in part. *)
BugComplete(rs) == rs # {}

(* checkTransactionCompleteness.                                           *)
Complete(rs) == rs # {} /\ \A r \in rs : r.count = Cardinality(rs)

(* loadTransactionRecords: in the order readdir happens to list them.      *)
Load(u) ==
    LET rs == {r \in undo : r.tx = tx[u]} IN
    /\ pc[u] = "load"
    /\ \E s \in SetToSeqs(rs) :
          /\ recs' = [recs EXCEPT ![u] = s]
          /\ left' = [left EXCEPT ![u] = s]
    /\ Goto(u, IF Complete(rs) THEN "preflight" ELSE "false")
    /\ UNCHANGED <<store, undo, saving, order, tx, back, snap, ghosts, faults>>

(* The file is as the transaction left it, and a rename can go back.       *)
AsLeft(r) ==
    /\ store[r.path] = r.after
    /\ r.op = "rename" => store[r.from] = Absent

(* One record dealt with: on to the next, or from the first one again in   *)
(* the phase that follows.                                                 *)
Advance(u, here, next) ==
    /\ left' = [left EXCEPT ![u] = IF Len(@) = 1 THEN recs[u] ELSE Tail(@)]
    /\ Goto(u, IF Len(left[u]) = 1 THEN next ELSE here)

(* preflightTransactionRecords, one record.                                *)
Preflight(u) ==
    /\ pc[u] = "preflight"
    /\ IF AsLeft(Head(left[u])) THEN Advance(u, "preflight", "capture")
       ELSE Goto(u, "false") /\ UNCHANGED left
    /\ UNCHANGED <<store, undo, saving, order, tx, recs, back, snap, ghosts, faults>>

(* collectTransactionPaths.                                                *)
Touched(rs) == {r.path : r \in Range(rs)} \cup {r.from : r \in Range(rs)}

(* captureRollbackSnapshot.                                                *)
Capture(u) ==
    /\ pc[u] = "capture"
    /\ snap' = [snap EXCEPT ![u] =
           [p \in Paths |-> IF p \in Touched(recs[u]) THEN store[p] ELSE Absent]]
    /\ Goto(u, "apply")
    /\ UNCHANGED <<store, undo, saving, order, tx, recs, left, back, ghosts, faults>>

(* rm and link find the files they need; atomicCreate and link find their  *)
(* target free.                                                            *)
Possible(r) ==
    /\ r.op \in {"add", "rename"} => store[r.path] # Absent
    /\ r.op = "rename" => store[r.from] = Absent
    /\ r.op = "delete" => store[r.path] = Absent

(* applyOneTransactionOp: a created file goes, the others get back what    *)
(* they held.                                                              *)
ApplyRecord(u) ==
    LET r == Head(left[u]) IN
    /\ pc[u] = "apply"
    /\ r.op # "rename"
    /\ Possible(r)
    /\ store' = [store EXCEPT ![r.path] = IF r.op = "add" THEN Absent ELSE r.before]
    /\ Advance(u, "apply", "cleanup")
    /\ Disturb(u)
    /\ UNCHANGED <<undo, saving, order, tx, recs, back, snap, pre, post, start, faults>>

(* A renamed file is linked under its old name, then its new name goes.    *)
LinkBack(u) ==
    LET r == Head(left[u]) IN
    /\ pc[u] = "apply"
    /\ r.op = "rename"
    /\ Possible(r)
    /\ store' = [store EXCEPT ![r.from] = store[r.path]]
    /\ Goto(u, "rmold")
    /\ Disturb(u)
    /\ UNCHANGED <<undo, saving, order, tx, recs, left, back, snap, pre, post, start, faults>>

RemoveNew(u) ==
    LET r == Head(left[u]) IN
    /\ pc[u] = "rmold"
    /\ store[r.path] # Absent
    /\ store' = [store EXCEPT ![r.path] = Absent]
    /\ Advance(u, "apply", "cleanup")
    /\ Disturb(u)
    /\ UNCHANGED <<undo, saving, order, tx, recs, back, snap, pre, post, start, faults>>

(* An operation throws: a file is not as it was found, or the disk fails.  *)
ApplyFails(u) ==
    /\ pc[u] \in {"apply", "rmold"}
    /\ \/ /\ LET r == Head(left[u]) IN
                IF pc[u] = "apply" THEN ~Possible(r) ELSE store[r.path] = Absent
          /\ UNCHANGED faults
       \/ Fault
    /\ back' = [back EXCEPT ![u] = Touched(recs[u])]
    /\ Goto(u, "rollback")
    /\ UNCHANGED <<store, undo, saving, order, tx, recs, left, snap, ghosts>>

(* Bug: a file that was missing at the snapshot is not removed again.      *)
BugRollbackPath(u) ==
    /\ pc[u] = "rollback"
    /\ \E p \in back[u] :
          /\ store' = [store EXCEPT ![p] = IF snap[u][p] = Absent THEN @ ELSE snap[u][p]]
          /\ back' = [back EXCEPT ![u] = @ \ {p}]
          /\ Goto(u, IF back[u] = {p} THEN "false" ELSE "rollback")
    /\ Disturb(u)
    /\ UNCHANGED <<undo, saving, order, tx, recs, left, snap, pre, post, start, faults>>

(* rollbackToSnapshot, one path.                                           *)
RollbackPath(u) ==
    /\ pc[u] = "rollback"
    /\ \E p \in back[u] :
          /\ store' = [store EXCEPT ![p] = snap[u][p]]
          /\ back' = [back EXCEPT ![u] = @ \ {p}]
          /\ Goto(u, IF back[u] = {p} THEN "false" ELSE "rollback")
    /\ Disturb(u)
    /\ UNCHANGED <<undo, saving, order, tx, recs, left, snap, pre, post, start, faults>>

(* Best effort: a path that cannot be put back ends it.                    *)
RollbackFails(u) ==
    /\ pc[u] = "rollback"
    /\ Fault
    /\ back' = [back EXCEPT ![u] = {}]
    /\ Goto(u, "false")
    /\ UNCHANGED <<store, undo, saving, order, tx, recs, left, snap, ghosts>>

(* cleanupTransactionFiles: a record that cannot be unlinked stays.        *)
Cleanup(u) ==
    /\ pc[u] = "cleanup"
    /\ \/ undo' = undo \ {Head(left[u])} /\ UNCHANGED faults
       \/ Fault /\ UNCHANGED undo
    /\ Advance(u, "cleanup", "true")
    /\ UNCHANGED <<store, saving, order, tx, recs, back, snap, ghosts>>

Edit(e) == (\E s \in Scripts : Commit(e, s)) \/ SaveRecord(e) \/ SaveStops(e)

Restore(u) ==
    \/ (\E p \in Paths : Pick(u, p)) \/ Load(u) \/ Preflight(u) \/ Capture(u)
    \/ ApplyRecord(u) \/ LinkBack(u) \/ RemoveNew(u) \/ ApplyFails(u)
    \/ RollbackPath(u) \/ RollbackFails(u) \/ Cleanup(u)

UndoNext == (\E e \in Edits : Edit(e)) \/ (\E u \in Undoers : Restore(u))

UndoSpec == UndoInit /\ [][UndoNext]_uvars

-----------------------------------------------------------------------------
(* A restore that reports success, undisturbed, has put back every file    *)
(* its transaction changed, and no other: a transaction is undone as a     *)
(* whole, however many of its records the save left behind ("Restore every *)
(* record in transaction atomically", edit-history.ts:470).                *)
UndoneAsAWhole ==
    \A u \in Undoers :
         pc'[u] = "true" /\ pc[u] # "true" /\ calm[u]
            => \A p \in Paths :
                 store'[p] = IF pre[tx[u]][p] # post[tx[u]][p] THEN pre[tx[u]][p]
                            ELSE start[u][p]
UndoRestores == [][UndoneAsAWhole]_uvars

(* A restore that reports failure, undisturbed, has changed nothing: the   *)
(* records it applied before the one that failed are taken back            *)
(* (edit-history.ts:479-484; one failing call, the rollback being best     *)
(* effort).                                                                *)
NothingUndone ==
    \A u \in Undoers :
         pc'[u] = "false" /\ pc[u] # "false" /\ calm[u] => store' = start[u]
FailedUndoChangesNothing == [][NothingUndone]_uvars
=============================================================================
