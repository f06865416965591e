---------------------------- MODULE AtomicStore ----------------------------
(***************************************************************************)
(* What a patch transaction promises its caller: the files change only by  *)
(* whole transactions.  A transaction's operations take effect together at *)
(* one instant, or never; between commits nothing changes, but by an edit of *)
(* some other program, and each of those is counted.                       *)
(***************************************************************************)
EXTENDS Naturals, Sequences

CONSTANTS Txs, Paths, Values, Absent,
          Scripts     \* the operation sequences a transaction may carry

VARIABLES store,      \* what each path holds
          committed,  \* the transactions that took effect
          outside     \* the edits by programs that take no lock

Contents == Values \cup {Absent}

(* One operation: write (which creates a missing file), remove, rename.    *)
Effect(st, o) ==
    [p \in Paths |->
        IF p = o.path THEN IF o.op = "write" THEN o.value ELSE Absent
        ELSE IF o.op = "rename" /\ p = o.to THEN st[o.path]
        ELSE st[p]]

(* What the files hold after so many of the operations, and after all.     *)
After(script, st) ==
    LET after[i \in 0..Len(script)] ==
            IF i = 0 THEN st ELSE Effect(after[i - 1], script[i])
    IN after

Result(script, st) == After(script, st)[Len(script)]

Init == /\ store \in [Paths -> Contents]
        /\ committed = {}
        /\ outside = 0

Commit(t, script) ==
    /\ t \notin committed
    /\ committed' = committed \cup {t}
    /\ store' = Result(script, store)
    /\ UNCHANGED outside

Edit(p, v) ==
    /\ store' = [store EXCEPT ![p] = v]
    /\ outside' = outside + 1
    /\ UNCHANGED committed

Next == \/ \E t \in Txs, script \in Scripts : Commit(t, script)
        \/ \E p \in Paths, v \in Contents : Edit(p, v)

Spec == Init /\ [][Next]_<<store, committed, outside>>
=============================================================================
