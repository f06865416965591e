----------------------- MODULE PatchTransactionProofs -----------------------
(* Proofs about PatchTransaction, for any number of transactions, files and *)
(* contents: first with overlap, deaths, faults and outside edits at will;  *)
(* then, under Alone and Once, that crash recovery leaves no bytes behind   *)
(* and that a transaction is atomic.                                        *)
EXTENDS PatchTransaction, WellFoundedInduction, TLAPS

(* The paths of a script are files of the model.                           *)
LEMMA ScriptPaths == \A s \in Scripts \cup {<<>>} : PathsOf(s) \subseteq Paths
<1> SUFFICES ASSUME NEW s \in Scripts \cup {<<>>}, NEW i \in DOMAIN s
             PROVE  s[i].path \in Paths /\ s[i].to \in Paths
  BY DEF PathsOf
<1>1. s \in Seq(Ops)
  BY PatchTransactionAssumption
<1>2. s[i] \in Ops
  BY <1>1
<1> QED
  BY <1>2 DEF Ops

(* A prepared journal covers a transaction from the journal write to the   *)
(* commit mark, and through a rollback as long as it has something to put  *)
(* back or something it could not put back.                                *)
HasJournal(t) == journal[t] # NoJournal /\ journal[t].state = "prepared"

Prepared(t) ==
    /\ pc[t] \in {"op", "op2", "apply", "unlink"} => HasJournal(t)
    /\ pc[t] \in {"new", "list", "scan", "owner", "rlock", "recover", "begin",
                  "guard", "prepare"} => muts[t] = <<>>
    /\ pc[t] = "rollback" /\ muts[t] # <<>> => HasJournal(t)
    /\ failed[t] => pc[t] \in {"rollback", "end", "dead"}
    /\ failed[t] /\ Alive(t) => HasJournal(t)

(* It stands at an operation of its script.                                *)

InRange(t) ==
    pc[t] \in {"op2", "apply", "unlink"} => next[t] \in DOMAIN script[t]

(* Only the journals of the dead are recovered.                            *)
RecoversTheDead(t) ==
    /\ pc[t] \in {"owner", "rlock", "recover"}
          => scan[t].cur \in Txs /\ scan[t].copy \in Journals
    /\ pc[t] \in {"rlock", "recover"} => ~Alive(scan[t].cur)

IInv == TypeOK /\ \A t \in Txs : Prepared(t) /\ InRange(t) /\ RecoversTheDead(t)

(* Nothing runs at the start.                                              *)
LEMMA InitIInv == Init => IInv
  BY PatchTransactionAssumption, ScriptPaths
  DEF Init, IInv, TypeOK, Prepared, InRange, RecoversTheDead, Contents,
      Nothing, Idle, Locations, Alive, Scans, HasJournal

(* A transaction at an operation finds a well-formed one.                  *)
LEMMA AtOperation ==
  ASSUME IInv, NEW t \in Txs,
         pc[t] \in {"op2", "apply", "unlink"} \/ More(t)
  PROVE  Op(t) \in Ops
<1>1. script[t] \in Seq(Ops)
  <2>1. script[t] \in Scripts \cup {<<>>}
    BY DEF IInv, TypeOK
  <2>2. Scripts \subseteq Seq(Ops) /\ <<>> \in Seq(Ops)
    BY PatchTransactionAssumption
  <2> QED
    BY <2>1, <2>2
<1>2. next[t] \in DOMAIN script[t]
  BY <1>1 DEF IInv, TypeOK, InRange, More
<1> QED
  BY <1>1, <1>2 DEF Op

(* A journal with one more intent is a journal.                            *)
LEMMA ExpectTyped ==
  ASSUME TypeOK, NEW t \in Txs, journal[t] # NoJournal,
         NEW p \in Paths, NEW c \in Contents, Expect(t, p, c)
  PROVE  /\ journal' \in [Txs -> Journals \cup {NoJournal}]
         /\ journal'[t] \in Journals /\ journal'[t].state = journal[t].state
         /\ \A u \in Txs \ {t} : journal'[u] = journal[u]
<1> DEFINE post == [journal[t].post EXCEPT ![p] = c]
           new == [journal[t] EXCEPT !.post = post]
<1>1. journal[t] \in Journals
  BY DEF TypeOK
<1>2. post \in [Paths -> Contents \cup {NoIntent}]
  BY <1>1 DEF Journals
<1>3. new \in Journals
  BY <1>1, <1>2 DEF Journals
<1>4. journal' = [journal EXCEPT ![t] = new]
  BY DEF Expect
<1> QED
  BY <1>3, <1>4 DEF TypeOK

(* What the recovery steps make of a scan is a scan.                       *)
LEMMA ScanTyped ==
  ASSUME NEW x \in Scans
  PROVE  /\ \A ts \in SUBSET Txs : [x EXCEPT !.todo = ts] \in Scans
         /\ \A ps \in SUBSET Paths : [x EXCEPT !.left = ps] \in Scans
         /\ \A ps \in SUBSET Paths, b \in BOOLEAN :
                [x EXCEPT !.left = ps, !.clash = b] \in Scans
         /\ \A ts \in SUBSET Txs, j \in Txs, c \in Journals :
                [x EXCEPT !.todo = ts, !.cur = j, !.copy = c] \in Scans
<1> USE DEF Scans
<1>1. \A ts \in SUBSET Txs : [x EXCEPT !.todo = ts] \in Scans
  OBVIOUS
<1>2. \A ps \in SUBSET Paths : [x EXCEPT !.left = ps] \in Scans
  OBVIOUS
<1>3. \A ps \in SUBSET Paths, b \in BOOLEAN :
         [x EXCEPT !.left = ps, !.clash = b] \in Scans
  OBVIOUS
<1>4. \A ts \in SUBSET Txs, j \in Txs, c \in Journals :
         [x EXCEPT !.todo = ts, !.cur = j, !.copy = c] \in Scans
  OBVIOUS
<1> QED
  BY <1>1, <1>2, <1>3, <1>4

(* Turning to the next journal keeps the scans well formed.                *)
LEMMA ResumeTyped ==
  ASSUME TypeOK, NEW t \in Txs, Resume(t)
  PROVE  scan' \in [Txs -> Scans] /\ pc' \in [Txs -> Locations]
  BY DEF TypeOK, Resume, Idle, Scans, Goto, Locations

(* The last journal and those before it make up the list.                  *)
LEMMA LastFront ==
  ASSUME NEW s \in Seq(Paths), s # <<>>
  PROVE  Last(s) \in Paths /\ Front(s) \in Seq(Paths)
  BY DEF Last, Front

(* A step of a transaction, or of a program that takes no lock.            *)
Moves(t) ==
    \/ \E s \in Scripts : Start(t, s)
    \/ Recovery(t) \/ Transaction(t) \/ Failure(t) \/ Die(t)

Advance ==
    \/ \E t \in Txs : Moves(t)
    \/ \E p \in Paths, v \in Values : ForeignEdit(p, v)

(* Reclaiming a lock touches no file, no journal and nobody's memory.      *)
Reclaimed(t) ==
    /\ Reclaims(t)
    /\ UNCHANGED <<disk, journal, writer, pc, mem, scan, env, orphaned>>

LEMMA Steps ==
  ASSUME Next
  PROVE  Advance \/ \E t \in Txs : Reclaimed(t)
<1>1. ASSUME NEW t \in Txs, Reclaims(t) PROVE Reclaimed(t)
  BY <1>1 DEF Reclaimed, Reclaims, JudgeLock, UnlinkLock, files, mem, env
<1> QED
  BY <1>1 DEF Next, Runs, Advance, Moves

LEMMA ReclaimTyped ==
  ASSUME TypeOK, [Next]_vars
  PROVE  judged' \in [Txs -> SUBSET Paths] /\ orphaned' \subseteq Paths
<1> USE DEF TypeOK, reclaim
<1>1. ASSUME NEW t \in Txs, Reclaims(t)
      PROVE  judged' \in [Txs -> SUBSET Paths] /\ orphaned' \subseteq Paths
  <2>1. orphaned' = orphaned
    BY <1>1 DEF Reclaims, JudgeLock, UnlinkLock
  <2>2. PICK ps \in SUBSET Paths : judged' = [judged EXCEPT ![t] = ps]
    <3>1. PICK p \in Paths : JudgeLock(t, p) \/ UnlinkLock(t, p)
      BY <1>1 DEF Reclaims
    <3>2. judged' = [judged EXCEPT ![t] = {p}] \/ judged' = [judged EXCEPT ![t] = {}]
      BY <3>1 DEF JudgeLock, UnlinkLock
    <3> QED
      BY <3>2
  <2>3. judged \in [Txs -> SUBSET Paths] /\ orphaned \subseteq Paths
    OBVIOUS
  <2> QED
    BY <2>1, <2>2, <2>3
<1>2. ASSUME NEW t \in Txs, Die(t)
      PROVE  judged' \in [Txs -> SUBSET Paths] /\ orphaned' \subseteq Paths
  BY <1>2 DEF Die
<1>3. UNCHANGED reclaim => judged' \in [Txs -> SUBSET Paths] /\ orphaned' \subseteq Paths
  OBVIOUS
<1> QED
  BY <1>1, <1>2, <1>3 DEF Next, Runs, vars

(* Every step keeps every variable within its type.                        *)
LEMMA TypeStep == IInv /\ [Next]_vars => TypeOK'
<1> SUFFICES ASSUME IInv, [Next]_vars PROVE TypeOK'
  OBVIOUS
<1>0. judged' \in [Txs -> SUBSET Paths] /\ orphaned' \subseteq Paths
  BY ReclaimTyped DEF IInv
<1> USE <1>0, PatchTransactionAssumption
     DEF IInv, TypeOK, Locations, Goto, files, mem, env
<1>1. ASSUME NEW t \in Txs, NEW s \in Scripts, Start(t, s) PROVE TypeOK'
  BY <1>1 DEF Start
<1>2. ASSUME NEW t \in Txs, ListJournals(t) PROVE TypeOK'
  <2> DEFINE found == {j \in Txs : journal[j] # NoJournal}
  <2>1. [scan[t] EXCEPT !.todo = found] \in Scans
    <3>1. scan[t] \in Scans /\ found \in SUBSET Txs
      OBVIOUS
    <3> HIDE DEF found
    <3> QED
      BY <3>1, ScanTyped
  <2>2. scan' = [scan EXCEPT ![t] = [scan[t] EXCEPT !.todo = found]]
    BY <1>2 DEF ListJournals
  <2>3. scan' \in [Txs -> Scans]
    BY <2>1, <2>2
  <2> QED
    BY <1>2, <2>3 DEF ListJournals
<1>3. ASSUME NEW t \in Txs, ScanDone(t) PROVE TypeOK'
  BY <1>3 DEF ScanDone
<1>4. ASSUME NEW t \in Txs, NEW j \in Txs, ReadJournal(t, j) PROVE TypeOK'
  <2> DEFINE gone == [scan[t] EXCEPT !.todo = scan[t].todo \ {j}]
             read == [scan[t] EXCEPT !.todo = scan[t].todo \ {j},
                                     !.cur = j, !.copy = journal[j]]
  <2>1. scan[t] \in Scans /\ scan[t].todo \ {j} \in SUBSET Txs
    BY DEF Scans
  <2>2. gone \in Scans
    BY <2>1, ScanTyped
  <2>3. journal[j] \in Journals => read \in Scans
    BY <2>1, ScanTyped
  <2>4. scan' \in [Txs -> Scans]
    <3>1. CASE journal[j] = NoJournal
      <4>1. scan' = [scan EXCEPT ![t] = gone]
        BY <1>4, <3>1 DEF ReadJournal
      <4> QED
        BY <2>2, <4>1
    <3>2. CASE journal[j] # NoJournal
      <4>1. scan' = [scan EXCEPT ![t] = read]
        BY <1>4, <3>2 DEF ReadJournal
      <4>2. read \in Scans
        BY <2>3, <3>2
      <4> QED
        BY <4>1, <4>2
    <3> QED
      BY <3>1, <3>2
  <2> QED
    BY <1>4, <2>4 DEF ReadJournal
<1>5. ASSUME NEW t \in Txs, CheckOwner(t) PROVE TypeOK'
  <2>1. scan' \in [Txs -> Scans] /\ pc' \in [Txs -> Locations]
    BY <1>5, ResumeTyped DEF CheckOwner
  <2> QED
    BY <1>5, <2>1 DEF CheckOwner
<1>6. ASSUME NEW t \in Txs, RecoveryLock(t) PROVE TypeOK'
  <2>1. scan[t].copy.paths \subseteq Paths
    BY <1>6 DEF RecoveryLock, RecoversTheDead, Journals
  <2>2. [scan[t] EXCEPT !.left = scan[t].copy.paths] \in Scans
    <3>1. scan[t] \in Scans
      OBVIOUS
    <3> QED
      BY <2>1, <3>1, ScanTyped
  <2>3. scan' = [scan EXCEPT ![t] = [scan[t] EXCEPT !.left = scan[t].copy.paths]]
    BY <1>6 DEF RecoveryLock
  <2>4. scan' \in [Txs -> Scans]
    BY <2>2, <2>3
  <2> QED
    BY <1>6, <2>4 DEF RecoveryLock, Lock
<1>7. ASSUME NEW t \in Txs, RecoveryLockTimeout(t) PROVE TypeOK'
  <2>1. lock' \in [Paths -> Txs \cup {NoTx}]
    BY <1>7 DEF RecoveryLockTimeout, Lock
  <2> QED
    BY <1>7, <2>1, ResumeTyped DEF RecoveryLockTimeout
<1>8. ASSUME NEW t \in Txs, RecoverCommitted(t) PROVE TypeOK'
  BY <1>8, ResumeTyped DEF RecoverCommitted, Unlock
<1>9. ASSUME NEW t \in Txs, RecoverPath(t) PROVE TypeOK'
  <2>1. scan[t].copy \in Journals
    BY <1>9 DEF RecoverPath, RecoversTheDead
  <2>2. \A p \in Paths : scan[t].copy.pre[p] \in Contents
    BY <2>1 DEF Journals
  <2> DEFINE p == Min(scan[t].left)
             clash == scan[t].clash \/ Clashes(scan[t].copy, p)
             new == [scan[t] EXCEPT !.left = scan[t].left \ {p}, !.clash = clash]
  <2>3. disk' \in [Paths -> Contents]
    <3>1. disk' = disk \/ disk' = [disk EXCEPT ![p] = scan[t].copy.pre[p]]
      BY <1>9 DEF RecoverPath
    <3> QED
      BY <2>2, <3>1
  <2>4. writer' \in [Paths -> Txs \cup {NoTx}]
    <3>1. writer' = writer \/ writer' = [writer EXCEPT ![p] = NoTx]
      BY <1>9 DEF RecoverPath
    <3> QED
      BY <3>1
  <2>5. clash \in BOOLEAN
    BY DEF Clashes, Scans
  <2>6. new \in Scans
    <3>1. scan[t] \in Scans /\ scan[t].left \ {p} \in SUBSET Paths
      BY DEF Scans
    <3> HIDE DEF clash
    <3> QED
      BY <2>5, <3>1, ScanTyped
  <2>7. scan' = [scan EXCEPT ![t] = new]
    BY <1>9 DEF RecoverPath
  <2>8. scan' \in [Txs -> Scans]
    BY <2>6, <2>7
  <2> QED
    BY <1>9, <2>3, <2>4, <2>8 DEF RecoverPath
<1>10. ASSUME NEW t \in Txs, RecoverDone(t) PROVE TypeOK'
  BY <1>10, ResumeTyped DEF RecoverDone, Unlock
<1>11. ASSUME NEW t \in Txs, RecoverFails(t) PROVE TypeOK'
  <2>1. lock' \in [Paths -> Txs \cup {NoTx}] /\ faults' \in 0..MaxFaults
    BY <1>11 DEF RecoverFails, Unlock, Fault
  <2>2. scan' \in [Txs -> Scans] /\ pc' \in [Txs -> Locations]
    BY <1>11, ResumeTyped DEF RecoverFails
  <2>3. UNCHANGED <<disk, journal, writer, mem, deaths, foreign>>
    BY <1>11 DEF RecoverFails, Fault
  <2> QED
    BY <2>1, <2>2, <2>3
<1>12. ASSUME NEW t \in Txs, Begin(t) PROVE TypeOK'
  BY <1>12 DEF Begin, Lock
<1>13. ASSUME NEW t \in Txs, BeginFails(t) PROVE TypeOK'
  BY <1>13 DEF BeginFails, Fault
<1>14. ASSUME NEW t \in Txs, Guard(t) PROVE TypeOK'
  BY <1>14 DEF Guard
<1>15. ASSUME NEW t \in Txs, Prepare(t) PROVE TypeOK'
  BY <1>15, ScriptPaths DEF Prepare, Journals, MyPaths
<1>16. ASSUME NEW t \in Txs, PrepareFails(t) PROVE TypeOK'
  BY <1>16 DEF PrepareFails, Fault
<1>17. ASSUME NEW t \in Txs, SkipWrite(t) PROVE TypeOK'
  BY <1>17 DEF SkipWrite
<1>18. ASSUME NEW t \in Txs, AppendIntent(t) PROVE TypeOK'
  <2>1. Op(t) \in Ops /\ journal[t] # NoJournal
    BY <1>18, AtOperation DEF AppendIntent, Prepared, HasJournal
  <2>2. journal' \in [Txs -> Journals \cup {NoJournal}]
    BY <1>18, <2>1, ExpectTyped DEF AppendIntent, Ops, Contents
  <2> QED
    BY <1>18, <2>2 DEF AppendIntent
<1>19. ASSUME NEW t \in Txs, AppendIntent2(t) PROVE TypeOK'
  <2>1. Op(t) \in Ops /\ journal[t] # NoJournal
    BY <1>19, AtOperation DEF AppendIntent2, Prepared, HasJournal
  <2>2. journal' \in [Txs -> Journals \cup {NoJournal}]
    BY <1>19, <2>1, ExpectTyped DEF AppendIntent2, Ops
  <2> QED
    BY <1>19, <2>2 DEF AppendIntent2
<1>20. ASSUME NEW t \in Txs, Apply(t) PROVE TypeOK'
  <2>1. Op(t) \in Ops
    BY <1>20, AtOperation DEF Apply
  <2>2. Op(t).path \in Paths /\ Op(t).value \in Contents
    BY <2>1 DEF Ops, Contents
  <2>3. disk' \in [Paths -> Contents] /\ writer' \in [Paths -> Txs \cup {NoTx}]
    BY <1>20, <2>2 DEF Apply, Contents
  <2>4. muts' \in [Txs -> Seq(Paths)]
    BY <1>20, <2>2 DEF Apply
  <2> QED
    BY <1>20, <2>3, <2>4 DEF Apply
<1>21. ASSUME NEW t \in Txs, Link(t) PROVE TypeOK'
  <2>1. Op(t) \in Ops
    BY <1>21, AtOperation DEF Link
  <2>2. Op(t).path \in Paths /\ Op(t).to \in Paths
    BY <2>1 DEF Ops
  <2>3. disk' \in [Paths -> Contents] /\ writer' \in [Paths -> Txs \cup {NoTx}]
    BY <1>21, <2>2 DEF Link
  <2>4. <<Op(t).path, Op(t).to>> \in Seq(Paths)
    BY <2>2
  <2>5. muts' = [muts EXCEPT ![t] = muts[t] \o <<Op(t).path, Op(t).to>>]
    BY <1>21 DEF Link
  <2>6. muts[t] \o <<Op(t).path, Op(t).to>> \in Seq(Paths)
    BY <2>4
  <2>7. muts' \in [Txs -> Seq(Paths)]
    BY <2>5, <2>6
  <2> QED
    BY <1>21, <2>3, <2>7 DEF Link
<1>22. ASSUME NEW t \in Txs, Unlink(t) PROVE TypeOK'
  <2>1. disk' \in [Paths -> Contents] /\ writer' \in [Paths -> Txs \cup {NoTx}]
    BY <1>22 DEF Unlink, Contents
  <2> QED
    BY <1>22, <2>1 DEF Unlink
<1>23. ASSUME NEW t \in Txs, Reject(t) PROVE TypeOK'
  BY <1>23 DEF Reject
<1>24. ASSUME NEW t \in Txs, OpFails(t) PROVE TypeOK'
  BY <1>24 DEF OpFails, Fault
<1>25. ASSUME NEW t \in Txs, MarkCommitted(t) PROVE TypeOK'
  <2>1. journal[t] \in Journals
    BY <1>25 DEF MarkCommitted, Prepared, HasJournal
  <2>2. [journal[t] EXCEPT !.state = "committed"] \in Journals
    BY <2>1 DEF Journals
  <2>3. journal' \in [Txs -> Journals \cup {NoJournal}]
    BY <1>25, <2>2 DEF MarkCommitted
  <2> QED
    BY <1>25, <2>3 DEF MarkCommitted
<1>26. ASSUME NEW t \in Txs, MarkFails(t) PROVE TypeOK'
  BY <1>26 DEF MarkFails, Fault
<1>27. ASSUME NEW t \in Txs, Commit(t) PROVE TypeOK'
  BY <1>27 DEF Commit, Unlock
<1>28. ASSUME NEW t \in Txs, DeleteJournal(t) PROVE TypeOK'
  BY <1>28 DEF DeleteJournal
<1>29. ASSUME NEW t \in Txs, RestorePath(t) PROVE TypeOK'
  <2>1. Last(muts[t]) \in Paths /\ Front(muts[t]) \in Seq(Paths)
    BY <1>29, LastFront DEF RestorePath
  <2>2. disk' \in [Paths -> Contents] /\ writer' \in [Paths -> Txs \cup {NoTx}]
    <3>1. snap[t][Last(muts[t])] \in Contents
      <4>1. snap[t] \in [Paths -> Contents]
        OBVIOUS
      <4> QED
        BY <2>1, <4>1
    <3>2. /\ disk' = [disk EXCEPT ![Last(muts[t])] = snap[t][Last(muts[t])]]
          /\ writer' = [writer EXCEPT ![Last(muts[t])] = NoTx]
      BY <1>29 DEF RestorePath
    <3> QED
      BY <2>1, <3>1, <3>2
  <2>3. muts' \in [Txs -> Seq(Paths)]
    BY <1>29, <2>1 DEF RestorePath
  <2> QED
    BY <1>29, <2>2, <2>3 DEF RestorePath
<1>30. ASSUME NEW t \in Txs, RestoreFails(t) PROVE TypeOK'
  <2>1. Front(muts[t]) \in Seq(Paths)
    BY <1>30, LastFront DEF RestoreFails
  <2> QED
    BY <1>30, <2>1 DEF RestoreFails, Fault
<1>31. ASSUME NEW t \in Txs, RollbackDone(t) PROVE TypeOK'
  BY <1>31 DEF RollbackDone, Unlock
<1>32. ASSUME NEW t \in Txs, Die(t) PROVE TypeOK'
  <2>1. Idle \in Scans
    BY DEF Idle, Scans
  <2>2. Nothing \in [Paths -> Contents]
    BY DEF Nothing, Contents
  <2>3. scan' \in [Txs -> Scans]
    BY <1>32, <2>1 DEF Die
  <2> QED
    BY <1>32, <2>2, <2>3 DEF Die
<1>33. ASSUME NEW p \in Paths, NEW v \in Values, ForeignEdit(p, v) PROVE TypeOK'
  BY <1>33 DEF ForeignEdit, Contents
<1>34. CASE UNCHANGED vars
  BY <1>34 DEF vars
<1>35. ASSUME NEW t \in Txs, Reclaimed(t) PROVE TypeOK'
  <2>1. lock' \in [Paths -> Txs \cup {NoTx}]
    BY <1>35 DEF Reclaimed, Reclaims, JudgeLock, UnlinkLock
  <2> QED
    BY <1>35, <2>1 DEF Reclaimed
<1>36. Next => Advance \/ \E t \in Txs : Reclaimed(t)
  BY Steps
<1> QED
  BY <1>1, <1>2, <1>3, <1>4, <1>5, <1>6, <1>7, <1>8, <1>9, <1>10, <1>11,
     <1>12, <1>13, <1>14, <1>15, <1>16, <1>17, <1>18, <1>19, <1>20, <1>21,
     <1>22, <1>23, <1>24, <1>25, <1>26, <1>27, <1>28, <1>29, <1>30, <1>31,
     <1>32, <1>33, <1>34, <1>35, <1>36
  DEF Advance, Moves, Recovery, Transaction, Failure

(* The journal of a transaction that lives on is rewritten by nobody else  *)
(* and deleted only by its own end.                                        *)
LEMMA JournalKept ==
  ASSUME IInv, Advance, NEW t \in Txs, Alive(t), HasJournal(t),
         pc[t] # "drop", ~MarkCommitted(t)
  PROVE  HasJournal(t)'
<1> USE DEF IInv, TypeOK, files, HasJournal
<1>1. ASSUME NEW u \in Txs, RecoverCommitted(u) \/ RecoverDone(u)
      PROVE  HasJournal(t)'
  <2>1. scan[u].cur # t
    BY <1>1 DEF RecoverCommitted, RecoverDone, RecoversTheDead
  <2> QED
    BY <1>1, <2>1 DEF RecoverCommitted, RecoverDone
<1>2. ASSUME NEW u \in Txs, Prepare(u) \/ DeleteJournal(u) \/ MarkCommitted(u)
      PROVE  HasJournal(t)'
  <2>1. CASE u = t
    <3>1. Prepare(t)
      BY <1>2, <2>1 DEF DeleteJournal
    <3>2. MyPaths(t) \subseteq Paths
      BY ScriptPaths DEF MyPaths
    <3>3. journal'[t] \in Journals /\ journal'[t].state = "prepared"
      BY <3>1, <3>2 DEF Prepare, Journals
    <3> QED
      BY <3>3, PatchTransactionAssumption
  <2>2. CASE u # t
    BY <1>2, <2>2 DEF Prepare, DeleteJournal, MarkCommitted
  <2> QED
    BY <2>1, <2>2
<1>3. ASSUME NEW u \in Txs, AppendIntent(u) \/ AppendIntent2(u)
      PROVE  HasJournal(t)'
  <2>1. Op(u) \in Ops /\ journal[u] # NoJournal
    BY <1>3, AtOperation DEF AppendIntent, AppendIntent2, Prepared
  <2>2. PICK p \in Paths, c \in Contents : Expect(u, p, c)
    BY <1>3, <2>1 DEF AppendIntent, AppendIntent2, Ops, Contents
  <2>3. t = u => journal'[t] \in Journals /\ journal'[t].state = "prepared"
    BY <2>1, <2>2, ExpectTyped
  <2>4. t # u => journal'[t] = journal[t]
    BY <2>1, <2>2, ExpectTyped
  <2> QED
    BY <2>3, <2>4, PatchTransactionAssumption
<1> QED
  BY <1>1, <1>2, <1>3
  DEF Advance, Moves, Recovery, Transaction, Failure, Start, ListJournals, ScanDone, ReadJournal, CheckOwner,
      RecoveryLock, RecoveryLockTimeout, RecoverPath, RecoverFails, Begin, BeginFails, Guard, PrepareFails,
      SkipWrite, Apply, Link, Unlink, Reject, OpFails, MarkFails, Commit, RestorePath, RestoreFails, RollbackDone, Die, ForeignEdit

(* The memory of a transaction is its own.                                 *)
LEMMA OwnMemory ==
  ASSUME IInv, Advance, NEW t \in Txs, ~Moves(t)
  PROVE  /\ pc'[t] = pc[t] /\ script'[t] = script[t] /\ next'[t] = next[t]
         /\ muts'[t] = muts[t] /\ failed'[t] = failed[t] /\ scan'[t] = scan[t]
<1> DEFINE Same == /\ pc'[t] = pc[t] /\ script'[t] = script[t]
                   /\ next'[t] = next[t] /\ muts'[t] = muts[t]
                   /\ failed'[t] = failed[t] /\ scan'[t] = scan[t]
<1> USE DEF IInv, TypeOK, Goto, mem
<1>1. ASSUME NEW p \in Paths, NEW v \in Values, ForeignEdit(p, v) PROVE Same
  BY <1>1 DEF ForeignEdit
<1>2. ASSUME NEW u \in Txs, u # t, NEW s \in Scripts, Start(u, s) PROVE Same
  BY <1>2 DEF Start
<1>3. ASSUME NEW u \in Txs, u # t, Recovery(u) PROVE Same
  BY <1>3 DEF Recovery, ListJournals, ScanDone, ReadJournal, CheckOwner,
     RecoveryLock, RecoveryLockTimeout, RecoverCommitted, RecoverPath,
     RecoverDone, Resume
<1>4. ASSUME NEW u \in Txs, u # t, Transaction(u) PROVE Same
  BY <1>4 DEF Transaction, Begin, Guard, Prepare, SkipWrite, AppendIntent,
     AppendIntent2, Apply, Link, Unlink, MarkCommitted, Commit, DeleteJournal,
     RestorePath, RollbackDone
<1>5. ASSUME NEW u \in Txs, u # t, Failure(u) PROVE Same
  BY <1>5 DEF Failure, RecoverFails, BeginFails, PrepareFails, Reject, OpFails,
     MarkFails, RestoreFails, Resume
<1>6. ASSUME NEW u \in Txs, u # t, Die(u) PROVE Same
  BY <1>6 DEF Die
<1> QED
  BY <1>1, <1>2, <1>3, <1>4, <1>5, <1>6 DEF Advance, Moves

(* The dead stay dead.                                                     *)
LEMMA DeadStay ==
  ASSUME IInv, Advance, NEW t \in Txs, ~Alive(t)
  PROVE  ~Moves(t) /\ ~Alive(t)'
<1>1. ~Moves(t)
  BY DEF Alive, Moves, Start, Recovery, ListJournals, ScanDone, ReadJournal,
     CheckOwner, RecoveryLock, RecoveryLockTimeout, RecoverCommitted,
     RecoverPath, RecoverDone, Transaction, Begin, Guard, Prepare, SkipWrite,
     AppendIntent, AppendIntent2, Apply, Link, Unlink, MarkCommitted, Commit,
     DeleteJournal, RestorePath, RollbackDone, Failure, RecoverFails,
     BeginFails, PrepareFails, Reject, OpFails, MarkFails, RestoreFails, Die
<1> QED
  BY <1>1, OwnMemory DEF Alive

(* A transaction beyond its prepare step has a prepared journal until it   *)
(* commits or takes everything back.                                       *)
LEMMA PreparedStep ==
  ASSUME IInv, Advance, NEW t \in Txs
  PROVE  Prepared(t)'
<1> USE DEF IInv, TypeOK, Prepared, Goto, Alive, mem
<1>1. CASE ~Moves(t)
  BY <1>1, OwnMemory, JournalKept DEF MarkCommitted, Moves, Transaction
<1>2. ASSUME NEW s \in Scripts, Start(t, s) PROVE Prepared(t)'
  BY <1>2 DEF Start
<1>3. CASE Recovery(t)
  BY <1>3 DEF Recovery, ListJournals, ScanDone, ReadJournal, CheckOwner,
     RecoveryLock, RecoveryLockTimeout, RecoverCommitted, RecoverPath,
     RecoverDone, Resume
<1>4. CASE Begin(t) \/ Guard(t) \/ PrepareFails(t) \/ BeginFails(t) \/ RecoverFails(t)
  BY <1>4 DEF Begin, Guard, PrepareFails, BeginFails, RecoverFails, Resume
<1>5. CASE Prepare(t)
  <2>1. MyPaths(t) \subseteq Paths
    BY ScriptPaths DEF MyPaths
  <2>2. journal'[t] \in Journals /\ journal'[t].state = "prepared"
    BY <1>5, <2>1 DEF Prepare, Journals
  <2>3. HasJournal(t)'
    BY <2>2, PatchTransactionAssumption DEF HasJournal
  <2> QED
    BY <1>5, <2>3 DEF Prepare
<1>6. CASE SkipWrite(t) \/ AppendIntent(t) \/ AppendIntent2(t) \/ Apply(t)
           \/ Link(t) \/ Unlink(t) \/ Reject(t) \/ OpFails(t) \/ MarkFails(t)
  <2>1. /\ pc[t] \in {"op", "op2", "apply", "unlink"}
        /\ pc'[t] \in {"op", "op2", "apply", "unlink", "rollback"}
        /\ failed' = failed
    BY <1>6 DEF SkipWrite, AppendIntent, AppendIntent2, Apply, Link, Unlink,
       Reject, OpFails, MarkFails
  <2>2. ~MarkCommitted(t)
    BY <1>6 DEF SkipWrite, AppendIntent, AppendIntent2, Apply, Link, Unlink,
       Reject, OpFails, MarkFails, MarkCommitted, Fault
  <2>3. HasJournal(t)'
    BY <2>1, <2>2, JournalKept
  <2> QED
    BY <2>1, <2>3
<1>7. CASE MarkCommitted(t) \/ Commit(t) \/ DeleteJournal(t)
  BY <1>7 DEF MarkCommitted, Commit, DeleteJournal
<1>8. CASE RestorePath(t) \/ RestoreFails(t)
  <2>1. ~MarkCommitted(t) /\ pc[t] = "rollback" /\ muts[t] # <<>> /\ pc'[t] = "rollback"
    BY <1>8 DEF RestorePath, RestoreFails, MarkCommitted
  <2>2. HasJournal(t)'
    BY <2>1, JournalKept
  <2> QED
    BY <2>1, <2>2
<1>9. CASE RollbackDone(t)
  <2>1. ~MarkCommitted(t) /\ pc[t] = "rollback"
    BY <1>9 DEF RollbackDone, MarkCommitted
  <2>2. failed[t] => HasJournal(t)'
    BY <2>1, JournalKept
  <2> QED
    BY <1>9, <2>2 DEF RollbackDone
<1>10. CASE Die(t)
  BY <1>10 DEF Die
<1> QED
  BY <1>1, <1>2, <1>3, <1>4, <1>5, <1>6, <1>7, <1>8, <1>9, <1>10
  DEF Moves, Transaction, Failure

(* The position of a transaction stays within its script.                  *)
LEMMA InRangeStep ==
  ASSUME IInv, Advance, NEW t \in Txs
  PROVE  InRange(t)'
<1> USE DEF IInv, TypeOK, InRange, Goto, mem
<1>1. CASE ~Moves(t)
  BY <1>1, OwnMemory
<1>2. CASE AppendIntent(t)
  <2>1. next[t] \in DOMAIN script[t]
    <3>1. script[t] \in Seq(Ops)
      <4>1. Scripts \subseteq Seq(Ops) /\ <<>> \in Seq(Ops)
        BY PatchTransactionAssumption
      <4> QED
        BY <4>1
    <3> QED
      BY <1>2, <3>1 DEF AppendIntent, More
  <2> QED
    BY <1>2, <2>1 DEF AppendIntent
<1>3. CASE AppendIntent2(t) \/ Link(t)
  BY <1>3 DEF AppendIntent2, Link
<1>4. CASE Moves(t) /\ ~(AppendIntent(t) \/ AppendIntent2(t) \/ Link(t))
  <2>1. pc'[t] \notin {"op2", "apply", "unlink"}
    BY <1>4 DEF Moves, Start, Recovery, ListJournals, ScanDone, ReadJournal,
       CheckOwner, RecoveryLock, RecoveryLockTimeout, RecoverCommitted,
       RecoverPath, RecoverDone, Resume, Transaction, Begin, Guard, Prepare,
       SkipWrite, Apply, Unlink, MarkCommitted, Commit, DeleteJournal,
       RestorePath, RollbackDone, Failure, RecoverFails, BeginFails,
       PrepareFails, Reject, OpFails, MarkFails, RestoreFails, Die
  <2> QED
    BY <2>1
<1> QED
  BY <1>1, <1>2, <1>3, <1>4

(* A scan touches only the journals of processes that are dead.            *)
LEMMA RecoversTheDeadStep ==
  ASSUME IInv, Advance, NEW t \in Txs
  PROVE  RecoversTheDead(t)'
<1> USE DEF IInv, TypeOK, RecoversTheDead, Goto, mem
<1>1. CASE ~Moves(t)
  BY <1>1, OwnMemory, DeadStay DEF Alive
<1>2. ASSUME NEW j \in Txs, ReadJournal(t, j) PROVE RecoversTheDead(t)'
  BY <1>2 DEF ReadJournal, Scans
<1>3. CASE CheckOwner(t)
  BY <1>3 DEF CheckOwner, Resume, Alive
<1>4. CASE RecoveryLock(t) \/ RecoverPath(t)
  <2>1. /\ scan'[t].cur = scan[t].cur /\ scan'[t].copy = scan[t].copy
        /\ pc[t] \in {"rlock", "recover"}
    BY <1>4 DEF RecoveryLock, RecoverPath, Scans
  <2>2. Alive(scan[t].cur)' => Alive(scan[t].cur)
    BY <2>1, DeadStay
  <2> QED
    BY <2>1, <2>2 DEF Alive
<1>5. CASE Moves(t) /\ ~(\E j \in Txs : ReadJournal(t, j)) /\ ~CheckOwner(t)
           /\ ~RecoveryLock(t) /\ ~RecoverPath(t)
  <2>1. pc'[t] \notin {"owner", "rlock", "recover"}
    BY <1>5 DEF Moves, Start, Recovery, ListJournals, ScanDone,
       RecoveryLockTimeout, RecoverCommitted,
       RecoverDone, Resume, Transaction, Begin, Guard, Prepare,
       SkipWrite, AppendIntent, AppendIntent2, Apply, Link, Unlink,
       MarkCommitted, Commit, DeleteJournal,
       RestorePath, RollbackDone, Failure, RecoverFails, BeginFails,
       PrepareFails, Reject, OpFails, MarkFails, RestoreFails, Die
  <2> QED
    BY <2>1
<1> QED
  BY <1>1, <1>2, <1>3, <1>4, <1>5

(* The three parts of IInv are kept together.                              *)
LEMMA Inductive == IInv /\ [Next]_vars => IInv'
<1> SUFFICES ASSUME IInv, [Next]_vars PROVE IInv'
  OBVIOUS
<1>1. TypeOK'
  BY TypeStep
<1>2. CASE Advance
  BY <1>1, <1>2, PreparedStep, InRangeStep, RecoversTheDeadStep DEF IInv
<1>3. ASSUME UNCHANGED <<journal, pc, mem, scan>> PROVE IInv'
  <2>1. \A t \in Txs : Prepared(t)' /\ InRange(t)' /\ RecoversTheDead(t)'
    BY <1>3 DEF IInv, Prepared, HasJournal, InRange, RecoversTheDead, Alive,
       mem
  <2> QED
    BY <1>1, <2>1 DEF IInv
<1> QED
  BY <1>2, <1>3, Steps DEF Reclaimed, vars, files

(* The state keeps its shape, whatever overlaps, dies or fails.            *)
THEOREM TypeCorrect == Spec => []TypeOK
<1>1. IInv => TypeOK
  BY DEF IInv
<1> QED
  BY <1>1, InitIInv, Inductive, PTL DEF Spec

(* Whatever a failed rollback could not put back is still in a prepared    *)
(* journal as long as the process lives, and after it for the next scan    *)
(* ("crash journal preserved for recovery", transaction-runner.ts:308).    *)
THEOREM RollbackJournaled == Spec => []FailedRollbackJournaled
<1>1. IInv => FailedRollbackJournaled
  BY DEF IInv, Prepared, HasJournal, FailedRollbackJournaled
<1> QED
  BY <1>1, InitIInv, Inductive, PTL DEF Spec

(* A step of one transaction leaves the others where they are.             *)
LEMMA Others ==
  ASSUME IInv, NEW t \in Txs, Moves(t), NEW u \in Txs, u # t
  PROVE  pc'[u] = pc[u] /\ script'[u] = script[u] /\ scan'[u] = scan[u]
<1> USE DEF IInv, TypeOK, Goto, mem
<1>1. ASSUME NEW s \in Scripts, Start(t, s)
      PROVE  pc'[u] = pc[u] /\ script'[u] = script[u] /\ scan'[u] = scan[u]
  BY <1>1 DEF Start
<1>2. CASE Recovery(t)
  BY <1>2 DEF Recovery, ListJournals, ScanDone, ReadJournal, CheckOwner,
     RecoveryLock, RecoveryLockTimeout, RecoverCommitted, RecoverPath,
     RecoverDone, Resume
<1>3. CASE Transaction(t)
  BY <1>3 DEF Transaction, Begin, Guard, Prepare, SkipWrite, AppendIntent,
     AppendIntent2, Apply, Link, Unlink, MarkCommitted, Commit, DeleteJournal,
     RestorePath, RollbackDone
<1>4. CASE Failure(t)
  BY <1>4 DEF Failure, RecoverFails, BeginFails, PrepareFails, Reject, OpFails,
     MarkFails, RestoreFails, Resume
<1>5. CASE Die(t)
  BY <1>5 DEF Die
<1> QED
  BY <1>1, <1>2, <1>3, <1>4, <1>5 DEF Moves

LEMMA LivesOn ==
  ASSUME IInv, NEW t \in Txs, Moves(t), ~Die(t)
  PROVE  Alive(t)'
<1> USE DEF IInv, TypeOK, Goto, mem, Alive
<1>1. CASE \E s \in Scripts : Start(t, s)
  BY <1>1 DEF Start
<1>2. CASE Recovery(t)
  BY <1>2 DEF Recovery, ListJournals, ScanDone, ReadJournal, CheckOwner,
     RecoveryLock, RecoveryLockTimeout, RecoverCommitted, RecoverPath,
     RecoverDone, Resume
<1>3. CASE Transaction(t)
  BY <1>3 DEF Transaction, Begin, Guard, Prepare, SkipWrite, AppendIntent,
     AppendIntent2, Apply, Link, Unlink, MarkCommitted, Commit, DeleteJournal,
     RestorePath, RollbackDone
<1>4. CASE Failure(t)
  BY <1>4 DEF Failure, RecoverFails, BeginFails, PrepareFails, Reject, OpFails,
     MarkFails, RestoreFails, Resume
<1> QED
  BY <1>1, <1>2, <1>3, <1>4 DEF Moves

(* The paths whose lock files a transaction, or its recovery, works under. *)
Active(t) == pc[t] \in {"guard", "prepare", "release"} \/ Midway(t)

Holds(t, p) ==
    \/ Active(t) /\ p \in MyPaths(t)
    \/ pc[t] = "recover" /\ p \in scan[t].copy.paths

(* At a path where no process ever died with its lock file, whoever works  *)
(* under the lock has its file there, the owner of a lock file is alive,   *)
(* and nobody is about to unlink it.                                       *)
LockedAt(p) ==
    /\ \A t \in Txs : Holds(t, p) => lock[p] = t
    /\ \A t \in Txs : p \notin judged[t]
    /\ lock[p] \in Txs => Alive(lock[p])

LInv == \A p \in Paths \ orphaned : LockedAt(p)

(* The steps that end the work under a lock.                               *)
Releases(t) ==
    \/ Commit(t) \/ RollbackDone(t)
    \/ RecoverCommitted(t) \/ RecoverDone(t) \/ RecoverFails(t)

Locked(t) == RecoveryLock(t) \/ RecoveryLockTimeout(t) \/ Begin(t)

(* What becomes of the lock files in a step of a transaction's process:    *)
(* free ones are created, or those it works under are removed.             *)
LEMMA LockEffects ==
  ASSUME IInv, NEW t \in Txs, Moves(t), NEW p \in Paths
  PROVE  \/ lock'[p] = lock[p]
         \/ lock[p] = NoTx /\ lock'[p] = t /\ Locked(t)
         \/ Holds(t, p) /\ lock'[p] = NoTx /\ Releases(t)
<1> USE DEF IInv, TypeOK, files
<1>1. CASE RecoveryLock(t) \/ Begin(t)
  BY <1>1 DEF RecoveryLock, Begin, Free, Lock, Locked
<1>2. CASE RecoveryLockTimeout(t)
  <2>1. PICK busy \in scan[t].copy.paths :
           /\ \A q \in scan[t].copy.paths : q < busy => Free(q)
           /\ Lock({q \in scan[t].copy.paths : q < busy}, t)
    BY <1>2 DEF RecoveryLockTimeout, InTheWay
  <2> QED
    BY <1>2, <2>1 DEF Free, Lock, Locked
<1>3. CASE Releases(t)
  BY <1>3 DEF Releases, Commit, RollbackDone, RecoverCommitted, RecoverDone,
     RecoverFails, Unlock, Holds, Active, Midway
<1>4. CASE ~(Locked(t) \/ Releases(t))
  BY <1>4 DEF Locked, Releases, Moves, Recovery, Transaction, Failure, Start,
     ListJournals, ScanDone, ReadJournal, CheckOwner, RecoverPath, BeginFails,
     Guard, Prepare, PrepareFails, SkipWrite, AppendIntent, AppendIntent2, Expect,
     Apply, Link, Unlink, Reject, OpFails, MarkCommitted, MarkFails,
     DeleteJournal, RestorePath, RestoreFails, Die
<1> QED
  BY <1>1, <1>2, <1>3, <1>4 DEF Locked

(* A transaction comes to work under a lock only by creating its file, and *)
(* no longer does once it has removed it.                                  *)
LEMMA HoldsStep ==
  ASSUME IInv, NEW t \in Txs, Moves(t), NEW p \in Paths, Holds(t, p)'
  PROVE  ~Releases(t) /\ (Holds(t, p) \/ lock'[p] = t)
<1> USE DEF IInv, TypeOK, Goto, mem
<1>1. CASE \E s \in Scripts : Start(t, s)
  BY <1>1 DEF Start, Holds, Active, Midway
<1>2. CASE Releases(t)
  BY <1>2 DEF Releases, Commit, RollbackDone, RecoverCommitted, RecoverDone,
     RecoverFails, Resume, Holds, Active, Midway
<1>3. CASE RecoveryLock(t)
  <2>1. scan'[t].copy = scan[t].copy /\ pc'[t] = "recover"
    BY <1>3 DEF RecoveryLock, Scans
  <2>2. pc[t] = "rlock"
    BY <1>3 DEF RecoveryLock
  <2>3. ~Releases(t)
    BY <2>2 DEF Releases, Commit, RollbackDone, RecoverCommitted, RecoverDone,
       RecoverFails
  <2> QED
    BY <1>3, <2>1, <2>3 DEF RecoveryLock, Lock, Holds, Active, Midway
<1>4. CASE Begin(t)
  <2>1. pc[t] = "begin"
    BY <1>4 DEF Begin
  <2>2. ~Releases(t)
    BY <2>1 DEF Releases, Commit, RollbackDone, RecoverCommitted, RecoverDone,
       RecoverFails
  <2> QED
    BY <1>4, <2>2 DEF Begin, Lock, Holds, Active, Midway, MyPaths
<1>5. CASE RecoverPath(t) /\ ~Releases(t)
  <2>1. scan'[t].copy = scan[t].copy
    BY <1>5 DEF RecoverPath, Scans
  <2> QED
    BY <1>5, <2>1 DEF RecoverPath, Holds, Active, Midway
<1>6. CASE ListJournals(t) \/ ScanDone(t) \/ (\E j \in Txs : ReadJournal(t, j))
           \/ CheckOwner(t) \/ RecoveryLockTimeout(t) \/ BeginFails(t)
           \/ DeleteJournal(t) \/ Die(t)
  <2>1. pc'[t] \in {"scan", "owner", "begin", "rlock", "end", "dead"}
    BY <1>6 DEF ListJournals, ScanDone, ReadJournal, CheckOwner, Resume,
       RecoveryLockTimeout, BeginFails, DeleteJournal, Die
  <2> QED
    BY <2>1 DEF Holds, Active, Midway
<1>7. CASE /\ ~Releases(t)
           /\ \/ Guard(t) \/ Prepare(t) \/ SkipWrite(t) \/ AppendIntent(t)
              \/ AppendIntent2(t) \/ Apply(t) \/ Link(t) \/ Unlink(t)
              \/ MarkCommitted(t) \/ RestorePath(t) \/ PrepareFails(t) \/ Reject(t)
              \/ OpFails(t) \/ MarkFails(t) \/ RestoreFails(t)
  <2>1. /\ Active(t) /\ pc'[t] # "recover" /\ script'[t] = script[t]
    BY <1>7 DEF Guard, Prepare, SkipWrite, AppendIntent, AppendIntent2, Apply,
       Link, Unlink, MarkCommitted, RestorePath, PrepareFails, Reject, OpFails,
       MarkFails, RestoreFails, Active, Midway
  <2> QED
    BY <1>7, <2>1 DEF Holds, MyPaths
<1> QED
  BY <1>1, <1>2, <1>3, <1>4, <1>5, <1>6, <1>7
  DEF Moves, Recovery, Transaction, Failure, Releases

(* No step brings two processes to one such path.                          *)
LEMMA LockStep ==
  ASSUME IInv, LInv, Next, NEW p \in Paths \ orphaned'
  PROVE  LockedAt(p)'
<1> USE DEF IInv, TypeOK
<1>1. ASSUME NEW t \in Txs, Reclaimed(t) PROVE LockedAt(p)'
  <2>1. /\ LockedAt(p) /\ UNCHANGED <<pc, script, scan>>
    BY <1>1 DEF LInv, Reclaimed, mem
  <2>2. ASSUME NEW q \in Paths, JudgeLock(t, q) PROVE LockedAt(p)'
    <3>1. q # p
      BY <2>1, <2>2 DEF LockedAt, JudgeLock, Abandoned
    <3>2. lock' = lock /\ \A u \in Txs : p \notin judged'[u]
      BY <2>1, <2>2, <3>1 DEF JudgeLock, files, LockedAt
    <3> QED
      BY <2>1, <3>2 DEF LockedAt, Holds, Active, Midway, MyPaths, Alive
  <2>3. ASSUME NEW q \in Paths, UnlinkLock(t, q) PROVE LockedAt(p)'
    <3>1. q # p
      BY <2>1, <2>3 DEF LockedAt, UnlinkLock
    <3>2. lock'[p] = lock[p] /\ \A u \in Txs : p \notin judged'[u]
      BY <2>1, <2>3, <3>1 DEF UnlinkLock, LockedAt
    <3> QED
      BY <2>1, <3>2 DEF LockedAt, Holds, Active, Midway, MyPaths, Alive
  <2> QED
    BY <1>1, <2>2, <2>3 DEF Reclaimed, Reclaims
<1>2. ASSUME NEW q \in Paths, NEW v \in Values, ForeignEdit(q, v), UNCHANGED reclaim
      PROVE  LockedAt(p)'
  BY <1>2 DEF ForeignEdit, reclaim, mem, LInv, LockedAt, Holds, Active, Midway,
     MyPaths, Alive
<1>3. ASSUME NEW t \in Txs, Moves(t), Die(t) \/ UNCHANGED reclaim PROVE LockedAt(p)'
  <2>0. p \in Paths \ orphaned
    BY <1>3 DEF Die, reclaim
  <2>1. LockedAt(p)
    BY <2>0 DEF LInv
  <2>2. \A u \in Txs : p \notin judged'[u]
    BY <1>3, <2>1 DEF LockedAt, Die, reclaim
  <2>3. (lock[p] \in Txs => Alive(lock[p]))'
    <3>1. Die(t) => lock'[p] = lock[p] /\ lock[p] # t
      BY <2>0 DEF Die, files
    <3>2. ASSUME NEW u \in Txs, u # t PROVE Alive(u)' = Alive(u)
      BY <1>3, <3>2, Others DEF Alive
    <3>3. ~Die(t) /\ Alive(t) => Alive(t)'
      BY <1>3, LivesOn
    <3>4. Locked(t) => Alive(t) /\ ~Die(t)
      BY DEF Locked, RecoveryLock, RecoveryLockTimeout, Begin, Alive, Die, Goto, Resume
    <3> QED
      BY <1>3, <2>1, <3>1, <3>2, <3>3, <3>4, LockEffects, PatchTransactionAssumption
      DEF LockedAt
  <2>4. ASSUME NEW u \in Txs, Holds(u, p)' PROVE lock'[p] = u
    <3>1. CASE u = t
      BY <1>3, <2>1, <2>4, <3>1, HoldsStep, LockEffects DEF LockedAt
    <3>2. CASE u # t
      <4>1. Holds(u, p)
        BY <1>3, <2>4, <3>2, Others DEF Holds, Active, Midway, MyPaths
      <4>2. lock[p] = u /\ ~Holds(t, p)
        BY <2>1, <3>2, <4>1 DEF LockedAt
      <4> QED
        BY <1>3, <4>2, LockEffects, PatchTransactionAssumption
    <3> QED
      BY <3>1, <3>2
  <2> QED
    BY <2>2, <2>3, <2>4 DEF LockedAt
<1>4. \A t \in Txs : Die(t) => Moves(t)
  BY DEF Moves
<1>5. ASSUME NEW t \in Txs, Runs(t) PROVE Moves(t) /\ UNCHANGED reclaim
  BY <1>5 DEF Runs, Moves
<1>6. ASSUME NEW t \in Txs, NEW s \in Scripts, Start(t, s) PROVE Moves(t)
  BY <1>6 DEF Moves
<1>7. ASSUME NEW t \in Txs, Reclaims(t) PROVE Reclaimed(t)
  BY <1>7 DEF Reclaimed, Reclaims, JudgeLock, UnlinkLock, files, mem, env
<1> QED
  BY <1>1, <1>2, <1>3, <1>4, <1>5, <1>6, <1>7 DEF Next

LEMMA LockInductive == IInv /\ LInv /\ [Next]_vars => LInv'
<1> SUFFICES ASSUME IInv, LInv, [Next]_vars PROVE LInv'
  OBVIOUS
<1>1. CASE UNCHANGED vars
  BY <1>1 DEF vars, files, mem, reclaim, LInv, LockedAt, Holds, Active, Midway,
     MyPaths, Alive
<1>2. CASE Next
  BY <1>2, LockStep DEF LInv
<1> QED
  BY <1>1, <1>2

(* Whoever may write a path holds its lock, for any number of transactions *)
(* and whatever was killed or failed, at every path where no process ever  *)
(* died with its lock file.                                                *)
THEOREM Isolated == Spec => []Isolation
<1>1. Init => LInv
  BY PatchTransactionAssumption
  DEF Init, LInv, LockedAt, Holds, Active, Midway
<1>2. IInv /\ LInv => Isolation
  <2> SUFFICES ASSUME IInv, LInv, NEW t \in Txs, Active(t),
                      NEW p \in MyPaths(t) \ orphaned
               PROVE  lock[p] = t
    BY DEF Isolation, Active
  <2>1. p \in Paths
    BY ScriptPaths DEF IInv, TypeOK, MyPaths
  <2> QED
    BY <2>1 DEF LInv, LockedAt, Holds
<1> QED
  BY <1>1, <1>2, InitIInv, Inductive, LockInductive, PTL DEF Spec

-----------------------------------------------------------------------------
(* What the rest of the module assumes: transactions that follow each      *)
(* other, no program that takes no lock, and failing calls only before the *)
(* first operation or at the commit mark.  Kills are not restricted.       *)
Alone ==
    /\ ~Overlap /\ MaxForeign = 0
    /\ Faults \cap {"intent", "apply", "restore", "recover"} = {}

(* No operation of a script touches a path of another: a group that edits  *)
(* a file and renames it is left out, and recovery does fail it            *)
(* (QuarantineOnlyForeign).                                                *)
Touched(o) == {o.path, o.to}
Once ==
    \A s \in Scripts : \A i, k \in DOMAIN s :
        i # k => Touched(s[i]) \cap Touched(s[k]) = {}

Scanning == {"scan", "owner", "rlock", "recover"}
Early == {"new", "list", "begin", "guard", "prepare"} \cup Scanning
Acting == {"op", "op2", "apply", "unlink"}

-----------------------------------------------------------------------------
(* One transaction runs; its rollback restores everything, and what it     *)
(* finds on its scan is what the journals say.                             *)
Sole ==
    /\ \A t, u \in Txs : Running(t) /\ Running(u) => t = u
    /\ \A t \in Txs :
          /\ ~failed[t] /\ ~scan[t].clash /\ result[t] # "writeFailed"
          /\ pc[t] \in Early \cup Acting \cup {"rollback"} => result[t] = "none"
          /\ pc[t] = "release" => result[t] = "committed"

(* A lock of the living is one of those its holder has just asked for.     *)
Locks ==
    \A t \in Txs, p \in Paths : Alive(t) /\ lock[p] = t =>
        \/ pc[t] = "recover" /\ p \in scan[t].copy.paths
        \/ /\ pc[t] \in {"guard", "prepare", "rollback", "release"} \cup Acting
           /\ p \in MyPaths(t)

(* There is one journal at most: that of the transaction that runs or, if  *)
(* it died, one that the scan of the next still has on its list.           *)
Single == \A i, k \in Txs : journal[i] # NoJournal /\ journal[k] # NoJournal => i = k

Owned(t) ==
    journal[t] # NoJournal => pc[t] \in Acting \cup {"rollback", "release", "drop", "dead"}

Cleaned(t) ==
    pc[t] \in {"begin", "guard", "prepare"} => \A k \in Txs : journal[k] = NoJournal

Ahead(t) ==
    /\ pc[t] \in Scanning => \A k \in Txs : journal[k] # NoJournal =>
          k \in scan[t].todo \/ (pc[t] # "scan" /\ k = scan[t].cur)
    /\ pc[t] \in Scanning \ {"scan"} => scan[t].copy = journal[scan[t].cur]

Pile == Single /\ \A t \in Txs : Owned(t) /\ Cleaned(t) /\ Ahead(t)

(* The transaction that runs: its paths hold what the snapshots say, or    *)
(* what it has written itself, which its mutations tell.                   *)
Applies(t) ==
    \A i \in DOMAIN script[t] :
        LET o == script[t][i] IN
        /\ o.op \in {"remove", "rename"} => plan[t][o.path] # Absent
        /\ o.op = "rename" => plan[t][o.to] = Absent

Snapped(t) ==
    pc[t] \in {"guard", "prepare", "rollback"} \cup Acting =>
        \A p \in Paths : writer[p] = t \/ disk[p] = snap[t][p]

Recorded(t) ==
    pc[t] \in Acting \cup {"rollback"} /\ journal[t] # NoJournal =>
        journal[t].paths = MyPaths(t) /\ journal[t].pre = snap[t]

Mine(t) ==
    pc[t] \in Acting \cup {"rollback"} =>
        \A p \in Paths : writer[p] = t => p \in Range(muts[t])

Earlier(t) ==
    pc[t] \in Acting =>
        \A p \in Range(muts[t]) : \E i \in DOMAIN script[t] :
            /\ p \in Touched(script[t][i])
            /\ i < next[t] \/ (pc[t] = "unlink" /\ i = next[t])

Wrote(t) ==
    /\ pc[t] \in Early => \A p \in Paths : writer[p] # t
    /\ pc[t] \in {"drop", "end"} => result[t] = "committed" \/ \A p \in Paths : writer[p] # t

(* The operation it is at has its intents in the journal.                  *)
Intended(t) ==
    LET o == Op(t)
        post == journal[t].post IN
    /\ pc[t] \in {"op2", "unlink"} => o.op = "rename" /\ post[o.path] = Absent
    /\ pc[t] = "unlink" =>
          snap[t][o.path] # Absent /\ writer[o.path] # t /\ o.path \in Range(muts[t])
    /\ pc[t] = "apply" =>
          /\ o.op = "write" => post[o.path] = o.value /\ snap[t][o.path] # o.value
          /\ o.op = "remove" => post[o.path] = Absent /\ snap[t][o.path] # Absent
          /\ o.op = "rename" => post[o.path] = Absent /\ post[o.to] = snap[t][o.path]

Acts(t) ==
    /\ Applies(t) /\ Snapped(t) /\ Recorded(t) /\ Mine(t) /\ Earlier(t)
    /\ Wrote(t) /\ Intended(t)

(* Bytes that are not committed are backed by the journal of their writer, *)
(* which has something else to put back; and the paths in a journal hold   *)
(* what it has to put back or what its owner wrote.                        *)
Backed(t) ==
    result[t] # "committed" => \A p \in Paths : writer[p] = t =>
        /\ HasJournal(t) /\ p \in journal[t].paths
        /\ journal[t].post[p] = disk[p] /\ journal[t].pre[p] # disk[p]

Intact(t) ==
    HasJournal(t) =>
        /\ result[t] # "committed"
        /\ \A p \in journal[t].paths : disk[p] = journal[t].pre[p] \/ writer[p] = t

(* What a recovery has left behind is no longer its owner's.               *)
Swept(t) ==
    pc[t] = "recover" /\ HasJournal(scan[t].cur) =>
        /\ scan[t].left \subseteq scan[t].copy.paths
        /\ \A p \in scan[t].copy.paths \ scan[t].left : writer[p] # scan[t].cur

RInv ==
    /\ IInv /\ Sole /\ Locks /\ Pile
    /\ \A t \in Txs : Acts(t) /\ Backed(t) /\ Intact(t) /\ Swept(t)

-----------------------------------------------------------------------------
(* A set of numbers has a least one.                                       *)
LEMMA Least ==
  ASSUME NEW S \in SUBSET Nat, S # {}
  PROVE  \E x \in S : \A y \in S : ~(y < x)
<1> DEFINE R == OpToRel(<, Nat)
<1>1. PICK x \in S : \A y \in S : ~(<<y, x>> \in R)
  <2>1. IsWellFoundedOn(R, Nat)
    BY NatLessThanWellFounded
  <2> HIDE DEF R
  <2> QED
    BY <2>1, WFMin
<1>2. \A y \in S : ~(y < x)
  BY <1>1, Zenon DEF OpToRel
<1> QED
  BY <1>2

(* A set of files has a first one, which a recovery takes next.            *)
LEMMA FirstPath ==
  ASSUME NEW S \in SUBSET Paths, S # {}
  PROVE  Min(S) \in S
<1>1. S \subseteq Nat
  BY PatchTransactionAssumption
<1>2. PICK x \in S : \A y \in S : ~(y < x)
  BY <1>1, Least
<1>3. \A y \in S : x =< y
  BY <1>1, <1>2
<1> QED
  BY <1>3 DEF Min

(* At the start nobody has done anything.                                  *)
LEMMA InitRInv == Init => RInv
<1> SUFFICES ASSUME Init PROVE RInv
  OBVIOUS
<1>1. IInv
  BY InitIInv
<1>2. Sole /\ Locks /\ Pile
  BY PatchTransactionAssumption
  DEF Init, Sole, Locks, Pile, Single, Owned, Cleaned, Ahead, Running, Idle,
      Early, Acting, Scanning
<1>3. \A t \in Txs : Acts(t)
  BY PatchTransactionAssumption
  DEF Init, Acts, Applies, Snapped, Recorded, Mine, Earlier, Wrote, Intended,
      Acting
<1>4. \A t \in Txs : Backed(t) /\ Intact(t) /\ Swept(t)
  BY PatchTransactionAssumption DEF Init, Backed, Intact, Swept, HasJournal
<1> QED
  BY <1>1, <1>2, <1>3, <1>4 DEF RInv

(* Every step is one of a transaction's process, or of a lock reclaimed.   *)
LEMMA Mover ==
  ASSUME RInv, Alone, Next
  PROVE  (\E t \in Txs : Moves(t)) \/ \E t \in Txs : Reclaimed(t)
<1>1. ASSUME NEW p \in Paths, NEW v \in Values, ForeignEdit(p, v) PROVE FALSE
  BY <1>1 DEF ForeignEdit, RInv, IInv, TypeOK, Alone
<1> QED
  BY <1>1, Steps DEF Advance

(* No call fails in an operation or a restore; a lock asked for by a scan  *)
(* is free, and the owner it asks after is dead.                           *)
LEMMA Possible ==
  ASSUME RInv, Alone, NEW t \in Txs
  PROVE  /\ ~OpFails(t) /\ ~RestoreFails(t) /\ ~RecoverFails(t)
         /\ ~RecoveryLockTimeout(t)
         /\ pc[t] \in Scanning \ {"scan"} =>
               /\ scan[t].cur \in Txs /\ journal[scan[t].cur] # NoJournal
               /\ scan[t].copy = journal[scan[t].cur]
               /\ ~Alive(scan[t].cur)
<1>1. ~OpFails(t) /\ ~RestoreFails(t) /\ ~RecoverFails(t)
  BY DEF Alone, Fault, OpFails, RestoreFails, RecoverFails
<1>2. ~RecoveryLockTimeout(t)
  <2> SUFFICES ASSUME pc[t] = "rlock", NEW p \in scan[t].copy.paths, Taken(p)
               PROVE  FALSE
    BY DEF RecoveryLockTimeout, InTheWay
  <2>1. p \in Paths
    BY DEF RInv, IInv, RecoversTheDead, Journals
  <2>2. Running(lock[p]) /\ pc[lock[p]] # "rlock" /\ lock[p] \in Txs
    BY <2>1 DEF RInv, Locks, Running, Acting, Taken
  <2>3. Running(t)
    BY DEF Running
  <2> QED
    BY <2>2, <2>3 DEF RInv, Sole
<1>3. ASSUME pc[t] \in Scanning \ {"scan"}
      PROVE  /\ scan[t].cur \in Txs /\ journal[scan[t].cur] # NoJournal
             /\ scan[t].copy = journal[scan[t].cur] /\ ~Alive(scan[t].cur)
  <2> DEFINE j == scan[t].cur
  <2>1. j \in Txs /\ scan[t].copy \in Journals
    BY <1>3 DEF RInv, IInv, RecoversTheDead, Scanning
  <2>2. scan[t].copy = journal[j]
    BY <1>3 DEF RInv, Pile, Ahead
  <2>3. journal[j] # NoJournal
    BY <2>1, <2>2, PatchTransactionAssumption
  <2>4. ASSUME Alive(j) PROVE FALSE
    <3>1. pc[j] \in Acting \cup {"rollback", "release", "drop"}
      BY <2>1, <2>3, <2>4 DEF RInv, Pile, Owned, Alive
    <3>2. Running(j) /\ Running(t)
      BY <1>3, <3>1 DEF Running, Acting, Scanning
    <3>3. j = t
      BY <2>1, <3>2 DEF RInv, Sole
    <3> QED
      BY <1>3, <3>1, <3>3 DEF Acting, Scanning
  <2> QED
    BY <2>1, <2>2, <2>3, <2>4
<1> QED
  BY <1>1, <1>2, <1>3

(* A transaction that does not move remembers all it did.                  *)
Same(u) ==
    /\ pc'[u] = pc[u] /\ script'[u] = script[u] /\ plan'[u] = plan[u]
    /\ snap'[u] = snap[u] /\ next'[u] = next[u] /\ muts'[u] = muts[u]
    /\ failed'[u] = failed[u] /\ result'[u] = result[u] /\ scan'[u] = scan[u]

(* A step is of one transaction's memory only.                             *)
LEMMA OthersSame ==
  ASSUME TypeOK, NEW t \in Txs, NEW u \in Txs, u # t, Moves(t)
  PROVE  Same(u)
<1> USE DEF TypeOK, Goto, mem, Same
<1>1. ASSUME NEW s \in Scripts, Start(t, s) PROVE Same(u)
  BY <1>1 DEF Start
<1>2. CASE Recovery(t)
  BY <1>2 DEF Recovery, ListJournals, ScanDone, ReadJournal, CheckOwner,
     RecoveryLock, RecoveryLockTimeout, RecoverCommitted, RecoverPath,
     RecoverDone, Resume
<1>3. CASE Transaction(t)
  BY <1>3 DEF Transaction, Begin, Guard, Prepare, SkipWrite, AppendIntent,
     AppendIntent2, Apply, Link, Unlink, MarkCommitted, Commit, DeleteJournal,
     RestorePath, RollbackDone
<1>4. CASE Failure(t)
  BY <1>4 DEF Failure, RecoverFails, BeginFails, PrepareFails, Reject, OpFails,
     MarkFails, RestoreFails, Resume
<1>5. CASE Die(t)
  BY <1>5 DEF Die
<1> QED
  BY <1>1, <1>2, <1>3, <1>4, <1>5 DEF Moves

(* While one runs, another can only die after its end.                     *)
LEMMA OneRuns ==
  ASSUME RInv, Alone, NEW t \in Txs, NEW u \in Txs, u # t, Moves(t), Running(u)
  PROVE  Die(t)
<1>1. ~Running(t)
  BY DEF RInv, Sole
<1>2. ASSUME NEW s \in Scripts PROVE ~Start(t, s)
  BY DEF Start, Alone
<1>3. ~Recovery(t)
  BY <1>1 DEF Running, Recovery, ListJournals, ScanDone, ReadJournal, CheckOwner,
     RecoveryLock, RecoveryLockTimeout, RecoverCommitted, RecoverPath,
     RecoverDone
<1>4. ~Transaction(t)
  BY <1>1 DEF Running, Transaction, Begin, Guard, Prepare, SkipWrite, AppendIntent,
     AppendIntent2, Apply, Link, Unlink, MarkCommitted, Commit, DeleteJournal,
     RestorePath, RollbackDone
<1>5. ~Failure(t)
  BY <1>1 DEF Running, Failure, RecoverFails, BeginFails, PrepareFails, Reject,
     OpFails, MarkFails, RestoreFails
<1> QED
  BY <1>2, <1>3, <1>4, <1>5 DEF Moves

(* What a step does to a file, it does as the transaction's own or as      *)
(* nobody's.                                                               *)
LEMMA FileEffects ==
  ASSUME RInv, NEW t \in Txs, Moves(t), NEW p \in Paths
  PROVE  \/ disk'[p] = disk[p] /\ writer'[p] = writer[p]
         \/ writer'[p] = t /\ (Apply(t) \/ Link(t) \/ Unlink(t))
         \/ writer'[p] = NoTx /\ (RestorePath(t) \/ RecoverPath(t))
<1> USE DEF RInv, IInv, TypeOK, files
<1>1. CASE Apply(t) \/ Link(t) \/ Unlink(t)
  BY <1>1 DEF Apply, Link, Unlink
<1>2. CASE RestorePath(t)
  BY <1>2 DEF RestorePath
<1>3. CASE RecoverPath(t)
  BY <1>3 DEF RecoverPath
<1>4. CASE ~(Apply(t) \/ Link(t) \/ Unlink(t) \/ RestorePath(t) \/ RecoverPath(t))
  BY <1>4 DEF Moves, Start, Recovery, ListJournals, ScanDone, ReadJournal, CheckOwner,
     RecoveryLock, RecoveryLockTimeout, RecoverCommitted, RecoverDone,
     Transaction, Begin, Guard, Prepare, SkipWrite, AppendIntent,
     AppendIntent2, MarkCommitted, Commit, DeleteJournal, RollbackDone,
     Failure, RecoverFails, BeginFails, PrepareFails, Reject, OpFails,
     MarkFails, RestoreFails, Die
<1> QED
  BY <1>1, <1>2, <1>3, <1>4

(* The journal of another is deleted by a recovery or not touched, and a   *)
(* transaction's own appears when it is prepared.                          *)
LEMMA JournalEffects ==
  ASSUME RInv, NEW t \in Txs, Moves(t), NEW u \in Txs
  PROVE  /\ u # t => \/ journal'[u] = journal[u]
                     \/ /\ RecoverCommitted(t) \/ RecoverDone(t)
                        /\ u = scan[t].cur /\ journal'[u] = NoJournal
         /\ journal'[u] # NoJournal => journal[u] # NoJournal \/ (u = t /\ Prepare(t))
<1> USE DEF RInv, IInv, TypeOK, files
<1>1. CASE RecoverCommitted(t) \/ RecoverDone(t)
  BY <1>1 DEF RecoverCommitted, RecoverDone
<1>2. CASE Prepare(t) \/ DeleteJournal(t)
  BY <1>2 DEF Prepare, DeleteJournal
<1>3. CASE AppendIntent(t) \/ AppendIntent2(t) \/ MarkCommitted(t)
  <2>1. journal[t] # NoJournal
    BY <1>3 DEF Prepared, HasJournal, AppendIntent, AppendIntent2, MarkCommitted
  <2>2. u # t => journal'[u] = journal[u]
    BY <1>3 DEF AppendIntent, AppendIntent2, MarkCommitted, Expect
  <2> QED
    BY <2>1, <2>2
<1>4. CASE ~(\/ RecoverCommitted(t) \/ RecoverDone(t) \/ Prepare(t)
             \/ DeleteJournal(t) \/ AppendIntent(t) \/ AppendIntent2(t)
             \/ MarkCommitted(t))
  BY <1>4 DEF Moves, Start, Recovery, ListJournals, ScanDone, ReadJournal, CheckOwner,
     RecoveryLock, RecoveryLockTimeout, RecoverPath, Transaction, Begin, Guard,
     SkipWrite, Apply, Link, Unlink, Commit, RestorePath, RollbackDone,
     Failure, RecoverFails, BeginFails, PrepareFails, Reject, OpFails,
     MarkFails, RestoreFails, Die
<1> QED
  BY <1>1, <1>2, <1>3, <1>4

(* A path a scan is at holds what the journal has to put back, or what the *)
(* journal says its owner wrote: it is put back, and nothing clashes.      *)
LEMMA Recovered ==
  ASSUME RInv, Alone, NEW t \in Txs, RecoverPath(t)
  PROVE  LET j == scan[t].cur
             p == Min(scan[t].left) IN
         /\ HasJournal(j) /\ p \in scan[t].copy.paths /\ p \in Paths
         /\ ~Clashes(scan[t].copy, p)
         /\ writer[p] = j <=> Restores(scan[t].copy, p)
<1> DEFINE j == scan[t].cur
           p == Min(scan[t].left)
<1>1. /\ j \in Txs /\ journal[j] # NoJournal /\ scan[t].copy = journal[j]
      /\ pc[t] = "recover" /\ HasJournal(j)
  BY Possible DEF RecoverPath, HasJournal, Scanning
<1>2. scan[t].left \in SUBSET Paths /\ scan[t].left # {}
  BY DEF RInv, IInv, TypeOK, Scans, RecoverPath
<1>3. p \in scan[t].left /\ p \in Paths
  BY <1>2, FirstPath
<1>4. p \in journal[j].paths
  BY <1>1, <1>3 DEF RInv, Swept
<1>5. disk[p] = journal[j].pre[p] \/ writer[p] = j
  BY <1>1, <1>4 DEF RInv, Intact
<1>6. writer[p] = j => journal[j].post[p] = disk[p] /\ journal[j].pre[p] # disk[p]
  BY <1>1, <1>3 DEF RInv, Intact, Backed
<1> QED
  BY <1>1, <1>3, <1>4, <1>5, <1>6 DEF Clashes, Restores

(* A scan keeps to itself: it is over when the transaction begins, it has  *)
(* met no clash, and the transaction has done nothing yet.                 *)
LEMMA ScanTurns ==
  ASSUME RInv, Alone, NEW t \in Txs, Recovery(t)
  PROVE  /\ pc[t] \in {"list"} \cup Scanning
         /\ pc'[t] \in {"begin"} \cup Scanning
         /\ ~scan'[t].clash
         /\ UNCHANGED <<mem, env>>
<1> USE DEF RInv, IInv, TypeOK, Scanning, Goto
<1>1. ~scan[t].clash /\ scan[t] \in Scans
  BY DEF Sole
<1>2. CASE ListJournals(t)
  BY <1>1, <1>2 DEF ListJournals, Scans
<1>3. CASE ScanDone(t)
  BY <1>1, <1>3 DEF ScanDone
<1>4. ASSUME NEW j \in Txs, ReadJournal(t, j)
      PROVE  /\ pc[t] = "scan" /\ pc'[t] \in Scanning /\ ~scan'[t].clash
             /\ UNCHANGED <<mem, env>>
  <2>1. scan'[t].clash = scan[t].clash
    BY <1>1, <1>4 DEF ReadJournal, Scans
  <2> QED
    BY <1>1, <1>4, <2>1 DEF ReadJournal
<1>5. CASE CheckOwner(t)
  <2>1. pc[t] = "owner" /\ ~Alive(scan[t].cur)
    BY <1>5, Possible DEF CheckOwner
  <2> QED
    BY <1>1, <1>5, <2>1 DEF CheckOwner
<1>6. CASE RecoveryLock(t)
  <2>1. scan'[t].clash = scan[t].clash
    BY <1>1, <1>6 DEF RecoveryLock, Scans
  <2> QED
    BY <1>1, <1>6, <2>1 DEF RecoveryLock
<1>7. CASE RecoverCommitted(t)
  BY <1>7 DEF RecoverCommitted, Resume, Idle
<1>8. CASE RecoverPath(t)
  <2>1. ~Clashes(scan[t].copy, Min(scan[t].left))
    BY <1>8, Recovered
  <2>2. ~scan'[t].clash
    BY <1>1, <1>8, <2>1 DEF RecoverPath, Scans
  <2> QED
    BY <1>8, <2>2 DEF RecoverPath
<1>9. CASE RecoverDone(t)
  BY <1>9 DEF RecoverDone, Resume, Idle
<1> QED
  BY <1>2, <1>3, <1>4, <1>5, <1>6, <1>7, <1>8, <1>9, Possible DEF Recovery

-----------------------------------------------------------------------------
(* No step makes a second transaction run, a restore fail, or a clash.      *)
LEMMA SoleStep ==
  ASSUME RInv, Alone, NEW t \in Txs, Moves(t), IInv'
  PROVE  Sole'
<1> USE DEF Sole
<1>1. Running(t)' => \A u \in Txs \ {t} : ~Running(u)
  <2> SUFFICES ASSUME Running(t)', NEW u \in Txs \ {t}, Running(u) PROVE FALSE
    OBVIOUS
  <2>1. Die(t)
    BY OneRuns
  <2> QED
    BY <2>1 DEF Die, Goto, Running, RInv, IInv, TypeOK
<1>2. \A u \in Txs \ {t} : Same(u)
  BY OthersSame DEF RInv, IInv
<1>3. \A u, v \in Txs : Running(u)' /\ Running(v)' => u = v
  BY <1>1, <1>2 DEF RInv, Running, Same
<1>4. ~failed'[t] /\ ~scan'[t].clash /\ result'[t] # "writeFailed"
  <2> USE DEF RInv, IInv, TypeOK, mem
  <2>1. CASE Recovery(t)
    BY <2>1, ScanTurns
  <2>2. CASE Transaction(t)
    BY <2>2 DEF Transaction, Begin, Guard, Prepare, SkipWrite,
       AppendIntent, AppendIntent2, Apply, Link, Unlink, MarkCommitted, Commit,
       DeleteJournal, RestorePath, RollbackDone
  <2>3. CASE Failure(t)
    <3>1. BeginFails(t) \/ PrepareFails(t) \/ Reject(t) \/ MarkFails(t)
      BY <2>3, Possible DEF Failure
    <3>2. scan' = scan /\ failed' = failed /\ result' = result
      BY <3>1 DEF BeginFails, PrepareFails, Reject, MarkFails
    <3> QED
      BY <3>2 DEF Sole
  <2>4. ASSUME NEW s \in Scripts, Start(t, s)
        PROVE  scan' = scan /\ failed' = failed /\ result' = result
    BY <2>4 DEF Start
  <2>5. CASE Die(t)
    BY <2>5 DEF Die, Idle
  <2> QED
    BY <2>1, <2>2, <2>3, <2>4, <2>5 DEF Moves
<1>5. /\ pc'[t] \in Early \cup Acting \cup {"rollback"} => result'[t] = "none"
      /\ pc'[t] = "release" => result'[t] = "committed"
  <2> USE DEF RInv, IInv, TypeOK, Goto, mem, Early, Acting, Scanning
  <2>1. CASE MarkCommitted(t) \/ Die(t)
    BY <2>1 DEF MarkCommitted, Die
  <2>2. ASSUME NEW s \in Scripts, Start(t, s)
        PROVE  pc[t] = "new" /\ pc'[t] = "list" /\ result' = result
    BY <2>2 DEF Start
  <2>3. CASE Recovery(t)
    BY <2>3, ScanTurns
  <2>4. CASE Transaction(t)
    BY <2>1, <2>4 DEF Transaction, Begin, Guard, Prepare, SkipWrite, AppendIntent,
       AppendIntent2, Apply, Link, Unlink, Commit, DeleteJournal, RestorePath,
       RollbackDone
  <2>5. CASE Failure(t)
    BY <2>5, Possible DEF Failure, BeginFails, PrepareFails, Reject, MarkFails
  <2> QED
    BY <2>1, <2>2, <2>3, <2>4, <2>5 DEF Moves
<1> QED
  BY <1>2, <1>3, <1>4, <1>5 DEF Same, RInv

(* A lock is held from the request to the release, by who works under it.  *)
LEMMA LocksStep ==
  ASSUME RInv, Alone, NEW t \in Txs, Moves(t)
  PROVE  Locks'
<1> USE DEF RInv, IInv, TypeOK, Goto, files, mem
<1>1. ASSUME NEW u \in Txs, u # t, NEW p \in Paths, Alive(u)', lock'[p] = u
      PROVE  \/ pc'[u] = "recover" /\ p \in scan'[u].copy.paths
             \/ /\ pc'[u] \in {"guard", "prepare", "rollback", "release"} \cup Acting
                /\ p \in MyPaths(u)'
  <2>1. Same(u)
    BY <1>1, OthersSame
  <2>2. \/ lock' = lock \/ \E ps : Lock(ps, t) \/ Unlock(ps, t)
    BY Possible DEF Moves, Start, Recovery, ListJournals, ScanDone, ReadJournal,
       CheckOwner, RecoveryLock, RecoverCommitted, RecoverPath, RecoverDone,
       Transaction, Begin, Guard, Prepare, SkipWrite, AppendIntent, AppendIntent2,
       Apply, Link, Unlink, MarkCommitted, Commit, DeleteJournal, RestorePath,
       RollbackDone, Failure, BeginFails, PrepareFails, Reject, MarkFails, Die
  <2>3. lock[p] = u
    BY <1>1, <2>2, PatchTransactionAssumption DEF Lock, Unlock
  <2> QED
    BY <1>1, <2>1, <2>3 DEF Same, Alive, Locks, MyPaths
<1>2. ASSUME NEW p \in Paths, Alive(t)', lock'[p] = t
      PROVE  \/ pc'[t] = "recover" /\ p \in scan'[t].copy.paths
             \/ /\ pc'[t] \in {"guard", "prepare", "rollback", "release"} \cup Acting
                /\ p \in MyPaths(t)'
  <2> USE <1>2
  <2> DEFINE Held == pc[t] = "recover" /\ p \in scan[t].copy.paths
             Used == /\ pc[t] \in {"guard", "prepare", "rollback", "release"} \cup Acting
                     /\ p \in MyPaths(t)
  <2>1. lock[p] = t /\ Alive(t) => Held \/ Used
    BY DEF Locks
  <2>2. CASE RecoveryLock(t)
    <3>1. scan'[t].copy = scan[t].copy /\ pc'[t] = "recover" /\ pc[t] = "rlock"
      BY <2>2 DEF RecoveryLock, Scans
    <3> QED
      BY <2>1, <2>2, <3>1 DEF RecoveryLock, Lock, Alive, Acting
  <2>3. CASE RecoverCommitted(t) \/ RecoverDone(t)
    <3>1. pc[t] = "recover" /\ Unlock(scan[t].copy.paths, t)
      BY <2>3 DEF RecoverCommitted, RecoverDone
    <3> QED
      BY <2>1, <3>1, PatchTransactionAssumption DEF Unlock, Alive, Acting
  <2>4. CASE RecoverPath(t)
    <3>1. scan'[t].copy = scan[t].copy
      BY <2>4 DEF RecoverPath, Scans
    <3> QED
      BY <2>1, <2>4, <3>1 DEF RecoverPath, Alive, Acting
  <2>5. CASE Begin(t)
    BY <2>1, <2>5 DEF Begin, Lock, Alive, Acting, MyPaths
  <2>6. CASE Commit(t) \/ RollbackDone(t)
    <3>1. pc[t] \in {"release", "rollback"} /\ Unlock(MyPaths(t), t)
      BY <2>6 DEF Commit, RollbackDone
    <3> QED
      BY <2>1, <3>1, PatchTransactionAssumption DEF Unlock, Alive, Acting
  <2>7. CASE ListJournals(t) \/ ScanDone(t) \/ (\E j \in Txs : ReadJournal(t, j))
             \/ CheckOwner(t) \/ BeginFails(t) \/ DeleteJournal(t)
             \/ (\E s \in Scripts : Start(t, s))
    <3>1. /\ pc[t] \in {"new", "list", "scan", "owner", "begin", "drop"}
          /\ lock' = lock
      BY <2>7 DEF ListJournals, ScanDone, ReadJournal, CheckOwner, BeginFails,
         DeleteJournal, Start
    <3> QED
      BY <2>1, <3>1 DEF Alive, Acting
  <2>8. CASE Guard(t) \/ Prepare(t) \/ SkipWrite(t) \/ AppendIntent(t)
             \/ AppendIntent2(t) \/ Apply(t) \/ Link(t) \/ Unlink(t)
             \/ MarkCommitted(t) \/ RestorePath(t) \/ PrepareFails(t) \/ Reject(t)
             \/ MarkFails(t)
    <3>1. /\ pc[t] \in {"guard", "prepare", "rollback"} \cup Acting
          /\ pc'[t] \in {"guard", "prepare", "rollback", "release"} \cup Acting
          /\ lock' = lock /\ script' = script
      BY <2>8 DEF Guard, Prepare, SkipWrite, AppendIntent, AppendIntent2, Apply,
         Link, Unlink, MarkCommitted, RestorePath, PrepareFails, Reject,
         MarkFails, Acting
    <3> QED
      BY <2>1, <3>1 DEF Alive, Acting, MyPaths
  <2>9. CASE Die(t)
    BY <2>9 DEF Die, Alive
  <2> QED
    BY <2>2, <2>3, <2>4, <2>5, <2>6, <2>7, <2>8, <2>9, Possible
    DEF Moves, Recovery, Transaction, Failure
<1> QED
  BY <1>1, <1>2 DEF Locks

(* A journal is made when there is none, and stays listed until it goes.   *)
LEMMA PileStep ==
  ASSUME RInv, Alone, NEW t \in Txs, Moves(t), Sole'
  PROVE  Pile'
<1> USE DEF RInv, IInv, TypeOK, Goto, mem, files
<1>1. Single'
  <2>1. ASSUME NEW i \in Txs, NEW k \in Txs, journal'[i] # NoJournal,
               journal'[k] # NoJournal, Prepare(t)
        PROVE  i = k
    <3>1. \A u \in Txs : journal[u] = NoJournal
      BY <2>1 DEF Pile, Cleaned, Prepare
    <3> QED
      BY <2>1, <3>1, JournalEffects
  <2>2. ASSUME NEW i \in Txs, NEW k \in Txs, journal'[i] # NoJournal,
               journal'[k] # NoJournal, ~Prepare(t)
        PROVE  i = k
    BY <2>2, JournalEffects DEF Pile, Single
  <2> QED
    BY <2>1, <2>2 DEF Single
<1>2. ASSUME NEW u \in Txs, u # t PROVE Owned(u)' /\ Cleaned(u)' /\ Ahead(u)'
  <2>1. Same(u)
    BY <1>2, OthersSame
  <2>2. Owned(u)'
    BY <1>2, <2>1, JournalEffects DEF Pile, Owned, Same
  <2>3. CASE Running(u)
    <3>1. UNCHANGED files
      BY <1>2, <2>3, OneRuns DEF Die
    <3> QED
      BY <2>1, <2>2, <3>1 DEF Pile, Cleaned, Ahead, Same
  <2>4. CASE ~Running(u)
    <3>1. pc'[u] \in {"new", "end", "dead"}
      BY <2>1, <2>4 DEF Same, Running
    <3> QED
      BY <2>2, <3>1 DEF Cleaned, Ahead, Scanning
  <2> QED
    BY <2>3, <2>4
<1>3. Owned(t)' /\ Cleaned(t)' /\ Ahead(t)'
  <2>1. Owned(t) /\ Cleaned(t) /\ Ahead(t) /\ scan[t] \in Scans
    BY DEF Pile
  <2>2. CASE ListJournals(t) \/ ScanDone(t) \/ (\E j \in Txs : ReadJournal(t, j))
             \/ CheckOwner(t) \/ RecoveryLock(t) \/ RecoverPath(t)
    <3>1. journal' = journal /\ pc[t] \in {"list"} \cup Scanning
      BY <2>2 DEF ListJournals, ScanDone, ReadJournal, CheckOwner, RecoveryLock,
         RecoverPath, Scanning
    <3>2. journal'[t] = NoJournal
      BY <2>1, <3>1 DEF Owned, Acting, Scanning
    <3>3. CASE ListJournals(t)
      BY <2>1, <3>1, <3>2, <3>3 DEF ListJournals, Owned, Cleaned, Ahead, Scanning, Scans
    <3>4. CASE ScanDone(t)
      BY <2>1, <3>1, <3>2, <3>4 DEF ScanDone, Owned, Cleaned, Ahead, Scanning
    <3>5. ASSUME NEW j \in Txs, ReadJournal(t, j)
          PROVE  Cleaned(t)' /\ Ahead(t)'
      <4>1. CASE journal[j] = NoJournal
        <5>1. scan'[t].todo = scan[t].todo \ {j} /\ pc'[t] = "scan"
          BY <2>1, <3>5, <4>1 DEF ReadJournal, Scans
        <5> QED
          BY <2>1, <3>1, <3>5, <4>1, <5>1 DEF ReadJournal, Cleaned, Ahead, Scanning
      <4>2. CASE journal[j] # NoJournal
        <5>1. /\ scan'[t].todo = scan[t].todo \ {j} /\ scan'[t].cur = j
              /\ scan'[t].copy = journal[j] /\ pc'[t] = "owner"
          BY <2>1, <3>5, <4>2 DEF ReadJournal, Scans
        <5> QED
          BY <2>1, <3>1, <3>5, <4>2, <5>1 DEF ReadJournal, Cleaned, Ahead, Scanning
      <4> QED
        BY <4>1, <4>2
    <3>6. CASE CheckOwner(t) \/ RecoveryLock(t) \/ RecoverPath(t)
      <4>1. /\ scan'[t].todo = scan[t].todo /\ scan'[t].cur = scan[t].cur
            /\ scan'[t].copy = scan[t].copy
            /\ pc[t] \in Scanning \ {"scan"} /\ pc'[t] \in Scanning \ {"scan"}
        <5>1. CASE CheckOwner(t)
          <6>1. ~Alive(scan[t].cur)
            BY <5>1, Possible DEF CheckOwner, Scanning
          <6> QED
            BY <5>1, <6>1 DEF CheckOwner, Scanning
        <5>2. CASE RecoveryLock(t)
          BY <2>1, <5>2 DEF RecoveryLock, Scanning, Scans
        <5>3. CASE RecoverPath(t)
          BY <2>1, <5>3 DEF RecoverPath, Scanning, Scans
        <5> QED
          BY <3>6, <5>1, <5>2, <5>3
      <4>2. \A k \in Txs : journal[k] # NoJournal => k \in scan[t].todo \/ k = scan[t].cur
        BY <2>1, <4>1 DEF Ahead
      <4>3. scan[t].copy = journal[scan[t].cur]
        BY <2>1, <4>1 DEF Ahead
      <4>4. pc'[t] \in {"owner", "rlock", "recover"}
        BY <4>1 DEF Scanning
      <4>5. Ahead(t)'
        BY <3>1, <4>1, <4>2, <4>3, <4>4 DEF Ahead
      <4> QED
        BY <3>2, <4>4, <4>5 DEF Owned, Cleaned
    <3> QED
      BY <2>2, <3>2, <3>3, <3>4, <3>5, <3>6 DEF Owned
  <2>3. CASE RecoverCommitted(t) \/ RecoverDone(t)
    <3>1. /\ pc[t] = "recover" /\ pc'[t] = "scan" /\ scan'[t].todo = scan[t].todo
          /\ journal' = [journal EXCEPT ![scan[t].cur] = NoJournal]
      BY <2>1, <2>3 DEF RecoverCommitted, RecoverDone, Resume, Idle, Sole
    <3> QED
      BY <2>1, <3>1 DEF Owned, Cleaned, Ahead, Scanning, Acting
  <2>4. CASE Begin(t) \/ Guard(t) \/ BeginFails(t) \/ PrepareFails(t)
             \/ (\E s \in Scripts : Start(t, s))
    <3>1. /\ pc[t] \in {"new", "begin", "guard", "prepare"} /\ journal' = journal
          /\ pc'[t] \in {"guard", "prepare"} => pc[t] \in {"begin", "guard"}
          /\ pc'[t] \in {"list", "guard", "prepare", "rollback", "end"}
      BY <2>4 DEF Begin, Guard, BeginFails, PrepareFails, Start
    <3> QED
      BY <2>1, <3>1 DEF Owned, Cleaned, Ahead, Scanning, Acting
  <2>5. CASE Prepare(t)
    BY <2>5 DEF Prepare, Owned, Cleaned, Ahead, Scanning, Acting
  <2>6. CASE SkipWrite(t) \/ AppendIntent(t) \/ AppendIntent2(t) \/ Apply(t)
             \/ Link(t) \/ Unlink(t) \/ MarkCommitted(t) \/ Commit(t)
             \/ RestorePath(t) \/ Reject(t) \/ MarkFails(t) \/ RollbackDone(t)
    <3>1. pc'[t] \in Acting \cup {"rollback", "release", "drop"}
      BY <2>6 DEF SkipWrite, AppendIntent, AppendIntent2, Apply, Link, Unlink,
         MarkCommitted, Commit, RestorePath, Reject, MarkFails, RollbackDone,
         Acting, Sole
    <3> QED
      BY <3>1 DEF Owned, Cleaned, Ahead, Scanning, Acting
  <2>7. CASE DeleteJournal(t)
    BY <2>7 DEF DeleteJournal, Owned, Cleaned, Ahead, Scanning
  <2>8. CASE Die(t)
    BY <2>8 DEF Die, Owned, Cleaned, Ahead, Scanning
  <2> QED
    BY <2>2, <2>3, <2>4, <2>5, <2>6, <2>7, <2>8, Possible
    DEF Moves, Recovery, Transaction, Failure
<1> QED
  BY <1>1, <1>2, <1>3 DEF Pile

-----------------------------------------------------------------------------
(* What the transaction does not move keeps what is said of it.            *)
LEMMA ActsOthers ==
  ASSUME RInv, Alone, NEW t \in Txs, Moves(t), NEW u \in Txs, u # t
  PROVE  Acts(u)'
<1>1. Same(u)
  BY OthersSame DEF RInv, IInv
<1>2. Acts(u)
  BY DEF RInv
<1>3. CASE Running(u)
  <2>1. UNCHANGED files
    BY <1>3, OneRuns DEF Die
  <2> QED
    BY <1>1, <1>2, <2>1 DEF Acts, Applies, Snapped, Recorded, Mine, Earlier,
       Wrote, Intended, Same, files, Op, MyPaths
<1>4. CASE ~Running(u)
  <2>1. pc'[u] \in {"new", "end", "dead"}
    BY <1>1, <1>4 DEF Same, Running
  <2>2. \A p \in Paths : writer'[p] = u => writer[p] = u
    BY FileEffects, PatchTransactionAssumption
  <2> QED
    BY <1>1, <1>2, <2>1, <2>2 DEF Acts, Applies, Snapped, Recorded, Mine, Earlier,
       Wrote, Intended, Same, Acting, Early, Scanning
<1> QED
  BY <1>3, <1>4

(* The script and its plan are for life; the snapshots are those of begin. *)
LEMMA ScriptKept ==
  ASSUME RInv, NEW t \in Txs, Moves(t), ~Die(t), \A s \in Scripts : ~Start(t, s)
  PROVE  /\ script'[t] = script[t] /\ plan'[t] = plan[t]
         /\ ~Begin(t) => snap'[t] = snap[t]
<1>1. CASE Recovery(t)
  BY <1>1 DEF mem, Recovery, ListJournals, ScanDone, ReadJournal, CheckOwner,
     RecoveryLock, RecoveryLockTimeout, RecoverCommitted, RecoverPath, RecoverDone
<1>2. CASE Transaction(t)
  BY <1>2 DEF mem, Transaction, Begin, Guard, Prepare, SkipWrite, AppendIntent,
     AppendIntent2, Apply, Link, Unlink, MarkCommitted, Commit, DeleteJournal,
     RestorePath, RollbackDone
<1>3. CASE Failure(t)
  BY <1>3 DEF mem, Failure, RecoverFails, BeginFails, PrepareFails, Reject, OpFails,
     MarkFails, RestoreFails
<1> QED
  BY <1>1, <1>2, <1>3 DEF Moves

(* An operation finds its paths as they were at begin.                     *)
LEMMA NotYet ==
  ASSUME RInv, Once, NEW t \in Txs,
         pc[t] \in {"op2", "apply"} \/ (pc[t] = "op" /\ More(t))
  PROVE  LET o == Op(t) IN
         /\ o \in Ops /\ next[t] \in DOMAIN script[t] /\ o = script[t][next[t]]
         /\ o.op \in {"remove", "rename"} => plan[t][o.path] # Absent
         /\ o.op = "rename" => o.path # o.to
         /\ \A p \in Touched(o) :
               /\ p \in Paths /\ p \in MyPaths(t) /\ p \notin Range(muts[t])
               /\ writer[p] # t /\ disk[p] = snap[t][p]
<1> DEFINE o == Op(t)
<1>1. o \in Ops
  BY AtOperation DEF RInv
<1>2. script[t] \in Scripts \cup {<<>>} /\ script[t] \in Seq(Ops)
  <2>1. Scripts \subseteq Seq(Ops) /\ <<>> \in Seq(Ops)
    BY PatchTransactionAssumption
  <2> QED
    BY <2>1 DEF RInv, IInv, TypeOK
<1>3. next[t] \in DOMAIN script[t] /\ o = script[t][next[t]]
  BY <1>2 DEF RInv, IInv, TypeOK, InRange, More, Op
<1>4. script[t] \in Scripts
  BY <1>2, <1>3
<1>5. Applies(t) /\ Snapped(t) /\ Mine(t) /\ Earlier(t) /\ pc[t] \in Acting
  BY DEF RInv, Acts, Acting
<1>6. ASSUME NEW p \in Touched(o) PROVE p \in Paths /\ p \in MyPaths(t)
  BY <1>1, <1>3, <1>6 DEF Touched, Ops, MyPaths, PathsOf
<1>7. ASSUME NEW p \in Touched(o), p \in Range(muts[t]) PROVE FALSE
  <2>1. PICK i \in DOMAIN script[t] : p \in Touched(script[t][i]) /\ i < next[t]
    BY <1>5, <1>7 DEF Earlier
  <2>2. i # next[t]
    BY <1>2, <2>1 DEF RInv, IInv, TypeOK
  <2> QED
    BY <1>3, <1>4, <1>7, <2>1, <2>2 DEF Once
<1>8. ASSUME NEW p \in Touched(o) PROVE writer[p] # t /\ disk[p] = snap[t][p]
  BY <1>5, <1>6, <1>7, <1>8 DEF Mine, Snapped, Acting
<1>9. /\ o.op \in {"remove", "rename"} => plan[t][o.path] # Absent
      /\ o.op = "rename" => o.path # o.to
  BY <1>3, <1>5 DEF Applies
<1> QED
  BY <1>1, <1>3, <1>6, <1>7, <1>8, <1>9

(* A transaction that has its snapshots has had them since begin.          *)
LEMMA Underway ==
  ASSUME RInv, Alone, NEW t \in Txs, Moves(t), ~Begin(t),
         pc'[t] \in {"guard", "prepare", "rollback"} \cup Acting
  PROVE  /\ pc[t] \in {"guard", "prepare", "rollback"} \cup Acting
         /\ script'[t] = script[t] /\ plan'[t] = plan[t] /\ snap'[t] = snap[t]
         /\ \/ Guard(t) \/ Prepare(t) \/ PrepareFails(t) \/ SkipWrite(t)
            \/ AppendIntent(t) \/ AppendIntent2(t) \/ Apply(t) \/ Link(t)
            \/ Unlink(t) \/ Reject(t) \/ MarkFails(t) \/ RestorePath(t)
<1> USE DEF RInv, IInv, TypeOK, Goto
<1>1. ~Recovery(t)
  BY ScanTurns DEF Scanning, Acting
<1>2. \A s \in Scripts : ~Start(t, s)
  BY DEF Start, Acting
<1>3. ~Die(t)
  BY DEF Die, Acting
<1>4. ~MarkCommitted(t) /\ ~Commit(t) /\ ~DeleteJournal(t) /\ ~RollbackDone(t)
      /\ ~BeginFails(t)
  BY DEF MarkCommitted, Commit, DeleteJournal, RollbackDone, BeginFails, Acting
<1>5. \/ Guard(t) \/ Prepare(t) \/ PrepareFails(t) \/ SkipWrite(t)
      \/ AppendIntent(t) \/ AppendIntent2(t) \/ Apply(t) \/ Link(t)
      \/ Unlink(t) \/ Reject(t) \/ MarkFails(t) \/ RestorePath(t)
  BY <1>1, <1>2, <1>3, <1>4, Possible DEF Moves, Transaction, Failure
<1>6. pc[t] \in {"guard", "prepare", "rollback"} \cup Acting
  BY <1>5 DEF Guard, Prepare, PrepareFails, SkipWrite, AppendIntent, AppendIntent2,
     Apply, Link, Unlink, Reject, MarkFails, RestorePath, Acting
<1> QED
  BY <1>2, <1>3, <1>5, <1>6, ScriptKept

(* What the plan was made for stays as it was planned.                     *)
LEMMA AppliesStep ==
  ASSUME RInv, NEW t \in Txs, Moves(t)
  PROVE  Applies(t)'
<1> USE DEF RInv, IInv, TypeOK
<1>1. ASSUME NEW s \in Scripts, Start(t, s) PROVE Applies(t)'
  BY <1>1 DEF Start, Applicable, Applies
<1>2. CASE Die(t)
  BY <1>2 DEF Die, Applies
<1>3. CASE ~Die(t) /\ \A s \in Scripts : ~Start(t, s)
  <2>1. Applies(t)
    BY DEF Acts
  <2>2. script'[t] = script[t] /\ plan'[t] = plan[t]
    BY <1>3, ScriptKept
  <2> QED
    BY <2>1, <2>2 DEF Applies
<1> QED
  BY <1>1, <1>2, <1>3

(* A file changes by the transaction's own writes, or back to a snapshot.  *)
LEMMA SnappedStep ==
  ASSUME RInv, Alone, NEW t \in Txs, Moves(t)
  PROVE  Snapped(t)'
<1> USE DEF RInv, IInv, TypeOK, Goto
<1>1. CASE Begin(t)
  BY <1>1 DEF Begin, Snapped
<1>2. CASE RestorePath(t)
  <2>1. Last(muts[t]) \in Paths
    BY <1>2, LastFront DEF RestorePath
  <2>2. \A p \in Paths : writer[p] = t \/ disk[p] = snap[t][p]
    BY <1>2 DEF RestorePath, Acts, Snapped
  <2>3. snap' = snap
    BY <1>2 DEF RestorePath
  <2>4. \A p \in Paths : writer'[p] = t \/ disk'[p] = snap[t][p]
    BY <1>2, <2>1, <2>2 DEF RestorePath
  <2> QED
    BY <2>3, <2>4 DEF Snapped
<1>3. CASE ~Begin(t) /\ ~RestorePath(t)
  <2> SUFFICES ASSUME pc'[t] \in {"guard", "prepare", "rollback"} \cup Acting,
                      NEW p \in Paths
               PROVE  writer'[p] = t \/ disk'[p] = snap'[t][p]
    BY DEF Snapped
  <2>1. /\ pc[t] \in {"guard", "prepare", "rollback"} \cup Acting
        /\ snap'[t] = snap[t]
    BY <1>3, Underway
  <2>2. writer[p] = t \/ disk[p] = snap[t][p]
    BY <2>1 DEF Acts, Snapped
  <2>3. ~RecoverPath(t)
    BY <2>1 DEF RecoverPath, Acting
  <2> QED
    BY <1>3, <2>1, <2>2, <2>3, FileEffects
<1> QED
  BY <1>1, <1>2, <1>3

(* The journal names the paths of the script and what the snapshots say.   *)
LEMMA RecordedStep ==
  ASSUME RInv, Alone, NEW t \in Txs, Moves(t)
  PROVE  Recorded(t)'
<1> USE DEF RInv, IInv, TypeOK, Goto, files
<1> SUFFICES ASSUME pc'[t] \in Acting \cup {"rollback"}, journal'[t] # NoJournal
             PROVE  journal'[t].paths = MyPaths(t)' /\ journal'[t].pre = snap'[t]
  BY DEF Recorded
<1>1. ~Begin(t)
  BY DEF Begin, Acting
<1>2. MyPaths(t)' = MyPaths(t) /\ snap'[t] = snap[t]
  BY <1>1, Underway DEF MyPaths
<1>3. CASE Prepare(t)
  BY <1>2, <1>3 DEF Prepare
<1>4. CASE AppendIntent(t) \/ AppendIntent2(t)
  <2>1. PICK p, c : Expect(t, p, c)
    BY <1>4 DEF AppendIntent, AppendIntent2
  <2>2. journal[t] # NoJournal /\ pc[t] \in Acting
    BY <1>4 DEF AppendIntent, AppendIntent2, Prepared, HasJournal, Acting
  <2>3. journal[t].paths = MyPaths(t) /\ journal[t].pre = snap[t] /\ journal[t] \in Journals
    BY <2>2 DEF Acts, Recorded
  <2>4. journal'[t].paths = journal[t].paths /\ journal'[t].pre = journal[t].pre
    BY <2>1, <2>3 DEF Expect, Journals
  <2> QED
    BY <1>2, <2>3, <2>4
<1>5. CASE Guard(t) \/ PrepareFails(t)
  BY <1>5 DEF Guard, PrepareFails, Pile, Cleaned
<1>6. CASE SkipWrite(t) \/ Apply(t) \/ Link(t) \/ Unlink(t) \/ Reject(t)
           \/ MarkFails(t) \/ RestorePath(t)
  <2>1. journal' = journal /\ pc[t] \in Acting \cup {"rollback"}
    BY <1>6 DEF SkipWrite, Apply, Link, Unlink, Reject, MarkFails, RestorePath, Acting
  <2>2. journal[t].paths = MyPaths(t) /\ journal[t].pre = snap[t]
    BY <2>1 DEF Acts, Recorded
  <2> QED
    BY <1>2, <2>1, <2>2
<1> QED
  BY <1>1, <1>3, <1>4, <1>5, <1>6, Underway

(* The members of a list that has grown by one,                            *)
LEMMA AppendMembers ==
  ASSUME NEW s \in Seq(Paths), NEW p \in Paths
  PROVE  Range(Append(s, p)) = Range(s) \cup {p}
<1> USE DEF Range
<1>1. /\ Append(s, p) \in Seq(Paths) /\ Len(Append(s, p)) = Len(s) + 1
      /\ \A i \in 1..Len(s) : Append(s, p)[i] = s[i]
      /\ Append(s, p)[Len(s) + 1] = p
  OBVIOUS
<1>2. DOMAIN Append(s, p) = (1..Len(s)) \cup {Len(s) + 1} /\ DOMAIN s = 1..Len(s)
  BY <1>1
<1> QED
  BY <1>1, <1>2

(* ... by two.                                                             *)
LEMMA PairMembers ==
  ASSUME NEW s \in Seq(Paths), NEW p \in Paths, NEW q \in Paths
  PROVE  Range(s \o <<p, q>>) = Range(s) \cup {p, q}
<1> USE DEF Range
<1> DEFINE r == s \o <<p, q>>
<1>1. /\ r \in Seq(Paths) /\ Len(r) = Len(s) + 2
      /\ \A i \in 1..Len(s) : r[i] = s[i]
      /\ r[Len(s) + 1] = p /\ r[Len(s) + 2] = q
  OBVIOUS
<1>2. DOMAIN r = (1..Len(s)) \cup {Len(s) + 1, Len(s) + 2} /\ DOMAIN s = 1..Len(s)
  BY <1>1
<1> HIDE DEF r
<1> QED
  BY <1>1, <1>2

(* ... or shrunk by its last.                                              *)
LEMMA FrontMembers ==
  ASSUME NEW s \in Seq(Paths), s # <<>>
  PROVE  Range(s) = Range(Front(s)) \cup {Last(s)}
<1> USE DEF Range
<1>1. Len(s) \in Nat \ {0} /\ Last(s) = s[Len(s)]
  BY DEF Last
<1>2. Front(s) = [i \in 1..(Len(s) - 1) |-> s[i]]
  BY <1>1 DEF Front
<1>3. PICK n \in Nat : n = Len(s) - 1 /\ Len(s) = n + 1
  BY <1>1
<1>4. DOMAIN s = 1..(n + 1)
  BY <1>3
<1>5. DOMAIN s = (1..n) \cup {n + 1}
  BY <1>4
<1>6. Front(s) = [i \in 1..n |-> s[i]] /\ Last(s) = s[n + 1]
  BY <1>1, <1>2, <1>3
<1> QED
  BY <1>5, <1>6

(* Each of its writes is in its mutations until it is restored.            *)
LEMMA MineStep ==
  ASSUME RInv, Alone, Once, NEW t \in Txs, Moves(t)
  PROVE  Mine(t)'
<1> USE DEF RInv, IInv, TypeOK, Goto, files, mem
<1> SUFFICES ASSUME pc'[t] \in Acting \cup {"rollback"}, NEW p \in Paths, writer'[p] = t
             PROVE  p \in Range(muts'[t])
  BY DEF Mine
<1>1. ~Begin(t)
  BY DEF Begin, Acting
<1>2. CASE Guard(t) \/ Prepare(t) \/ PrepareFails(t)
  <2>1. writer' = writer /\ pc[t] \in Early
    BY <1>2 DEF Guard, Prepare, PrepareFails, Early
  <2> QED
    BY <2>1 DEF Acts, Wrote
<1>3. CASE SkipWrite(t) \/ AppendIntent(t) \/ AppendIntent2(t) \/ Reject(t) \/ MarkFails(t)
  <2>1. writer' = writer /\ muts' = muts /\ pc[t] \in Acting
    BY <1>3 DEF SkipWrite, AppendIntent, AppendIntent2, Reject, MarkFails, Acting
  <2> QED
    BY <2>1 DEF Acts, Mine
<1>4. CASE Apply(t)
  <2>1. Op(t).path \in Paths /\ pc[t] \in Acting
    BY <1>4, AtOperation DEF Apply, Ops, Acting
  <2>2. muts'[t] = Append(muts[t], Op(t).path) /\ (p = Op(t).path \/ writer[p] = t)
    BY <1>4 DEF Apply
  <2>3. Range(muts'[t]) = Range(muts[t]) \cup {Op(t).path}
    BY <2>1, <2>2, AppendMembers
  <2> QED
    BY <2>1, <2>2, <2>3 DEF Acts, Mine
<1>5. CASE Link(t)
  <2>1. Op(t).path \in Paths /\ Op(t).to \in Paths /\ pc[t] \in Acting
    BY <1>5, AtOperation DEF Link, Ops, Acting
  <2>2. muts'[t] = muts[t] \o <<Op(t).path, Op(t).to>> /\ (p = Op(t).to \/ writer[p] = t)
    BY <1>5 DEF Link
  <2>3. Range(muts'[t]) = Range(muts[t]) \cup {Op(t).path, Op(t).to}
    BY <2>1, <2>2, PairMembers
  <2> QED
    BY <2>1, <2>2, <2>3 DEF Acts, Mine
<1>6. CASE Unlink(t)
  <2>1. muts' = muts /\ (p = Op(t).path \/ writer[p] = t) /\ pc[t] = "unlink"
    BY <1>6 DEF Unlink
  <2> QED
    BY <2>1 DEF Acts, Mine, Intended, Acting
<1>7. CASE RestorePath(t)
  <2>1. muts'[t] = Front(muts[t]) /\ muts[t] # <<>> /\ pc[t] = "rollback"
    BY <1>7 DEF RestorePath
  <2>2. p # Last(muts[t]) /\ writer[p] = t
    <3>1. writer' = [writer EXCEPT ![Last(muts[t])] = NoTx]
      BY <1>7 DEF RestorePath
    <3> QED
      BY <3>1, PatchTransactionAssumption
  <2>3. p \in Range(muts[t])
    BY <2>1, <2>2 DEF Acts, Mine
  <2>4. Range(muts[t]) = Range(Front(muts[t])) \cup {Last(muts[t])}
    BY <2>1, FrontMembers
  <2> QED
    BY <2>1, <2>2, <2>3, <2>4
<1> QED
  BY <1>1, <1>2, <1>3, <1>4, <1>5, <1>6, <1>7, Underway

(* Its mutations are those of the operations it has done.                  *)
LEMMA EarlierStep ==
  ASSUME RInv, Alone, Once, NEW t \in Txs, Moves(t)
  PROVE  Earlier(t)'
<1> USE DEF RInv, IInv, TypeOK, Goto, files, mem
<1> SUFFICES ASSUME pc'[t] \in Acting, NEW p \in Range(muts'[t])
             PROVE  \E i \in DOMAIN script'[t] :
                       /\ p \in Touched(script'[t][i])
                       /\ i < next'[t] \/ (pc'[t] = "unlink" /\ i = next'[t])
  BY DEF Earlier
<1>1. ~Begin(t)
  BY DEF Begin, Acting
<1>2. script'[t] = script[t]
  BY <1>1, Underway
<1>3. \A i \in DOMAIN script[t] : i \in Nat
  <2>1. script[t] \in Seq(Ops)
    <3>1. Scripts \subseteq Seq(Ops) /\ <<>> \in Seq(Ops)
      BY PatchTransactionAssumption
    <3> QED
      BY <3>1
  <2> QED
    BY <2>1
<1>4. pc[t] \in Acting => \A q \in Range(muts[t]) : \E i \in DOMAIN script[t] :
         /\ q \in Touched(script[t][i])
         /\ i < next[t] \/ (pc[t] = "unlink" /\ i = next[t])
  BY DEF Acts, Earlier
<1>5. CASE Prepare(t)
  <2>1. muts'[t] = <<>>
    BY <1>5 DEF Prepare, Prepared
  <2> QED
    BY <2>1 DEF Range
<1>6. CASE SkipWrite(t)
  <2>1. muts' = muts /\ pc[t] = "op" /\ next'[t] = next[t] + 1 /\ next[t] \in Nat
    BY <1>6 DEF SkipWrite
  <2> QED
    BY <1>2, <1>3, <1>4, <2>1 DEF Acting
<1>7. CASE AppendIntent(t) \/ AppendIntent2(t)
  <2>1. muts' = muts /\ next' = next /\ pc[t] \in {"op", "op2"}
    BY <1>7 DEF AppendIntent, AppendIntent2
  <2> QED
    BY <1>2, <1>4, <2>1 DEF Acting
<1>8. CASE Apply(t)
  <2>1. pc[t] = "apply" /\ next'[t] = next[t] + 1 /\ next[t] \in Nat
        /\ muts'[t] = Append(muts[t], Op(t).path)
    BY <1>8 DEF Apply
  <2>2. Op(t).path \in Paths /\ next[t] \in DOMAIN script[t] /\ Op(t) = script[t][next[t]]
    BY <2>1, NotYet DEF Touched
  <2>3. p \in Range(muts[t]) \cup {Op(t).path}
    BY <2>1, <2>2, AppendMembers
  <2>4. CASE p = Op(t).path
    BY <1>2, <2>1, <2>2, <2>4 DEF Touched
  <2>5. CASE p \in Range(muts[t])
    BY <1>2, <1>3, <1>4, <2>1, <2>5 DEF Acting
  <2> QED
    BY <2>3, <2>4, <2>5
<1>9. CASE Link(t)
  <2>1. pc[t] = "apply" /\ next' = next /\ pc'[t] = "unlink"
        /\ muts'[t] = muts[t] \o <<Op(t).path, Op(t).to>>
    BY <1>9 DEF Link
  <2>2. /\ Op(t).path \in Paths /\ Op(t).to \in Paths
        /\ next[t] \in DOMAIN script[t] /\ Op(t) = script[t][next[t]]
    BY <2>1, NotYet DEF Touched
  <2>3. p \in Range(muts[t]) \cup Touched(Op(t))
    BY <2>1, <2>2, PairMembers DEF Touched
  <2>4. CASE p \in Touched(Op(t))
    BY <1>2, <2>1, <2>2, <2>4
  <2>5. CASE p \in Range(muts[t])
    BY <1>2, <1>4, <2>1, <2>5 DEF Acting
  <2> QED
    BY <2>3, <2>4, <2>5
<1>10. CASE Unlink(t)
  <2>1. muts' = muts /\ pc[t] = "unlink" /\ next'[t] = next[t] + 1 /\ next[t] \in Nat
    BY <1>10 DEF Unlink
  <2>2. PICK i \in DOMAIN script[t] : p \in Touched(script[t][i]) /\ (i < next[t] \/ i = next[t])
    BY <1>4, <2>1 DEF Acting
  <2>3. i < next'[t]
    BY <1>3, <2>1, <2>2
  <2> QED
    BY <1>2, <2>2, <2>3
<1>11. CASE Guard(t) \/ PrepareFails(t) \/ Reject(t) \/ MarkFails(t) \/ RestorePath(t)
  BY <1>11 DEF Guard, PrepareFails, Reject, MarkFails, RestorePath, Acting
<1> QED
  BY <1>1, <1>5, <1>6, <1>7, <1>8, <1>9, <1>10, <1>11, Underway

(* It has written nothing before it acts, and nothing is left of one that  *)
(* ended without committing.                                                *)
LEMMA WroteStep ==
  ASSUME RInv, Alone, NEW t \in Txs, Moves(t)
  PROVE  Wrote(t)'
<1> USE DEF RInv, IInv, TypeOK, Goto, files, mem
<1>1. Wrote(t) /\ Mine(t)
  BY DEF Acts
<1>2. ~(Apply(t) \/ Link(t) \/ Unlink(t)) =>
         \A p \in Paths : writer'[p] = t => writer[p] = t
  BY FileEffects, PatchTransactionAssumption
<1>3. CASE \/ Recovery(t) \/ Begin(t) \/ Guard(t) \/ BeginFails(t)
           \/ \E s \in Scripts : Start(t, s)
  <2>1. pc[t] \in Early
    BY <1>3, ScanTurns DEF Begin, Guard, BeginFails, Start, Early
  <2>2. ~(Apply(t) \/ Link(t) \/ Unlink(t))
    BY <2>1 DEF Apply, Link, Unlink, Early, Scanning
  <2> QED
    BY <1>1, <1>2, <2>1, <2>2 DEF Wrote
<1>4. CASE \/ Prepare(t) \/ SkipWrite(t) \/ AppendIntent(t) \/ AppendIntent2(t)
           \/ Apply(t) \/ Link(t) \/ Unlink(t) \/ MarkCommitted(t) \/ RestorePath(t)
           \/ PrepareFails(t) \/ Reject(t) \/ MarkFails(t) \/ Die(t)
  <2>1. pc'[t] \in Acting \cup {"rollback", "release", "dead"}
    BY <1>4 DEF Prepare, SkipWrite, AppendIntent, AppendIntent2, Apply, Link, Unlink,
       MarkCommitted, RestorePath, PrepareFails, Reject, MarkFails, Die, Acting
  <2> QED
    BY <2>1 DEF Wrote, Acting, Early, Scanning
<1>5. CASE Commit(t) \/ DeleteJournal(t)
  <2>1. /\ pc[t] \in {"release", "drop"} /\ pc'[t] \in {"drop", "end"}
        /\ result' = result /\ writer' = writer
    BY <1>5 DEF Commit, DeleteJournal
  <2>2. result[t] = "committed" \/ \A p \in Paths : writer[p] # t
    BY <1>1, <2>1 DEF Wrote, Sole
  <2> QED
    BY <2>1, <2>2 DEF Wrote, Early, Scanning
<1>6. CASE RollbackDone(t)
  <2>1. /\ pc[t] = "rollback" /\ pc'[t] \in {"drop", "end"} /\ muts[t] = <<>>
        /\ writer' = writer
    BY <1>6 DEF RollbackDone
  <2>2. \A p \in Paths : writer[p] # t
    BY <1>1, <2>1 DEF Mine, Range
  <2> QED
    BY <2>1, <2>2 DEF Wrote, Early, Scanning
<1> QED
  BY <1>3, <1>4, <1>5, <1>6, Possible DEF Moves, Transaction, Failure

(* An intent changes one entry of one journal.                             *)
LEMMA Expected ==
  ASSUME RInv, NEW t \in Txs, NEW p \in Paths, NEW c, Expect(t, p, c),
         journal[t] # NoJournal
  PROVE  /\ journal'[t].post = [journal[t].post EXCEPT ![p] = c]
         /\ journal[t].post \in [Paths -> Contents \cup {NoIntent}]
         /\ journal'[t].state = journal[t].state /\ journal'[t].pre = journal[t].pre
         /\ journal'[t].paths = journal[t].paths
         /\ \A u \in Txs \ {t} : journal'[u] = journal[u]
<1>1. journal[t] \in Journals /\ journal \in [Txs -> Journals \cup {NoJournal}]
  BY DEF RInv, IInv, TypeOK
<1> QED
  BY <1>1 DEF Expect, Journals

(* It is at an operation only with what it will leave there on record.     *)
LEMMA IntendedStep ==
  ASSUME RInv, Alone, Once, NEW t \in Txs, Moves(t)
  PROVE  Intended(t)'
<1> USE DEF RInv, IInv, TypeOK, Goto, files, mem
<1> DEFINE o == Op(t)
<1>1. CASE AppendIntent(t)
  <2>1. /\ pc[t] = "op" /\ More(t) /\ Fresh(t) /\ ~Unchanged(t)
        /\ Op(t)' = o /\ snap' = snap
    BY <1>1 DEF AppendIntent, Op
  <2>2. /\ o \in Ops /\ o.path \in Paths /\ o.path \notin Range(muts[t])
        /\ disk[o.path] = snap[t][o.path]
        /\ o.op \in {"remove", "rename"} => plan[t][o.path] # Absent
    BY <2>1, NotYet DEF Touched
  <2>3. journal[t] # NoJournal
    BY <2>1 DEF Prepared, HasJournal
  <2>4. Expect(t, o.path, IF o.op = "write" THEN o.value ELSE Absent)
    BY <1>1 DEF AppendIntent
  <2>5. journal'[t].post[o.path] = IF o.op = "write" THEN o.value ELSE Absent
    <3>1. ASSUME NEW c, Expect(t, o.path, c) PROVE journal'[t].post[o.path] = c
      <4>1. journal'[t].post = [journal[t].post EXCEPT ![o.path] = c]
        BY <2>2, <2>3, <3>1, Expected
      <4>2. journal[t].post \in [Paths -> Contents \cup {NoIntent}]
        BY <2>2, <2>3, <3>1, Expected
      <4> QED
        BY <2>2, <4>1, <4>2
    <3> QED
      BY <2>4, <3>1
  <2>6. CASE o.op = "rename"
    <3>1. pc'[t] = "op2"
      BY <1>1, <2>6 DEF AppendIntent
    <3> QED
      BY <2>1, <2>5, <2>6, <3>1 DEF Intended
  <2>7. CASE o.op = "write"
    <3>1. pc'[t] = "apply"
      BY <1>1, <2>7 DEF AppendIntent
    <3>2. disk[o.path] # o.value
      BY <2>1, <2>7 DEF Unchanged
    <3> QED
      BY <2>1, <2>2, <2>5, <2>7, <3>1, <3>2 DEF Intended
  <2>8. CASE o.op = "remove"
    <3>1. pc'[t] = "apply"
      BY <1>1, <2>8 DEF AppendIntent
    <3>2. disk[o.path] # Absent
      BY <2>1, <2>2, <2>8 DEF Fresh
    <3> QED
      BY <2>1, <2>2, <2>5, <2>8, <3>1, <3>2 DEF Intended
  <2> QED
    BY <2>2, <2>6, <2>7, <2>8 DEF Ops
<1>2. CASE AppendIntent2(t)
  <2>1. /\ pc[t] = "op2" /\ pc'[t] = "apply" /\ Op(t)' = o /\ snap' = snap
        /\ Expect(t, o.to, disk[o.path])
    BY <1>2 DEF AppendIntent2, Op
  <2>2. /\ o.op = "rename" /\ journal[t].post[o.path] = Absent
        /\ journal[t] # NoJournal
    BY <2>1 DEF Prepared, HasJournal, Acts, Intended
  <2>3. /\ o.path \in Paths /\ o.to \in Paths /\ o.path # o.to
        /\ disk[o.path] = snap[t][o.path]
    BY <2>1, <2>2, NotYet DEF Touched
  <2>4. journal'[t].post = [journal[t].post EXCEPT ![o.to] = disk[o.path]]
    BY <2>1, <2>2, <2>3, Expected
  <2>5. journal[t].post \in [Paths -> Contents \cup {NoIntent}]
    BY <2>1, <2>2, <2>3, Expected
  <2> QED
    BY <2>1, <2>2, <2>3, <2>4, <2>5 DEF Intended
<1>3. CASE Link(t)
  <2>1. /\ pc[t] = "apply" /\ pc'[t] = "unlink" /\ Op(t)' = o /\ snap' = snap
        /\ o.op = "rename" /\ snap[t][o.path] # Absent /\ journal' = journal
        /\ writer' = [writer EXCEPT ![o.to] = t]
        /\ muts'[t] = muts[t] \o <<o.path, o.to>>
    BY <1>3 DEF Link, Op
  <2>2. /\ o.path \in Paths /\ o.to \in Paths /\ o.path # o.to /\ writer[o.path] # t
    BY <2>1, NotYet DEF Touched
  <2>3. journal[t].post[o.path] = Absent
    BY <2>1 DEF Acts, Intended
  <2>4. Range(muts'[t]) = Range(muts[t]) \cup {o.path, o.to}
    BY <2>1, <2>2, PairMembers
  <2> QED
    BY <2>1, <2>2, <2>3, <2>4 DEF Intended
<1>4. CASE ~AppendIntent(t) /\ ~AppendIntent2(t) /\ ~Link(t)
  <2> SUFFICES ASSUME pc'[t] \in {"op2", "apply", "unlink"} PROVE FALSE
    BY DEF Intended
  <2>1. ~Begin(t)
    BY DEF Begin
  <2>2. \/ Guard(t) \/ Prepare(t) \/ PrepareFails(t) \/ SkipWrite(t) \/ Apply(t)
        \/ Unlink(t) \/ Reject(t) \/ MarkFails(t) \/ RestorePath(t)
    BY <1>4, <2>1, Underway DEF Acting
  <2> QED
    BY <2>2 DEF Guard, Prepare, PrepareFails, SkipWrite, Apply, Unlink, Reject,
       MarkFails, RestorePath
<1> QED
  BY <1>1, <1>2, <1>3, <1>4

(* What holds of every transaction's own part holds after every step.      *)
LEMMA ActsStep ==
  ASSUME RInv, Alone, Once, NEW t \in Txs, Moves(t), NEW u \in Txs
  PROVE  Acts(u)'
BY ActsOthers, AppliesStep, SnappedStep, RecordedStep, MineStep, EarlierStep,
   WroteStep, IntendedStep DEF Acts

-----------------------------------------------------------------------------
(* An operation leaves what its intent says and its snapshot does not.     *)
LEMMA Operated ==
  ASSUME RInv, Alone, Once, NEW t \in Txs, Apply(t) \/ Link(t) \/ Unlink(t),
         NEW p \in Paths, disk'[p] # disk[p] \/ writer'[p] # writer[p]
  PROVE  /\ HasJournal(t) /\ p \in journal[t].paths
         /\ journal[t].post[p] = disk'[p] /\ journal[t].pre[p] # disk'[p]
<1> USE DEF RInv, IInv, TypeOK
<1> DEFINE o == Op(t)
<1>1. pc[t] \in {"apply", "unlink"} /\ HasJournal(t)
  BY DEF Apply, Link, Unlink, Prepared
<1>2. journal[t].paths = MyPaths(t) /\ journal[t].pre = snap[t]
  BY <1>1 DEF Acts, Recorded, HasJournal, Acting
<1>3. p \in Touched(o) => p \in MyPaths(t)
  <2>1. script[t] \in Scripts \cup {<<>>} /\ next[t] \in DOMAIN script[t]
    BY <1>1 DEF InRange
  <2> QED
    BY <2>1 DEF Touched, Op, MyPaths, PathsOf
<1>4. CASE Apply(t)
  <2>1. /\ pc[t] = "apply" /\ o.op \in {"write", "remove"} /\ p = o.path
        /\ disk'[p] = IF o.op = "write" THEN o.value ELSE Absent
    BY <1>4 DEF Apply
  <2> QED
    BY <1>1, <1>2, <1>3, <2>1 DEF Acts, Intended, Touched
<1>5. CASE Link(t)
  <2>1. /\ pc[t] = "apply" /\ o.op = "rename" /\ p = o.to /\ disk'[p] = disk[o.path]
        /\ snap[t][o.path] # Absent /\ snap[t][o.to] = Absent
    BY <1>5 DEF Link
  <2>2. disk[o.path] = snap[t][o.path]
    BY <2>1, NotYet DEF Touched
  <2> QED
    BY <1>1, <1>2, <1>3, <2>1, <2>2 DEF Acts, Intended, Touched
<1>6. CASE Unlink(t)
  <2>1. pc[t] = "unlink" /\ p = o.path /\ disk'[p] = Absent
    BY <1>6 DEF Unlink
  <2> QED
    BY <1>1, <1>2, <1>3, <2>1 DEF Acts, Intended, Touched
<1> QED
  BY <1>4, <1>5, <1>6

(* The steps from preparation to the end that change neither the journals  *)
(* nor the verdict.                                                        *)
Plain(t) ==
    \/ SkipWrite(t) \/ Commit(t) \/ RollbackDone(t) \/ Reject(t) \/ MarkFails(t)
    \/ Die(t) \/ RestorePath(t) \/ Apply(t) \/ Link(t) \/ Unlink(t)

(* A step is early, and then touches nothing of its own, or one of these.  *)
LEMMA LateSteps ==
  ASSUME RInv, Alone, NEW t \in Txs, Moves(t)
  PROVE  /\ \/ pc[t] \in Early \/ Plain(t) \/ AppendIntent(t) \/ AppendIntent2(t)
            \/ MarkCommitted(t) \/ DeleteJournal(t)
         /\ Plain(t) => journal' = journal /\ result' = result
         /\ pc[t] \in Early => /\ journal[t] = NoJournal
                               /\ \A p \in Paths : writer'[p] # t /\ writer[p] # t
<1>1. ASSUME \/ Recovery(t) \/ Begin(t) \/ Guard(t) \/ BeginFails(t) \/ Prepare(t)
             \/ PrepareFails(t) \/ \E s \in Scripts : Start(t, s)
      PROVE  pc[t] \in Early
  <2>1. CASE Recovery(t)
    BY <2>1, ScanTurns DEF Early
  <2>2. CASE \/ Begin(t) \/ Guard(t) \/ BeginFails(t) \/ Prepare(t)
             \/ PrepareFails(t) \/ \E s \in Scripts : Start(t, s)
    BY <2>2 DEF Begin, Guard, BeginFails, Prepare, PrepareFails, Start, Early
  <2> QED
    BY <1>1, <2>1, <2>2
<1>2. Plain(t) => journal' = journal /\ result' = result
  BY DEF Plain, SkipWrite, Commit, RollbackDone, Reject, MarkFails, Die, RestorePath,
     Apply, Link, Unlink, files, mem
<1>3. ASSUME pc[t] \in Early
      PROVE  /\ journal[t] = NoJournal
             /\ \A p \in Paths : writer'[p] # t /\ writer[p] # t
  <2>1. ~(Apply(t) \/ Link(t) \/ Unlink(t))
    BY <1>3 DEF Apply, Link, Unlink, Early, Scanning
  <2>2. \A p \in Paths : writer[p] # t
    BY <1>3 DEF RInv, Acts, Wrote
  <2>3. journal[t] = NoJournal
    BY <1>3 DEF RInv, Pile, Owned, Early, Scanning, Acting
  <2> QED
    BY <2>1, <2>2, <2>3, FileEffects, PatchTransactionAssumption
<1> QED
  BY <1>1, <1>2, <1>3, Possible DEF Moves, Transaction, Failure, Plain

(* Bytes that are not committed keep the journal that backs them.          *)
LEMMA BackedStep ==
  ASSUME RInv, Alone, Once, NEW t \in Txs, Moves(t), NEW u \in Txs
  PROVE  Backed(u)'
<1> SUFFICES ASSUME result'[u] # "committed", NEW p \in Paths, writer'[p] = u
             PROVE  /\ HasJournal(u)' /\ p \in journal'[u].paths
                    /\ journal'[u].post[p] = disk'[p]
                    /\ journal'[u].pre[p] # disk'[p]
  BY DEF Backed
<1> USE DEF RInv, IInv, TypeOK, files, mem
<1>1. ASSUME result[u] # "committed", writer[p] = u
      PROVE  /\ HasJournal(u) /\ p \in journal[u].paths
             /\ journal[u].post[p] = disk[p] /\ journal[u].pre[p] # disk[p]
  BY <1>1 DEF Backed
<1>2. CASE u # t
  <2>1. result[u] # "committed"
    BY <1>2, OthersSame DEF Same
  <2>2. writer[p] = u /\ disk'[p] = disk[p]
    BY <1>2, FileEffects, PatchTransactionAssumption
  <2>3. ASSUME RecoverCommitted(t) \/ RecoverDone(t), u = scan[t].cur PROVE FALSE
    <3>1. pc[t] = "recover" /\ scan[t].copy = journal[u]
      BY <2>3, Possible DEF RecoverCommitted, RecoverDone, Scanning
    <3>2. HasJournal(u) /\ p \in journal[u].paths
      BY <1>1, <2>1, <2>2
    <3>3. scan[t].left = {}
      BY <2>3, <3>1, <3>2 DEF RecoverCommitted, RecoverDone, HasJournal
    <3> QED
      BY <2>2, <2>3, <3>1, <3>2, <3>3 DEF Swept
  <2>4. journal'[u] = journal[u]
    BY <1>2, <2>3, JournalEffects
  <2> QED
    BY <1>1, <2>1, <2>2, <2>4 DEF HasJournal
<1>3. CASE u = t
  <2>1. pc[t] \notin Early
    BY <1>3, LateSteps
  <2>2. CASE Plain(t)
    <3>1. journal' = journal /\ result' = result
      BY <2>2, LateSteps
    <3>2. CASE disk'[p] = disk[p] /\ writer'[p] = writer[p]
      BY <1>1, <1>3, <3>1, <3>2 DEF HasJournal
    <3>3. CASE disk'[p] # disk[p] \/ writer'[p] # writer[p]
      <4>1. Apply(t) \/ Link(t) \/ Unlink(t)
        BY <1>3, <3>3, FileEffects, PatchTransactionAssumption
      <4> QED
        BY <1>3, <3>1, <3>3, <4>1, Operated DEF HasJournal
    <3> QED
      BY <3>2, <3>3
  <2>3. CASE AppendIntent(t) \/ AppendIntent2(t)
    <3>1. disk' = disk /\ writer' = writer /\ result' = result
      BY <2>3 DEF AppendIntent, AppendIntent2
    <3>2. /\ HasJournal(t) /\ p \in journal[t].paths
          /\ journal[t].post[p] = disk[p] /\ journal[t].pre[p] # disk[p]
      BY <1>1, <1>3, <3>1
    <3>3. PICK q, c : q \in Touched(Op(t)) /\ Expect(t, q, c)
      BY <2>3 DEF AppendIntent, AppendIntent2, Touched
    <3>4. q \in Paths /\ writer[q] # t
      BY <2>3, <3>3, NotYet DEF AppendIntent, AppendIntent2
    <3>5. p # q
      BY <1>3, <3>1, <3>4
    <3>6. journal[t] # NoJournal
      BY <3>2 DEF HasJournal
    <3>7. /\ journal'[t].post = [journal[t].post EXCEPT ![q] = c]
          /\ journal[t].post \in [Paths -> Contents \cup {NoIntent}]
          /\ journal'[t].state = journal[t].state /\ journal'[t].pre = journal[t].pre
          /\ journal'[t].paths = journal[t].paths
      BY <3>3, <3>4, <3>6, Expected
    <3>8. journal'[t] # NoJournal
      <4>1. journal'[t] \in Journals
        BY <3>3, <3>6, <3>7, <2>3, AtOperation, ExpectTyped
        DEF AppendIntent, AppendIntent2, Ops, Contents
      <4> QED
        BY <4>1, PatchTransactionAssumption
    <3> QED
      BY <1>3, <3>1, <3>2, <3>5, <3>7, <3>8 DEF HasJournal
  <2>4. CASE MarkCommitted(t)
    BY <1>3, <2>4 DEF MarkCommitted
  <2>5. CASE DeleteJournal(t)
    <3>1. pc[t] = "drop" /\ result' = result /\ writer' = writer
      BY <2>5 DEF DeleteJournal
    <3> QED
      BY <1>3, <3>1 DEF Acts, Wrote
  <2> QED
    BY <2>1, <2>2, <2>3, <2>4, <2>5, LateSteps
<1> QED
  BY <1>2, <1>3

(* A journal keeps what it has to put back until that is put back.         *)
LEMMA IntactStep ==
  ASSUME RInv, Alone, Once, NEW t \in Txs, Moves(t), NEW u \in Txs
  PROVE  Intact(u)'
<1> USE DEF RInv, IInv, TypeOK, files, mem
<1> SUFFICES ASSUME HasJournal(u)'
             PROVE  /\ result'[u] # "committed"
                    /\ \A p \in journal'[u].paths :
                          disk'[p] = journal'[u].pre[p] \/ writer'[p] = u
  BY DEF Intact
<1>1. ASSUME HasJournal(u)
      PROVE  /\ result[u] # "committed" /\ journal[u].paths \subseteq Paths
             /\ \A p \in journal[u].paths : disk[p] = journal[u].pre[p] \/ writer[p] = u
  BY <1>1 DEF Intact, HasJournal, Journals
<1>2. CASE u # t
  <2>1. journal'[u] = journal[u] /\ HasJournal(u) /\ journal[u] # NoJournal
    BY <1>2, JournalEffects DEF HasJournal
  <2>2. result'[u] = result[u]
    BY <1>2, OthersSame DEF Same
  <2>3. journal[t] = NoJournal
    BY <1>2, <2>1 DEF Pile, Single
  <2>4. ~(Apply(t) \/ Link(t) \/ Unlink(t) \/ RestorePath(t))
    BY <2>3 DEF Apply, Link, Unlink, RestorePath, Prepared, HasJournal
  <2>5. ASSUME NEW p \in journal[u].paths
        PROVE  disk'[p] = journal[u].pre[p] \/ writer'[p] = u
    <3>1. p \in Paths /\ (disk[p] = journal[u].pre[p] \/ writer[p] = u)
      BY <1>1, <2>1, <2>5
    <3>2. CASE RecoverPath(t)
      <4>1. HasJournal(scan[t].cur) /\ scan[t].cur \in Txs /\ scan[t].copy = journal[scan[t].cur]
        BY <3>2, Recovered, Possible DEF RecoverPath, Scanning
      <4>2. scan[t].cur = u
        BY <2>1, <4>1 DEF Pile, Single, HasJournal
      <4>3. disk'[p] = journal[u].pre[p] \/ (disk'[p] = disk[p] /\ writer'[p] = writer[p])
        BY <3>1, <3>2, <4>1, <4>2 DEF RecoverPath
      <4> QED
        BY <3>1, <4>3
    <3>3. CASE ~RecoverPath(t)
      BY <2>4, <3>1, <3>3, FileEffects
    <3> QED
      BY <3>2, <3>3
  <2> QED
    BY <1>1, <2>1, <2>2, <2>5
<1>3. CASE u = t
  <2>1. CASE pc[t] \in Early
    <3>1. Prepare(t)
      BY <1>3, <2>1, JournalEffects, LateSteps DEF HasJournal
    <3>2. /\ pc[t] = "prepare" /\ disk' = disk /\ result' = result
          /\ journal'[t].paths = MyPaths(t) /\ journal'[t].pre = snap[t]
      BY <3>1 DEF Prepare
    <3>3. MyPaths(t) \subseteq Paths
      BY ScriptPaths DEF MyPaths
    <3>4. \A p \in Paths : disk[p] = snap[t][p]
      BY <2>1, <3>2, LateSteps DEF Acts, Snapped
    <3>5. result[t] = "none"
      BY <2>1 DEF Sole
    <3> QED
      BY <1>3, <3>2, <3>3, <3>4, <3>5
  <2>2. CASE Plain(t)
    <3>1. journal' = journal /\ result' = result /\ HasJournal(t)
      BY <1>3, <2>2, LateSteps DEF HasJournal
    <3>2. ASSUME NEW p \in journal[t].paths
          PROVE  disk'[p] = journal[t].pre[p] \/ writer'[p] = t
      <4>1. p \in Paths /\ (disk[p] = journal[t].pre[p] \/ writer[p] = t)
        BY <1>1, <1>3, <3>1, <3>2
      <4>2. CASE RestorePath(t)
        <5>1. snap[t] = journal[t].pre
          BY <3>1, <4>2 DEF RestorePath, Acts, Recorded, HasJournal
        <5>2. disk'[p] = snap[t][p] \/ (disk'[p] = disk[p] /\ writer'[p] = writer[p])
          BY <4>1, <4>2 DEF RestorePath
        <5> QED
          BY <4>1, <5>1, <5>2
      <4>3. CASE ~RestorePath(t)
        <5>1. ~RecoverPath(t)
          BY <2>2 DEF Plain, RecoverPath, SkipWrite, Commit, RollbackDone, Reject,
             MarkFails, Die, RestorePath, Apply, Link, Unlink, Goto
        <5> QED
          BY <4>1, <4>3, <5>1, FileEffects
      <4> QED
        BY <4>2, <4>3
    <3> QED
      BY <1>1, <1>3, <3>1, <3>2
  <2>3. CASE AppendIntent(t) \/ AppendIntent2(t)
    <3>1. /\ disk' = disk /\ writer' = writer /\ result' = result /\ HasJournal(t)
      BY <2>3 DEF AppendIntent, AppendIntent2, Prepared
    <3>2. PICK q, c : q \in Touched(Op(t)) /\ Expect(t, q, c)
      BY <2>3 DEF AppendIntent, AppendIntent2, Touched
    <3>3. q \in Paths
      BY <2>3, <3>2, NotYet DEF AppendIntent, AppendIntent2
    <3>4. journal'[t].pre = journal[t].pre /\ journal'[t].paths = journal[t].paths
      BY <3>1, <3>2, <3>3, Expected DEF HasJournal
    <3> QED
      BY <1>1, <1>3, <3>1, <3>4
  <2>4. CASE MarkCommitted(t)
    <3>1. journal[t] \in Journals
      BY <2>4 DEF MarkCommitted, Prepared, HasJournal
    <3>2. journal'[t].state = "committed"
      BY <2>4, <3>1 DEF MarkCommitted, Journals
    <3> QED
      BY <1>3, <3>2 DEF HasJournal
  <2>5. CASE DeleteJournal(t)
    BY <1>3, <2>5 DEF DeleteJournal, HasJournal
  <2> QED
    BY <2>1, <2>2, <2>3, <2>4, <2>5, LateSteps
<1> QED
  BY <1>2, <1>3

(* A path that recovery has passed is not the dead transaction's any more. *)
LEMMA SweptStep ==
  ASSUME RInv, Alone, NEW t \in Txs, Moves(t), NEW u \in Txs
  PROVE  Swept(u)'
<1> USE DEF RInv, IInv, TypeOK, files, Goto
<1> SUFFICES ASSUME pc'[u] = "recover", HasJournal(scan[u].cur)'
             PROVE  Swept(u)'
  BY DEF Swept
<1>1. CASE u # t
  <2>1. Same(u) /\ pc[u] = "recover"
    BY <1>1, OthersSame DEF Same
  <2>2. UNCHANGED files
    BY <1>1, <2>1, OneRuns DEF Running, Die
  <2> QED
    BY <2>1, <2>2 DEF Same, Swept, HasJournal
<1>2. CASE u = t
  <2>1. RecoveryLock(t) \/ RecoverPath(t)
    BY <1>2, Possible DEF Moves, Start, Recovery, ListJournals, ScanDone, ReadJournal,
       CheckOwner, RecoverCommitted, RecoverDone, Resume, Transaction, Begin, Guard,
       Prepare, SkipWrite, AppendIntent, AppendIntent2, Apply, Link, Unlink,
       MarkCommitted, Commit, DeleteJournal, RestorePath, RollbackDone, Failure,
       BeginFails, PrepareFails, Reject, MarkFails, Die
  <2>2. CASE RecoveryLock(t)
    <3>1. scan'[t].left = scan[t].copy.paths /\ scan'[t].copy = scan[t].copy
      BY <2>2 DEF RecoveryLock, Scans
    <3> QED
      BY <1>2, <3>1 DEF Swept
  <2>3. CASE RecoverPath(t)
    <3> DEFINE j == scan[t].cur
               p == Min(scan[t].left)
    <3>1. /\ HasJournal(j) /\ p \in scan[t].copy.paths /\ p \in Paths
          /\ writer[p] = j <=> Restores(scan[t].copy, p)
      BY <2>3, Recovered
    <3>2. /\ scan'[t].left = scan[t].left \ {p} /\ scan'[t].copy = scan[t].copy
          /\ scan'[t].cur = j
      BY <2>3 DEF RecoverPath, Scans
    <3>3. /\ scan[t].left \subseteq scan[t].copy.paths /\ j \in Txs
          /\ \A q \in scan[t].copy.paths \ scan[t].left : writer[q] # j
      BY <2>3, <3>1, Possible DEF RecoverPath, Swept, Scanning
    <3>4. \A q \in Paths : writer'[q] = writer[q] \/ writer'[q] = NoTx
      BY <2>3 DEF RecoverPath
    <3>5. writer'[p] # j
      BY <2>3, <3>1, <3>3, PatchTransactionAssumption DEF RecoverPath
    <3>6. scan[t].copy.paths \subseteq Paths
      BY <2>3 DEF RecoverPath, RecoversTheDead, Journals
    <3> HIDE DEF j, p
    <3>7. \A q \in scan[t].copy.paths \ (scan[t].left \ {p}) : writer'[q] # j
      BY <3>3, <3>4, <3>5, <3>6, PatchTransactionAssumption
    <3> QED
      BY <1>2, <3>2, <3>3, <3>7 DEF Swept
  <2> QED
    BY <2>1, <2>2, <2>3
<1> QED
  BY <1>1, <1>2

-----------------------------------------------------------------------------
(* Every step keeps all of it.                                             *)
LEMMA RInvStep == Alone /\ Once /\ RInv /\ [Next]_vars => RInv'
<1> SUFFICES ASSUME Alone, Once, RInv, [Next]_vars PROVE RInv'
  OBVIOUS
<1>1. IInv'
  BY Inductive DEF RInv
<1>2. ASSUME NEW t \in Txs, Moves(t) PROVE RInv'
  <2>1. Moves(t)
    BY <1>2
  <2>2. Sole' /\ Locks'
    BY <1>1, <2>1, SoleStep, LocksStep
  <2>3. Pile'
    BY <2>1, <2>2, PileStep
  <2>4. \A u \in Txs : Acts(u)' /\ Backed(u)' /\ Intact(u)' /\ Swept(u)'
    BY <2>1, ActsStep, BackedStep, IntactStep, SweptStep
  <2> QED
    BY <1>1, <2>2, <2>3, <2>4 DEF RInv
<1>3. ASSUME UNCHANGED <<disk, journal, writer, pc, mem, scan, env>>,
             \A t \in Txs, p \in Paths : lock'[p] = t => lock[p] = t
      PROVE  RInv'
  <2> USE <1>3 DEF RInv, mem, env, HasJournal
  <2>1. Sole' /\ Locks'
    BY DEF Sole, Running, Locks, Alive, MyPaths
  <2>2. Pile'
    BY DEF Pile, Single, Owned, Cleaned, Ahead
  <2>3. ASSUME NEW t \in Txs PROVE Acts(t)'
    <3>1. Applies(t)' /\ Snapped(t)' /\ Recorded(t)'
      BY DEF Acts, Applies, Snapped, Recorded, MyPaths
    <3>2. Mine(t)' /\ Earlier(t)' /\ Wrote(t)'
      BY DEF Acts, Mine, Earlier, Wrote
    <3>3. Intended(t)'
      BY DEF Acts, Intended, Op
    <3> QED
      BY <3>1, <3>2, <3>3 DEF Acts
  <2>4. ASSUME NEW t \in Txs PROVE Backed(t)' /\ Intact(t)' /\ Swept(t)'
    BY DEF Backed, Intact, Swept
  <2> QED
    BY <1>1, <2>1, <2>2, <2>3, <2>4
<1>4. ASSUME NEW t \in Txs, Reclaimed(t) PROVE RInv'
  <2>1. \A u \in Txs, p \in Paths : lock'[p] = u => lock[p] = u
    BY <1>4, PatchTransactionAssumption
    DEF Reclaimed, Reclaims, JudgeLock, UnlinkLock, files, RInv, IInv, TypeOK
  <2> QED
    BY <1>3, <1>4, <2>1 DEF Reclaimed
<1> QED
  BY <1>2, <1>3, <1>4, Mover DEF vars, files

(* Bytes of a transaction that has not committed are never without the     *)
(* prepared journal that recognises them: the intent is durable before the *)
(* operation, and the journal goes after the bytes                         *)
(* (recovery-journal.ts:10-14, transaction-runner.ts:286-290).  Proved     *)
(* under Alone and Once: transactions in turn, kills anywhere, no failing  *)
(* call between operations, no outside edit, no path twice in a script.    *)
THEOREM OrphansNone == Alone /\ Once /\ Spec => []NoOrphanBytes
<1> SUFFICES ASSUME Alone, Once PROVE Spec => []NoOrphanBytes
  OBVIOUS
<1>1. RInv => NoOrphanBytes
  BY DEF RInv, IInv, TypeOK, Backed, HasJournal, NoOrphanBytes
<1>2. RInv /\ [Next]_vars => RInv'
  BY RInvStep
<1> QED
  BY <1>1, <1>2, InitRInv, PTL DEF Spec

(* Recovery comes before new mutations: when a transaction begins, no      *)
(* journal of a dead one is left (transaction-runner.ts:143-144).  Proved  *)
(* under Alone and Once.                                                   *)
THEOREM CleanStart == Alone /\ Once /\ Spec => []RecoveryCleansUp
<1> SUFFICES ASSUME Alone, Once PROVE Spec => []RecoveryCleansUp
  OBVIOUS
<1>1. RInv => RecoveryCleansUp
  BY DEF RInv, Pile, Cleaned, RecoveryCleansUp
<1>2. RInv /\ [Next]_vars => RInv'
  BY RInvStep
<1> QED
  BY <1>1, <1>2, InitRInv, PTL DEF Spec

-----------------------------------------------------------------------------
(* A patch transaction is atomic, crashes, rollbacks and recoveries        *)
(* included: PatchTransaction implements AtomicStore.                      *)
(* What an operation changes; and that the k-th of a transaction has done  *)
(* so.                                                                     *)
Changed(o) == {o.path} \cup (IF o.op = "rename" THEN {o.to} ELSE {})

Left(t, k) ==
    LET o == script[t][k] IN
    /\ o.op = "write" => disk[o.path] = o.value
    /\ o.op # "write" => disk[o.path] = Absent
    /\ o.op = "rename" => disk[o.to] = snap[t][o.path]

(* Between the two halves of a rename the new name holds the content.      *)
Linked(t) ==
    /\ Op(t).op = "rename" /\ Op(t).path # Op(t).to
    /\ disk[Op(t).to] = snap[t][Op(t).path]

(* A transaction begins at its first operation; those behind it have left  *)
(* what they say, and it has written nothing they do not say.              *)
Performed(t) ==
    /\ pc[t] \notin {"new", "dead"} => script[t] \in Scripts
    /\ pc[t] \in Early => next[t] = 1
    /\ pc[t] \in Acting =>
          /\ \A k \in DOMAIN script[t] : k < next[t] => Left(t, k)
          /\ \A p \in Paths : writer[p] = t =>
                \E k \in DOMAIN script[t] : p \in Changed(script[t][k])
    /\ pc[t] = "unlink" => Linked(t)

(* Beside a transaction that may have changed files lies no other journal. *)
Clear(t) ==
    pc[t] \in Acting \cup {"rollback"} =>
        \A k \in Txs : k # t => journal[k] = NoJournal

AInv == RInv /\ \A t \in Txs : Performed(t) /\ Clear(t)

LEMMA InitAInv == Init => AInv
<1> SUFFICES ASSUME Init PROVE AInv
  OBVIOUS
<1>1. RInv
  BY InitRInv
<1>2. \A t \in Txs : pc[t] = "new" /\ next[t] = 1
  BY DEF Init
<1> QED
  BY <1>1, <1>2 DEF AInv, Performed, Clear, Acting

(* Who acts now was acting, or about to, a step before.                    *)
LEMMA ClearStep ==
  ASSUME AInv, Alone, NEW t \in Txs, Moves(t), NEW u \in Txs
  PROVE  Clear(u)'
<1> USE DEF AInv, RInv, IInv, TypeOK
<1> SUFFICES ASSUME pc'[u] \in Acting \cup {"rollback"},
                    NEW k \in Txs, k # u, journal'[k] # NoJournal
             PROVE  FALSE
  BY DEF Clear
<1>1. CASE u = t
  <2>1. ~Begin(t)
    BY <1>1 DEF Begin, Goto, Acting
  <2>2. pc[t] \in {"guard", "prepare", "rollback"} \cup Acting
    BY <1>1, <2>1, Underway
  <2>3. journal[k] = NoJournal
    BY <1>1, <2>2 DEF Pile, Cleaned, Clear
  <2> QED
    BY <1>1, <2>3, JournalEffects
<1>2. CASE u # t
  <2>1. Same(u) /\ pc[u] \in Acting \cup {"rollback"}
    BY <1>2, OthersSame DEF Same
  <2>2. Die(t)
    BY <1>2, <2>1, OneRuns DEF Running, Acting
  <2>3. journal' = journal
    BY <2>2 DEF Die, files
  <2> QED
    BY <2>1, <2>3 DEF Clear
<1> QED
  BY <1>1, <1>2

(* The operations of a script.                                             *)
LEMMA Scripted ==
  ASSUME RInv, NEW t \in Txs
  PROVE  /\ script[t] \in Seq(Ops) /\ next[t] \in Nat \ {0}
         /\ \A k \in DOMAIN script[t] : k \in Nat \ {0} /\ script[t][k] \in Ops
<1>1. script[t] \in Seq(Ops)
  <2>1. Scripts \subseteq Seq(Ops) /\ <<>> \in Seq(Ops)
    BY PatchTransactionAssumption
  <2> QED
    BY <2>1 DEF RInv, IInv, TypeOK
<1>2. \A k \in DOMAIN script[t] : k \in Nat \ {0}
  BY <1>1
<1>3. ASSUME NEW k \in DOMAIN script[t] PROVE script[t][k] \in Ops
  BY <1>1
<1> QED
  BY <1>1, <1>2, <1>3 DEF RInv, IInv, TypeOK

(* What an operation has left, a later one does not touch.                 *)
LEMMA LeftKept ==
  ASSUME AInv, Once, NEW t \in Txs, pc[t] \in {"apply", "unlink"},
         NEW k \in DOMAIN script[t], k < next[t], Left(t, k),
         NEW q \in Touched(Op(t)), NEW c, disk' = [disk EXCEPT ![q] = c],
         script'[t] = script[t], snap'[t] = snap[t]
  PROVE  Left(t, k)'
<1> DEFINE o == script[t][k]
<1>1. next[t] \in DOMAIN script[t] /\ k # next[t] /\ script[t] \in Scripts
  <2>1. next[t] \in DOMAIN script[t] /\ next[t] \in Nat /\ script[t] \in Scripts
    BY DEF AInv, RInv, IInv, TypeOK, InRange, Performed
  <2> QED
    BY <2>1, Scripted DEF AInv
<1>2. Touched(o) \cap Touched(Op(t)) = {}
  BY <1>1 DEF Once, Op
<1>3. o \in Ops
  BY Scripted DEF AInv
<1>4. o.path \in Paths /\ o.to \in Paths /\ o.path # q /\ o.to # q
  BY <1>2, <1>3 DEF Ops, Touched
<1>5. disk'[o.path] = disk[o.path] /\ disk'[o.to] = disk[o.to]
  BY <1>4 DEF AInv, RInv, IInv, TypeOK
<1> QED
  BY <1>5 DEF Left

(* The part of Performed about the beginning.                              *)
LEMMA BeginningStep ==
  ASSUME AInv, Alone, NEW t \in Txs, Moves(t)
  PROVE  /\ pc'[t] \notin {"new", "dead"} => script'[t] \in Scripts
         /\ pc'[t] \in Early => next'[t] = 1
<1> USE DEF AInv, RInv, IInv, TypeOK, Goto
<1>0. Performed(t)
  OBVIOUS
<1>1. ASSUME NEW s \in Scripts, Start(t, s)
      PROVE  script'[t] \in Scripts /\ next'[t] = 1
  BY <1>0, <1>1 DEF Start, Performed, Early, mem
<1>2. CASE Die(t)
  BY <1>2 DEF Die, Early, Scanning
<1>3. CASE ~Die(t) /\ \A s \in Scripts : ~Start(t, s)
  <2>1. script'[t] = script[t]
    BY <1>3, ScriptKept
  <2>2. pc[t] \notin {"new", "dead"}
    BY <1>3 DEF Moves, Recovery, ListJournals, ScanDone, ReadJournal, CheckOwner,
     RecoveryLock, RecoveryLockTimeout, RecoverCommitted, RecoverPath, RecoverDone,
     Transaction, Begin, Guard, Prepare, SkipWrite, AppendIntent,
     AppendIntent2, Apply, Link, Unlink, MarkCommitted, Commit, DeleteJournal,
     RestorePath, RollbackDone,
     Failure, RecoverFails, BeginFails, PrepareFails, Reject, OpFails,
     MarkFails, RestoreFails
  <2>3. ASSUME pc'[t] \in Early PROVE next'[t] = 1
    <3>1. CASE Recovery(t)
      BY <1>0, <3>1, ScanTurns DEF Performed, Early, mem
    <3>2. CASE Begin(t) \/ Guard(t)
      BY <1>0, <3>2 DEF Performed, Early, mem, Begin, Guard
    <3>3. CASE ~Recovery(t) /\ ~Begin(t) /\ ~Guard(t)
      <4>1. pc'[t] \notin Early
        BY <1>3, <3>3, Possible DEF Moves, Early, Scanning, Transaction, Prepare, SkipWrite, AppendIntent,
           AppendIntent2, Apply, Link, Unlink, MarkCommitted, Commit, DeleteJournal,
           RestorePath, RollbackDone, Failure, BeginFails, PrepareFails, Reject, MarkFails
      <4> QED
        BY <2>3, <4>1
    <3> QED
      BY <3>1, <3>2, <3>3
  <2> QED
    BY <1>0, <2>1, <2>2, <2>3 DEF Performed
<1> QED
  BY <1>1, <1>2, <1>3 DEF Early, Scanning, Start

(* The part of Performed about the operations.                             *)
LEMMA OperationsStep ==
  ASSUME AInv, Alone, Once, NEW t \in Txs, Moves(t), pc'[t] \in Acting
  PROVE  /\ \A k \in DOMAIN script'[t] : k < next'[t] => Left(t, k)'
         /\ \A p \in Paths : writer'[p] = t =>
               \E k \in DOMAIN script'[t] : p \in Changed(script'[t][k])
         /\ pc'[t] = "unlink" => Linked(t)'
<1> USE DEF AInv, RInv, IInv, TypeOK, Goto, files, mem
<1>n. PICK n, o : n = next[t] /\ o = Op(t) /\ o = script[t][n]
  BY DEF Op
<1>0. Performed(t)
  OBVIOUS
<1>1. /\ ~Begin(t) /\ script'[t] = script[t] /\ snap'[t] = snap[t]
      /\ \/ Prepare(t) \/ SkipWrite(t) \/ AppendIntent(t) \/ AppendIntent2(t)
         \/ Apply(t) \/ Link(t) \/ Unlink(t)
  <2>1. ~Begin(t)
    BY DEF Begin, Acting
  <2>2. ~Guard(t) /\ ~PrepareFails(t) /\ ~Reject(t) /\ ~MarkFails(t) /\ ~RestorePath(t)
    BY DEF Guard, PrepareFails, Reject, MarkFails, RestorePath, Acting
  <2> QED
    BY <2>1, <2>2, Underway
<1>2. /\ n \in Nat \ {0} /\ \A k \in DOMAIN script[t] : k \in Nat \ {0}
      /\ \A k \in Nat \ {0} : k < n + 1 => k < n \/ k = n
  BY <1>n, Scripted
<1>3. CASE Prepare(t)
  <2>1. n = 1 /\ next' = next /\ writer' = writer /\ pc'[t] = "op" /\ pc[t] \in Early
    BY <1>n, <1>0, <1>3 DEF Prepare, Performed, Early
  <2>2. \A p \in Paths : writer[p] # t
    BY <1>n, <2>1, LateSteps
  <2>3. \A k \in Nat \ {0} : ~(k < 1)
    OBVIOUS
  <2> QED
    BY <1>n, <1>1, <1>2, <2>1, <2>2, <2>3
<1>4. CASE SkipWrite(t) \/ AppendIntent(t) \/ AppendIntent2(t)
  <2>1. /\ UNCHANGED <<disk, writer>> /\ pc[t] \in Acting /\ pc'[t] # "unlink"
        /\ next'[t] = n \/ (next'[t] = n + 1 /\ Unchanged(t))
    BY <1>n, <1>4 DEF SkipWrite, AppendIntent, AppendIntent2, Acting
  <2>2. ASSUME NEW k \in DOMAIN script[t], k < next'[t] PROVE Left(t, k)
    <3>1. CASE k < n
      BY <1>n, <1>0, <2>1, <3>1 DEF Performed
    <3>2. CASE k = n /\ Unchanged(t)
      BY <1>n, <3>2 DEF Unchanged, Left
    <3>3. CASE k = n
      BY <1>n, <2>1, <2>2, <3>2, <3>3
    <3> QED
      BY <1>2, <2>1, <2>2, <3>1, <3>3
  <2>3. \A k : Left(t, k)' <=> Left(t, k)
    BY <1>n, <1>1, <2>1 DEF Left
  <2> QED
    BY <1>n, <1>0, <1>1, <2>1, <2>2, <2>3 DEF Performed
<1>5. CASE Apply(t)
  <2>1. /\ pc[t] = "apply" /\ o.op \in {"write", "remove"} /\ next'[t] = n + 1
        /\ disk' = [disk EXCEPT ![o.path] = IF o.op = "write" THEN o.value ELSE Absent]
        /\ writer' = [writer EXCEPT ![o.path] = t] /\ pc'[t] # "unlink"
    BY <1>n, <1>5 DEF Apply
  <2>2. o.path \in Paths /\ o.path \in Touched(o) /\ n \in DOMAIN script[t] /\ o = script[t][n]
    BY <1>n, <2>1, NotYet DEF Touched
  <2>3. Left(t, n)'
    <3>1. /\ script'[t][n] = o /\ snap'[t] = snap[t]
          /\ disk'[o.path] = IF o.op = "write" THEN o.value ELSE Absent
          /\ o.op = "rename" => disk'[o.to] = snap[t][o.path]
      BY <1>n, <1>1, <2>1, <2>2
    <3> QED
      BY <3>1 DEF Left
  <2>4. ASSUME NEW k \in DOMAIN script[t], k < n PROVE Left(t, k)'
    <3>1. Left(t, k)
      BY <1>n, <1>0, <2>1, <2>4 DEF Performed, Acting
    <3> QED
      BY <1>n, <1>1, <2>1, <2>2, <2>4, <3>1, LeftKept
  <2>5. \A p \in Paths : writer'[p] = t => p = o.path \/ writer[p] = t
    BY <1>n, <2>1
  <2>6. o.path \in Changed(script[t][n])
    BY <1>n, <2>2 DEF Changed
  <2>7. \A k \in DOMAIN script[t] : k < next'[t] => Left(t, k)'
    BY <1>2, <2>1, <2>3, <2>4
  <2>8. \A p \in Paths : writer[p] = t => \E k \in DOMAIN script[t] : p \in Changed(script[t][k])
    BY <1>0, <2>1 DEF Performed, Acting
  <2> QED
    BY <1>1, <2>1, <2>2, <2>5, <2>6, <2>7, <2>8
<1>6. CASE Link(t)
  <2>1. /\ pc[t] = "apply" /\ o.op = "rename" /\ next'[t] = n /\ Op(t)' = o
        /\ disk' = [disk EXCEPT ![o.to] = disk[o.path]]
        /\ writer' = [writer EXCEPT ![o.to] = t]
    BY <1>n, <1>1, <1>6 DEF Link, Op
  <2>2. /\ o.path \in Paths /\ o.to \in Paths /\ o.to \in Touched(o) /\ o.path # o.to
        /\ n \in DOMAIN script[t] /\ o = script[t][n] /\ disk[o.path] = snap[t][o.path]
    BY <1>n, <2>1, NotYet DEF Touched
  <2>3. ASSUME NEW k \in DOMAIN script[t], k < n PROVE Left(t, k)'
    <3>1. Left(t, k)
      BY <1>n, <1>0, <2>1, <2>3 DEF Performed, Acting
    <3> QED
      BY <1>n, <1>1, <2>1, <2>2, <2>3, <3>1, LeftKept
  <2>4. \A p \in Paths : writer'[p] = t => p = o.to \/ writer[p] = t
    BY <1>n, <2>1
  <2>5. o.to \in Changed(script[t][n])
    BY <1>n, <2>1, <2>2 DEF Changed
  <2>6. disk'[o.to] = snap'[t][o.path] /\ Linked(t)'
    BY <1>n, <1>1, <2>1, <2>2 DEF Linked
  <2>7. \A p \in Paths : writer[p] = t => \E k \in DOMAIN script[t] : p \in Changed(script[t][k])
    BY <1>0, <2>1 DEF Performed, Acting
  <2> QED
    BY <1>1, <2>1, <2>2, <2>3, <2>4, <2>5, <2>6, <2>7
<1>7. CASE Unlink(t)
  <2>1. /\ pc[t] = "unlink" /\ next'[t] = n + 1 /\ pc'[t] # "unlink"
        /\ disk' = [disk EXCEPT ![o.path] = Absent]
        /\ writer' = [writer EXCEPT ![o.path] = t]
        /\ disk[o.to] = snap[t][o.path] /\ o.path # o.to /\ o.op = "rename"
    BY <1>n, <1>0, <1>7 DEF Unlink, Performed, Linked
  <2>2. /\ o.path \in Paths /\ o.to \in Paths /\ o.path \in Touched(o)
        /\ n \in DOMAIN script[t] /\ o = script[t][n]
    BY <1>n, <2>1, AtOperation DEF InRange, Op, Ops, Touched
  <2>3. Left(t, n)'
    <3>1. /\ script'[t][n] = o /\ snap'[t] = snap[t]
          /\ disk'[o.path] = IF o.op = "write" THEN o.value ELSE Absent
          /\ o.op = "rename" => disk'[o.to] = snap[t][o.path]
      BY <1>n, <1>1, <2>1, <2>2
    <3> QED
      BY <3>1 DEF Left
  <2>4. ASSUME NEW k \in DOMAIN script[t], k < n PROVE Left(t, k)'
    <3>1. Left(t, k)
      BY <1>n, <1>0, <2>1, <2>4 DEF Performed, Acting
    <3> QED
      BY <1>n, <1>1, <2>1, <2>2, <2>4, <3>1, LeftKept
  <2>5. \A p \in Paths : writer'[p] = t => p = o.path \/ writer[p] = t
    BY <1>n, <2>1
  <2>6. o.path \in Changed(script[t][n])
    BY <1>n, <2>2 DEF Changed
  <2>7. \A k \in DOMAIN script[t] : k < next'[t] => Left(t, k)'
    BY <1>2, <2>1, <2>3, <2>4
  <2>8. \A p \in Paths : writer[p] = t => \E k \in DOMAIN script[t] : p \in Changed(script[t][k])
    BY <1>0, <2>1 DEF Performed, Acting
  <2> QED
    BY <1>1, <2>1, <2>2, <2>5, <2>6, <2>7, <2>8
<1> QED
  BY <1>n, <1>1, <1>3, <1>4, <1>5, <1>6, <1>7

(* Every step keeps all of AInv.                                           *)
LEMMA AInvStep ==
  ASSUME AInv, Alone, Once, [Next]_vars
  PROVE  AInv'
<1>1. RInv'
  BY RInvStep DEF AInv
<1>2. ASSUME NEW t \in Txs, Moves(t) PROVE AInv'
  <2>1. Moves(t)
    BY <1>2
  <2>2. \A u \in Txs : Clear(u)'
    BY <2>1, ClearStep
  <2>3. Performed(t)'
    <3>1. /\ pc'[t] \notin {"new", "dead"} => script'[t] \in Scripts
          /\ pc'[t] \in Early => next'[t] = 1
      BY <2>1, BeginningStep
    <3>2. CASE pc'[t] \in Acting
      <4>1. /\ \A k \in DOMAIN script'[t] : k < next'[t] => Left(t, k)'
            /\ \A p \in Paths : writer'[p] = t =>
                  \E k \in DOMAIN script'[t] : p \in Changed(script'[t][k])
            /\ pc'[t] = "unlink" => Linked(t)'
        BY <2>1, <3>2, OperationsStep
      <4> QED
        BY <3>1, <4>1 DEF Performed
    <3>3. CASE pc'[t] \notin Acting
      BY <3>1, <3>3 DEF Performed, Acting
    <3> QED
      BY <3>2, <3>3
  <2>4. ASSUME NEW u \in Txs, u # t PROVE Performed(u)'
    <3>1. Same(u)
      BY <2>1, <2>4, OthersSame DEF AInv, RInv, IInv
    <3>2. CASE Running(u)
      <4>1. UNCHANGED files
        BY <2>1, <2>4, <3>2, OneRuns DEF AInv, Die
      <4> QED
        BY <3>1, <4>1 DEF AInv, Performed, Same, files, Left, Linked, Op
    <3>3. CASE ~Running(u)
      BY <3>1, <3>3 DEF AInv, Performed, Same, Running, Acting
    <3> QED
      BY <3>2, <3>3
  <2> QED
    BY <1>1, <2>2, <2>3, <2>4 DEF AInv
<1>3. ASSUME UNCHANGED <<disk, journal, writer, pc, mem, scan>> PROVE AInv'
  <2> USE <1>3 DEF AInv, mem
  <2>1. ASSUME NEW t \in Txs PROVE Performed(t)' /\ Clear(t)'
    BY DEF Performed, Clear, Left, Linked, Op
  <2> QED
    BY <1>1, <2>1
<1> QED
  BY <1>2, <1>3, Mover DEF AInv, Reclaimed, vars, files

-----------------------------------------------------------------------------
(* What the files hold once every interrupted transaction is undone, told  *)
(* from the writer of each: its journal's preimage, unless it committed.   *)
Uncommitted(p) == writer[p] # NoTx /\ result[writer[p]] # "committed"

Undone(p) == IF Uncommitted(p) THEN journal[writer[p]].pre[p] ELSE disk[p]

Settled == [p \in Paths |-> Undone(p)]

(* While a transaction is midway that is what it began with.               *)
Restorable ==
    \A t \in Txs : Midway(t) =>
        /\ Settled = snap[t]
        /\ \A p \in Paths : Uncommitted(p) => writer[p] = t

LEMMA MidwayRestorable == AInv => Restorable
<1> SUFFICES ASSUME AInv, NEW t \in Txs, Midway(t)
             PROVE  /\ Settled = snap[t]
                    /\ \A p \in Paths : Uncommitted(p) => writer[p] = t
  BY DEF Restorable
<1> USE DEF AInv, RInv, IInv, TypeOK
<1>1. pc[t] \in Acting \cup {"rollback"} /\ result[t] # "committed"
  BY DEF Midway, Acting, Sole
<1>2. ASSUME NEW p \in Paths, Uncommitted(p) PROVE writer[p] = t
  <2>1. writer[p] \in Txs /\ Backed(writer[p])
    BY <1>2 DEF Uncommitted
  <2>2. journal[writer[p]] # NoJournal
    BY <1>2, <2>1 DEF Uncommitted, Backed, HasJournal
  <2> QED
    BY <1>1, <2>1, <2>2 DEF Clear
<1>3. ASSUME NEW p \in Paths PROVE Undone(p) = snap[t][p]
  <2>1. CASE writer[p] = t
    <3>1. HasJournal(t)
      BY <1>1, <2>1 DEF Backed
    <3>2. journal[t].pre = snap[t]
      BY <1>1, <3>1 DEF HasJournal, Acts, Recorded
    <3>3. Uncommitted(p)
      BY <1>1, <2>1, PatchTransactionAssumption DEF Uncommitted
    <3> QED
      BY <2>1, <3>2, <3>3 DEF Undone
  <2>2. CASE writer[p] # t
    <3>1. disk[p] = snap[t][p]
      BY <1>1, <2>2 DEF Acts, Snapped
    <3> QED
      BY <1>2, <2>2, <3>1 DEF Undone
  <2> QED
    BY <2>1, <2>2
<1>4. snap[t] \in [Paths -> Contents]
  OBVIOUS
<1>5. Settled = snap[t]
  BY <1>3, <1>4 DEF Settled
<1> QED
  BY <1>2, <1>5

(* It is what the abstraction says.                                        *)
LEMMA LogicalIs == AInv => Logical = Settled
<1> SUFFICES ASSUME AInv, NEW p \in Paths
             PROVE  Logical[p] = Undone(p)
  BY DEF Logical, Settled
<1> USE DEF AInv, RInv, IInv, TypeOK
<1> DEFINE M(t) == t \in Txs /\ Midway(t) /\ p \in MyPaths(t)
           m == CHOOSE t \in Txs : Midway(t) /\ p \in MyPaths(t)
           q == CHOOSE t \in Pending(p) : TRUE
<1>0. Logical[p] = IF \E t \in Txs : Midway(t) /\ p \in MyPaths(t) THEN snap[m][p]
                   ELSE IF Pending(p) # {} THEN journal[q].pre[p] ELSE disk[p]
  BY DEF Logical
<1>1. CASE \E t \in Txs : Midway(t) /\ p \in MyPaths(t)
  <2>1. m \in Txs /\ Midway(m)
    BY <1>1
  <2> HIDE DEF m, q
  <2>2. Settled = snap[m]
    BY <2>1, MidwayRestorable DEF Restorable
  <2>3. Settled[p] = Undone(p)
    BY DEF Settled
  <2> QED
    BY <1>0, <1>1, <2>2, <2>3
<1>2. CASE ~\E t \in Txs : Midway(t) /\ p \in MyPaths(t)
  <2>1. Pending(p) # {} => q \in Pending(p)
    OBVIOUS
  <2> HIDE DEF m, q
  <2>2. CASE Uncommitted(p)
    <3>1. PICK u \in Txs : u = writer[p] /\ result[u] # "committed"
      BY <2>2 DEF Uncommitted
    <3>2. /\ HasJournal(u) /\ p \in journal[u].paths
          /\ journal[u].post[p] = disk[p]
      BY <3>1 DEF Backed
    <3>3. pc[u] \in Acting \cup {"rollback", "release", "drop", "dead"}
      BY <3>2 DEF Pile, Owned, HasJournal
    <3>4. pc[u] \notin {"release", "drop"}
      BY <3>1 DEF Sole, Acts, Wrote
    <3>5. pc[u] \notin Acting \cup {"rollback"}
      <4>1. SUFFICES ASSUME pc[u] \in Acting \cup {"rollback"} PROVE FALSE
        OBVIOUS
      <4>2. p \in MyPaths(u)
        BY <3>2, <4>1 DEF HasJournal, Acts, Recorded
      <4> QED
        BY <1>2, <4>1, <4>2 DEF Midway, Acting
    <3>6. u \in Pending(p)
      BY <3>2, <3>3, <3>4, <3>5 DEF Pending, HasJournal, Alive
    <3>7. q = u
      BY <2>1, <3>6 DEF Pending, Pile, Single
    <3> QED
      BY <1>0, <1>2, <2>2, <3>1, <3>6, <3>7 DEF Undone
  <2>3. CASE ~Uncommitted(p) /\ Pending(p) # {}
    <3>1. /\ q \in Txs /\ HasJournal(q) /\ p \in journal[q].paths
      BY <2>1, <2>3 DEF Pending, HasJournal
    <3>2. result[q] # "committed" /\ (disk[p] = journal[q].pre[p] \/ writer[p] = q)
      BY <3>1 DEF Intact
    <3>3. writer[p] # q
      BY <2>3, <3>1, <3>2, PatchTransactionAssumption DEF Uncommitted
    <3> QED
      BY <1>0, <1>2, <2>3, <3>2, <3>3 DEF Undone
  <2>4. CASE ~Uncommitted(p) /\ Pending(p) = {}
    BY <1>0, <1>2, <2>4 DEF Undone
  <2> QED
    BY <2>2, <2>3, <2>4
<1> QED
  BY <1>1, <1>2

(* The verdict falls at the commit mark, and a journal keeps its preimages. *)
LEMMA VerdictKept ==
  ASSUME AInv, Alone, NEW t \in Txs, Moves(t), ~MarkCommitted(t)
  PROVE  result' = result
<1> USE DEF AInv, mem
<1>1. ~OpFails(t)
  BY Possible
<1>2. Recovery(t) => result' = result
  BY ScanTurns
<1> QED
  BY <1>1, <1>2 DEF Moves, Start, Transaction, Begin, Guard, Prepare, SkipWrite, AppendIntent,
     AppendIntent2, Apply, Link, Unlink, Commit, DeleteJournal, RestorePath, RollbackDone,
     Failure, RecoverFails, BeginFails, PrepareFails, Reject, MarkFails, RestoreFails, Die

LEMMA PreimagesKept ==
  ASSUME AInv, Alone, Once, NEW t \in Txs, Moves(t), NEW u \in Txs,
         journal[u] # NoJournal, journal'[u] # NoJournal
  PROVE  journal'[u].pre = journal[u].pre
<1> USE DEF AInv, RInv, IInv, TypeOK
<1>1. CASE u # t
  BY <1>1, JournalEffects
<1>2. CASE u = t
  <2>1. CASE pc[t] \in Early
    BY <1>2, <2>1, LateSteps
  <2>2. CASE Plain(t)
    BY <1>2, <2>2, LateSteps
  <2>3. CASE AppendIntent(t) \/ AppendIntent2(t)
    <3>1. PICK p \in Paths : \E c : Expect(t, p, c)
      <4>1. Op(t).path \in Paths /\ Op(t).to \in Paths
        BY <2>3, NotYet DEF AppendIntent, AppendIntent2, Ops
      <4> QED
        BY <2>3, <4>1 DEF AppendIntent, AppendIntent2
    <3>2. PICK c : Expect(t, p, c)
      BY <3>1
    <3> QED
      BY <1>2, <3>2, Expected
  <2>4. CASE MarkCommitted(t)
    <3>1. journal[t] \in Journals /\ journal' = [journal EXCEPT ![t].state = "committed"]
      BY <1>2, <2>4 DEF MarkCommitted
    <3> QED
      BY <1>2, <3>1 DEF Journals
  <2>5. CASE DeleteJournal(t)
    BY <1>2, <2>5 DEF DeleteJournal
  <2> QED
    BY <2>1, <2>2, <2>3, <2>4, <2>5, LateSteps
<1> QED
  BY <1>1, <1>2

(* Any other step leaves the undone files as they are.                     *)
LEMMA StoreKept ==
  ASSUME AInv, AInv', Alone, Once, NEW t \in Txs, Moves(t), ~MarkCommitted(t)
  PROVE  Settled' = Settled
<1>1. AInv'
  OBVIOUS
<1>2. Restorable /\ Restorable'
  BY <1>1, MidwayRestorable, PTL
<1>3. result' = result
  BY VerdictKept
<1>4. CASE Apply(t) \/ Link(t) \/ Unlink(t) \/ RestorePath(t)
  <2>1. Midway(t) /\ Midway(t)'
    BY <1>4 DEF Apply, Link, Unlink, RestorePath, Midway, Goto, AInv, RInv, IInv, TypeOK
  <2>2. snap'[t] = snap[t]
    BY <1>4 DEF Apply, Link, Unlink, RestorePath
  <2> QED
    BY <1>2, <2>1, <2>2 DEF Restorable
<1>5. CASE ~(Apply(t) \/ Link(t) \/ Unlink(t) \/ RestorePath(t))
  <2>1. ASSUME NEW p \in Paths, disk'[p] = disk[p], writer'[p] = writer[p]
        PROVE  Undone(p)' = Undone(p)
    <3>1. Uncommitted(p)' <=> Uncommitted(p)
      BY <1>3, <2>1 DEF Uncommitted
    <3>2. CASE Uncommitted(p)
      <4>1. PICK u \in Txs : u = writer[p] /\ result[u] # "committed"
        BY <3>2 DEF Uncommitted, AInv, RInv, IInv, TypeOK
      <4>2. Backed(u) /\ Backed(u)'
        BY <1>1 DEF AInv, RInv
      <4>3. journal[u] # NoJournal /\ journal'[u] # NoJournal
        BY <1>3, <2>1, <4>1, <4>2 DEF Backed, HasJournal
      <4>4. journal'[u].pre = journal[u].pre
        BY <4>3, PreimagesKept
      <4> QED
        BY <2>1, <3>1, <3>2, <4>1, <4>4 DEF Undone
    <3>3. CASE ~Uncommitted(p)
      BY <2>1, <3>1, <3>3 DEF Undone
    <3> QED
      BY <3>2, <3>3
  <2>2. ASSUME NEW p \in Paths, RecoverPath(t),
               disk'[p] # disk[p] \/ writer'[p] # writer[p]
        PROVE  Undone(p)' = Undone(p)
    <3> USE DEF AInv, RInv, IInv, TypeOK
    <3>1. PICK j : j = scan[t].cur
      OBVIOUS
    <3>2. /\ p = Min(scan[t].left) /\ Restores(scan[t].copy, p)
          /\ disk'[p] = scan[t].copy.pre[p] /\ writer'[p] = NoTx
      BY <2>2 DEF RecoverPath
    <3>3. j \in Txs /\ scan[t].copy = journal[j] /\ HasJournal(j) /\ writer[p] = j
      BY <2>2, <3>1, <3>2, Recovered, Possible DEF RecoverPath, Scanning
    <3>4. result[j] # "committed"
      BY <3>3 DEF Intact
    <3>5. Undone(p) = journal[j].pre[p]
      BY <3>3, <3>4, PatchTransactionAssumption DEF Undone, Uncommitted
    <3>6. Undone(p)' = disk'[p]
      BY <3>2 DEF Undone, Uncommitted
    <3> QED
      BY <3>2, <3>3, <3>5, <3>6
  <2>3. ASSUME NEW p \in Paths PROVE Undone(p)' = Undone(p)
    BY <1>5, <2>1, <2>2, FileEffects DEF AInv
  <2> QED
    BY <2>3 DEF Settled
<1> QED
  BY <1>4, <1>5

-----------------------------------------------------------------------------
(* What the abstract store holds after each operation is what has these    *)
(* equations.                                                              *)
LEMMA AfterIs ==
  ASSUME NEW s \in Seq(Ops), NEW st, NEW w,
         w = [i \in 0..Len(s) |-> IF i = 0 THEN st ELSE Atomic!Effect(w[i - 1], s[i])]
  PROVE  Atomic!Result(s, st) = w[Len(s)]
<1> DEFINE n == Len(s)
           G(f) == [i \in 0..n |-> IF i = 0 THEN st ELSE Atomic!Effect(f[i - 1], s[i])]
           a == CHOOSE f : f = G(f)
<1>1. n \in Nat
  OBVIOUS
<1>2. Atomic!After(s, st) = a
  BY DEF Atomic!After
<1>3. w = G(w)
  OBVIOUS
<1>4. a = G(a)
  BY <1>3
<1> HIDE DEF a, n
<1>5. ASSUME NEW i \in 0..n PROVE a[i] = w[i]
  <2> DEFINE D == {k \in 0..n : a[k] # w[k]}
  <2>1. SUFFICES ASSUME D # {} PROVE FALSE
    OBVIOUS
  <2>2. D \subseteq Nat
    BY <1>1
  <2>3. PICK d \in D : \A k \in D : ~(k < d)
    <3> HIDE DEF D
    <3> QED
      BY <2>1, <2>2, Least
  <2>4. d \in 0..n /\ a[d] # w[d]
    OBVIOUS
  <2>5. d # 0
    <3>1. 0 \in 0..n
      BY <1>1
    <3>2. a[0] = st /\ w[0] = st
      BY <1>3, <1>4, <3>1
    <3> QED
      BY <2>4, <3>2
  <2>6. d - 1 \in 0..n /\ d - 1 \in Nat /\ d \in Nat /\ d - 1 < d
    BY <1>1, <2>4, <2>5
  <2>7. d - 1 \notin D
    BY <2>3, <2>6
  <2>8. a[d - 1] = w[d - 1]
    BY <2>6, <2>7
  <2>9. a[d] = Atomic!Effect(a[d - 1], s[d]) /\ w[d] = Atomic!Effect(w[d - 1], s[d])
    <3> HIDE DEF D
    <3>1. \A f : G(f)[d] = Atomic!Effect(f[d - 1], s[d])
      BY <2>4, <2>5
    <3> HIDE DEF G
    <3> QED
      BY <1>3, <1>4, <3>1
  <2> QED
    BY <2>4, <2>8, <2>9
<1>6. n \in 0..n
  BY <1>1
<1>7. a[n] = w[n]
  BY <1>5, <1>6
<1> QED
  BY <1>2, <1>7 DEF Atomic!Result, n

(* A transaction that is marked committed has left what its operations,    *)
(* one after the other, make of what it began with.                        *)
LEMMA AllPerformed ==
  ASSUME AInv, Once, NEW t \in Txs, MarkCommitted(t)
  PROVE  Atomic!Result(script[t], snap[t]) = disk
<1> USE DEF AInv, RInv, IInv, TypeOK
<1>1. PICK s, st, n : s = script[t] /\ st = snap[t] /\ n = Len(s)
  OBVIOUS
<1>2. /\ s \in Seq(Ops) /\ next[t] \in Nat \ {0} /\ n \in Nat /\ DOMAIN s = 1..n
      /\ \A k \in 1..n : s[k] \in Ops
  BY <1>1, Scripted
<1>3. pc[t] = "op" /\ n < next[t]
  BY <1>1, <1>2 DEF MarkCommitted, More
<1>4. s \in Scripts
  BY <1>1, <1>3 DEF Performed
<1>5. \A k \in 1..n : Left(t, k)
  <2>1. \A k \in DOMAIN s : k < next[t] => Left(t, k)
    BY <1>1, <1>3 DEF Performed, Acting
  <2>2. \A k \in 1..n : k < next[t]
    BY <1>2, <1>3
  <2> QED
    BY <1>2, <2>1, <2>2
<1>6. \A i, k \in 1..n : i # k => Touched(s[i]) \cap Touched(s[k]) = {}
  BY <1>2, <1>4 DEF Once
<1>7. PICK w : w = [i \in 0..n |-> [p \in Paths |->
                       IF \E k \in 1..i : p \in Changed(s[k]) THEN disk[p] ELSE st[p]]]
  OBVIOUS
<1>8. st \in [Paths -> Contents] /\ disk \in [Paths -> Contents]
  BY <1>1
<1>9. w[0] = st
  <2>1. 0 \in 0..n /\ 1..0 = {}
    BY <1>2
  <2>2. w[0] = [p \in Paths |-> st[p]]
    BY <1>7, <2>1
  <2> QED
    BY <1>8, <2>2
<1>10. ASSUME NEW i \in 1..n PROVE w[i] = Atomic!Effect(w[i - 1], s[i])
  <2>1. /\ i \in 0..n /\ i - 1 \in 0..n /\ 1..i = (1..(i - 1)) \cup {i}
        /\ \A k \in 1..(i - 1) : k \in 1..n /\ k # i
    BY <1>2
  <2>2. PICK o : o = s[i]
    OBVIOUS
  <2>3. o \in Ops /\ o.path \in Paths /\ o.to \in Paths
    BY <1>2, <2>2 DEF Ops
  <2>4. /\ o.op = "write" => disk[o.path] = o.value
        /\ o.op # "write" => disk[o.path] = Absent
        /\ o.op = "rename" => disk[o.to] = st[o.path]
    BY <1>1, <1>5, <2>2 DEF Left
  <2>5. PICK v : v = w[i - 1]
    OBVIOUS
  <2>6. /\ \A p \in Paths : v[p] = IF \E k \in 1..(i - 1) : p \in Changed(s[k])
                                   THEN disk[p] ELSE st[p]
        /\ w[i] = [p \in Paths |-> IF \E k \in 1..i : p \in Changed(s[k])
                                   THEN disk[p] ELSE st[p]]
    BY <1>7, <2>1, <2>5
  <2>7. v[o.path] = st[o.path]
    <3>1. \A k \in 1..(i - 1) : o.path \notin Changed(s[k])
      BY <1>6, <2>1, <2>2 DEF Touched, Changed
    <3> QED
      BY <2>3, <2>6, <3>1
  <2>8. ASSUME NEW p \in Paths
        PROVE  w[i][p] = IF p = o.path THEN IF o.op = "write" THEN o.value ELSE Absent
                         ELSE IF o.op = "rename" /\ p = o.to THEN v[o.path]
                         ELSE v[p]
    <3>1. CASE p \in Changed(o)
      <4>1. w[i][p] = disk[p]
        BY <2>1, <2>2, <2>6, <3>1
      <4> QED
        BY <2>4, <2>7, <3>1, <4>1 DEF Changed
    <3>2. CASE p \notin Changed(o)
      <4>1. (\E k \in 1..i : p \in Changed(s[k])) <=> \E k \in 1..(i - 1) : p \in Changed(s[k])
        BY <2>1, <2>2, <3>2
      <4>2. w[i][p] = v[p]
        BY <2>6, <4>1
      <4> QED
        BY <3>2, <4>2 DEF Changed
    <3> QED
      BY <3>1, <3>2
  <2> QED
    BY <2>2, <2>5, <2>6, <2>8 DEF Atomic!Effect
<1>11. w = [i \in 0..n |-> IF i = 0 THEN st ELSE Atomic!Effect(w[i - 1], s[i])]
  <2>1. DOMAIN w = 0..n /\ w = [i \in 0..n |-> w[i]]
    BY <1>7
  <2>2. \A i \in 0..n : i = 0 \/ i \in 1..n
    BY <1>2
  <2>3. \A i \in 0..n : w[i] = IF i = 0 THEN st ELSE Atomic!Effect(w[i - 1], s[i])
    <3> SUFFICES ASSUME NEW i \in 0..n
                 PROVE  w[i] = IF i = 0 THEN st ELSE Atomic!Effect(w[i - 1], s[i])
      OBVIOUS
    <3>1. CASE i = 0
      BY <1>9, <3>1
    <3>2. CASE i # 0
      BY <1>10, <2>2, <3>2
    <3> QED
      BY <3>1, <3>2
  <2> QED
    BY <2>1, <2>3, Zenon
<1>12. Atomic!Result(s, st) = w[n]
  <2>1. w = [i \in 0..Len(s) |-> IF i = 0 THEN st ELSE Atomic!Effect(w[i - 1], s[i])]
    BY <1>1, <1>11
  <2> HIDE DEF AInv, RInv, IInv, TypeOK
  <2>2. Atomic!Result(s, st) = w[Len(s)]
    BY ONLY <1>2, <2>1, AfterIs
  <2> QED
    BY <1>1, <2>2
<1>13. w[n] = disk
  <2>1. n \in 0..n
    BY <1>2
  <2>2. w[n] = [p \in Paths |-> IF \E k \in 1..n : p \in Changed(s[k]) THEN disk[p] ELSE st[p]]
    BY <1>7, <2>1
  <2>3. ASSUME NEW p \in Paths, ~\E k \in 1..n : p \in Changed(s[k])
        PROVE  disk[p] = st[p]
    <3>1. writer[p] # t
      BY <1>1, <1>2, <1>3, <2>3 DEF Performed, Acting
    <3> QED
      BY <1>1, <1>3, <3>1 DEF Acts, Snapped, Acting
  <2>4. w[n] = [p \in Paths |-> disk[p]]
    BY <2>2, <2>3
  <2> QED
    BY <1>8, <2>4
<1> QED
  BY <1>1, <1>12, <1>13

(* The commit mark is the abstract commit.                                 *)
LEMMA CommitIs ==
  ASSUME AInv, Once, NEW t \in Txs, MarkCommitted(t)
  PROVE  /\ t \notin Committed /\ Committed' = Committed \cup {t} /\ script[t] \in Scripts
         /\ Settled' = Atomic!Result(script[t], Settled)
<1> USE DEF AInv, RInv, IInv, TypeOK
<1>1. pc[t] = "op" /\ result' = [result EXCEPT ![t] = "committed"]
      /\ disk' = disk /\ writer' = writer
  BY DEF MarkCommitted
<1>2. result[t] = "none" /\ script[t] \in Scripts
  BY <1>1 DEF Sole, Performed, Acting
<1>3. t \notin Committed /\ Committed' = Committed \cup {t}
  BY <1>1, <1>2 DEF Committed
<1>4. Settled = snap[t] /\ \A p \in Paths : Uncommitted(p) => writer[p] = t
  BY <1>1, MidwayRestorable DEF Restorable, Midway
<1>5. ASSUME NEW p \in Paths PROVE Undone(p)' = disk[p]
  <2>1. ~Uncommitted(p)'
    BY <1>1, <1>4 DEF Uncommitted
  <2> QED
    BY <1>1, <2>1 DEF Undone
<1>6. Settled' = disk
  BY <1>5 DEF Settled
<1> QED
  BY <1>2, <1>3, <1>4, <1>6, AllPerformed

(* The files after recovery are those of the abstraction.                  *)
AsSettled == Logical = Settled

(* The files change by whole transactions only, each at the moment its     *)
(* journal is marked committed: whatever dies, wherever, and however often *)
(* recovery is interrupted (runPatchTransaction, EditTransaction.rollback, *)
(* recoverStaleJournals).  Proved under Alone and Once: transactions in    *)
(* turn, kills anywhere, no failing call between operations, no outside    *)
(* edit, no path twice in a script.                                        *)
THEOREM Atomicity == Alone /\ Once /\ Spec => AllOrNothing
<1> SUFFICES ASSUME Alone, Once PROVE Spec => AllOrNothing
  BY DEF Alone, Once
<1>1. Init => AInv
  BY InitAInv
<1>2. AInv /\ [Next]_vars => AInv'
  BY AInvStep
<1>3. AInv => AsSettled
  BY LogicalIs DEF AsSettled
<1>4. AInv /\ Init => Atomic!Init
  <2> SUFFICES ASSUME AInv, Init PROVE Atomic!Init
    OBVIOUS
  <2>1. \A p \in Paths : Undone(p) = disk[p]
    BY DEF Init, Undone, Uncommitted
  <2>2. disk \in [Paths -> Contents]
    BY DEF AInv, RInv, IInv, TypeOK
  <2>3. Logical \in [Paths -> Contents]
    BY <1>3, <2>1, <2>2 DEF Settled, AsSettled
  <2>4. Committed = {} /\ foreign = 0
    BY DEF Committed, Init
  <2> QED
    BY <2>3, <2>4 DEF Atomic!Init, Atomic!Contents, Contents
<1>5. AInv => foreign = 0
  BY DEF AInv, RInv, IInv, TypeOK, Alone
<1>6. foreign = 0 /\ (foreign = 0)' => foreign' = foreign
  OBVIOUS
<1>7. AsSettled /\ AsSettled' /\ AInv /\ foreign' = foreign /\ [Next]_vars
        => [Atomic!Next]_<<Logical, Committed, foreign>>
  <2> SUFFICES ASSUME AInv, Logical = Settled, Logical' = Settled', foreign' = foreign, [Next]_vars
               PROVE  [Atomic!Next]_<<Logical, Committed, foreign>>
    BY DEF AsSettled
  <2>1. CASE UNCHANGED vars
    <3>1. Settled' = Settled
      BY <2>1 DEF vars, files, mem, Settled, Undone, Uncommitted
    <3>2. Committed' = Committed
      BY <2>1 DEF vars, mem, Committed
    <3> QED
      BY <3>1, <3>2
  <2>2. ASSUME NEW t \in Txs, MarkCommitted(t) PROVE Atomic!Next
    <3>1. /\ t \notin Committed /\ Committed' = Committed \cup {t} /\ script[t] \in Scripts
          /\ Settled' = Atomic!Result(script[t], Settled)
      BY <2>2, CommitIs
    <3>2. Atomic!Commit(t, script[t])
      BY <3>1 DEF Atomic!Commit
    <3> QED
      BY <3>1, <3>2 DEF Atomic!Next
  <2>3. ASSUME NEW t \in Txs, Moves(t), ~MarkCommitted(t)
        PROVE  UNCHANGED <<Logical, Committed>>
    <3>1. Settled' = Settled /\ result' = result
      BY <1>2, <2>3, StoreKept, VerdictKept
    <3> QED
      BY <3>1 DEF Committed
  <2>4. ASSUME NEW t \in Txs, Reclaimed(t) PROVE UNCHANGED <<Logical, Committed>>
    <3>1. Settled' = Settled /\ Committed' = Committed
      BY <2>4 DEF Reclaimed, mem, Settled, Undone, Uncommitted, Committed
    <3> QED
      BY <3>1
  <2>5. CASE Next
    BY <2>2, <2>3, <2>4, <2>5, Mover DEF AInv
  <2> QED
    BY <2>1, <2>5
<1>8. Spec => []AInv /\ [][Next]_vars /\ Init
  BY <1>1, <1>2, PTL DEF Spec
<1> QED
  BY <1>3, <1>4, <1>5, <1>6, <1>7, <1>8, PTL DEF AllOrNothing, Atomic!Spec
=============================================================================
