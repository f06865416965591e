-------------------------- MODULE PatchTransaction --------------------------
(***************************************************************************)
(* runPatchTransaction with the EditTransaction and the crash-recovery     *)
(* journal it drives: src/src/mutation/transaction-runner.ts,              *)
(* edit-transaction.ts and recovery-journal.ts.                            *)
(*                                                                         *)
(* Every transaction runs in a process of its own; processes share the     *)
(* files (disk), the lock files (lock) and the recovery directory          *)
(* (journal), and each of those outlives the process.  A step is what      *)
(* happens between two awaits that another process, or a kill, can         *)
(* observe.  The free lock files of one transaction are created in one     *)
(* step: creating them one by one in sorted order is the subject of        *)
(* PathLocks, and the life of one lock file that of FileLock.  The lock    *)
(* file of a dead process is judged in one step and unlinked in a later    *)
(* one, by name, whoever's it is by then.                                  *)
(***************************************************************************)
EXTENDS Naturals, Sequences, SequencesExt, FiniteSetsExt

CONSTANTS
    Txs,        \* transactions, each in its own process
    Paths,      \* files, numbered in the order of their sorted lock keys
    Values,     \* file contents
    Existing,   \* the files that exist at the start
    Old,        \* what they hold
    Absent,     \* what a missing file holds
    NoIntent,   \* the journal names no outcome for a path
    NoTx,       \* nobody (a free lock; bytes no transaction wrote)
    NoJournal,  \* no file in the recovery directory
    Scripts,    \* the operation sequences a transaction may carry
    Overlap,    \* may transactions of different processes overlap in time?
    Faults,     \* the steps of which a filesystem call may fail
    MaxFaults,  \* bound: failing filesystem calls
    MaxDeaths,  \* bound: processes that exit or are killed
    MaxForeign  \* bound: edits by programs that take no lock

(* An operation of a script: a file is written, removed or renamed.        *)
Ops == [op : {"write", "remove", "rename"}, path : Paths, to : Paths,
        value : Values]

Contents == Values \cup {Absent}

(* The record in a journal file: what every path of the transaction held   *)
(* and, as its intents are appended, what the transaction will leave there. *)
Journals ==
    [state : {"prepared", "committed"}, paths : SUBSET Paths,
     pre : [Paths -> Contents], post : [Paths -> Contents \cup {NoIntent}]]

ASSUME PatchTransactionAssumption ==
    /\ Paths \subseteq Nat /\ Existing \subseteq Paths
    /\ Scripts \subseteq Seq(Ops)
    /\ Old \in Values
    /\ Absent \notin Values /\ NoIntent \notin Values \cup {Absent}
    /\ NoTx \notin Txs /\ NoJournal \notin Journals
    /\ Overlap \in BOOLEAN
    /\ MaxFaults \in Nat /\ MaxDeaths \in Nat /\ MaxForeign \in Nat

VARIABLES
    disk,      \* what each path holds
    lock,      \* the process whose lock file is at each path's lock path
    judged,    \* the path whose lock file a process has judged abandoned and
               \* is about to unlink, in a set of its own
    orphaned,  \* ghost: the paths at which a dead process left its lock file
    journal,   \* the file <transactionId>.json of each transaction
    pc,        \* where each transaction is
    script,    \* the operations it carries
    plan,      \* what its paths held when the edit was planned (attested)
    snap,      \* the begin() snapshots
    next,      \* index of the operation it is at
    muts,      \* EditTransaction.mutations: the paths to undo, oldest first
    failed,    \* did a restore of its rollback fail (outcome.failed)?
    result,    \* "none", "committed", or "writeFailed": the runner's committed
               \* flag is set by the last two
    scan,      \* its pass over the recovery directory
    writer,    \* ghost: the transaction that wrote what each path holds
    faults, deaths, foreign  \* how much of each bound is used

files == <<disk, lock, journal, writer>>
mem == <<script, plan, snap, next, muts, failed, result>>
env == <<faults, deaths, foreign>>
reclaim == <<judged, orphaned>>
vars == <<files, pc, mem, scan, env, reclaim>>

Locations ==
    {"new", "list", "scan", "owner", "rlock", "recover", "begin", "guard",
     "prepare", "op", "op2", "apply", "unlink", "release", "rollback",
     "drop", "end", "dead"}

PathsOf(s) == UNION {{s[i].path, s[i].to} : i \in DOMAIN s}
MyPaths(t) == PathsOf(script[t])
Op(t) == script[t][next[t]]

Alive(t) == pc[t] # "dead"
Running(t) == pc[t] \notin {"new", "end", "dead"}
Goto(t, loc) == pc' = [pc EXCEPT ![t] = loc]

(* A lock file is created where there is none (O_EXCL).                    *)
Free(p) == lock[p] = NoTx
Lock(ps, t) == lock' = [p \in Paths |-> IF p \in ps THEN t ELSE lock[p]]

(* It is removed by its name, whoever's it is.                             *)
Unlock(ps, t) == lock' = [p \in Paths |-> IF p \in ps THEN NoTx ELSE lock[p]]

(* Bug: EEXIST is enough to judge a lock file abandoned.                   *)
BugAbandoned(p) == lock[p] \in Txs

(* The process recorded in the lock file is no longer alive.               *)
Abandoned(p) == lock[p] \in Txs /\ ~Alive(lock[p])
Taken(p) == lock[p] \in Txs /\ Alive(lock[p])

(* The first of the paths, in the sorted order, that is not free.          *)
InTheWay(ps, p) == p \in ps /\ ~Free(p) /\ \A q \in ps : q < p => Free(q)

Nothing == [p \in Paths |-> Absent]
Idle == [todo |-> {}, cur |-> NoTx, copy |-> NoJournal,
         left |-> {}, clash |-> FALSE]

(* On to the next journal of the scan.                                     *)
Resume(t) ==
    /\ scan' = [scan EXCEPT ![t] = [Idle EXCEPT !.todo = scan[t].todo]]
    /\ Goto(t, "scan")

(* A filesystem call of the given step fails.                              *)
Fault(step) ==
    /\ step \in Faults
    /\ faults < MaxFaults
    /\ faults' = faults + 1
    /\ UNCHANGED <<deaths, foreign>>

Init ==
    /\ disk = [p \in Paths |-> IF p \in Existing THEN Old ELSE Absent]
    /\ lock = [p \in Paths |-> NoTx]
    /\ judged = [t \in Txs |-> {}] /\ orphaned = {}
    /\ journal = [t \in Txs |-> NoJournal]
    /\ pc = [t \in Txs |-> "new"]
    /\ script = [t \in Txs |-> <<>>]
    /\ plan = [t \in Txs |-> Nothing]
    /\ snap = [t \in Txs |-> Nothing]
    /\ next = [t \in Txs |-> 1]
    /\ muts = [t \in Txs |-> <<>>]
    /\ failed = [t \in Txs |-> FALSE]
    /\ result = [t \in Txs |-> "none"]
    /\ scan = [t \in Txs |-> Idle]
    /\ writer = [p \in Paths |-> NoTx]
    /\ faults = 0 /\ deaths = 0 /\ foreign = 0

-----------------------------------------------------------------------------
(* The tool call is prepared: its operations are planned against what the  *)
(* files hold now.  A source must exist, a rename's target must not.       *)
Applicable(s) ==
    \A i \in DOMAIN s :
        /\ s[i].op \in {"remove", "rename"} => disk[s[i].path] # Absent
        /\ s[i].op = "rename" => disk[s[i].to] = Absent

Start(t, s) ==
    /\ pc[t] = "new"
    /\ Overlap \/ \A u \in Txs : ~Running(u)
    /\ Applicable(s)
    /\ script' = [script EXCEPT ![t] = s]
    /\ plan' = [plan EXCEPT ![t] = disk]
    /\ Goto(t, "list")
    /\ UNCHANGED <<files, snap, next, muts, failed, result, scan, env>>

-----------------------------------------------------------------------------
(* recoverStaleJournals.                                                   *)

(* readdir of the recovery directory.                                      *)
ListJournals(t) ==
    /\ pc[t] = "list"
    /\ scan' = [scan EXCEPT ![t].todo = {j \in Txs : journal[j] # NoJournal}]
    /\ Goto(t, "scan")
    /\ UNCHANGED <<files, mem, env>>

(* The scan is over.                                                       *)
ScanDone(t) ==
    /\ pc[t] = "scan"
    /\ scan[t].todo = {}
    /\ Goto(t, "begin")
    /\ UNCHANGED <<files, mem, scan, env>>

(* readFile of one journal; one that vanished is skipped.                  *)
ReadJournal(t, j) ==
    /\ pc[t] = "scan"
    /\ j \in scan[t].todo
    /\ scan' = [scan EXCEPT ![t] =
           IF journal[j] = NoJournal THEN [scan[t] EXCEPT !.todo = @ \ {j}]
           ELSE [scan[t] EXCEPT !.todo = @ \ {j}, !.cur = j, !.copy = journal[j]]]
    /\ Goto(t, IF journal[j] = NoJournal THEN "scan" ELSE "owner")
    /\ UNCHANGED <<files, mem, env>>

(* Bug: the scan waits for a live owner instead of passing it by.          *)
BugCheckOwner(t) ==
    /\ pc[t] = "owner"
    /\ ~Alive(scan[t].cur)
    /\ Goto(t, "rlock")
    /\ UNCHANGED <<files, mem, scan, env>>

(* isProcessAlive(journal.ownerPid): a live owner is left alone.           *)
CheckOwner(t) ==
    /\ pc[t] = "owner"
    /\ IF Alive(scan[t].cur) THEN Resume(t)
       ELSE Goto(t, "rlock") /\ UNCHANGED scan
    /\ UNCHANGED <<files, mem, env>>

(* acquireRecoveryLocks over the preimages' paths.                         *)
RecoveryLock(t) ==
    LET ps == scan[t].copy.paths IN
    /\ pc[t] = "rlock"
    /\ \A p \in ps : Free(p)
    /\ Lock(ps, t)
    /\ scan' = [scan EXCEPT ![t].left = ps]
    /\ Goto(t, "recover")
    /\ UNCHANGED <<disk, journal, writer, mem, env>>

(* It timed out at the first path that is not free: the caller skips the   *)
(* journal, and the locks taken before that path are never released.       *)
RecoveryLockTimeout(t) ==
    LET ps == scan[t].copy.paths IN
    /\ pc[t] = "rlock"
    /\ \E busy \in ps :
          /\ InTheWay(ps, busy) /\ Taken(busy)
          /\ Lock({p \in ps : p < busy}, t)
    /\ Resume(t)
    /\ UNCHANGED <<disk, journal, writer, mem, env>>

(* A committed journal: the files are durable, only the journal goes.      *)
RecoverCommitted(t) ==
    /\ pc[t] = "recover"
    /\ scan[t].copy.state = "committed"
    /\ journal' = [journal EXCEPT ![scan[t].cur] = NoJournal]
    /\ Unlock(scan[t].copy.paths, t)
    /\ Resume(t)
    /\ UNCHANGED <<disk, writer, mem, env>>

(* May the preimage of p be put back?  Only over what the journal says its *)
(* owner left there, or when the journal has no intent at all.             *)
Restores(j, p) ==
    /\ disk[p] # j.pre[p]
    /\ \/ disk[p] = j.post[p]
       \/ \A q \in j.paths : j.post[q] = NoIntent

(* Neither the preimage nor the recorded outcome: quarantined, reported.   *)
Clashes(j, p) ==
    /\ disk[p] # j.pre[p]
    /\ j.post[p] \notin {NoIntent, disk[p]}

(* One preimage of a prepared journal.                                     *)
RecoverPath(t) ==
    LET j == scan[t].copy
        p == Min(scan[t].left) IN
    /\ pc[t] = "recover"
    /\ j.state = "prepared"
    /\ scan[t].left # {}
    /\ IF Restores(j, p)
       THEN /\ disk' = [disk EXCEPT ![p] = j.pre[p]]
            /\ writer' = [writer EXCEPT ![p] = NoTx]
       ELSE UNCHANGED <<disk, writer>>
    /\ scan' = [scan EXCEPT ![t].left = @ \ {p},
                            ![t].clash = @ \/ Clashes(j, p)]
    /\ UNCHANGED <<lock, journal, pc, mem, env>>

(* Bug: a recovered journal stays.                                         *)
BugRecoverDone(t) ==
    /\ pc[t] = "recover"
    /\ scan[t].copy.state = "prepared"
    /\ scan[t].left = {}
    /\ Unlock(scan[t].copy.paths, t)
    /\ Resume(t)
    /\ UNCHANGED <<disk, journal, writer, mem, env>>

(* All preimages seen: the journal goes unless one clashed.                *)
RecoverDone(t) ==
    /\ pc[t] = "recover"
    /\ scan[t].copy.state = "prepared"
    /\ scan[t].left = {}
    /\ journal' = IF scan[t].clash THEN journal
                  ELSE [journal EXCEPT ![scan[t].cur] = NoJournal]
    /\ Unlock(scan[t].copy.paths, t)
    /\ Resume(t)
    /\ UNCHANGED <<disk, writer, mem, env>>

(* Reading or restoring a file throws: the record is skipped.              *)
RecoverFails(t) ==
    /\ pc[t] = "recover"
    /\ scan[t].copy.state = "prepared"
    /\ scan[t].left # {}
    /\ Fault("recover")
    /\ Unlock(scan[t].copy.paths, t)
    /\ Resume(t)
    /\ UNCHANGED <<disk, journal, writer, mem>>

-----------------------------------------------------------------------------
(* EditTransaction.begin: locks, then the snapshots under them.            *)
Begin(t) ==
    /\ pc[t] = "begin"
    /\ \A p \in MyPaths(t) : Free(p)
    /\ Lock(MyPaths(t), t)
    /\ snap' = [snap EXCEPT ![t] = disk]
    /\ Goto(t, "guard")
    /\ UNCHANGED <<disk, journal, writer, script, plan, next, muts, failed,
                   result, scan, env>>

(* A lock was not to be had before the deadline, or a snapshot failed.     *)
BeginFails(t) ==
    /\ pc[t] = "begin"
    /\ \/ /\ \E p \in MyPaths(t) : InTheWay(MyPaths(t), p) /\ Taken(p)
          /\ UNCHANGED env
       \/ Fault("begin")
    /\ Goto(t, "end")
    /\ UNCHANGED <<files, mem, scan>>

(* A path planned as create-new exists by now.                             *)
CreateConflict(t) ==
    \E p \in MyPaths(t) : plan[t][p] = Absent /\ snap[t][p] # Absent

Guard(t) ==
    /\ pc[t] = "guard"
    /\ Goto(t, IF CreateConflict(t) THEN "rollback" ELSE "prepare")
    /\ UNCHANGED <<files, mem, scan, env>>

(* writePreparedJournal(buildJournalRecord(...)).                          *)
Prepare(t) ==
    /\ pc[t] = "prepare"
    /\ journal' = [journal EXCEPT ![t] =
           [state |-> "prepared", paths |-> MyPaths(t), pre |-> snap[t],
            post |-> [p \in Paths |-> NoIntent]]]
    /\ Goto(t, "op")
    /\ UNCHANGED <<disk, lock, writer, mem, scan, env>>

(* It failed: rollback and deleteJournal, here and again in the finally.   *)
PrepareFails(t) ==
    /\ pc[t] = "prepare"
    /\ Fault("prepare")
    /\ Goto(t, "rollback")
    /\ UNCHANGED <<files, mem, scan>>

-----------------------------------------------------------------------------
(* The group loop.  Each operation journals what it will leave, then acts. *)

(* The content the edit was planned against is still there, unless the     *)
(* transaction itself changed it (the attested hash, recheckPrewriteFreshness). *)
Fresh(t) ==
    LET p == Op(t).path IN
    p \in Range(muts[t]) \/ disk[p] = plan[t][p]

More(t) == next[t] <= Len(script[t])

(* A write that would change nothing is skipped, unless the file is new.   *)
Unchanged(t) == Op(t).op = "write" /\ disk[Op(t).path] = Op(t).value

SkipWrite(t) ==
    /\ pc[t] = "op" /\ More(t) /\ Fresh(t) /\ Unchanged(t)
    /\ next' = [next EXCEPT ![t] = @ + 1]
    /\ UNCHANGED <<files, pc, script, plan, snap, muts, failed, result, scan, env>>

(* appendIntent for the operation's path: the durable journal now says     *)
(* what the operation will leave there.                                    *)
Expect(t, p, c) == journal' = [journal EXCEPT ![t].post[p] = c]

(* Bug: the intent is not made durable before the operation.               *)
BugAppendIntent(t) ==
    /\ pc[t] = "op" /\ More(t) /\ Fresh(t) /\ ~Unchanged(t)
    /\ Goto(t, IF Op(t).op = "rename" THEN "op2" ELSE "apply")
    /\ UNCHANGED <<files, mem, scan, env>>

AppendIntent(t) ==
    /\ pc[t] = "op" /\ More(t) /\ Fresh(t) /\ ~Unchanged(t)
    /\ Expect(t, Op(t).path, IF Op(t).op = "write" THEN Op(t).value ELSE Absent)
    /\ Goto(t, IF Op(t).op = "rename" THEN "op2" ELSE "apply")
    /\ UNCHANGED <<disk, lock, writer, mem, scan, env>>

(* Bug: the destination's intent is a copy of the source's.                *)
BugAppendIntent2(t) ==
    /\ pc[t] = "op2"
    /\ Expect(t, Op(t).to, Absent)
    /\ Goto(t, "apply")
    /\ UNCHANGED <<disk, lock, writer, mem, scan, env>>

(* A rename's second intent: the destination will hold the source's bytes. *)
AppendIntent2(t) ==
    /\ pc[t] = "op2"
    /\ Expect(t, Op(t).to, disk[Op(t).path])
    /\ Goto(t, "apply")
    /\ UNCHANGED <<disk, lock, writer, mem, scan, env>>

(* EditTransaction.write or remove: the file, then the mutation record.    *)
Apply(t) ==
    LET p == Op(t).path IN
    /\ pc[t] = "apply"
    /\ Op(t).op \in {"write", "remove"}
    /\ disk' = [disk EXCEPT ![p] = IF Op(t).op = "write" THEN Op(t).value ELSE Absent]
    /\ writer' = [writer EXCEPT ![p] = t]
    /\ muts' = [muts EXCEPT ![t] = Append(@, p)]
    /\ next' = [next EXCEPT ![t] = @ + 1]
    /\ Goto(t, "op")
    /\ UNCHANGED <<lock, journal, script, plan, snap, failed, result, scan, env>>

(* EditTransaction.rename: link the new name, record both mutations, then  *)
(* remove the old name.                                                    *)
Link(t) ==
    LET o == Op(t) IN
    /\ pc[t] = "apply"
    /\ o.op = "rename"
    /\ snap[t][o.path] # Absent /\ snap[t][o.to] = Absent
    /\ disk' = [disk EXCEPT ![o.to] = disk[o.path]]
    /\ writer' = [writer EXCEPT ![o.to] = t]
    /\ muts' = [muts EXCEPT ![t] = @ \o <<o.path, o.to>>]
    /\ Goto(t, "unlink")
    /\ UNCHANGED <<lock, journal, script, plan, snap, next, failed, result,
                   scan, env>>

Unlink(t) ==
    LET p == Op(t).path IN
    /\ pc[t] = "unlink"
    /\ disk' = [disk EXCEPT ![p] = Absent]
    /\ writer' = [writer EXCEPT ![p] = t]
    /\ next' = [next EXCEPT ![t] = @ + 1]
    /\ Goto(t, "op")
    /\ UNCHANGED <<lock, journal, script, plan, snap, muts, failed, result,
                   scan, env>>

(* A group ends the transaction: stale content, a verifier, a failed       *)
(* post-write check.  The finally of the runner rolls back.                *)
Reject(t) ==
    /\ pc[t] = "op"
    /\ Goto(t, "rollback")
    /\ UNCHANGED <<files, mem, scan, env>>

(* The operation's journal write or its filesystem call throws.  A failed  *)
(* write rolls back inside persistContentGroup and sets the committed flag;*)
(* a failed remove or rename leaves the rollback to the finally.           *)
OpFails(t) ==
    /\ pc[t] \in {"op", "op2", "apply", "unlink"} /\ More(t) /\ Fresh(t)
    /\ Fault(IF pc[t] \in {"op", "op2"} THEN "intent" ELSE "apply")
    /\ result' = IF Op(t).op = "write" THEN [result EXCEPT ![t] = "writeFailed"]
                 ELSE result
    /\ Goto(t, "rollback")
    /\ UNCHANGED <<files, script, plan, snap, next, muts, failed, scan>>

(* Bug: success is acknowledged though the journal still reads prepared.   *)
BugMarkCommitted(t) ==
    /\ pc[t] = "op" /\ ~More(t)
    /\ result' = [result EXCEPT ![t] = "committed"]
    /\ Goto(t, "release")
    /\ UNCHANGED <<files, script, plan, snap, next, muts, failed, scan, env>>

(* markCommitted: from here the transaction has taken effect.              *)
MarkCommitted(t) ==
    /\ pc[t] = "op" /\ ~More(t)
    /\ journal' = [journal EXCEPT ![t].state = "committed"]
    /\ result' = [result EXCEPT ![t] = "committed"]
    /\ Goto(t, "release")
    /\ UNCHANGED <<disk, lock, writer, script, plan, snap, next, muts, failed,
                   scan, env>>

MarkFails(t) ==
    /\ pc[t] = "op" /\ ~More(t)
    /\ Fault("mark")
    /\ Goto(t, "rollback")
    /\ UNCHANGED <<files, mem, scan>>

(* commit(): the locks go, then deleteJournal.                             *)
Commit(t) ==
    /\ pc[t] = "release"
    /\ Unlock(MyPaths(t), t)
    /\ Goto(t, "drop")
    /\ UNCHANGED <<disk, journal, writer, mem, scan, env>>

DeleteJournal(t) ==
    /\ pc[t] = "drop"
    /\ journal' = [journal EXCEPT ![t] = NoJournal]
    /\ Goto(t, "end")
    /\ UNCHANGED <<disk, lock, writer, mem, scan, env>>

-----------------------------------------------------------------------------
(* Bug: a file the transaction created is not removed again.               *)
BugRestorePath(t) ==
    LET p == Last(muts[t]) IN
    /\ pc[t] = "rollback"
    /\ muts[t] # <<>>
    /\ disk' = [disk EXCEPT ![p] = IF snap[t][p] = Absent THEN @ ELSE snap[t][p]]
    /\ muts' = [muts EXCEPT ![t] = Front(@)]
    /\ UNCHANGED <<lock, journal, writer, pc, script, plan, snap, next, failed,
                   result, scan, env>>

(* EditTransaction.rollback: the mutations in reverse, each path back to   *)
(* its snapshot; a path that cannot be restored is recorded and passed by. *)
RestorePath(t) ==
    LET p == Last(muts[t]) IN
    /\ pc[t] = "rollback"
    /\ muts[t] # <<>>
    /\ disk' = [disk EXCEPT ![p] = snap[t][p]]
    /\ writer' = [writer EXCEPT ![p] = NoTx]
    /\ muts' = [muts EXCEPT ![t] = Front(@)]
    /\ UNCHANGED <<lock, journal, pc, script, plan, snap, next, failed, result,
                   scan, env>>

RestoreFails(t) ==
    /\ pc[t] = "rollback"
    /\ muts[t] # <<>>
    /\ Fault("restore")
    /\ failed' = [failed EXCEPT ![t] = TRUE]
    /\ muts' = [muts EXCEPT ![t] = Front(@)]
    /\ UNCHANGED <<files, pc, script, plan, snap, next, result, scan>>

(* Bug: the journal is deleted whether or not every path was restored.     *)
BugRollbackDone(t) ==
    /\ pc[t] = "rollback"
    /\ muts[t] = <<>>
    /\ Unlock(MyPaths(t), t)
    /\ Goto(t, "drop")
    /\ UNCHANGED <<disk, journal, writer, mem, scan, env>>

(* The end of rollback() releases the locks.  The finally then deletes the *)
(* journal if every path was restored; after a failed write the committed  *)
(* flag keeps the finally from running at all.                             *)
RollbackDone(t) ==
    /\ pc[t] = "rollback"
    /\ muts[t] = <<>>
    /\ Unlock(MyPaths(t), t)
    /\ Goto(t, IF failed[t] \/ result[t] = "writeFailed" THEN "end" ELSE "drop")
    /\ UNCHANGED <<disk, journal, writer, mem, scan, env>>

-----------------------------------------------------------------------------
(* The paths whose locks a transaction or its recovery is asking for.      *)
Wanted(t) ==
    CASE pc[t] = "rlock" -> scan[t].copy.paths
      [] pc[t] = "begin" -> MyPaths(t)
      [] OTHER -> {}

(* An owner recorded in a lock file that is in the way is dead.            *)
JudgeLock(t, p) ==
    /\ InTheWay(Wanted(t), p) /\ Abandoned(p)
    /\ judged[t] = {}
    /\ judged' = [judged EXCEPT ![t] = {p}]
    /\ UNCHANGED <<files, pc, mem, scan, env, orphaned>>

(* The file of that name goes, and the lock is asked for again.            *)
UnlinkLock(t, p) ==
    /\ p \in judged[t]
    /\ judged' = [judged EXCEPT ![t] = {}]
    /\ lock' = [lock EXCEPT ![p] = NoTx]
    /\ UNCHANGED <<disk, journal, writer, pc, mem, scan, env, orphaned>>

-----------------------------------------------------------------------------
(* A process exits after its transaction, or is killed anywhere in it; its *)
(* memory is gone.                                                         *)
Die(t) ==
    /\ pc[t] \notin {"new", "dead"}
    /\ deaths < MaxDeaths
    /\ deaths' = deaths + 1
    /\ Goto(t, "dead")
    /\ script' = [script EXCEPT ![t] = <<>>]
    /\ plan' = [plan EXCEPT ![t] = Nothing]
    /\ snap' = [snap EXCEPT ![t] = Nothing]
    /\ next' = [next EXCEPT ![t] = 1]
    /\ muts' = [muts EXCEPT ![t] = <<>>]
    /\ scan' = [scan EXCEPT ![t] = Idle]
    /\ judged' = [judged EXCEPT ![t] = {}]
    /\ orphaned' = orphaned \cup {p \in Paths : lock[p] = t}
    /\ UNCHANGED <<files, failed, result, faults, foreign>>

(* A program that takes no lock edits a file while no transaction runs.    *)
ForeignEdit(p, v) ==
    /\ foreign < MaxForeign
    /\ \A t \in Txs : ~Running(t)
    /\ v # disk[p]
    /\ foreign' = foreign + 1
    /\ disk' = [disk EXCEPT ![p] = v]
    /\ writer' = [writer EXCEPT ![p] = NoTx]
    /\ UNCHANGED <<lock, journal, pc, mem, scan, faults, deaths>>

Recovery(t) ==
    \/ ListJournals(t) \/ ScanDone(t) \/ (\E j \in Txs : ReadJournal(t, j))
    \/ CheckOwner(t) \/ RecoveryLock(t) \/ RecoveryLockTimeout(t)
    \/ RecoverCommitted(t) \/ RecoverPath(t) \/ RecoverDone(t)

Transaction(t) ==
    \/ Begin(t) \/ Guard(t) \/ Prepare(t)
    \/ SkipWrite(t) \/ AppendIntent(t) \/ AppendIntent2(t) \/ Apply(t)
    \/ Link(t) \/ Unlink(t) \/ MarkCommitted(t) \/ Commit(t)
    \/ DeleteJournal(t) \/ RestorePath(t) \/ RollbackDone(t)

Failure(t) ==
    \/ RecoverFails(t) \/ BeginFails(t) \/ PrepareFails(t) \/ Reject(t)
    \/ OpFails(t) \/ MarkFails(t) \/ RestoreFails(t)

(* A process between a judgement and the unlink does nothing else.         *)
Runs(t) ==
    /\ judged[t] = {}
    /\ Recovery(t) \/ Transaction(t) \/ Failure(t)
    /\ UNCHANGED reclaim

Reclaims(t) == \E p \in Paths : JudgeLock(t, p) \/ UnlinkLock(t, p)

Next ==
    \/ \E t \in Txs :
          \/ (\E s \in Scripts : Start(t, s)) /\ UNCHANGED reclaim
          \/ Runs(t) \/ Reclaims(t) \/ Die(t)
    \/ (\E p \in Paths, v \in Values : ForeignEdit(p, v)) /\ UNCHANGED reclaim

Spec == Init /\ [][Next]_vars

(* A live process runs on: recovery, transaction, and the failure it gets. *)
Fairness == \A t \in Txs : WF_vars(Runs(t) \/ Reclaims(t))

FairSpec == Spec /\ Fairness

-----------------------------------------------------------------------------
Scans ==
    [todo : SUBSET Txs, cur : Txs \cup {NoTx}, copy : Journals \cup {NoJournal},
     left : SUBSET Paths, clash : BOOLEAN]

TypeOK ==
    /\ disk \in [Paths -> Contents]
    /\ lock \in [Paths -> Txs \cup {NoTx}]
    /\ judged \in [Txs -> SUBSET Paths] /\ orphaned \subseteq Paths
    /\ journal \in [Txs -> Journals \cup {NoJournal}]
    /\ pc \in [Txs -> Locations]
    /\ script \in [Txs -> Scripts \cup {<<>>}]
    /\ plan \in [Txs -> [Paths -> Contents]]
    /\ snap \in [Txs -> [Paths -> Contents]]
    /\ next \in [Txs -> Nat \ {0}]
    /\ muts \in [Txs -> Seq(Paths)]
    /\ failed \in [Txs -> BOOLEAN]
    /\ result \in [Txs -> {"none", "committed", "writeFailed"}]
    /\ scan \in [Txs -> Scans]
    /\ writer \in [Paths -> Txs \cup {NoTx}]
    /\ faults \in 0..MaxFaults /\ deaths \in 0..MaxDeaths
    /\ foreign \in 0..MaxForeign

(* A transaction that may have changed files and has not decided yet.      *)
Midway(t) == pc[t] \in {"op", "op2", "apply", "unlink", "rollback"}

(* Who holds the right to write a path holds its lock file, whatever else  *)
(* was killed or failed, so transactions that touch a common file do not   *)
(* overlap (edit-transaction.ts:191-194).  Excepted are the paths at which *)
(* a process ever died with its lock file: judging that file and unlinking *)
(* it by name are two steps (edit-transaction.ts:87-99,                    *)
(* recovery-journal.ts:207-214), and the second may hit the lock of one    *)
(* who has reclaimed the path meanwhile.                                   *)
Isolation ==
    \A t \in Txs : pc[t] \in {"guard", "prepare", "release"} \/ Midway(t)
        => \A p \in MyPaths(t) \ orphaned : lock[p] = t

(* Bytes of a transaction that has not committed never lie on the disk     *)
(* without a prepared journal that recognises them and can take them back: *)
(* the intent is durable before the operation, and the journal goes only   *)
(* after the bytes have gone (recovery-journal.ts:10-14,                   *)
(* transaction-runner.ts:286-290).                                         *)
NoOrphanBytes ==
    \A p \in Paths :
        LET t == writer[p] IN
        t # NoTx /\ result[t] # "committed"
            => /\ journal[t] # NoJournal
               /\ journal[t].state = "prepared"
               /\ p \in journal[t].paths /\ journal[t].post[p] = disk[p]

(* A rollback that left a path behind leaves behind the prepared journal   *)
(* that can finish it ("crash journal preserved for recovery",             *)
(* transaction-runner.ts:308-309).                                         *)
FailedRollbackJournaled ==
    \A t \in Txs : failed[t] /\ Alive(t) =>
        journal[t] # NoJournal /\ journal[t].state = "prepared"

(* A transaction begins only when every process that died in one has been  *)
(* cleaned up after: "recovery BEFORE new mutations"                       *)
(* (transaction-runner.ts:143-144).                                        *)
RecoveryCleansUp ==
    \A t \in Txs : pc[t] = "begin" =>
        \A j \in Txs : pc[j] = "dead" => journal[j] = NoJournal

(* What recovery quarantines and reports as third-party drift, leaving it  *)
(* on the disk, the interrupted transaction did not write itself           *)
(* (recovery-journal.ts:17-19).                                            *)
QuarantineOnlyForeign ==
    [][\A t \in Txs :
         RecoverPath(t) /\ scan'[t].clash /\ ~scan[t].clash
            => writer[Min(scan[t].left)] # scan[t].cur]_vars

(* What the files hold once every interrupted transaction is undone: the   *)
(* snapshots of one midway, the preimages a dead one's journal restores.   *)
Pending(p) ==
    {t \in Txs : /\ ~Alive(t)
                 /\ journal[t] # NoJournal /\ journal[t].state = "prepared"
                 /\ p \in journal[t].paths /\ disk[p] = journal[t].post[p]}

Logical ==
    [p \in Paths |->
        IF \E t \in Txs : Midway(t) /\ p \in MyPaths(t)
        THEN snap[CHOOSE t \in Txs : Midway(t) /\ p \in MyPaths(t)][p]
        ELSE IF Pending(p) # {}
        THEN journal[CHOOSE t \in Pending(p) : TRUE].pre[p]
        ELSE disk[p]]

Committed == {t \in Txs : result[t] = "committed"}

Atomic == INSTANCE AtomicStore WITH
    store <- Logical, committed <- Committed, outside <- foreign

(* Crashes, recoveries and rollbacks included, the files change only by    *)
(* whole transactions, each at the moment its journal is marked committed, *)
(* and by the edits of other programs.                                     *)
AllOrNothing == Atomic!Spec

(* Every transaction comes to an end, or its process does: no lock, journal *)
(* or recovery of another holds it up for ever.                            *)
TransactionEnds ==
    \A t \in Txs : pc[t] = "list" ~> pc[t] \in {"end", "dead"}
=============================================================================
