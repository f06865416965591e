------------------------------ MODULE FileLock ------------------------------
(***************************************************************************)
(* The cross-process lock file of src/src/mutation/edit-transaction.ts:    *)
(* acquireFileLock, reclaimIfAbandoned and the release they return, for    *)
(* one lock path.  A contender is one process: inside a process the        *)
(* promise chain of acquire() lets one transaction at a time reach the     *)
(* lock file of a key (module PathLocks).                                  *)
(*                                                                         *)
(* Every await of the code is a step boundary.  The file at the lock path  *)
(* is an inode: its creator, whether the creator's writeFile has landed    *)
(* (until then the content does not parse), and whether it is older than   *)
(* LOCK_STALE_MS.  rm(lockPath) removes whatever inode is at the path when *)
(* it runs, which is what makes reclaiming hard; and it may fail, which    *)
(* every caller swallows.                                                  *)
(***************************************************************************)
EXTENDS Naturals, FiniteSets

CONSTANTS Procs,       \* contending processes (their pids)
          MaxCrashes,  \* bound: processes killed, and own files that could
                       \* not be removed, together
          SlowWrites,  \* may a live creator stay longer than LOCK_STALE_MS
                       \* between open("wx") and writeFile?
          NoFile       \* the lock path does not exist

ASSUME FileLockAssumption ==
    /\ MaxCrashes \in Nat
    /\ SlowWrites \in BOOLEAN
    /\ NoFile \notin [creator : Procs, written : BOOLEAN, stale : BOOLEAN]

VARIABLES
    file,     \* the inode at lockPath, or NoFile
    pc,       \* where each process is in acquireFileLock
    seen,     \* what readLockFileInfo of each process found at the path
    expired,  \* has Date.now() passed the deadline of this acquisition?
    crashes,  \* how much of the bound is used
    stuck     \* ghost: has a process been unable to remove its own file?

vars == <<file, pc, seen, expired, crashes, stuck>>

Inode == [creator : Procs, written : BOOLEAN, stale : BOOLEAN]

(***************************************************************************)
(* "idle"   not acquiring          "open"  at the head of the for(;;) loop *)
(* "write"  open("wx") succeeded   "hold"  the caller has the release      *)
(* "read"   EEXIST, about to read the lock file's owner                    *)
(* "judge"  read it, about to ask whether that owner is alive              *)
(* "rm"     judged abandoned, about to unlink the path                     *)
(* "wait"   not abandoned: deadline check and LOCK_RETRY_MS sleep          *)
(* "failed" the acquisition threw  "dead"  the process was killed          *)
(***************************************************************************)
Locations == {"idle", "open", "write", "hold", "read", "judge", "rm",
              "wait", "failed", "dead"}

Alive(p) == pc[p] # "dead"
Goto(p, loc) == pc' = [pc EXCEPT ![p] = loc]

TypeOK ==
    /\ file \in Inode \cup {NoFile}
    /\ pc \in [Procs -> Locations]
    /\ seen \in [Procs -> Inode \cup {NoFile}]
    /\ expired \in [Procs -> BOOLEAN]
    /\ crashes \in 0..MaxCrashes
    /\ stuck \in BOOLEAN

Init ==
    /\ file = NoFile
    /\ pc = [p \in Procs |-> "idle"]
    /\ seen = [p \in Procs |-> NoFile]
    /\ expired = [p \in Procs |-> FALSE]
    /\ crashes = 0
    /\ stuck = FALSE

-----------------------------------------------------------------------------
(* A transaction of p calls acquireFileLock and computes its deadline.     *)
Start(p) ==
    /\ pc[p] \in {"idle", "failed"}
    /\ Goto(p, "open")
    /\ expired' = [expired EXCEPT ![p] = FALSE]
    /\ UNCHANGED <<file, seen, crashes, stuck>>

(* open(lockPath, "wx") creates the file.                                  *)
OpenCreates(p) ==
    /\ pc[p] = "open"
    /\ file = NoFile
    /\ file' = [creator |-> p, written |-> FALSE, stale |-> FALSE]
    /\ Goto(p, "write")
    /\ UNCHANGED <<seen, expired, crashes, stuck>>

(* open(lockPath, "wx") throws EEXIST.                                     *)
OpenExists(p) ==
    /\ pc[p] = "open"
    /\ file # NoFile
    /\ Goto(p, "read")
    /\ UNCHANGED <<file, seen, expired, crashes, stuck>>

(* open(lockPath, "wx") throws anything else: no handle, rethrown.         *)
OpenFails(p) ==
    /\ pc[p] = "open"
    /\ Goto(p, "failed")
    /\ UNCHANGED <<file, seen, expired, crashes, stuck>>

(* handle.writeFile lands in the inode p opened, which may no longer be    *)
(* the one at the path.                                                    *)
WriteInfo(p) ==
    /\ pc[p] = "write"
    /\ file' = IF file # NoFile /\ file.creator = p
               THEN [file EXCEPT !.written = TRUE, !.stale = FALSE]
               ELSE file
    /\ Goto(p, "hold")
    /\ UNCHANGED <<seen, expired, crashes, stuck>>

(* Bug: the failed write leaves the file it created behind.                *)
BugWriteFails(p) ==
    /\ pc[p] = "write"
    /\ Goto(p, "failed")
    /\ UNCHANGED <<file, seen, expired, crashes, stuck>>

(* handle.writeFile throws: close, rm(lockPath), rethrow.                  *)
WriteFails(p) ==
    /\ pc[p] = "write"
    /\ file' = NoFile
    /\ Goto(p, "failed")
    /\ UNCHANGED <<seen, expired, crashes, stuck>>

(* Bug: age alone decides, and an owner record does not protect the file.  *)
BugAbandoned(f) == f # NoFile /\ (f.written \/ f.stale)

(* readLockFileInfo: the file's content and age, or that it vanished.      *)
ReadOwner(p) ==
    /\ pc[p] = "read"
    /\ seen' = [seen EXCEPT ![p] = file]
    /\ Goto(p, "judge")
    /\ UNCHANGED <<file, expired, crashes, stuck>>

(* The judgement of reclaimIfAbandoned: a parsed owner decides by its      *)
(* liveness now, an unparsed one by the age read; a file that vanished is  *)
(* not reclaimed.                                                          *)
Abandoned(f) ==
    /\ f # NoFile
    /\ IF f.written THEN ~Alive(f.creator) ELSE f.stale

Judge(p) ==
    /\ pc[p] = "judge"
    /\ Goto(p, IF Abandoned(seen[p]) THEN "rm" ELSE "wait")
    /\ seen' = [seen EXCEPT ![p] = NoFile]
    /\ UNCHANGED <<file, expired, crashes, stuck>>

(* rm(lockPath, { force: true }) and an immediate retry.                   *)
Reclaim(p) ==
    /\ pc[p] = "rm"
    /\ file' = NoFile
    /\ Goto(p, "open")
    /\ UNCHANGED <<seen, expired, crashes, stuck>>

(* The rm fails: .catch(() => {}) swallows it, and the retry is as immediate *)
(* as after a removal, past the deadline check and without a sleep.        *)
ReclaimFails(p) ==
    /\ pc[p] = "rm"
    /\ file # NoFile
    /\ Goto(p, "open")
    /\ UNCHANGED <<file, seen, expired, crashes, stuck>>

(* Bug: the deadline is never looked at.                                   *)
BugRetry(p) ==
    /\ pc[p] = "wait"
    /\ Goto(p, "open")
    /\ UNCHANGED <<file, seen, expired, crashes, stuck>>

(* Not reclaimed: throw once the deadline has passed, else sleep, retry.   *)
Retry(p) ==
    /\ pc[p] = "wait"
    /\ ~expired[p]
    /\ Goto(p, "open")
    /\ UNCHANGED <<file, seen, expired, crashes, stuck>>

GiveUp(p) ==
    /\ pc[p] = "wait"
    /\ expired[p]
    /\ Goto(p, "failed")
    /\ UNCHANGED <<file, seen, expired, crashes, stuck>>

(* The release: close the handle, rm(lockPath, { force: true }).           *)
Release(p) ==
    /\ pc[p] = "hold"
    /\ file' = NoFile
    /\ Goto(p, "idle")
    /\ UNCHANGED <<seen, expired, crashes, stuck>>

(* The rm of a release or of a failed write fails, and is swallowed too.   *)
KeepsFile(p) ==
    /\ pc[p] \in {"hold", "write"}
    /\ file # NoFile
    /\ crashes < MaxCrashes
    /\ crashes' = crashes + 1
    /\ stuck' = TRUE
    /\ Goto(p, IF pc[p] = "hold" THEN "idle" ELSE "failed")
    /\ UNCHANGED <<file, seen, expired>>

-----------------------------------------------------------------------------
(* The environment: a hard kill, the clock passing a deadline, and an      *)
(* unwritten lock file growing older than LOCK_STALE_MS.                   *)
Crash(p) ==
    /\ Alive(p)
    /\ crashes < MaxCrashes
    /\ crashes' = crashes + 1
    /\ Goto(p, "dead")
    /\ UNCHANGED <<file, seen, expired, stuck>>

Expire(p) ==
    /\ pc[p] \in {"open", "read", "judge", "rm", "wait"}
    /\ ~expired[p]
    /\ expired' = [expired EXCEPT ![p] = TRUE]
    /\ UNCHANGED <<file, pc, seen, crashes, stuck>>

Age ==
    /\ file # NoFile
    /\ ~file.written /\ ~file.stale
    /\ SlowWrites \/ pc[file.creator] \notin {"write", "hold"}
    /\ file' = [file EXCEPT !.stale = TRUE]
    /\ UNCHANGED <<pc, seen, expired, crashes, stuck>>

Step(p) ==
    \/ OpenCreates(p) \/ OpenExists(p) \/ WriteInfo(p)
    \/ ReadOwner(p) \/ Judge(p) \/ Reclaim(p) \/ ReclaimFails(p)
    \/ Retry(p) \/ GiveUp(p)

Next ==
    \/ \E p \in Procs : \/ Step(p) \/ Start(p) \/ OpenFails(p)
                        \/ WriteFails(p) \/ Release(p) \/ KeepsFile(p)
                        \/ Crash(p) \/ Expire(p)
    \/ Age

Spec == Init /\ [][Next]_vars

(* A live process runs its event loop and its clock advances.  Nothing is  *)
(* assumed about when a process starts an acquisition, fails one, is       *)
(* killed, or ever releases the lock it holds.                             *)
Fairness == \A p \in Procs : WF_vars(Step(p)) /\ WF_vars(Expire(p))

FairSpec == Spec /\ Fairness

-----------------------------------------------------------------------------
Holders == {p \in Procs : pc[p] = "hold"}

(* Two processes never hold the lock of one path at once: the guarantee    *)
(* that cooperating transactions serialize (edit-transaction.ts:191-194).  *)
MutualExclusion == \A p, q \in Holders : p = q

(* As long as no process was killed or could not remove its own lock file, *)
(* and every creator writes its owner record before the file looks stale,  *)
(* the lock is exclusive: EEXIST polling, unconditional rm on release and  *)
(* on a failed write included.                                             *)
ExclusiveUntilCrash ==
    (~SlowWrites /\ ~stuck /\ \A p \in Procs : Alive(p)) => MutualExclusion

(* Polling terminates: an acquisition ends in the lock, in an error or in  *)
(* the death of its process, whatever the other processes do with the      *)
(* lock file meanwhile (LOCK_TIMEOUT_MS bounds every wait).  Except one:   *)
(* while the rm of an abandoned file goes on failing, reclaimIfAbandoned   *)
(* goes on answering true (edit-transaction.ts:91,95) and `continue` goes  *)
(* on passing the deadline by (:135), for ever.                            *)
AcquisitionEnds ==
    \A p \in Procs :
        \/ pc[p] = "open" ~> pc[p] \in {"hold", "failed", "dead"}
        \/ []<><<ReclaimFails(p)>>_vars

(* No lock outlives its users: when every process is at rest the lock path *)
(* is free, unless the file's creator was killed or a process could not    *)
(* remove its own file (edit-transaction.ts:127,132 swallow that).         *)
NoLeakedLock ==
    (~stuck /\ \A p \in Procs : pc[p] \in {"idle", "failed", "dead"})
        => (file = NoFile \/ ~Alive(file.creator))
=============================================================================
