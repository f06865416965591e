----------------------------- MODULE PathLocks -----------------------------
(***************************************************************************)
(* Taking the locks of several paths: acquire of                           *)
(* src/src/mutation/edit-transaction.ts and acquireRecoveryLocks of        *)
(* src/src/mutation/recovery-journal.ts.                                   *)
(*                                                                         *)
(* A transaction takes its keys one by one in sorted order; for each it    *)
(* joins the chain of promises of its process and, when the one before it  *)
(* has let go, polls for the lock file.  A recovery scan takes the same    *)
(* lock files in the same order without joining the chains.  A lock file   *)
(* is taken in one step here; FileLock has the steps of that, and kills.   *)
(***************************************************************************)
EXTENDS Naturals, Sequences

CONSTANTS
    Txs,          \* transactions
    Scans,        \* recoveries of one journal
    Processes, ProcessOf,  \* the process each of them runs in
    Keys,         \* resolved paths, numbered in sorted order
    Requests,     \* the sets of paths that are asked for
    Nobody        \* the holder of a lock path at which there is no file

Lockers == Txs \cup Scans

ASSUME PathLocksAssumption ==
    /\ Keys \subseteq Nat
    /\ Requests \subseteq (SUBSET Keys) \ {{}}
    /\ Txs \cap Scans = {}
    /\ ProcessOf \in [Lockers -> Processes]
    /\ Nobody \notin Lockers

VARIABLES
    chain,  \* the map "locks" of each process: who has not yet resolved its
            \* promise for a key, in the order they asked
    lockFile,   \* whose lock file is at each key's lock path
    at,     \* where each of them is
    want,   \* the keys it was called with
    links,  \* those whose promise it has to resolve
    files   \* those whose lock file it has created and not removed

lockVars == <<chain, lockFile, at, want, links, files>>

LockPoints == {"idle", "next", "queued", "poll", "hold", "unwind", "end",
              "threw"}

Move(t, loc) == at' = [at EXCEPT ![t] = loc]
Chain(t, k) == chain[ProcessOf[t]][k]

(* Bug: the keys are taken in the order they were given.                   *)
BugTurns(t) == want[t] \ files[t]

(* The key whose turn it is.                                               *)
Turns(t) == {k \in want[t] \ files[t] : \A j \in want[t] \ files[t] : k <= j}

(* The key whose releases are on top of the stack.                         *)
Latest(t) ==
    {k \in links[t] \cup files[t] : \A j \in links[t] \cup files[t] : j <= k}

LocksInit ==
    /\ chain = [p \in Processes |-> [k \in Keys |-> <<>>]]
    /\ lockFile = [k \in Keys |-> Nobody]
    /\ at = [t \in Lockers |-> "idle"]
    /\ want = [t \in Lockers |-> {}]
    /\ links = [t \in Lockers |-> {}]
    /\ files = [t \in Lockers |-> {}]

Request(t, ks) ==
    /\ at[t] = "idle"
    /\ want' = [want EXCEPT ![t] = ks]
    /\ Move(t, IF t \in Scans THEN "poll" ELSE "next")
    /\ UNCHANGED <<chain, lockFile, links, files>>

(* locks.get(key), locks.set(key, next).                                   *)
Enqueue(t) ==
    /\ at[t] = "next"
    /\ \E k \in Turns(t) :
          chain' = [chain EXCEPT ![ProcessOf[t]][k] = Append(@, t)]
    /\ Move(t, "queued")
    /\ UNCHANGED <<lockFile, want, links, files>>

(* await prior: the promise of whoever asked before is resolved.           *)
AwaitPrior(t) ==
    /\ at[t] = "queued"
    /\ \E k \in want[t] \ files[t] :
          /\ Chain(t, k) # <<>> /\ Head(Chain(t, k)) = t
          /\ links' = [links EXCEPT ![t] = @ \cup {k}]
    /\ Move(t, "poll")
    /\ UNCHANGED <<chain, lockFile, want, files>>

(* Bug: whoever is at the head of its chain has the lock.                  *)
BugVacant(k) == lockFile[k] = Nobody \/ lockFile[k] \in Txs

(* open("wx") succeeds.                                                    *)
Vacant(k) == lockFile[k] = Nobody

(* acquireFileLock, or its copy in acquireRecoveryLocks.                   *)
LockFile(t) ==
    /\ at[t] = "poll"
    /\ \E k \in IF t \in Scans THEN Turns(t) ELSE links[t] \ files[t] :
          /\ Vacant(k)
          /\ lockFile' = [lockFile EXCEPT ![k] = t]
          /\ files' = [files EXCEPT ![t] = @ \cup {k}]
    /\ Move(t, IF files'[t] = want[t] THEN "hold"
               ELSE IF t \in Scans THEN "poll" ELSE "next")
    /\ UNCHANGED <<chain, want, links>>

(* Bug: what was taken before the failure is kept.                         *)
BugTimeout(t) ==
    /\ at[t] = "poll"
    /\ t \in Txs
    /\ Move(t, "end")
    /\ UNCHANGED <<chain, lockFile, want, links, files>>

(* acquireFileLock throws: its deadline has passed, or the disk fails.     *)
Timeout(t) ==
    /\ at[t] = "poll"
    /\ t \in Txs
    /\ Move(t, "unwind")
    /\ UNCHANGED <<chain, lockFile, want, links, files>>

(* acquireRecoveryLocks throws, at its deadline or because open fails, and *)
(* nobody has the list of the releases of the locks taken before.          *)
ScanTimeout(t) ==
    /\ at[t] = "poll"
    /\ t \in Scans
    /\ Move(t, "threw")
    /\ UNCHANGED <<chain, lockFile, want, links, files>>

(* It throws when it cannot write its owner record: the file just created  *)
(* is closed, not removed.                                                 *)
ScanWriteFails(t) ==
    /\ at[t] = "poll"
    /\ t \in Scans
    /\ \E k \in Turns(t) :
          /\ Vacant(k)
          /\ lockFile' = [lockFile EXCEPT ![k] = t]
          /\ files' = [files EXCEPT ![t] = @ \cup {k}]
    /\ Move(t, "threw")
    /\ UNCHANGED <<chain, want, links>>

(* The transaction commits or rolls back, the recovery is done.            *)
Finish(t) ==
    /\ at[t] = "hold"
    /\ Move(t, "unwind")
    /\ UNCHANGED <<chain, lockFile, want, links, files>>

(* The releases in reverse: of each key the lock file, then the promise.   *)
RemoveFile(t) ==
    /\ at[t] = "unwind"
    /\ \E k \in Latest(t) \cap files[t] :
          /\ lockFile' = [lockFile EXCEPT ![k] = Nobody]
          /\ files' = [files EXCEPT ![t] = @ \ {k}]
    /\ UNCHANGED <<chain, at, want, links>>

ResolveNext(t) ==
    /\ at[t] = "unwind"
    /\ \E k \in Latest(t) \ files[t] :
          /\ chain' = [chain EXCEPT ![ProcessOf[t]][k] = Tail(@)]
          /\ links' = [links EXCEPT ![t] = @ \ {k}]
    /\ UNCHANGED <<lockFile, at, want, files>>

Released(t) ==
    /\ at[t] = "unwind"
    /\ links[t] \cup files[t] = {}
    /\ Move(t, "end")
    /\ UNCHANGED <<chain, lockFile, want, links, files>>

LockStep(t) ==
    \/ Enqueue(t) \/ AwaitPrior(t) \/ LockFile(t) \/ Finish(t)
    \/ RemoveFile(t) \/ ResolveNext(t) \/ Released(t)

LocksNext ==
    \E t \in Lockers :
        \/ \E ks \in Requests : Request(t, ks)
        \/ LockStep(t) \/ Timeout(t) \/ ScanTimeout(t) \/ ScanWriteFails(t)

LocksSpec == LocksInit /\ [][LocksNext]_lockVars

(* Every process runs on.  No lock need ever time out.                     *)
LocksFairSpec == LocksSpec /\ \A t \in Lockers : WF_lockVars(LockStep(t))

-----------------------------------------------------------------------------
LocksTypeOK ==
    /\ chain \in [Processes -> [Keys -> Seq(Txs)]]
    /\ lockFile \in [Keys -> Lockers \cup {Nobody}]
    /\ at \in [Lockers -> LockPoints]
    /\ want \in [Lockers -> SUBSET Keys]
    /\ links \in [Lockers -> SUBSET Keys]
    /\ files \in [Lockers -> SUBSET Keys]

Held == [t \in Lockers |-> IF at[t] = "hold" THEN want[t] ELSE {}]

Table == INSTANCE LockTable WITH held <- Held

(* Taken one by one, in chains and lock files, the locks of a transaction  *)
(* are as good as taken at once: nobody ever has a path of another         *)
(* (edit-transaction.ts:144-149).                                          *)
TakenAtOnce == Table!Spec

(* Inside a process only the transaction whose turn it is goes to the lock *)
(* file of a key.                                                          *)
OnePerProcess ==
    \A t, u \in Txs : t # u /\ ProcessOf[t] = ProcessOf[u]
        => links[t] \cap links[u] = {}

(* When everybody is at rest, every promise is resolved and every lock     *)
(* file has been removed, except those of a recovery scan that threw: it   *)
(* times out with its earlier locks on disk (recovery-journal.ts:216), or  *)
(* fails to write the owner record of the last (:204).  A transaction that *)
(* fails leaves nothing.                                                   *)
NothingLeft ==
    (\A t \in Lockers : at[t] \in {"idle", "end", "threw"})
        => /\ \A k \in Keys : lockFile[k] # Nobody => at[lockFile[k]] = "threw"
           /\ \A p \in Processes, k \in Keys : chain[p][k] = <<>>

(* A lock file nobody is going to remove.                                  *)
Leaked == \E k \in Keys : lockFile[k] # Nobody /\ at[lockFile[k]] = "threw"

(* Nobody waits in a circle: whatever sets of paths are asked for, within  *)
(* a process and across processes, everybody gets or gives up its locks,   *)
(* without a deadline having to pass, unless a scan that threw has left a  *)
(* lock file behind.                                                       *)
NoDeadlock ==
    <>[](Leaked \/ \A t \in Lockers : at[t] \in {"idle", "end", "threw"})
=============================================================================
