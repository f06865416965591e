-------------------------- MODULE PathLocksProofs --------------------------
(* What is proved of PathLocks, for every number of processes,             *)
(* transactions, recovery scans and paths.                                 *)
EXTENDS PathLocks, SequenceTheorems, TLAPS

(* A lock file somebody has to remove is its own, and whoever holds its    *)
(* locks has them all.                                                     *)
Owned(t) ==
    /\ \A k \in files[t] : lockFile[k] = t
    /\ at[t] = "hold" => files[t] = want[t]

(* Whoever has a promise to resolve is the first of its chain.             *)
InTurn(t) == \A k \in links[t] : Chain(t, k) # <<>> /\ Head(Chain(t, k)) = t

(* Recovery scans stay away from the chains.                               *)
Chained(t) == at[t] \in {"next", "queued"} => t \in Txs

(* A transaction that fails unwinds; only a scan just throws.              *)
Threw(t) == at[t] = "threw" => t \in Scans

IInv == LocksTypeOK /\ \A t \in Lockers : Owned(t) /\ InTurn(t) /\ Chained(t) /\ Threw(t)

(* Nobody has anything at the start.                                       *)
LEMMA InitIInv == LocksInit => IInv
  BY PathLocksAssumption
  DEF LocksInit, IInv, LocksTypeOK, Owned, InTurn, Chained, Threw, LockPoints

(* Joining a chain leaves its first alone; leaving it keeps it a chain.    *)
LEMMA Chains ==
  ASSUME NEW s \in Seq(Txs), NEW t \in Txs
  PROVE  /\ Append(s, t) \in Seq(Txs) /\ Append(s, t) # <<>>
         /\ s # <<>> => Head(Append(s, t)) = Head(s) /\ Tail(s) \in Seq(Txs)
  BY AppendProperties, HeadTailAppend, HeadTailProperties

(* The chain of a key is a sequence of transactions.                       *)
LEMMA ChainTyped ==
  ASSUME LocksTypeOK, NEW p \in Processes, NEW k \in Keys
  PROVE  chain[p][k] \in Seq(Txs)
  BY Zenon DEF LocksTypeOK

(* Every step keeps every variable within its type.                        *)
LEMMA TypeStep == IInv /\ [LocksNext]_lockVars => LocksTypeOK'
<1> SUFFICES ASSUME IInv, [LocksNext]_lockVars PROVE LocksTypeOK'
  OBVIOUS
<1> USE PathLocksAssumption DEF IInv, LocksTypeOK, Move, LockPoints
<1>1. ASSUME NEW t \in Lockers, NEW ks \in Requests, Request(t, ks) PROVE LocksTypeOK'
  BY <1>1 DEF Request
<1>2. ASSUME NEW t \in Lockers, Enqueue(t) PROVE LocksTypeOK'
  <2>1. t \in Txs
    BY <1>2 DEF Enqueue, Chained
  <2>2. PICK k \in Turns(t) :
           chain' = [chain EXCEPT ![ProcessOf[t]][k] = Append(@, t)]
    BY <1>2 DEF Enqueue
  <2>3. k \in Keys /\ ProcessOf[t] \in Processes
    BY DEF Turns
  <2>4. chain[ProcessOf[t]][k] \in Seq(Txs)
    BY <2>3, ChainTyped
  <2>5. Append(chain[ProcessOf[t]][k], t) \in Seq(Txs)
    BY <2>1, <2>4, Chains
  <2>6. chain' \in [Processes -> [Keys -> Seq(Txs)]]
    BY <2>2, <2>3, <2>5
  <2> QED
    BY <1>2, <2>6 DEF Enqueue
<1>3. ASSUME NEW t \in Lockers, AwaitPrior(t) PROVE LocksTypeOK'
  BY <1>3 DEF AwaitPrior
<1>4. ASSUME NEW t \in Lockers, LockFile(t) PROVE LocksTypeOK'
  BY <1>4 DEF LockFile, Turns
<1>5. ASSUME NEW t \in Lockers, RemoveFile(t) PROVE LocksTypeOK'
  BY <1>5 DEF RemoveFile, Latest
<1>6. ASSUME NEW t \in Lockers, ResolveNext(t) PROVE LocksTypeOK'
  <2>1. PICK k \in Latest(t) \ files[t] :
           /\ chain' = [chain EXCEPT ![ProcessOf[t]][k] = Tail(@)]
           /\ links' = [links EXCEPT ![t] = @ \ {k}]
    BY <1>6 DEF ResolveNext
  <2>2. k \in links[t] /\ k \in Keys /\ ProcessOf[t] \in Processes
    BY DEF Latest
  <2>3. chain[ProcessOf[t]][k] # <<>>
    BY <2>2 DEF InTurn, Chain
  <2>4. Tail(chain[ProcessOf[t]][k]) \in Seq(Txs)
    BY <2>2, <2>3, ChainTyped, HeadTailProperties
  <2>5. chain' \in [Processes -> [Keys -> Seq(Txs)]]
    BY <2>1, <2>2, <2>4
  <2>6. links' \in [Lockers -> SUBSET Keys]
    BY <2>1
  <2> QED
    BY <1>6, <2>5, <2>6 DEF ResolveNext
<1>7. ASSUME NEW t \in Lockers,
             Timeout(t) \/ ScanTimeout(t) \/ Finish(t) \/ Released(t)
      PROVE  LocksTypeOK'
  BY <1>7 DEF Timeout, ScanTimeout, Finish, Released
<1>8. CASE UNCHANGED lockVars
  BY <1>8 DEF lockVars
<1>9. ASSUME NEW t \in Lockers, ScanWriteFails(t) PROVE LocksTypeOK'
  BY <1>9 DEF ScanWriteFails, Turns
<1> QED
  BY <1>1, <1>2, <1>3, <1>4, <1>5, <1>6, <1>7, <1>8, <1>9 DEF LocksNext, LockStep

(* A lock file changes hands only through Nobody.                          *)
LEMMA OwnedStep ==
  ASSUME IInv, [LocksNext]_lockVars, NEW u \in Lockers
  PROVE  Owned(u)'
<1> USE PathLocksAssumption DEF IInv, LocksTypeOK, Move, Owned
<1>1. ASSUME NEW t \in Lockers, NEW ks \in Requests, Request(t, ks) PROVE Owned(u)'
  BY <1>1 DEF Request
<1>2. ASSUME NEW t \in Lockers,
             Enqueue(t) \/ AwaitPrior(t) \/ Finish(t) \/ ResolveNext(t)
               \/ Released(t) \/ Timeout(t) \/ ScanTimeout(t)
      PROVE  Owned(u)'
  BY <1>2 DEF Enqueue, AwaitPrior, Finish, ResolveNext, Released, Timeout,
              ScanTimeout
<1>3. ASSUME NEW t \in Lockers, LockFile(t) \/ ScanWriteFails(t) PROVE Owned(u)'
  <2>1. PICK k \in Keys : /\ lockFile[k] = Nobody
                          /\ lockFile' = [lockFile EXCEPT ![k] = t]
                          /\ files' = [files EXCEPT ![t] = @ \cup {k}]
    BY <1>3 DEF LockFile, ScanWriteFails, Turns, Vacant
  <2>2. \A j \in files'[u] : lockFile'[j] = u
    <3>1. u \in Lockers /\ Nobody # u
      BY PathLocksAssumption
    <3>2. CASE u = t
      BY <2>1, <3>2
    <3>3. CASE u # t
      BY <2>1, <3>1, <3>3
    <3> QED
      BY <3>2, <3>3
  <2>3. at'[u] = "hold" => files'[u] = want'[u]
    BY <1>3, <2>1 DEF LockFile, ScanWriteFails
  <2> QED
    BY <2>2, <2>3
<1>4. ASSUME NEW t \in Lockers, RemoveFile(t) PROVE Owned(u)'
  <2>1. PICK k \in files[t] : /\ lockFile' = [lockFile EXCEPT ![k] = Nobody]
                              /\ files' = [files EXCEPT ![t] = @ \ {k}]
    BY <1>4 DEF RemoveFile
  <2>2. \A j \in files'[u] : lockFile'[j] = u
    BY <2>1
  <2>3. at'[u] = "hold" => files'[u] = want'[u]
    BY <1>4, <2>1 DEF RemoveFile
  <2> QED
    BY <2>2, <2>3
<1>5. CASE UNCHANGED lockVars
  BY <1>5 DEF lockVars
<1> QED
  BY <1>1, <1>2, <1>3, <1>4, <1>5 DEF LocksNext, LockStep

(* Nobody overtakes in a chain.                                            *)
LEMMA InTurnStep ==
  ASSUME IInv, [LocksNext]_lockVars, NEW u \in Lockers
  PROVE  InTurn(u)'
<1> USE PathLocksAssumption DEF IInv, LocksTypeOK, Move, InTurn, Chain
<1>1. ASSUME NEW t \in Lockers, NEW ks \in Requests, Request(t, ks) PROVE InTurn(u)'
  BY <1>1 DEF Request
<1>2. ASSUME NEW t \in Lockers,
             LockFile(t) \/ Finish(t) \/ RemoveFile(t)
               \/ Released(t) \/ Timeout(t) \/ ScanTimeout(t) \/ ScanWriteFails(t)
      PROVE  InTurn(u)'
  BY <1>2 DEF LockFile, Finish, RemoveFile, Released, Timeout, ScanTimeout,
              ScanWriteFails
<1>3. ASSUME NEW t \in Lockers, Enqueue(t) PROVE InTurn(u)'
  <2>1. t \in Txs
    BY <1>3 DEF Enqueue, Chained
  <2>2. PICK k \in Turns(t) :
           chain' = [chain EXCEPT ![ProcessOf[t]][k] = Append(@, t)]
    BY <1>3 DEF Enqueue
  <2>3. k \in Keys /\ ProcessOf[t] \in Processes
    BY DEF Turns
  <2>4. links' = links
    BY <1>3 DEF Enqueue
  <2>5. SUFFICES ASSUME NEW j \in links[u]
                 PROVE  /\ chain'[ProcessOf[u]][j] # <<>>
                        /\ Head(chain'[ProcessOf[u]][j]) = u
    BY <2>4
  <2>6. j \in Keys /\ ProcessOf[u] \in Processes
    OBVIOUS
  <2>7. /\ chain[ProcessOf[u]][j] \in Seq(Txs)
        /\ chain[ProcessOf[u]][j] # <<>>
        /\ Head(chain[ProcessOf[u]][j]) = u
    BY <2>6, ChainTyped
  <2>8. CASE ProcessOf[u] = ProcessOf[t] /\ j = k
    <3>1. chain'[ProcessOf[u]][j] = Append(chain[ProcessOf[u]][j], t)
      BY <2>2, <2>3, <2>8
    <3>2. PICK s \in Seq(Txs) : s = chain[ProcessOf[u]][j] /\ s # <<>> /\ Head(s) = u
      BY <2>7
    <3>3. Append(s, t) # <<>> /\ Head(Append(s, t)) = u
      BY <3>2, <2>1, Chains
    <3> QED
      BY <3>1, <3>2, <3>3
  <2>9. CASE ~(ProcessOf[u] = ProcessOf[t] /\ j = k)
    <3>1. chain'[ProcessOf[u]][j] = chain[ProcessOf[u]][j]
      BY <2>2, <2>3, <2>6, <2>9
    <3> QED
      BY <3>1, <2>7
  <2> QED
    BY <2>8, <2>9
<1>4. ASSUME NEW t \in Lockers, AwaitPrior(t) PROVE InTurn(u)'
  <2>1. PICK k \in want[t] \ files[t] :
           /\ Chain(t, k) # <<>> /\ Head(Chain(t, k)) = t
           /\ links' = [links EXCEPT ![t] = @ \cup {k}]
    BY <1>4 DEF AwaitPrior
  <2>2. chain' = chain
    BY <1>4 DEF AwaitPrior
  <2>3. CASE u = t
    BY <2>1, <2>2, <2>3
  <2>4. CASE u # t
    BY <2>1, <2>2, <2>4
  <2> QED
    BY <2>3, <2>4
<1>5. ASSUME NEW t \in Lockers, ResolveNext(t) PROVE InTurn(u)'
  <2>1. PICK k \in Latest(t) \ files[t] :
           /\ chain' = [chain EXCEPT ![ProcessOf[t]][k] = Tail(@)]
           /\ links' = [links EXCEPT ![t] = @ \ {k}]
    BY <1>5 DEF ResolveNext
  <2>2. k \in links[t] /\ k \in Keys /\ ProcessOf[t] \in Processes
    BY DEF Latest
  <2>3. SUFFICES ASSUME NEW j \in links'[u]
                 PROVE  /\ chain'[ProcessOf[u]][j] # <<>>
                        /\ Head(chain'[ProcessOf[u]][j]) = u
    OBVIOUS
  <2>4. j \in links[u] /\ j \in Keys /\ ProcessOf[u] \in Processes
    BY <2>1
  <2>5. ~(ProcessOf[u] = ProcessOf[t] /\ j = k)
    <3>1. SUFFICES ASSUME ProcessOf[u] = ProcessOf[t], j = k PROVE FALSE
      OBVIOUS
    <3>2. u = t
      BY <2>2, <2>4, <3>1
    <3> QED
      BY <2>1, <3>1, <3>2
  <2>6. chain'[ProcessOf[u]][j] = chain[ProcessOf[u]][j]
    BY <2>1, <2>2, <2>4, <2>5
  <2> QED
    BY <2>4, <2>6
<1>6. CASE UNCHANGED lockVars
  BY <1>6 DEF lockVars
<1> QED
  BY <1>1, <1>2, <1>3, <1>4, <1>5, <1>6 DEF LocksNext, LockStep

(* Only transactions are sent to the chains, only scans throw.             *)
LEMMA ChainedStep ==
  ASSUME IInv, [LocksNext]_lockVars, NEW u \in Lockers
  PROVE  Chained(u)' /\ Threw(u)'
  BY PathLocksAssumption
  DEF IInv, LocksTypeOK, Move, Chained, Threw, Lockers, LocksNext, LockStep, lockVars, Request, Enqueue,
      AwaitPrior, LockFile, Finish, RemoveFile, ResolveNext, Released, Timeout,
      ScanTimeout, ScanWriteFails

(* The parts of IInv are kept together.                                    *)
LEMMA Inductive == IInv /\ [LocksNext]_lockVars => IInv'
  BY TypeStep, OwnedStep, InTurnStep, ChainedStep DEF IInv

(* IInv holds in every behaviour.                                          *)
LEMMA Always == LocksSpec => []IInv
  BY InitIInv, Inductive, PTL DEF LocksSpec

(* Inside a process only the transaction whose turn it is goes to the lock *)
(* file of a key, for any number of them.                                  *)
THEOREM OneContender == LocksSpec => []OnePerProcess
<1>1. IInv => OnePerProcess
  BY DEF IInv, InTurn, Chain, OnePerProcess, Lockers
<1> QED
  BY <1>1, Always, PTL

(* A step of the chains and lock files is a step of the table of locks, or *)
(* none.                                                                   *)
LEMMA TableStep == IInv /\ IInv' /\ [LocksNext]_lockVars => [Table!Next]_Held
<1> SUFFICES ASSUME IInv, IInv', [LocksNext]_lockVars PROVE [Table!Next]_Held
  OBVIOUS
<1> USE PathLocksAssumption DEF IInv, LocksTypeOK, Move, Held
<1>1. ASSUME NEW t \in Lockers, NEW ks \in Requests, Request(t, ks)
      PROVE  Held' = Held
  BY <1>1 DEF Request
<1>2. ASSUME NEW t \in Lockers,
             Enqueue(t) \/ AwaitPrior(t) \/ RemoveFile(t) \/ ResolveNext(t)
               \/ Released(t) \/ Timeout(t) \/ ScanTimeout(t) \/ ScanWriteFails(t)
      PROVE  Held' = Held
  BY <1>2 DEF Enqueue, AwaitPrior, RemoveFile, ResolveNext, Released, Timeout,
              ScanTimeout, ScanWriteFails
<1>3. ASSUME NEW t \in Lockers, LockFile(t) PROVE [Table!Next]_Held
  <2>1. CASE at'[t] = "hold"
    <3>1. Held[t] = {}
      BY <1>3 DEF LockFile
    <3>2. \A u \in Lockers : Held[u] \cap want[t] = {}
      <4>1. SUFFICES ASSUME NEW u \in Lockers, NEW k \in want[t], k \in Held[u]
                     PROVE  FALSE
        OBVIOUS
      <4>2. at[u] = "hold" /\ u # t /\ lockFile[k] = u
        BY <1>3, <4>1 DEF LockFile, Owned
      <4>3. at'[u] = "hold" /\ want' = want
        BY <1>3, <4>2 DEF LockFile
      <4>4. lockFile'[k] = u /\ lockFile'[k] = t
        BY <2>1, <4>1, <4>2, <4>3 DEF Owned
      <4> QED
        BY <4>2, <4>4
    <3>3. Held' = [Held EXCEPT ![t] = want[t]]
      BY <1>3, <2>1 DEF LockFile
    <3>4. Table!Take(t, want[t])
      BY <3>1, <3>2, <3>3 DEF Table!Take
    <3>5. want[t] \in SUBSET Keys
      OBVIOUS
    <3> HIDE DEF Held
    <3> QED
      BY <3>4, <3>5, Zenon DEF Table!Next
  <2>2. CASE at'[t] # "hold"
    <3>1. Held' = Held
      BY <1>3, <2>2 DEF LockFile
    <3> QED
      BY <3>1
  <2> QED
    BY <2>1, <2>2
<1>4. ASSUME NEW t \in Lockers, Finish(t) PROVE Table!Next
  <2>1. Held' = [Held EXCEPT ![t] = {}]
    BY <1>4 DEF Finish
  <2> QED
    BY <2>1 DEF Table!Next, Table!Give
<1>5. CASE UNCHANGED lockVars
  BY <1>5 DEF lockVars
<1> QED
  BY <1>1, <1>2, <1>3, <1>4, <1>5 DEF LocksNext, LockStep

(* Chains and lock files implement the table of locks PatchTransaction is  *)
(* built on: taken one by one, they are as good as taken at once.          *)
THEOREM LocksTakenAtOnce == LocksSpec => TakenAtOnce
<1>1. LocksInit => Table!Init
  BY PathLocksAssumption DEF LocksInit, Table!Init, Held
<1> QED
  BY <1>1, Always, TableStep, PTL DEF LocksSpec, TakenAtOnce, Table!Spec
-----------------------------------------------------------------------------
(* Who has what, and who is known by what is there: nobody at rest has     *)
(* anything, a lock file is on the list of its owner, and whoever is in a  *)
(* chain is there once, with its promise to resolve or its turn to await.  *)
Rested(t) == at[t] \in {"idle", "end"} => links[t] = {} /\ files[t] = {}

Linked(t) ==
    /\ at[t] \in {"next", "queued"} => links[t] \subseteq files[t]
    /\ at[t] = "poll" => \A j, k \in links[t] \ files[t] : j = k
    /\ t \in Scans => links[t] = {}

FilesKnown == \A k \in Keys : lockFile[k] # Nobody => k \in files[lockFile[k]]

Waits(t, k) == k \in links[t] \/ (at[t] = "queued" /\ k \in Turns(t))

Known(s, p, k) ==
    /\ \A i \in 1..Len(s) : ProcessOf[s[i]] = p /\ Waits(s[i], k)
    /\ \A i, j \in 1..Len(s) : s[i] = s[j] => i = j

ChainsKnown == \A p \in Processes, k \in Keys : Known(chain[p][k], p, k)

Accounts ==
    FilesKnown /\ ChainsKnown /\ \A t \in Lockers : Rested(t) /\ Linked(t)

(* One key at most has its turn.                                           *)
LEMMA OneTurn ==
  ASSUME LocksTypeOK, NEW t \in Lockers, NEW j \in Turns(t), NEW k \in Turns(t)
  PROVE  j = k
<1>1. j \in Nat /\ k \in Nat /\ j <= k /\ k <= j
  BY PathLocksAssumption DEF LocksTypeOK, Turns
<1> QED
  BY <1>1

(* Nobody has anything at the start.                                       *)
LEMMA InitAccounts == LocksInit => Accounts
  BY PathLocksAssumption
  DEF LocksInit, Accounts, Rested, Linked, FilesKnown, ChainsKnown, Known

(* The lists of everybody agree with where it is.                          *)
LEMMA ListsStep ==
  ASSUME IInv, Accounts, [LocksNext]_lockVars, NEW u \in Lockers
  PROVE  Rested(u)' /\ Linked(u)'
<1> USE PathLocksAssumption DEF IInv, LocksTypeOK, Move, Accounts, Rested, Linked
<1>1. ASSUME NEW t \in Lockers, NEW ks \in Requests, Request(t, ks)
      PROVE  Rested(u)' /\ Linked(u)'
  BY <1>1 DEF Request
<1>2. ASSUME NEW t \in Lockers, Enqueue(t) \/ Finish(t) \/ Timeout(t)
      PROVE  Rested(u)' /\ Linked(u)'
  <2>1. links' = links /\ files' = files
    BY <1>2 DEF Enqueue, Finish, Timeout
  <2>2. \/ at[t] = "next" /\ at' = [at EXCEPT ![t] = "queued"]
        \/ at[t] \in {"hold", "poll"} /\ at' = [at EXCEPT ![t] = "unwind"]
    BY <1>2 DEF Enqueue, Finish, Timeout
  <2> QED
    BY <2>1, <2>2
<1>3. ASSUME NEW t \in Lockers, Released(t)
      PROVE  Rested(u)' /\ Linked(u)'
  <2>1. links[t] = {} /\ files[t] = {}
    BY <1>3 DEF Released
  <2>2. links' = links /\ files' = files /\ at' = [at EXCEPT ![t] = "end"]
    BY <1>3 DEF Released
  <2> QED
    BY <2>1, <2>2
<1>4. ASSUME NEW t \in Lockers, AwaitPrior(t) PROVE Rested(u)' /\ Linked(u)'
  <2>1. PICK k \in want[t] \ files[t] : links' = [links EXCEPT ![t] = @ \cup {k}]
    BY <1>4 DEF AwaitPrior
  <2>2. t \notin Scans
    BY <1>4 DEF AwaitPrior, Chained
  <2> QED
    BY <1>4, <2>1, <2>2 DEF AwaitPrior
<1>5. ASSUME NEW t \in Lockers, LockFile(t) PROVE Rested(u)' /\ Linked(u)'
  <2>1. PICK k \in IF t \in Scans THEN Turns(t) ELSE links[t] \ files[t] :
           files' = [files EXCEPT ![t] = @ \cup {k}]
    BY <1>5 DEF LockFile
  <2>2. /\ at[t] = "poll" /\ links' = links
        /\ at' = [at EXCEPT ![t] = IF files'[t] = want[t] THEN "hold"
                                   ELSE IF t \in Scans THEN "poll" ELSE "next"]
    BY <1>5 DEF LockFile
  <2>3. CASE u # t
    BY <2>1, <2>2, <2>3
  <2>4. CASE u = t /\ t \in Scans
    BY <2>1, <2>2, <2>4
  <2>5. CASE u = t /\ t \notin Scans
    <3>1. links[t] \subseteq files'[t]
      <4>1. k \in links[t] \ files[t] /\ files'[t] = files[t] \cup {k}
        BY <2>1, <2>5
      <4>2. ASSUME NEW j \in links[t], j \notin files[t] PROVE j = k
        BY <4>1, <4>2, <2>2
      <4> QED
        BY <4>1, <4>2
    <3> QED
      BY <3>1, <2>2, <2>5
  <2> QED
    BY <2>3, <2>4, <2>5
<1>6. ASSUME NEW t \in Lockers, RemoveFile(t) \/ ResolveNext(t)
      PROVE  Rested(u)' /\ Linked(u)'
  <2>1. at' = at /\ at[t] = "unwind"
    BY <1>6 DEF RemoveFile, ResolveNext
  <2>2. links'[t] \subseteq links[t]
    BY <1>6 DEF RemoveFile, ResolveNext
  <2>3. u # t => links'[u] = links[u] /\ files'[u] = files[u]
    BY <1>6 DEF RemoveFile, ResolveNext
  <2>4. CASE u = t
    BY <2>1, <2>2, <2>4
  <2>5. CASE u # t
    BY <2>1, <2>5, <2>3
  <2> QED
    BY <2>4, <2>5
<1>7. CASE UNCHANGED lockVars
  BY <1>7 DEF lockVars
<1>8. ASSUME NEW t \in Lockers, ScanTimeout(t) \/ ScanWriteFails(t)
      PROVE  Rested(u)' /\ Linked(u)'
  <2>1. t \in Scans /\ links' = links /\ at' = [at EXCEPT ![t] = "threw"]
    BY <1>8 DEF ScanTimeout, ScanWriteFails
  <2>2. u # t => files'[u] = files[u]
    BY <1>8 DEF ScanTimeout, ScanWriteFails
  <2>3. CASE u = t
    BY <2>1, <2>3
  <2>4. CASE u # t
    BY <2>1, <2>2, <2>4
  <2> QED
    BY <2>3, <2>4
<1> QED
  BY <1>1, <1>2, <1>4, <1>5, <1>6, <1>7, <1>3, <1>8 DEF LocksNext, LockStep

(* Every lock file stays on the list of its owner.                         *)
LEMMA FilesStep == IInv /\ FilesKnown /\ [LocksNext]_lockVars => FilesKnown'
<1> SUFFICES ASSUME IInv, FilesKnown, [LocksNext]_lockVars PROVE FilesKnown'
  OBVIOUS
<1> USE PathLocksAssumption DEF IInv, LocksTypeOK, FilesKnown
<1>1. ASSUME NEW t \in Lockers, NEW ks \in Requests, Request(t, ks) PROVE FilesKnown'
  BY <1>1 DEF Request
<1>2. ASSUME NEW t \in Lockers,
             Enqueue(t) \/ AwaitPrior(t) \/ Finish(t) \/ ResolveNext(t)
               \/ Released(t) \/ Timeout(t) \/ ScanTimeout(t)
      PROVE  FilesKnown'
  BY <1>2 DEF Enqueue, AwaitPrior, Finish, ResolveNext, Released, Timeout, ScanTimeout
<1>3. ASSUME NEW t \in Lockers, LockFile(t) \/ ScanWriteFails(t) PROVE FilesKnown'
  <2>1. PICK k \in Keys : /\ lockFile' = [lockFile EXCEPT ![k] = t]
                          /\ files' = [files EXCEPT ![t] = @ \cup {k}]
    BY <1>3 DEF LockFile, ScanWriteFails, Turns
  <2> QED
    BY <2>1
<1>4. ASSUME NEW t \in Lockers, RemoveFile(t) PROVE FilesKnown'
  <2>1. PICK k \in Keys : /\ lockFile' = [lockFile EXCEPT ![k] = Nobody]
                          /\ files' = [files EXCEPT ![t] = @ \ {k}]
    BY <1>4 DEF RemoveFile
  <2> QED
    BY <2>1
<1>5. CASE UNCHANGED lockVars
  BY <1>5 DEF lockVars
<1> QED
  BY <1>1, <1>2, <1>3, <1>4, <1>5 DEF LocksNext, LockStep

(* A chain stays as it should be when it stays as it is, and those in it   *)
(* still wait for its key.                                                 *)
LEMMA ChainKept ==
  ASSUME IInv, ChainsKnown, NEW p \in Processes, NEW k \in Keys,
         chain'[p][k] = chain[p][k],
         \A u \in Txs : ProcessOf[u] = p /\ Waits(u, k) => Waits(u, k)'
  PROVE  Known(chain[p][k], p, k)'
<1>1. chain[p][k] \in Seq(Txs)
  BY ChainTyped DEF IInv
<1>2. \A i \in 1..Len(chain[p][k]) : chain[p][k][i] \in Txs
  BY <1>1
<1> QED
  BY <1>2 DEF ChainsKnown, Known

(* Everybody in a chain waits for its key, and is there once.              *)
LEMMA ChainsStep ==
  ASSUME IInv, Accounts, [LocksNext]_lockVars PROVE ChainsKnown'
<1> SUFFICES ASSUME NEW p \in Processes, NEW k \in Keys
             PROVE  Known(chain[p][k], p, k)'
  BY DEF ChainsKnown
<1> DEFINE Same == \A u \in Txs : Waits(u, k) => Waits(u, k)'
<1> USE PathLocksAssumption
<1>0. chain[p][k] \in Seq(Txs)
  BY ChainTyped DEF IInv
<1>1. ASSUME NEW t \in Lockers, NEW ks \in Requests, Request(t, ks)
      PROVE  Known(chain[p][k], p, k)'
  <2>1. chain' = chain /\ Same
    BY <1>1 DEF Request, Waits, Turns, IInv, LocksTypeOK, Move, Accounts, Rested
  <2> QED
    BY <2>1, ChainKept DEF Accounts
<1>2. ASSUME NEW t \in Lockers, Enqueue(t) PROVE Known(chain[p][k], p, k)'
  <2>1. t \in Txs
    BY <1>2 DEF Enqueue, IInv, Chained
  <2>2. PICK j \in Turns(t) :
           chain' = [chain EXCEPT ![ProcessOf[t]][j] = Append(@, t)]
    BY <1>2 DEF Enqueue
  <2>3. j \in Keys /\ ProcessOf[t] \in Processes
    BY DEF Turns, IInv, LocksTypeOK
  <2>4. Same /\ Waits(t, j)' /\ ~Waits(t, j)
    BY <1>2 DEF Enqueue, Waits, Turns, IInv, LocksTypeOK, Move, Accounts, Linked, Lockers
  <2>5. CASE ~(p = ProcessOf[t] /\ k = j)
    <3>1. chain'[p][k] = chain[p][k]
      BY <2>2, <2>3, <2>5 DEF IInv, LocksTypeOK
    <3> QED
      BY <3>1, <2>4, ChainKept DEF Accounts
  <2>6. CASE p = ProcessOf[t] /\ k = j
    <3> DEFINE s == chain[p][k]
    <3>1. chain'[p][k] = Append(s, t)
      BY <2>2, <2>3, <2>6 DEF IInv, LocksTypeOK
    <3>2. /\ Len(Append(s, t)) = Len(s) + 1 /\ Len(s) \in Nat
          /\ \A i \in 1..Len(s) : Append(s, t)[i] = s[i] /\ s[i] \in Txs
          /\ Append(s, t)[Len(s) + 1] = t
      BY <1>0, <2>1, AppendProperties
    <3>3. Known(s, p, k)
      BY DEF Accounts, ChainsKnown
    <3>4. \A i \in 1..Len(s) : s[i] # t
      BY <3>3, <2>4, <2>6 DEF Known
    <3> HIDE DEF s
    <3>5. ASSUME NEW i \in 1..Len(s) + 1
          PROVE  (ProcessOf[chain[p][k][i]] = p /\ Waits(chain[p][k][i], k))'
      <4>1. PICK u \in Txs : u = Append(s, t)[i] /\ ProcessOf[u] = p
                              /\ (Waits(u, k) \/ Waits(u, k)')
        BY <3>2, <3>3, <2>1, <2>4, <2>6 DEF Known
      <4>2. u = chain'[p][k][i] /\ Waits(u, k)'
        BY <4>1, <3>1, <2>4
      <4> QED
        BY <4>1, <4>2 DEF Waits, Turns
    <3>6. \A i, h \in 1..Len(s) + 1 : Append(s, t)[i] = Append(s, t)[h] => i = h
      BY <3>2, <3>3, <3>4 DEF Known
    <3> QED
      BY <3>1, <3>2, <3>5, <3>6 DEF Known
  <2> QED
    BY <2>5, <2>6
<1>3. ASSUME NEW t \in Lockers, AwaitPrior(t) PROVE Known(chain[p][k], p, k)'
  <2>1. PICK j \in want[t] \ files[t] :
           /\ Chain(t, j) # <<>> /\ Head(Chain(t, j)) = t
           /\ links' = [links EXCEPT ![t] = @ \cup {j}]
    BY <1>3 DEF AwaitPrior
  <2>2. j \in Keys /\ ProcessOf[t] \in Processes
    BY DEF IInv, LocksTypeOK
  <2>3. chain[ProcessOf[t]][j] \in Seq(Txs)
    BY <2>2, ChainTyped DEF IInv
  <2>4. Waits(t, j)
    <3>1. 1 \in 1..Len(Chain(t, j)) /\ Chain(t, j)[1] = t
      BY <2>1, <2>3 DEF Chain
    <3> QED
      BY <3>1, <2>2 DEF Accounts, ChainsKnown, Known, Chain
  <2>5. j \in Turns(t)
    BY <1>3, <2>1, <2>4 DEF AwaitPrior, Waits, Accounts, Linked
  <2>6. chain' = chain
    BY <1>3 DEF AwaitPrior
  <2>7. Same
    <3>1. SUFFICES ASSUME NEW u \in Txs, Waits(u, k) PROVE Waits(u, k)'
      OBVIOUS
    <3>2. CASE u = t
      <4>1. k \in links[t] \/ k = j
        BY <3>1, <3>2, <2>5, OneTurn DEF Waits, IInv
      <4> QED
        BY <4>1, <3>2, <2>1 DEF Waits, IInv, LocksTypeOK
    <3>3. CASE u # t
      BY <1>3, <3>1, <3>3, <2>1
      DEF AwaitPrior, Waits, Turns, Move, IInv, LocksTypeOK, Lockers
    <3> QED
      BY <3>2, <3>3
  <2> QED
    BY <2>6, <2>7, ChainKept DEF Accounts
<1>4. ASSUME NEW t \in Lockers, LockFile(t) \/ RemoveFile(t) \/ ScanWriteFails(t)
      PROVE  Known(chain[p][k], p, k)'
  <2>1. chain' = chain /\ links' = links /\ want' = want /\ at[t] # "queued"
    BY <1>4 DEF LockFile, RemoveFile, ScanWriteFails
  <2>2. \A u \in Lockers : u # t => files'[u] = files[u] /\ at'[u] = at[u]
    BY <1>4 DEF LockFile, RemoveFile, ScanWriteFails, Move, IInv, LocksTypeOK
  <2>3. Same
    BY <2>1, <2>2 DEF Waits, Turns, Lockers
  <2> QED
    BY <2>1, <2>3, ChainKept DEF Accounts
<1>5. ASSUME NEW t \in Lockers,
             Finish(t) \/ Released(t) \/ Timeout(t) \/ ScanTimeout(t)
      PROVE  Known(chain[p][k], p, k)'
  <2>1. chain' = chain /\ links' = links /\ want' = want /\ files' = files
    BY <1>5 DEF Finish, Released, Timeout, ScanTimeout
  <2>2. at[t] # "queued" /\ \A u \in Lockers : u # t => at'[u] = at[u]
    BY <1>5 DEF Finish, Released, Timeout, ScanTimeout, Move, IInv, LocksTypeOK
  <2>3. Same
    BY <2>1, <2>2 DEF Waits, Turns, Lockers
  <2> QED
    BY <2>1, <2>3, ChainKept DEF Accounts
<1>6. ASSUME NEW t \in Lockers, ResolveNext(t) PROVE Known(chain[p][k], p, k)'
  <2>1. PICK j \in Latest(t) \ files[t] :
           /\ chain' = [chain EXCEPT ![ProcessOf[t]][j] = Tail(@)]
           /\ links' = [links EXCEPT ![t] = @ \ {j}]
    BY <1>6 DEF ResolveNext
  <2>2. j \in links[t] /\ j \in Keys /\ ProcessOf[t] \in Processes
    BY DEF Latest, IInv, LocksTypeOK
  <2>3. at' = at /\ want' = want /\ files' = files /\ at[t] = "unwind"
    BY <1>6 DEF ResolveNext
  <2>4. \A u \in Txs : u # t /\ Waits(u, k) => Waits(u, k)'
    BY <2>1, <2>3 DEF Waits, Turns, IInv, LocksTypeOK, Lockers
  <2>5. CASE p # ProcessOf[t]
    <3>1. chain'[p][k] = chain[p][k]
      BY <2>1, <2>2, <2>5 DEF IInv, LocksTypeOK
    <3> QED
      BY <3>1, <2>4, <2>5, ChainKept DEF Accounts
  <2>6. CASE k # j
    <3>1. chain'[p][k] = chain[p][k]
      BY <2>1, <2>2, <2>6 DEF IInv, LocksTypeOK
    <3>2. Same
      BY <2>1, <2>3, <2>4, <2>6 DEF Waits, IInv, LocksTypeOK
    <3> QED
      BY <3>1, <3>2, ChainKept DEF Accounts
  <2>7. CASE p = ProcessOf[t] /\ k = j
    <3> DEFINE s == chain[p][k]
    <3>1. chain'[p][k] = Tail(s)
      BY <2>1, <2>2, <2>7 DEF IInv, LocksTypeOK
    <3>2. s # <<>> /\ Head(s) = t
      BY <2>2, <2>7 DEF IInv, InTurn, Chain
    <3>3. /\ Len(s) \in Nat \ {0} /\ s[1] = t
          /\ Len(Tail(s)) = Len(s) - 1
          /\ \A i \in 1..Len(s) - 1 : Tail(s)[i] = s[i + 1] /\ s[i + 1] \in Txs
      BY <1>0, <3>2, HeadTailProperties
    <3>4. Known(s, p, k)
      BY DEF Accounts, ChainsKnown
    <3> HIDE DEF s
    <3>5. \A i \in 1..Len(s) - 1 : s[i + 1] # t
      BY <3>3, <3>4 DEF Known
    <3>6. ASSUME NEW i \in 1..Len(s) - 1
          PROVE  (ProcessOf[chain[p][k][i]] = p /\ Waits(chain[p][k][i], k))'
      <4>1. PICK u \in Txs : u = Tail(s)[i] /\ u # t /\ ProcessOf[u] = p /\ Waits(u, k)
        BY <3>3, <3>4, <3>5 DEF Known
      <4>2. u = chain'[p][k][i] /\ Waits(u, k)'
        BY <4>1, <3>1, <2>4
      <4> QED
        BY <4>1, <4>2 DEF Waits, Turns
    <3>7. \A i, h \in 1..Len(s) - 1 : Tail(s)[i] = Tail(s)[h] => i = h
      BY <3>3, <3>4 DEF Known
    <3> QED
      BY <3>1, <3>3, <3>6, <3>7 DEF Known
  <2> QED
    BY <2>5, <2>6, <2>7
<1>7. CASE UNCHANGED lockVars
  <2>1. chain' = chain /\ Same
    BY <1>7 DEF lockVars, Waits, Turns
  <2> QED
    BY <2>1, ChainKept DEF Accounts
<1> QED
  BY <1>1, <1>2, <1>3, <1>4, <1>5, <1>6, <1>7 DEF LocksNext, LockStep

(* When everybody is at rest every promise is resolved and every lock file *)
(* is gone, whichever transaction timed out, failed or gave up on the way: *)
(* what is left belongs to a recovery scan that threw.                     *)
THEOREM NothingIsLeft == LocksSpec => []NothingLeft
<1>1. IInv /\ Accounts => NothingLeft
  <2> SUFFICES ASSUME IInv, Accounts,
                      \A t \in Lockers : at[t] \in {"idle", "end", "threw"}
               PROVE  /\ \A k \in Keys : lockFile[k] # Nobody
                                            => at[lockFile[k]] = "threw"
                      /\ \A p \in Processes, k \in Keys : chain[p][k] = <<>>
    BY DEF NothingLeft
  <2>1. ASSUME NEW k \in Keys, lockFile[k] # Nobody PROVE at[lockFile[k]] = "threw"
    <3>1. lockFile[k] \in Lockers /\ k \in files[lockFile[k]]
      BY <2>1 DEF IInv, LocksTypeOK, Accounts, FilesKnown
    <3> QED
      BY <3>1 DEF Accounts, Rested
  <2>2. ASSUME NEW p \in Processes, NEW k \in Keys PROVE chain[p][k] = <<>>
    <3>1. SUFFICES ASSUME chain[p][k] # <<>> PROVE FALSE
      OBVIOUS
    <3>2. chain[p][k] \in Seq(Txs)
      BY ChainTyped DEF IInv
    <3>3. 1 \in 1..Len(chain[p][k]) /\ chain[p][k][1] \in Txs
      BY <3>1, <3>2
    <3>4. Waits(chain[p][k][1], k)
      BY <3>3 DEF Accounts, ChainsKnown, Known
    <3>5. chain[p][k][1] \notin Scans
      BY <3>3, PathLocksAssumption
    <3>6. at[chain[p][k][1]] = "threw"
      BY <3>3, <3>4 DEF Waits, Accounts, Rested, Lockers
    <3> QED
      BY <3>3, <3>5, <3>6 DEF IInv, Threw, Lockers
  <2> QED
    BY <2>1, <2>2
<1>2. IInv /\ Accounts /\ [LocksNext]_lockVars => Accounts'
  BY FilesStep, ListsStep, ChainsStep DEF Accounts
<1> QED
  BY <1>1, <1>2, InitAccounts, Always, PTL DEF LocksSpec
=============================================================================
