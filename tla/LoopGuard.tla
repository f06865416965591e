------------------------------ MODULE LoopGuard ------------------------------
(***************************************************************************)
(* The guard against an agent that repeats a request which changes nothing *)
(* (extension/mutation-loop-guard.ts), around the edit tool, the transfer  *)
(* tool and staged refactorings (register-edit.ts, register-transfer.ts,   *)
(* register-workspace-edit-rpc.ts).  The guard is asked before a request   *)
(* runs and told of its result after: requests may overlap in between.     *)
(***************************************************************************)
EXTENDS Integers, Sequences, FiniteSets, SequencesExt, FiniteSetsExt

CONSTANTS
  Fingerprints,         \* fingerprints of requests
  Runners,          \* requests that can be under way together
  BlockAfterNoops, MaxFingerprints

ASSUME GuardAssumption ==
  /\ IsFiniteSet(Runners) /\ "none" \notin Fingerprints
  /\ BlockAfterNoops \in Nat \ {0} /\ MaxFingerprints \in Nat

VARIABLES
  noops,    \* the map in insertion order: sequence of [req, count]
  running,  \* per runner, its request, or "none"
  row,      \* ghost: times a request ran for nothing since a change
  forgotten \* ghost: requests evicted since a change

gvars == <<noops, running, row, forgotten>>

GuardInit ==
  /\ noops = <<>>
  /\ running = [g \in Runners |-> "none"]
  /\ row = [r \in Fingerprints |-> 0]
  /\ forgotten = {}

Places(s, r) == {i \in DOMAIN s : s[i].req = r}

(* noops.get(key) ?? 0 *)
CountIn(s, r) ==
  LET S == Places(s, r) IN IF S = {} THEN 0 ELSE s[CHOOSE i \in S : TRUE].count
Counted(r) == CountIn(noops, r)

(* noops.delete(key) *)
Others(r) ==
  LET S == Places(noops, r) IN IF S = {} THEN noops ELSE RemoveAt(noops, CHOOSE i \in S : TRUE)

MostFutile == BlockAfterNoops + Cardinality(Runners) - 1

(* preflight: a request counted twice is refused before it runs. *)
Enter(g) ==
  /\ running[g] = "none"
  /\ \E r \in Fingerprints :
       /\ Counted(r) < BlockAfterNoops
       /\ running' = [running EXCEPT ![g] = r]
  /\ UNCHANGED <<noops, row, forgotten>>

BugObserved(r) ==
  IF Counted(r) = 0 THEN Append(noops, [req |-> r, count |-> 1]) ELSE noops

(* observe, isNoopResult: counted anew as the newest entry; the oldest go  *)
(* when there are too many.                                                *)
Observed(r) == Append(Others(r), [req |-> r, count |-> Counted(r) + 1])

Evicted(s) == SubSeq(s, 1 + Max({0, Len(s) - MaxFingerprints}), Len(s))

LeaveNoop(g) ==
  /\ running[g] # "none"
  /\ LET r == running[g] IN
     /\ noops' = Evicted(Observed(r))
     /\ row' = [row EXCEPT ![r] = Min({@ + 1, MostFutile + 1})]
     /\ forgotten' = forgotten \cup ({e.req : e \in ToSet(Observed(r))} \ {e.req : e \in ToSet(noops')})
  /\ running' = [running EXCEPT ![g] = "none"]

(* observe: an applied change forgets them all; a rejection counts for     *)
(* nothing.                                                                *)
LeaveApplied(g) ==
  /\ running[g] # "none"
  /\ noops' = <<>> /\ forgotten' = {}
  /\ row' = [r \in Fingerprints |-> 0]
  /\ running' = [running EXCEPT ![g] = "none"]

LeaveRejected(g) ==
  /\ running[g] # "none"
  /\ running' = [running EXCEPT ![g] = "none"]
  /\ UNCHANGED <<noops, row, forgotten>>

(* MutationLoopGuard.reset, at the start and the end of a session. *)
ResetGuard ==
  /\ noops # <<>>
  /\ noops' = <<>> /\ forgotten' = {}
  /\ row' = [r \in Fingerprints |-> 0]
  /\ UNCHANGED running

GuardNext ==
  \/ ResetGuard
  \/ \E g \in Runners : Enter(g) \/ LeaveNoop(g) \/ LeaveApplied(g) \/ LeaveRejected(g)

GuardSpec == GuardInit /\ [][GuardNext]_gvars

-----------------------------------------------------------------------------

(* The agent cannot go on asking for nothing: between two changes that     *)
(* took place, a request runs for nothing at most twice, plus once for     *)
(* each other request that was already past the guard, unless the guard    *)
(* had to forget it for want of room.                                      *)
NoEndlessNoop == \A r \in Fingerprints \ forgotten : row[r] <= MostFutile

=============================================================================
