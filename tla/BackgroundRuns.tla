---------------------------- MODULE BackgroundRuns ----------------------------
(***************************************************************************)
(* Verification commands that go on after an edit has been answered        *)
(* (verification/background-runner.ts).  The process ends, cannot be       *)
(* started, is cancelled or runs out of time: each of these tries to settle*)
(* the run, in any order.                                                  *)
(***************************************************************************)
EXTENDS Integers, FiniteSets

CONSTANTS
  RunIds,         \* the runs scheduled
  MaxConcurrent

VARIABLES
  runs,      \* keys of BackgroundRunRegistry.runs
  active,    \* activeCount
  process,   \* per run: "none", "alive", "killed" (signalled), "closing", "gone"
  timer,     \* runs whose timeout has yet to fire
  completed, \* completedRuns: set of [id, status]
  settled    \* per run, the outcomes its promise was resolved with

bvars == <<runs, active, process, timer, completed, settled>>

RunsInit ==
  /\ runs = {} /\ active = 0 /\ timer = {} /\ completed = {}
  /\ process = [r \in RunIds |-> "none"]
  /\ settled = [r \in RunIds |-> {}]

(* schedule: refused when all slots are taken. *)
Schedule(r) ==
  /\ process[r] = "none" /\ active < MaxConcurrent
  /\ process' = [process EXCEPT ![r] = "alive"]
  /\ runs' = runs \cup {r} /\ active' = active + 1 /\ timer' = timer \cup {r}
  /\ UNCHANGED <<completed, settled>>

BugFinalize(r, status) ==
  /\ timer' = timer \ {r}
  /\ runs' = runs \ {r} /\ active' = active - 1
  /\ completed' = completed \cup {[id |-> r, status |-> status]}
  /\ settled' = [settled EXCEPT ![r] = @ \cup {status}]

(* finalize: only the first has any effect. *)
Finalize(r, status) ==
  IF r \notin runs THEN UNCHANGED <<runs, active, timer, completed, settled>>
  ELSE /\ timer' = timer \ {r}
       /\ runs' = runs \ {r} /\ active' = active - 1
       /\ completed' = completed \cup {[id |-> r, status |-> status]}
       /\ settled' = [settled EXCEPT ![r] = @ \cup {status}]

(* The process ends by itself, or of the signal; "close" comes later. *)
Exit(r) ==
  /\ process[r] \in {"alive", "killed"}
  /\ process' = [process EXCEPT ![r] = "closing"]
  /\ UNCHANGED <<runs, active, timer, completed, settled>>

OnClose(r) ==
  /\ process[r] = "closing"
  /\ process' = [process EXCEPT ![r] = "gone"]
  /\ \E status \in {"passed", "failed"} : Finalize(r, status)

(* "error": it could not be started. *)
OnError(r) ==
  /\ process[r] = "alive"
  /\ process' = [process EXCEPT ![r] = "gone"]
  /\ Finalize(r, "failed")

Signalled(r) == IF process[r] = "alive" THEN [process EXCEPT ![r] = "killed"] ELSE process

(* The timer: SIGKILL, and settled without waiting for the process. *)
OnTimeout(r) ==
  /\ r \in timer
  /\ process' = Signalled(r)
  /\ Finalize(r, "timeout")

CancelRun(r) ==
  /\ r \in runs
  /\ process' = Signalled(r)
  /\ Finalize(r, "failed")

EvictRun(r) ==
  /\ \E x \in completed : x.id = r /\ completed' = completed \ {x}
  /\ UNCHANGED <<runs, active, process, timer, settled>>

RunsNext ==
  \E r \in RunIds : \/ Schedule(r) \/ Exit(r) \/ OnClose(r) \/ OnError(r)
                    \/ OnTimeout(r) \/ CancelRun(r) \/ EvictRun(r)

RunsSpec == RunsInit /\ [][RunsNext]_bvars

-----------------------------------------------------------------------------

(* A slot is given back once for each run that took one, however many of   *)
(* close, error, timeout and cancel fire for it: the count stays that of   *)
(* the runs; a process left without a slot has ended or was sent SIGKILL,  *)
(* so no more than MaxConcurrent commands go on unwatched; and a run that  *)
(* was answered is never answered differently.                             *)
SlotsAreHonest ==
  /\ active = Cardinality(runs)
  /\ \A r \in RunIds : process[r] = "alive" => r \in runs
  /\ \A r \in RunIds : Cardinality(settled[r]) <= 1

=============================================================================
