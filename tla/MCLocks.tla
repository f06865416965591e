------------------------------- MODULE MCLocks ------------------------------
(***************************************************************************)
(* Model-checking instance of the locks: one lock file among processes     *)
(* that are killed (FileLock), and the locks of several paths (PathLocks). *)
(* The two share no state; a behaviour is one of the one or of the other.  *)
(***************************************************************************)
EXTENDS FileLock, PathLocks, TLC

CONSTANTS Parts,  \* which of the two are checked
          t1, t2, t3, s1, p1, p2, p3

VARIABLE part

(* Two transactions in one process, one in another beside a recovery scan. *)
MCProcessOf == t1 :> p1 @@ t2 :> p1 @@ t3 :> p2 @@ s1 :> p2

(* Two that overlap, in the paths taken first and last.                    *)
MCRequests == {{1, 2}, {2}}

MCSymmetry == Permutations(Procs)

allVars == <<part, vars, lockVars>>

(* A step of one of them leaves the other alone.                           *)
OfFile(A) == part = "file" /\ A /\ UNCHANGED <<part, lockVars>>
OfPaths(A) == part = "paths" /\ A /\ UNCHANGED <<part, vars>>

MCInit == part \in Parts /\ Init /\ LocksInit
MCNext == OfFile(Next) \/ OfPaths(LocksNext)

MCSpec == MCInit /\ [][MCNext]_allVars

(* The fairness of FileLock and of PathLocks.                              *)
MCFairSpec ==
    /\ MCSpec
    /\ \A p \in Procs : /\ WF_allVars(OfFile(Step(p)))
                        /\ WF_allVars(OfFile(Expire(p)))
    /\ \A t \in Lockers : WF_allVars(OfPaths(LockStep(t)))
=============================================================================
