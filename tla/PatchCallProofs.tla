--------------------------- MODULE PatchCallProofs ---------------------------
(***************************************************************************)
(* Whatever a call of the edit tool has changed when it ends is reported:  *)
(* for any request, any files and links, any evidence and any number of    *)
(* writes by other programs.                                               *)
(***************************************************************************)
EXTENDS PatchCall, TLAPS

(* What is assumed: the tree is one of the paths, and one filesystem call  *)
(* fails at most.                                                          *)
OneFault == DOMAIN Tree = CallPaths /\ MaxCallFaults \in Nat /\ MaxCallFaults <= 1

CallFields == {"stage", "scene", "groups", "at", "created", "envelope", "snap", "base", "plan", "muts", "result"}

Formed ==
  /\ DOMAIN patch = CallFields
  /\ DOMAIN spent = {"foreign", "faults"} /\ spent.faults \in Nat /\ spent.foreign \in Nat
  /\ DOMAIN files = CallPaths /\ DOMAIN lastBy = CallPaths

Working == patch.stage \notin {"undo", "end"}

(* A call decides what it returns when it ends or begins to roll back.     *)
Undecided == (Working => patch.result = "none") /\ (patch.stage = "undo" => patch.result # "applied")

(* What the call changed last it knows that it changed,                    *)
Known == patch.stage # "end" => \A p \in CallPaths : lastBy[p] = "call" => p \in patch.muts

(* and has reported; while it rolls back, the report may lack the new name *)
(* of a file that could not be removed under its old one.                  *)
ReportOf(p) == \E r \in changedResources : r.path = p
Reported ==
  /\ patch.stage # "end" => (\A p \in patch.muts : ReportOf(p)) \/ (patch.stage = "undo" /\ spent.faults >= 1)
  /\ patch.stage \in {"verify", "rename"} => ReportOf(TargetPath)

(* The report says what the file holds, except that it is ahead of a       *)
(* rename that has still to be done.                                       *)
Renaming(p) == patch.stage \in {"verify", "rename"} /\ G.topology.op = "rename" /\ p = TargetPath
Truthful ==
  Working /\ spent.foreign = 0 =>
    \A p \in CallPaths : lastBy[p] = "call" =>
      Renaming(p) \/ \E r \in changedResources : r.path = p /\ r.new = files[p]

(* A file about to be renamed holds what was planned, and was reported as  *)
(* removed.                                                                *)
Departing ==
  /\ patch.stage = "rename" => G.topology.op = "rename" /\ (spent.foreign = 0 => files[TargetPath] = patch.plan)
  /\ patch.stage \in {"verify", "rename"} /\ G.topology.op = "rename" =>
       \E r \in changedResources : r.path = TargetPath /\ r.new = NoFile

CallInv == Formed /\ Undecided /\ Known /\ Reported /\ Truthful /\ Departing /\ ChangesAreReported

-----------------------------------------------------------------------------
(* At the start nothing has been changed.                                  *)
LEMMA InitCallInv == OneFault /\ CallInit => CallInv
<1> SUFFICES ASSUME OneFault, CallInit PROVE CallInv
  OBVIOUS
<1>1. Formed
  BY DEF OneFault, CallInit, Formed, CallFields
<1>2. patch.stage = "idle" /\ patch.result = "none" /\ patch.muts = {}
  BY DEF CallInit
<1>3. \A p \in CallPaths : lastBy[p] = "nobody"
  BY DEF CallInit
<1> QED
  BY <1>1, <1>2, <1>3 DEF CallInv, Undecided, Working, Known, Reported, Truthful, Departing, ChangesAreReported

(* Most steps change neither files nor reports: they move the call on, to  *)
(* its next stage, to the next group or to its rollback.                   *)
Quiet == UNCHANGED <<files, changedResources, lastBy>> /\ spent'.foreign = spent.foreign

LEMMA Moving ==
  ASSUME CallInv, Quiet, DOMAIN spent' = {"foreign", "faults"}, spent'.faults \in Nat, spent.faults <= spent'.faults,
         DOMAIN patch' = CallFields, patch'.muts = patch.muts,
         patch.stage # "end", patch'.stage # "end",
         patch'.stage \notin {"verify", "rename"},
         patch'.stage # "undo" => Working /\ patch'.result = patch.result,
         patch'.stage = "undo" => patch'.result # "applied",
         Working => patch.stage \notin {"verify", "rename"} \/ patch'.stage = "undo" \/ G.topology.op # "rename"
  PROVE  CallInv'
<1>1. Formed'
  BY DEF CallInv, Formed, Quiet
<1>2. Undecided'
  BY DEF CallInv, Undecided, Working
<1>3. Known'
  BY DEF CallInv, Known, Quiet
<1>4. Reported'
  BY DEF CallInv, Formed, Reported, ReportOf, Quiet, Working
<1>5. Truthful'
  <2> SUFFICES ASSUME Working', spent'.foreign = 0, NEW p \in CallPaths, lastBy'[p] = "call"
               PROVE  \E r \in changedResources' : r.path = p /\ r.new = files'[p]
    BY DEF Truthful
  <2>1. Working /\ ~Renaming(p)
    BY DEF Working, Renaming
  <2> QED
    BY <2>1 DEF CallInv, Truthful, Quiet
<1>6. Departing'
  BY DEF CallInv, Departing, Quiet
<1>7. ChangesAreReported'
  BY DEF ChangesAreReported
<1> QED
  BY <1>1, <1>2, <1>3, <1>4, <1>5, <1>6, <1>7 DEF CallInv

(* A call that ends without a rollback ends with what it has reported.     *)
LEMMA Ending ==
  ASSUME CallInv, Working, patch.stage \notin {"verify", "rename"}, UNCHANGED <<files, changedResources, lastBy, spent>>,
         DOMAIN patch' = CallFields, patch'.stage = "end"
  PROVE  CallInv'
<1>1. Formed' /\ Undecided' /\ Known' /\ Reported' /\ Truthful' /\ Departing'
  BY DEF CallInv, Formed, Undecided, Known, Reported, Truthful, Departing, Working
<1>2. ChangesAreReported'
  <2> SUFFICES ASSUME NEW p \in CallPaths, lastBy[p] = "call"
               PROVE  \E r \in changedResources : r.path = p /\ (spent.foreign = 0 => r.new = files[p])
    BY DEF ChangesAreReported
  <2>1. ~Renaming(p)
    BY DEF Renaming
  <2>2. ReportOf(p)
    BY DEF CallInv, Known, Reported, Working
  <2>3. spent.foreign = 0 => \E r \in changedResources : r.path = p /\ r.new = files[p]
    BY <2>1 DEF CallInv, Truthful
  <2> QED
    BY <2>2, <2>3 DEF ReportOf
<1> QED
  BY <1>1, <1>2 DEF CallInv

(* The steps before the groups.                                            *)
LEMMA PrepareStep ==
  ASSUME CallInv, NEW scene \in Scenes, PrepareCall(scene)
  PROVE  CallInv'
<1>1. PICK gs, created, envelope, stage :
        /\ stage \in {"begin", "ask", "end"} /\ patch.stage = "idle" /\ Alone
        /\ patch' = [patch EXCEPT !.scene = scene, !.groups = gs, !.created = created, !.envelope = envelope,
                                !.stage = stage, !.result = IF stage = "end" THEN "refused" ELSE "none"]
  <2> DEFINE made == Prepared(scene.intents)
             gs == made.groups
             needing == NeedEvidence(scene, gs)
             created == {p \in {gs[i].path : i \in DOMAIN gs} : ~Exists(p)}
             envelope == IF scene.byRef THEN MadeUp({}) ELSE MadeUp(needing)
             stage == IF made.conflict \/ gs = <<>> THEN "end"
                      ELSE IF needing = {} THEN "begin"
                      ELSE IF scene.byRef THEN "ask"
                      ELSE IF OnlyCreates(gs, needing) THEN "begin" ELSE "end"
  <2>1. /\ patch.stage = "idle" /\ Alone
        /\ patch' = [patch EXCEPT !.scene = scene, !.groups = gs, !.created = created, !.envelope = envelope,
                                !.stage = stage, !.result = IF stage = "end" THEN "refused" ELSE "none"]
    BY DEF PrepareCall
  <2>2. stage \in {"begin", "ask", "end"}
    OBVIOUS
  <2> HIDE DEF gs, created, envelope, stage, needing, made
  <2> QED
    BY <2>1, <2>2, Zenon
<1>2. DOMAIN patch' = CallFields /\ patch'.stage = stage /\ patch'.muts = patch.muts
      /\ patch'.result = (IF stage = "end" THEN "refused" ELSE "none")
  BY <1>1 DEF CallInv, Formed, CallFields
<1>3. CASE stage = "end"
  BY <1>1, <1>2, <1>3, Ending DEF Alone, Working
<1>4. CASE stage # "end"
  BY <1>1, <1>2, <1>4, Moving DEF Alone, Working, Quiet, CallInv, Formed, Undecided
<1> QED
  BY <1>3, <1>4

(* Most steps look at the files, and at most a filesystem call fails.      *)
Looks ==
  \/ Answered \/ BeginCall \/ SkipPlaceholder \/ Refuse \/ PlanGroup
  \/ DeleteFails \/ Check \/ CheckFails \/ WriteFails \/ VerifyFails \/ LinkFails \/ CommitFails

LEMMA LookingSteps ==
  ASSUME CallInv, Looks
  PROVE  CallInv'
<1>1. UNCHANGED <<files, changedResources, lastBy>> /\ (UNCHANGED spent \/ CallFault)
  BY DEF Looks, Answered, BeginCall, SkipPlaceholder, Refuse, PlanGroup, DeleteFails, Check, CheckFails, WriteFails, VerifyFails,
         LinkFails, CommitFails, Alone
<1>4. Quiet /\ DOMAIN spent' = {"foreign", "faults"} /\ spent'.faults \in Nat /\ spent.faults <= spent'.faults
  BY <1>1 DEF Quiet, CallFault, CallInv, Formed
<1>2. /\ DOMAIN patch' = CallFields /\ patch'.muts = patch.muts
      /\ Working
      /\ patch.stage # "verify" \/ patch'.stage = "undo"
      /\ patch.stage # "rename" \/ patch'.stage = "undo"
      /\ patch'.stage \notin {"end", "verify", "rename"}
      /\ patch'.stage # "undo" => patch'.result = patch.result
      /\ patch'.stage = "undo" => patch'.result # "applied"
  BY DEF Looks, Answered, BeginCall, SkipPlaceholder, Refuse, PlanGroup, DeleteFails, Check, CheckFails, WriteFails, VerifyFails,
         LinkFails, CommitFails, Undo, ToStage, NextGroup, InLoop, Writes, AllDone, CallInv, Formed, CallFields, Working
<1>3. patch.stage # "end"
  BY DEF Looks, Answered, BeginCall, SkipPlaceholder, Refuse, PlanGroup, DeleteFails, Check, CheckFails, WriteFails, VerifyFails,
         LinkFails, CommitFails, InLoop, Writes, AllDone
<1> QED
  BY <1>1, <1>2, <1>3, <1>4, Moving DEF Working

(* The steps that change a file or what is reported of it.                 *)
LEMMA DeleteStep ==
  ASSUME CallInv, DeleteTarget
  PROVE  CallInv'
<1> USE DEF DeleteTarget, NextGroup, Mutated, ByCall
<1>1. /\ DOMAIN patch' = CallFields /\ patch'.stage = "group" /\ patch'.result = patch.result
      /\ patch'.muts = patch.muts \cup {TargetPath} /\ spent' = spent
      /\ patch.stage = "remove"
  BY DEF CallInv, Formed, CallFields
<1>2. Formed' /\ Undecided' /\ Departing'
  BY <1>1 DEF CallInv, Formed, Undecided, Working, Departing
<1>6. PICK new \in changedResources' : new.path = TargetPath /\ new.new = NoFile
  <2>1. Report(TargetPath, patch.base, NoFile) \in changedResources'
    OBVIOUS
  <2> QED
    BY <2>1 DEF Report
<1>3. Known' /\ Reported'
  <2>1. \A p \in patch.muts : ReportOf(p)
    BY <1>1 DEF CallInv, Reported
  <2>2. \A p \in patch'.muts : ReportOf(p)'
    BY <1>1, <1>6, <2>1 DEF ReportOf
  <2> QED
    BY <1>1, <2>2 DEF CallInv, Known, Reported
<1>4. Truthful'
  <2> SUFFICES ASSUME spent.foreign = 0, NEW p \in CallPaths, lastBy'[p] = "call"
               PROVE  \E r \in changedResources' : r.path = p /\ r.new = files'[p]
    BY <1>1 DEF Truthful
  <2>1. CASE p = TargetPath
    BY <1>6, <2>1 DEF CallInv, Formed
  <2>2. CASE p # TargetPath
    BY <1>1, <2>2 DEF CallInv, Truthful, Working, Renaming
  <2> QED
    BY <2>1, <2>2
<1>5. ChangesAreReported'
  BY <1>1 DEF ChangesAreReported
<1> QED
  BY <1>2, <1>3, <1>4, <1>5 DEF CallInv

(* The place of a call in its groups says which file it is at.             *)
LEMMA SamePlace ==
  ASSUME patch'.groups = patch.groups, patch'.at = patch.at, patch'.created = patch.created
  PROVE  G' = G /\ TargetPath' = TargetPath
  BY DEF G, TargetPath, New, Real

LEMMA WriteStep ==
  ASSUME CallInv, WriteGroup \/ SkipWrite
  PROVE  CallInv'
<1>1. /\ DOMAIN patch' = CallFields /\ patch'.stage = "verify" /\ patch'.result = patch.result
      /\ patch'.groups = patch.groups /\ patch'.at = patch.at /\ patch'.created = patch.created
      /\ patch'.plan = patch.plan
      /\ spent' = spent /\ patch.stage = "write" /\ changedResources' = changedResources \cup Pending
      /\ patch.muts \subseteq patch'.muts
  <2>1. CASE WriteGroup
    BY <2>1 DEF WriteGroup, Writes, Mutated, CallInv, Formed, CallFields
  <2>2. CASE SkipWrite
    BY <2>2 DEF SkipWrite, ToStage, CallInv, Formed, CallFields
  <2> QED
    BY <2>1, <2>2
<1>2. G' = G /\ TargetPath' = TargetPath
  BY <1>1, SamePlace
<1>3. \E r \in changedResources' : /\ r.path = TargetPath
                                   /\ r.new = IF G.topology.op = "rename" THEN NoFile ELSE patch.plan
  <2> DEFINE rep == Report(TargetPath, patch.base, IF G.topology.op = "rename" THEN NoFile ELSE patch.plan)
  <2>1. rep \in changedResources'
    BY <1>1 DEF Pending
  <2>2. rep.path = TargetPath /\ rep.new = IF G.topology.op = "rename" THEN NoFile ELSE patch.plan
    BY DEF Report
  <2> HIDE DEF rep
  <2> QED
    BY <2>1, <2>2
<1>4. Formed' /\ Undecided'
  BY <1>1 DEF CallInv, Formed, Undecided, Working, WriteGroup, SkipWrite, ByCall
<1>5. /\ patch'.muts \subseteq patch.muts \cup {TargetPath}
      /\ \A p \in CallPaths : p # TargetPath => files'[p] = files[p] /\ lastBy'[p] = lastBy[p]
      /\ \/ lastBy' = lastBy /\ files' = files
         \/ TargetPath \in patch'.muts /\ (TargetPath \in CallPaths => files'[TargetPath] = patch.plan)
  <2>1. CASE SkipWrite
    BY <2>1 DEF SkipWrite, ToStage, CallInv, Formed, CallFields
  <2>2. CASE WriteGroup
    <3>1. patch'.muts = patch.muts \cup {TargetPath}
      BY <2>2 DEF WriteGroup, Mutated, CallInv, Formed, CallFields
    <3>2. /\ files' = [files EXCEPT ![TargetPath] = patch.plan]
          /\ \A p \in CallPaths : p # TargetPath => lastBy'[p] = lastBy[p]
      BY <2>2 DEF WriteGroup, ByCall
    <3> QED
      BY <3>1, <3>2 DEF CallInv, Formed
  <2> QED
    BY <2>1, <2>2
<1>6. Known'
  BY <1>1, <1>5 DEF CallInv, Known
<1>7. Reported' /\ Departing'
  BY <1>1, <1>2, <1>3, <1>5 DEF CallInv, Reported, ReportOf, Departing
<1>8. Truthful'
  <2> SUFFICES ASSUME spent.foreign = 0, NEW p \in CallPaths, lastBy'[p] = "call", ~(G.topology.op = "rename" /\ p = TargetPath)
               PROVE  \E r \in changedResources' : r.path = p /\ r.new = files'[p]
    BY <1>1, <1>2 DEF Truthful, Renaming
  <2>1. CASE p = TargetPath /\ files'[TargetPath] = patch.plan
    BY <1>3, <2>1
  <2>2. CASE p # TargetPath \/ (lastBy' = lastBy /\ files' = files)
    <3>1. lastBy[p] = "call" /\ files'[p] = files[p]
      BY <1>5, <2>2
    <3>2. \E r \in changedResources : r.path = p /\ r.new = files[p]
      BY <1>1, <3>1 DEF CallInv, Truthful, Working, Renaming
    <3> QED
      BY <1>1, <3>1, <3>2
  <2>3. CASE p = TargetPath /\ ~(lastBy' = lastBy /\ files' = files)
    <3>1. files'[TargetPath] = patch.plan
      BY <1>5, <2>3
    <3> QED
      BY <2>1, <2>3, <3>1
  <2> QED
    BY <2>2, <2>3
<1>9. ChangesAreReported'
  BY <1>1 DEF ChangesAreReported
<1> QED
  BY <1>4, <1>6, <1>7, <1>8, <1>9 DEF CallInv

LEMMA VerifyStep ==
  ASSUME CallInv, VerifyGroup
  PROVE  CallInv'
<1>1. CASE G.topology.op # "rename"
  <2>1. /\ DOMAIN patch' = CallFields /\ patch'.stage = "group" /\ patch'.result = patch.result
        /\ patch'.muts = patch.muts /\ patch.stage = "verify"
        /\ UNCHANGED <<files, changedResources, lastBy, spent>>
    BY <1>1 DEF VerifyGroup, NextGroup, Alone, CallInv, Formed, CallFields
  <2> QED
    BY <1>1, <2>1, Moving DEF Quiet, CallInv, Formed, Working
<1>2. CASE G.topology.op = "rename"
  <2>1. /\ DOMAIN patch' = CallFields /\ patch'.stage = "rename" /\ patch'.result = patch.result
        /\ patch'.groups = patch.groups /\ patch'.at = patch.at /\ patch'.created = patch.created
        /\ patch'.plan = patch.plan /\ patch'.muts = patch.muts /\ patch.stage = "verify"
        /\ files[TargetPath] = patch.plan
        /\ UNCHANGED <<files, changedResources, lastBy, spent>>
    BY <1>2 DEF VerifyGroup, ToStage, Alone, CallInv, Formed, CallFields
  <2>2. G' = G /\ TargetPath' = TargetPath
    BY <2>1, SamePlace
  <2>3. Formed' /\ Undecided' /\ Known' /\ Reported'
    BY <2>1, <2>2 DEF CallInv, Formed, Undecided, Working, Known, Reported, ReportOf
  <2>4. Truthful'
    BY <2>1, <2>2 DEF CallInv, Truthful, Working, Renaming
  <2>5. Departing' /\ ChangesAreReported'
    BY <1>2, <2>1, <2>2 DEF CallInv, Departing, ChangesAreReported
  <2> QED
    BY <2>3, <2>4, <2>5 DEF CallInv
<1> QED
  BY <1>1, <1>2

LEMMA RenameStep ==
  ASSUME CallInv, Rename
  PROVE  CallInv'
<1>1. /\ DOMAIN patch' = CallFields /\ patch'.stage = "group" /\ patch'.result = patch.result
      /\ patch'.muts = patch.muts \cup {TargetPath, Destination} /\ spent' = spent
      /\ patch.stage = "rename"
  BY DEF Rename, NextGroup, Linked, Mutated, CallInv, Formed, CallFields
<1>2. Formed' /\ Undecided' /\ Departing' /\ ChangesAreReported'
  BY <1>1 DEF CallInv, Formed, Undecided, Working, Departing, ChangesAreReported, Rename, ByCall
<1>3. PICK new \in changedResources' : new.path = Destination /\ new.new = patch.plan
  <2>1. Report(Destination, patch.base, patch.plan) \in changedResources'
    BY DEF Rename
  <2> QED
    BY <2>1 DEF Report
<1>4. changedResources \subseteq changedResources'
  BY DEF Rename
<1>5. PICK old \in changedResources' : old.path = TargetPath /\ old.new = NoFile
  BY <1>1, <1>4 DEF CallInv, Departing
<1>6. \A p \in CallPaths : /\ p = TargetPath => files'[p] = NoFile
                           /\ p = Destination /\ p # TargetPath => files'[p] = files[TargetPath]
                           /\ p \notin {TargetPath, Destination} => files'[p] = files[p] /\ lastBy'[p] = lastBy[p]
  BY DEF Rename, ByCall, CallInv, Formed
<1>7. Known'
  BY <1>1, <1>6 DEF CallInv, Known
<1>8. Reported'
  <2>1. \A p \in patch.muts : ReportOf(p)
    BY <1>1 DEF CallInv, Reported
  <2>2. \A p \in patch'.muts : ReportOf(p)'
    BY <1>1, <1>3, <1>4, <1>5, <2>1 DEF ReportOf
  <2> QED
    BY <1>1, <2>2 DEF Reported
<1>9. Truthful'
  <2> SUFFICES ASSUME spent.foreign = 0, NEW p \in CallPaths, lastBy'[p] = "call"
               PROVE  \E r \in changedResources' : r.path = p /\ r.new = files'[p]
    BY <1>1 DEF Truthful
  <2>1. CASE p = TargetPath
    BY <1>5, <1>6, <2>1
  <2>2. CASE p = Destination /\ p # TargetPath
    <3>1. files[TargetPath] = patch.plan
      BY <1>1 DEF CallInv, Departing
    <3> QED
      BY <1>3, <1>6, <2>2, <3>1
  <2>3. CASE p \notin {TargetPath, Destination}
    <3>1. lastBy[p] = "call" /\ files'[p] = files[p]
      BY <1>6, <2>3
    <3>2. \E r \in changedResources : r.path = p /\ r.new = files[p]
      BY <1>1, <2>3, <3>1 DEF CallInv, Truthful, Working, Renaming
    <3> QED
      BY <1>4, <3>1, <3>2
  <2> QED
    BY <2>1, <2>2, <2>3
<1> QED
  BY <1>2, <1>7, <1>8, <1>9 DEF CallInv

(* The new name of a file that cannot be removed under its old one is not  *)
(* reported, and that was the one call that fails.                         *)
LEMMA UnlinkFailsStep ==
  ASSUME CallInv, UnlinkFails
  PROVE  CallInv'
<1>1. /\ DOMAIN patch' = CallFields /\ patch'.stage = "undo" /\ patch'.result = "failed"
      /\ patch'.muts = patch.muts \cup {TargetPath, Destination}
      /\ patch.stage = "rename"
  BY DEF UnlinkFails, Linked, Mutated, CallInv, Formed, CallFields
<1>2. DOMAIN spent' = {"foreign", "faults"} /\ spent'.faults = spent.faults + 1 /\ spent'.foreign = spent.foreign
  BY DEF UnlinkFails, CallFault, CallInv, Formed
<1>3. DOMAIN files' = CallPaths /\ DOMAIN lastBy' = CallPaths
      /\ \A p \in CallPaths : p # Destination => lastBy'[p] = lastBy[p]
  BY DEF UnlinkFails, ByCall, CallInv, Formed
<1>4. Formed' /\ Undecided' /\ Reported'
  BY <1>1, <1>2, <1>3 DEF CallInv, Formed, Undecided, Working, Reported
<1>5. Known'
  BY <1>1, <1>3 DEF CallInv, Known
<1>6. Truthful' /\ Departing' /\ ChangesAreReported'
  BY <1>1 DEF Truthful, Working, Departing, ChangesAreReported
<1> QED
  BY <1>4, <1>5, <1>6 DEF CallInv

(* A rollback that cannot restore a file keeps what was reported of it; it *)
(* can fail only if nothing has failed before.                             *)
LEMMA RollbackStep ==
  ASSUME OneFault, CallInv, Rollback
  PROVE  CallInv'
<1>1. /\ DOMAIN patch' = CallFields /\ patch'.stage = "end" /\ patch'.result = patch.result
      /\ patch'.snap = patch.snap /\ patch.stage = "undo"
  BY DEF Rollback, ToStage, CallInv, Formed, CallFields
<1>2. PICK lost \in SUBSET patch.muts :
        /\ IF lost = {} THEN UNCHANGED spent ELSE CallFault
        /\ files' = [p \in CallPaths |-> IF p \in patch.muts \ lost THEN patch.snap[p] ELSE files[p]]
        /\ lastBy' = ByCall(patch.muts \ lost)
        /\ changedResources' = Kept(lost)
  BY DEF Rollback
<1>3. Formed'
  <2>1. UNCHANGED spent \/ CallFault
    BY <1>2
  <2> QED
    BY <1>1, <1>2, <2>1 DEF CallInv, Formed, CallFault, ByCall
<1>4. Undecided' /\ Known' /\ Reported' /\ Truthful' /\ Departing'
  BY <1>1 DEF Undecided, Working, Known, Reported, Truthful, Departing
<1>5. ChangesAreReported'
  <2> SUFFICES ASSUME NEW p \in CallPaths, lastBy'[p] = "call", files'[p] # patch.snap[p]
               PROVE  \E r \in changedResources' : r.path = p
    BY <1>1 DEF ChangesAreReported, CallInv, Undecided
  <2>1. p \notin patch.muts \ lost
    BY <1>2
  <2>2. lastBy[p] = "call"
    BY <1>2, <2>1 DEF ByCall
  <2>3. p \in lost
    BY <1>1, <2>1, <2>2 DEF CallInv, Known
  <2>4. spent.faults < MaxCallFaults
    BY <1>2, <2>3 DEF CallFault
  <2>5. ReportOf(p)
    BY <1>1, <2>3, <2>4 DEF OneFault, CallInv, Formed, Reported
  <2> QED
    BY <1>2, <2>3, <2>5 DEF Kept, ReportOf
<1> QED
  BY <1>3, <1>4, <1>5 DEF CallInv

(* What another program writes the call has not changed last.              *)
LEMMA ForeignStep ==
  ASSUME CallInv, NEW q \in CallPaths, NEW content \in ForeignContents, ForeignWrite(q, content)
  PROVE  CallInv'
<1>1. /\ UNCHANGED <<patch, changedResources>> /\ patch.stage # "end"
      /\ files' = [files EXCEPT ![q] = content] /\ lastBy' = [lastBy EXCEPT ![q] = "other"]
      /\ spent' = [spent EXCEPT !.foreign = @ + 1]
  BY DEF ForeignWrite
<1>2. DOMAIN spent' = {"foreign", "faults"} /\ spent'.faults = spent.faults /\ spent'.foreign = spent.foreign + 1
  BY <1>1 DEF CallInv, Formed
<1>3. spent'.foreign # 0
  BY <1>2 DEF CallInv, Formed
<1>4. G' = G /\ TargetPath' = TargetPath
  BY <1>1, SamePlace
<1>5. Formed' /\ Undecided' /\ ChangesAreReported'
  BY <1>1, <1>2 DEF CallInv, Formed, Undecided, Working, ChangesAreReported
<1>6. Known' /\ Reported'
  BY <1>1, <1>2, <1>4 DEF CallInv, Formed, Known, Reported, ReportOf
<1>7. Truthful' /\ Departing'
  BY <1>1, <1>3, <1>4 DEF CallInv, Truthful, Departing
<1> QED
  BY <1>5, <1>6, <1>7 DEF CallInv

-----------------------------------------------------------------------------
LEMMA CallInvNext ==
  ASSUME OneFault, CallInv, [CallNext]_cvars
  PROVE  CallInv'
<1>1. CASE Unanswered \/ CommitCall
  BY <1>1, Ending DEF Unanswered, CommitCall, AllDone, Stop, Alone, Working, CallInv, Formed, CallFields
<1>2. ASSUME NEW scene \in Scenes, PrepareCall(scene) PROVE CallInv'
  BY <1>2, PrepareStep
<1>3. CASE Looks
  BY <1>3, LookingSteps
<1>4. CASE DeleteTarget \/ SkipWrite \/ WriteGroup \/ VerifyGroup
  BY <1>4, DeleteStep, WriteStep, VerifyStep
<1>5. CASE Rename \/ UnlinkFails \/ Rollback
  BY <1>5, RenameStep, UnlinkFailsStep, RollbackStep
<1>6. ASSUME NEW p \in CallPaths, NEW content \in ForeignContents, ForeignWrite(p, content) PROVE CallInv'
  BY <1>6, ForeignStep
<1>7. CASE UNCHANGED cvars
  <2>1. UNCHANGED <<files, patch, changedResources, lastBy, spent>>
    BY <1>7 DEF cvars
  <2>2. G' = G /\ TargetPath' = TargetPath
    BY <2>1, SamePlace
  <2>3. Formed' /\ Undecided' /\ Known' /\ Reported' /\ ChangesAreReported'
    BY <2>1, <2>2 DEF CallInv, Formed, Undecided, Working, Known, Reported, ReportOf, ChangesAreReported
  <2>4. Truthful' /\ Departing'
    BY <2>1, <2>2 DEF CallInv, Truthful, Working, Renaming, Departing
  <2> QED
    BY <2>3, <2>4 DEF CallInv
<1> QED
  BY <1>1, <1>2, <1>3, <1>4, <1>5, <1>6, <1>7 DEF CallNext, Looks

(* Every file a call has changed when it ends is reported, also when the   *)
(* call failed and a file could not be restored, and what an applied call  *)
(* reports is what the files hold (group-application.ts:318-346,           *)
(* transaction-runner.ts:300-306): for requests of any length, any files,  *)
(* links and evidence, and any number of writes by others.                 *)
THEOREM EveryChangeReported ==
  ASSUME OneFault
  PROVE  CallInit /\ [][CallNext]_cvars => []ChangesAreReported
<1>1. CallInit => CallInv
  BY InitCallInv
<1>2. CallInv /\ [CallNext]_cvars => CallInv'
  BY CallInvNext
<1>3. CallInv => ChangesAreReported
  BY DEF CallInv
<1> QED
  BY <1>1, <1>2, <1>3, PTL
=============================================================================
