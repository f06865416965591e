------------------------------ MODULE PatchCall ------------------------------
(***************************************************************************)
(* One call of the edit tool, from its intents to its result: src/patch/.  *)
(* The intents become groups, one per path; every group must show evidence *)
(* for its file (a prior grant, or the envelope the call refers to), is    *)
(* planned against what it then reads, checked again, written, read back   *)
(* and reported.  Programs that take no lock edit files meanwhile.  Locks  *)
(* and the journal are PatchTransaction's subject, finding text TextMatch's:*)
(* here a file is a sequence of lines and an edit names its line.          *)
(***************************************************************************)
EXTENDS Naturals, Sequences, SequencesExt, FiniteSetsExt

CONSTANTS
  CallPaths,         \* the names a request may use
  LinksTo,           \* [path -> path]: the file a symbolic link leads to, or the path itself
  Tree,              \* the files before the call
  Scenes,            \* what may come together: [intents, byRef, prior, served]
  ForeignContents,   \* contents other programs may leave
  MaxForeignWrites,  \* bound on their writes
  MaxCallFaults      \* bound on failing filesystem calls

NoFile == <<"absent">>
NoGrant == [cover |-> "none", lines |-> {}, of |-> NoFile]
NoTopology == [op |-> "none"]
NoContentHash == <<"no hash">>

VARIABLES
  files,             \* what each path holds
  patch,             \* the call: its stage and what it holds in memory
  changedResources,  \* set of [path, old, new]
  lastBy,            \* ghost: who changed each file last
  spent              \* how much of the bounds is used: [foreign, faults]

cvars == <<files, patch, changedResources, lastBy, spent>>

-----------------------------------------------------------------------------
(* preparePatchRequest: text edits are grouped by path; then the           *)
(* topologies join their group or make one.  The destination of a rename   *)
(* gets a group without work, which plans the path for the transaction.    *)
Group(p, edits, topology) == [path |-> p, edits |-> edits, topology |-> topology]
GroupsAt(gs, p) == {i \in DOMAIN gs : gs[i].path = p}

WithEdit(gs, e) ==
  IF GroupsAt(gs, e.path) = {} THEN Append(gs, Group(e.path, <<e>>, NoTopology))
  ELSE [gs EXCEPT ![Min(GroupsAt(gs, e.path))].edits = Append(@, e)]

(* A mistake: only two topologies of the same kind are told apart. *)
BugJoin(acc, p, t) ==
  LET here == GroupsAt(acc.groups, p) IN
  IF here = {} THEN [acc EXCEPT !.groups = Append(@, Group(p, <<>>, t))]
  ELSE LET old == acc.groups[Min(here)].topology IN
       IF old # NoTopology /\ old.op = t.op THEN [acc EXCEPT !.conflict = TRUE]
       ELSE IF t = NoTopology THEN acc
       ELSE [acc EXCEPT !.groups[Min(here)].topology = t]

Join(acc, p, t) ==
  LET here == GroupsAt(acc.groups, p) IN
  IF here = {} THEN [acc EXCEPT !.groups = Append(@, Group(p, <<>>, t))]
  ELSE IF acc.groups[Min(here)].topology # NoTopology THEN [acc EXCEPT !.conflict = TRUE]
  ELSE IF t = NoTopology THEN acc
  ELSE [acc EXCEPT !.groups[Min(here)].topology = t]

Attach(acc, t) ==
  IF t.op = "rename" THEN Join(Join(acc, t.path, t), t.to, NoTopology)
  ELSE Join(acc, t.path, t)

IsText(i) == i.op = "text"
IsTopology(i) == i.op # "text"

Prepared(intents) ==
  LET texts == FoldLeft(WithEdit, <<>>, SelectSeq(intents, IsText))
  IN FoldLeft(Attach, [groups |-> texts, conflict |-> FALSE], SelectSeq(intents, IsTopology))

-----------------------------------------------------------------------------
(* realpathSync, where it succeeds.                                        *)
Real(p) == LinksTo[p]
Exists(p) == files[Real(p)] # NoFile
Creates(e) == e.line = 0                       \* oldText is ""

ToStage(stage) == patch' = [patch EXCEPT !.stage = stage]
Stop(result) == patch' = [patch EXCEPT !.stage = "end", !.result = result]
Undo(result) == patch' = [patch EXCEPT !.stage = "undo", !.result = result]
CallFault == spent.faults < MaxCallFaults /\ spent' = [spent EXCEPT !.faults = @ + 1]
Alone == UNCHANGED <<files, changedResources, lastBy, spent>>

G == patch.groups[patch.at]
New == G.path \in patch.created
(* canonicalTxPath *)
TargetPath == IF New THEN G.path ELSE Real(G.path)
Destination == IF G.topology.to \in patch.created THEN G.topology.to ELSE Real(G.topology.to)

(* acquirePatchEnvelope: who has no prior grant needs evidence, a file that*)
(* does not exist among them.  Nobody is asked for it when the call names  *)
(* none: then all of them must be new files.                               *)
NeedEvidence(scene, gs) ==
  {gs[i].path : i \in {j \in DOMAIN gs : ~Exists(gs[j].path) \/ scene.prior[Real(gs[j].path)] = NoGrant}}

(* buildAutoInspectEnvelope: an empty resource is made up for a new file.  *)
OnlyCreates(gs, needing) ==
  \A i \in DOMAIN gs : gs[i].path \in needing =>
     ~Exists(gs[i].path) /\ \A k \in DOMAIN gs[i].edits : Creates(gs[i].edits[k])
MadeUp(needing) ==
  [p \in CallPaths |-> IF p \in needing THEN [cover |-> "full", lines |-> {1}, of |-> <<>>] ELSE NoGrant]

(* preparePatchExecution up to its first await. *)
PrepareCall(scene) ==
  LET made == Prepared(scene.intents)
      gs == made.groups
      needing == NeedEvidence(scene, gs)
      stage == IF made.conflict \/ gs = <<>> THEN "end"
               ELSE IF needing = {} THEN "begin"
               ELSE IF scene.byRef THEN "ask"
               ELSE IF OnlyCreates(gs, needing) THEN "begin" ELSE "end"
  IN /\ patch.stage = "idle"
     /\ patch' = [patch EXCEPT !.scene = scene, !.groups = gs,
                             !.created = {p \in {gs[i].path : i \in DOMAIN gs} : ~Exists(p)},
                             !.envelope = IF scene.byRef THEN MadeUp({}) ELSE MadeUp(needing),
                             !.stage = stage, !.result = IF stage = "end" THEN "refused" ELSE "none"]
     /\ Alone

(* The answer to resolve_evidence: the envelope, or an error, or one that  *)
(* is invalid or of another inspection, session or workspace.              *)
Answered ==
  /\ patch.stage = "ask"
  /\ patch' = [patch EXCEPT !.envelope = patch.scene.served, !.stage = "begin"]
  /\ Alone
Unanswered == patch.stage = "ask" /\ Stop("refused") /\ Alone

(* EditTransaction.begin and the create-new guard.                         *)
BeginCall ==
  /\ patch.stage = "begin"
  /\ IF \E p \in patch.created : files[p] # NoFile
     THEN patch' = [patch EXCEPT !.snap = files, !.stage = "undo", !.result = "refused"]
     ELSE patch' = [patch EXCEPT !.snap = files, !.stage = "group"]
  /\ Alone

-----------------------------------------------------------------------------
(* resolveAuthorizedGroupPreimage: a prior grant wins over the envelope.   *)
Grant ==
  LET prior == patch.scene.prior[TargetPath] IN
  IF ~New /\ prior # NoGrant THEN prior ELSE patch.envelope[TargetPath]

Authorized ==
  /\ Grant.cover \in {"full", "range"}
  /\ G.topology.op \in {"delete", "rename"} => Grant.cover = "full"
  /\ Grant.of # NoContentHash

(* What the group finds; a new file is taken to be empty.                  *)
GroupPreimage == IF New THEN <<>> ELSE files[TargetPath]

(* planTextEdits and composeNewFileClassic (every creating edit puts its   *)
(* text before what the earlier ones put).                                 *)
EditsFit(edits, content) ==
  \A k \in DOMAIN edits :
    /\ edits[k].line \in DOMAIN content /\ content[edits[k].line] = edits[k].from
    /\ \A j \in DOMAIN edits : edits[j].line = edits[k].line => j = k
Edited(edits, content) ==
  [n \in DOMAIN content |->
     LET here == {k \in DOMAIN edits : edits[k].line = n}
     IN IF here = {} THEN content[n] ELSE edits[Min(here)].text]
Composed(edits) == Reverse([k \in DOMAIN edits |-> edits[k].text])

NoPlan == [ok |-> FALSE, content |-> <<>>, lines |-> {}]
Planned(content) ==
  LET plan(c, ls) == [ok |-> TRUE, content |-> c, lines |-> ls] IN
  IF G.edits = <<>>
  THEN IF G.topology.op = "add" THEN plan(G.topology.text, {}) ELSE plan(content, {})
  ELSE IF G.topology.op = "delete" THEN NoPlan
  ELSE IF New
  THEN IF \A k \in DOMAIN G.edits : Creates(G.edits[k]) THEN plan(Composed(G.edits), {1}) ELSE NoPlan
  ELSE IF EditsFit(G.edits, content) THEN plan(Edited(G.edits, content), {G.edits[k].line : k \in DOMAIN G.edits})
  ELSE NoPlan

(* checkResourceCoverage *)
Covered(plan) == Grant.cover = "full" \/ plan.lines \subseteq Grant.lines

NextGroup(c) == [c EXCEPT !.at = @ + 1, !.stage = "group"]
HasWork == G.edits # <<>> \/ G.topology # NoTopology
InLoop == patch.stage = "group" /\ patch.at \in DOMAIN patch.groups

SkipPlaceholder == InLoop /\ ~HasWork /\ patch' = NextGroup(patch) /\ Alone

(* The file is gone, the evidence is missing, weak or of another content,  *)
(* or the edits do not fit: the call ends here, and is rolled back.        *)
Refuse ==
  /\ InLoop /\ HasWork
  /\ \/ ~New /\ ~Exists(G.path)
     \/ ~Authorized
     \/ Grant.of # GroupPreimage
     \/ ~Planned(GroupPreimage).ok
     \/ ~Covered(Planned(GroupPreimage))
  /\ Undo("refused")
  /\ Alone

PlanGroup ==
  /\ InLoop /\ HasWork
  /\ New \/ Exists(G.path)
  /\ Authorized /\ Grant.of = GroupPreimage
  /\ Planned(GroupPreimage).ok /\ Covered(Planned(GroupPreimage))
  /\ patch' = [patch EXCEPT !.base = GroupPreimage, !.plan = Planned(GroupPreimage).content,
                          !.stage = IF G.topology.op = "delete" THEN "remove" ELSE "check"]
  /\ Alone

Report(p, old, new) == [path |-> p, old |-> old, new |-> new]
ByCall(ps) == [p \in CallPaths |-> IF p \in ps THEN "call" ELSE lastBy[p]]
Mutated(ps) == patch.muts \cup ps

(* runTopologyOnlyDelete: no second look at the file.                      *)
DeleteTarget ==
  /\ patch.stage = "remove"
  /\ patch.snap[TargetPath] # NoFile /\ files[TargetPath] # NoFile
  /\ files' = [files EXCEPT ![TargetPath] = NoFile]
  /\ lastBy' = ByCall({TargetPath})
  /\ changedResources' = changedResources \cup {Report(TargetPath, patch.base, NoFile)}
  /\ patch' = NextGroup([patch EXCEPT !.muts = Mutated({TargetPath})])
  /\ UNCHANGED spent

DeleteFails ==
  /\ patch.stage = "remove"
  /\ \/ (patch.snap[TargetPath] = NoFile \/ files[TargetPath] = NoFile) /\ UNCHANGED spent
     \/ CallFault
  /\ Undo("failed")
  /\ UNCHANGED <<files, changedResources, lastBy>>

(* runPrewriteVerifiers and recheckPrewriteFreshness.                      *)
Check ==
  /\ patch.stage = "check"
  /\ New \/ files[TargetPath] = patch.base
  /\ ToStage("write")
  /\ Alone
CheckFails == patch.stage = "check" /\ Undo("refused") /\ Alone

(* A mistake: a rename is reported by its destination only. *)
BugPending == IF G.topology.op = "rename" THEN {} ELSE {Report(TargetPath, patch.base, patch.plan)}

(* recordPendingInvalidation: a rename leaves no content at its source.    *)
Pending == {Report(TargetPath, patch.base, IF G.topology.op = "rename" THEN NoFile ELSE patch.plan)}

(* persistContentGroup: content that stays as it is is not written, unless *)
(* the file is new.  A path absent at begin is created, never overwritten. *)
SkipWrite ==
  /\ patch.stage = "write" /\ patch.plan = patch.base /\ ~New
  /\ changedResources' = changedResources \cup Pending
  /\ ToStage("verify")
  /\ UNCHANGED <<files, lastBy, spent>>

Writes == patch.stage = "write" /\ (patch.plan # patch.base \/ New)
Creating == patch.snap[TargetPath] = NoFile

WriteGroup ==
  /\ Writes
  /\ Creating => files[TargetPath] = NoFile
  /\ files' = [files EXCEPT ![TargetPath] = patch.plan]
  /\ lastBy' = ByCall({TargetPath})
  /\ changedResources' = changedResources \cup Pending
  /\ patch' = [patch EXCEPT !.muts = Mutated({TargetPath}), !.stage = "verify"]
  /\ UNCHANGED spent

(* The write throws: rolled back at once, and the finally does not run.    *)
WriteFails ==
  /\ Writes
  /\ \/ Creating /\ files[TargetPath] # NoFile /\ UNCHANGED spent
     \/ CallFault
  /\ Undo("write failed")
  /\ UNCHANGED <<files, changedResources, lastBy>>

(* verifyPersistedGroup: read back; post-write verifiers.                  *)
VerifyGroup ==
  /\ patch.stage = "verify"
  /\ files[TargetPath] = patch.plan
  /\ IF G.topology.op = "rename" THEN ToStage("rename") ELSE patch' = NextGroup(patch)
  /\ Alone
VerifyFails == patch.stage = "verify" /\ Undo("failed") /\ Alone

(* finalizeGroupSuccess: the rename comes last; link never overwrites.     *)
Linkable ==
  /\ patch.snap[TargetPath] # NoFile /\ patch.snap[Destination] = NoFile
  /\ files[TargetPath] # NoFile /\ files[Destination] = NoFile
Linked == [patch EXCEPT !.muts = Mutated({TargetPath, Destination})]

Rename ==
  /\ patch.stage = "rename" /\ Linkable
  /\ files' = [files EXCEPT ![Destination] = files[TargetPath], ![TargetPath] = NoFile]
  /\ lastBy' = ByCall({TargetPath, Destination})
  /\ changedResources' = changedResources \cup {Report(Destination, patch.base, patch.plan)}
  /\ patch' = NextGroup(Linked)
  /\ UNCHANGED spent

(* The destination is taken, or the new name cannot be made.               *)
LinkFails ==
  /\ patch.stage = "rename"
  /\ \/ ~Linkable /\ UNCHANGED spent
     \/ CallFault
  /\ Undo("failed")
  /\ UNCHANGED <<files, changedResources, lastBy>>

(* The new name is there and the old one cannot be removed.                *)
UnlinkFails ==
  /\ patch.stage = "rename" /\ Linkable /\ CallFault
  /\ files' = [files EXCEPT ![Destination] = files[TargetPath]]
  /\ lastBy' = ByCall({Destination})
  /\ patch' = [Linked EXCEPT !.stage = "undo", !.result = "failed"]
  /\ UNCHANGED changedResources

-----------------------------------------------------------------------------
AllDone == patch.stage = "group" /\ patch.at \notin DOMAIN patch.groups

(* markCommitted and commit.                                               *)
CommitCall == AllDone /\ Stop("applied") /\ Alone
CommitFails == AllDone /\ CallFault /\ Undo("failed") /\ UNCHANGED <<files, changedResources, lastBy>>

(* Only what could not be restored stays reported; after a failed write    *)
(* the finally, which sees to that, does not run.                          *)
Kept(lost) ==
  IF patch.result = "write failed" THEN changedResources
  ELSE {r \in changedResources : r.path \in lost}

(* rollback: every path it changed is as it was at begin, but for those    *)
(* that cannot be restored.                                                *)
Rollback ==
  /\ patch.stage = "undo"
  /\ \E lost \in SUBSET patch.muts :
       LET back == patch.muts \ lost IN
       /\ IF lost = {} THEN UNCHANGED spent ELSE CallFault
       /\ Cardinality(lost) <= 1
       /\ files' = [p \in CallPaths |-> IF p \in back THEN patch.snap[p] ELSE files[p]]
       /\ lastBy' = ByCall(back)
       /\ changedResources' = Kept(lost)
       /\ ToStage("end")

(* A program that takes no lock changes, makes or removes a file.          *)
ForeignWrite(p, content) ==
  /\ patch.stage # "end" /\ patch.stage # "idle"
  /\ spent.foreign < MaxForeignWrites
  /\ LinksTo[p] = p /\ files[p] # content
  /\ files' = [files EXCEPT ![p] = content]
  /\ lastBy' = [lastBy EXCEPT ![p] = "other"]
  /\ spent' = [spent EXCEPT !.foreign = @ + 1]
  /\ UNCHANGED <<patch, changedResources>>

NoScene == [intents |-> <<>>]

CallInit ==
  /\ files = Tree
  /\ patch = [stage |-> "idle", scene |-> NoScene, groups |-> <<>>, at |-> 1, created |-> {},
             envelope |-> <<>>, snap |-> <<>>, base |-> <<>>, plan |-> <<>>, muts |-> {}, result |-> "none"]
  /\ changedResources = {}
  /\ lastBy = [p \in CallPaths |-> "nobody"]
  /\ spent = [foreign |-> 0, faults |-> 0]

CallNext ==
  \/ \E scene \in Scenes : PrepareCall(scene)
  \/ Answered \/ Unanswered \/ BeginCall
  \/ SkipPlaceholder \/ Refuse \/ PlanGroup \/ DeleteTarget \/ DeleteFails \/ Check \/ CheckFails
  \/ SkipWrite \/ WriteGroup \/ WriteFails \/ VerifyGroup \/ VerifyFails
  \/ Rename \/ LinkFails \/ UnlinkFails
  \/ CommitCall \/ CommitFails \/ Rollback
  \/ \E p \in CallPaths, content \in ForeignContents : ForeignWrite(p, content)

-----------------------------------------------------------------------------
(* What a request asks of every file of a tree, all of it at once: the     *)
(* edits of a file apply to what it held, and follow its rename.           *)
On(p) == SelectSeq(patch.scene.intents, LAMBDA i : LinksTo[i.path] = p)
TextsOn(p) == SelectSeq(On(p), IsText)
MovesOn(p) == SelectSeq(On(p), IsTopology)
MovesTo(p) == SelectSeq(patch.scene.intents, LAMBDA i : i.op = "rename" /\ LinksTo[i.to] = p)

Held(tree, p) ==
  LET texts == TextsOn(p) IN
  IF tree[p] = NoFile THEN Composed(texts) ELSE Edited(texts, tree[p])

Asked(tree, p) ==
  IF MovesTo(p) # <<>> THEN Held(tree, LinksTo[MovesTo(p)[1].path])
  ELSE IF MovesOn(p) # <<>>
  THEN IF MovesOn(p)[1].op = "add" THEN MovesOn(p)[1].text ELSE NoFile
  ELSE IF TextsOn(p) # <<>> THEN Held(tree, p)
  ELSE tree[p]

(* No file has two things asked of it that cannot both be done.            *)
Consistent(tree) ==
  \A p \in CallPaths :
    /\ Len(MovesOn(p)) + Len(MovesTo(p)) <= 1
    /\ MovesTo(p) # <<>> => tree[p] = NoFile /\ TextsOn(p) = <<>>
    /\ MovesOn(p) # <<>> /\ MovesOn(p)[1].op = "delete" => TextsOn(p) = <<>> /\ tree[p] # NoFile

(* An Add File of a path that has edits too, under the same name.          *)
Dropped ==
  {LinksTo[i.path] : i \in {x \in ToSet(patch.scene.intents) :
     x.op = "add" /\ \E y \in ToSet(patch.scene.intents) : IsText(y) /\ y.path = x.path}}

(* An applied call left every file as its intents say, all of them         *)
(* together, whichever of its names they used and in whatever order they   *)
(* came; intents that contradict each other are never applied              *)
(* (preparePatchRequest, executeEditGroup).  With two exceptions.  Where a *)
(* path has edits and an Add File, only the edits are applied, and the     *)
(* content of the Add File is neither applied nor refused                  *)
(* (group-planning.ts:608); and of several edits that create one file, the *)
(* last one's text comes first (group-planning.ts:483-486).                *)
AppliedIsWhatWasAsked ==
  patch.result = "applied" /\ spent.foreign = 0 =>
    /\ Consistent(patch.snap)
    /\ \A p \in CallPaths : LinksTo[p] = p =>
         files[p] = IF p \in Dropped THEN Held(patch.snap, p) ELSE Asked(patch.snap, p)

(* Every file a call has changed when it ends is reported, also when the   *)
(* call failed and a file could not be restored; and an applied call       *)
(* reports what the file holds now, unless another program wrote meanwhile.*)
(* Readers drop what they cached of the reported files only                *)
(* (group-application.ts:318-346, transaction-runner.ts:300-306).          *)
ChangesAreReported ==
  patch.stage = "end" =>
    \A p \in CallPaths :
      lastBy[p] = "call" /\ files[p] # patch.snap[p] =>
        \E r \in changedResources :
          r.path = p /\ (patch.result = "applied" /\ spent.foreign = 0 => r.new = files[p])

(* patch.ts:27-28: "For line-range resources: only the attested lines may  *)
(* be edited."  Every line of a file that a write replaces was attested.   *)
AttestedLinesOnly ==
  patch.stage = "write" /\ files' # files /\ patch'.stage = "verify" /\ ~New =>
    \A n \in DOMAIN files[TargetPath] :
      \/ Grant.cover = "full" \/ n \in Grant.lines
      \/ n \in DOMAIN patch.plan /\ patch.plan[n] = files[TargetPath][n]
===============================================================================
