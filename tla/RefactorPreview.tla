-------------------------- MODULE RefactorPreview --------------------------
(***************************************************************************)
(* A refactoring proposed by the language server: staged as a preview in a *)
(* small cache, applied later to all its files in one transaction          *)
(* (extension/register-workspace-edit-rpc.ts, patch/refactor-preview.ts,   *)
(* lsp/refactor-preview-cache.ts).  Each preview has files of its own, and *)
(* two may share some; a content is a number nobody else uses.             *)
(***************************************************************************)
EXTENDS Integers, Sequences, FiniteSets, FiniteSetsExt

CONSTANTS
  NFiles,      \* files of the workspace
  Shapes,      \* sets of files that a refactoring may touch together
  Appliers,    \* apply_staged_edit requests that may be under way together
  MaxEntries,  \* RefactorPreviewCache.maxEntries
  MaxPreviews, MaxRewrites, MaxDeaths,  \* bounds of the instance
  MaxFailures  \* failed applications whose journals may lie around

Files == 1..NFiles

ASSUME PreviewAssumption == NFiles \in Nat /\ \A S \in Shapes : S # {} /\ S \subseteq Files

VARIABLES
  content,    \* what is on disk, per file
  previews,   \* ghost: every preview ever staged, [files, base, new]
  cache,      \* ids of the previews held; the oldest is the smallest
  known,      \* hash of the prior authority per file, 0 without
  applying,   \* per request: stage, preview, journal, files written so far
  journals,   \* set of [id, of, pre, state, dead]: recovery journals on disk
  editor,     \* another SmartEdit process: has it run the recovery yet?
  edits,      \* ghost: the contents that edits wrote
  strays,     \* ghost: contents a rollback could not take back, and those
              \* recovery put over what was no text of the dead transaction
  deaths, numbers

pvars == <<content, previews, cache, known, applying, journals, editor,
           edits, strays, deaths, numbers>>

Waiting == [stage |-> "idle", id |-> 0, done |-> {}, tx |-> 0]

PreviewInit ==
  /\ content = [f \in Files |-> f]
  /\ previews = <<>> /\ cache = {}
  /\ known = [f \in Files |-> 0]
  /\ applying = [a \in Appliers |-> Waiting]
  /\ journals = {}
  /\ editor = "idle" /\ edits = {} /\ strays = {}
  /\ deaths = 0 /\ numbers = NFiles

At(a, stage) == applying[a].stage = stage
Preview(a) == previews[applying[a].id]
Moves(a, stage) == applying' = [applying EXCEPT ![a].stage = stage]
Ends(a) == applying' = [applying EXCEPT ![a] = Waiting]

(* The locks of its files are a request's from begin to commit or rollback. *)
HasLocks(a) == applying[a].stage \in {"begun", "verified", "writing", "marked"}
Locked == UNION {Preview(a).files : a \in {b \in Appliers : HasLocks(b)}}

-----------------------------------------------------------------------------

(* A read of every file gives the session its authority. *)
ReadFiles ==
  /\ known # content
  /\ known' = content
  /\ UNCHANGED <<content, previews, cache, applying, journals, editor, edits, strays, deaths, numbers>>

(* RefactorPreviewCache.store evicts the oldest. *)
Stored(id) ==
  {id} \cup (IF Cardinality(cache) >= MaxEntries THEN cache \ {Min(cache)} ELSE cache)

(* stageWorkspaceEdit: planned on the files as read, refused without the   *)
(* authority for them.  What base and new say of other files is not used.  *)
Stage ==
  /\ Len(previews) < MaxPreviews
  /\ \E S \in Shapes :
       /\ \A f \in S : known[f] = content[f]
       /\ previews' = Append(previews,
            [files |-> S, base |-> content, new |-> [f \in Files |-> numbers + f]])
  /\ cache' = Stored(Len(previews'))
  /\ numbers' = numbers + NFiles
  /\ UNCHANGED <<content, known, applying, journals, editor, edits, strays, deaths>>

(* RefactorPreviewCache.get after expiresAt. *)
Expire ==
  /\ cache # {} /\ \A a \in Appliers : At(a, "idle")
  /\ cache' = cache \ {Min(cache)}
  /\ UNCHANGED <<content, previews, known, applying, journals, editor, edits, strays, deaths, numbers>>

(* gateApplyRequest, resolveApplyPreviewTarget: the preview stays cached. *)
Take(a) ==
  /\ At(a, "idle")
  /\ \E id \in cache :
       applying' = [applying EXCEPT ![a] = [Waiting EXCEPT !.stage = "taken", !.id = id]]
  /\ UNCHANGED <<content, previews, cache, known, journals, editor, edits, strays, deaths, numbers>>

(* recoverStaleJournals before the transaction leaves only the journals    *)
(* whose locks are taken.                                                  *)
Unrecovered == {j \in journals : j.dead}
FilesOf(j) == previews[j.of].files
RecoveryDone == \A j \in Unrecovered : FilesOf(j) \cap Locked # {}
RecoveryRan(a) ==
  /\ At(a, "taken") /\ RecoveryDone
  /\ Moves(a, "recovered")
  /\ UNCHANGED <<content, previews, cache, known, journals, editor, edits, strays, deaths, numbers>>

(* EditTransaction.begin: the locks of all its files. *)
Begin(a) ==
  /\ At(a, "recovered") /\ Preview(a).files \cap Locked = {}
  /\ Moves(a, "begun")
  /\ UNCHANGED <<content, previews, cache, known, journals, editor, edits, strays, deaths, numbers>>

BugFits(a) == \A f \in Preview(a).files : known[f] = Preview(a).base[f]

(* findStalePreviewFiles, findPreviewUnauthorizedFiles. *)
Fits(a) == \A f \in Preview(a).files : content[f] = Preview(a).base[f] /\ known[f] = Preview(a).base[f]

(* verifyPreviewPreconditions, under the locks. *)
Verify(a) ==
  /\ At(a, "begun")
  /\ IF Fits(a) THEN Moves(a, "verified") ELSE Ends(a)
  /\ UNCHANGED <<content, previews, cache, known, journals, editor, edits, strays, deaths, numbers>>

(* writePreviewPreparedJournal: the snapshots, and no intents. *)
Prepare(a) ==
  /\ At(a, "verified")
  /\ LET tx == 1 + Max({0} \cup {j.id : j \in journals}) IN
     /\ journals' = journals \cup
          {[id |-> tx, of |-> applying[a].id, pre |-> content, state |-> "prepared", dead |-> FALSE]}
     /\ applying' = [applying EXCEPT ![a] = [stage |-> "writing", id |-> @.id, done |-> @.done, tx |-> tx]]
  /\ UNCHANGED <<content, previews, cache, known, editor, edits, strays, deaths, numbers>>

(* commitPreviewFiles: tx.write of a next file. *)
WriteNext(a) ==
  /\ At(a, "writing")
  /\ \E f \in Preview(a).files \ applying[a].done :
       /\ content' = [content EXCEPT ![f] = Preview(a).new[f]]
       /\ applying' = [applying EXCEPT ![a].done = @ \cup {f}]
  /\ UNCHANGED <<previews, cache, known, journals, editor, edits, strays, deaths, numbers>>

BugRolledBack(a, kept) == content

(* EditTransaction.rollback: what it wrote goes back to the snapshots, but *)
(* for the files it fails to write again.                                  *)
RolledBack(a, kept) ==
  [f \in Files |-> IF f \in applying[a].done \ kept THEN Preview(a).base[f] ELSE content[f]]

(* A write, or marking the journal, fails: handleApplyRefactorPreview rolls*)
(* back and ignores what the rollback says; the prepared journal stays.    *)
FailWrite(a) ==
  /\ At(a, "writing") /\ Cardinality(journals) <= MaxFailures
  /\ \E kept \in SUBSET applying[a].done :
       /\ content' = RolledBack(a, kept)
       /\ strays' = strays \cup {content[f] : f \in kept}
  /\ Ends(a)
  /\ UNCHANGED <<previews, cache, known, journals, editor, edits, deaths, numbers>>

Own(a) == {j \in journals : j.id = applying[a].tx}

(* markCommitted *)
Mark(a) ==
  /\ At(a, "writing") /\ applying[a].done = Preview(a).files
  /\ journals' = (journals \ Own(a)) \cup {[j EXCEPT !.state = "committed"] : j \in Own(a)}
  /\ Moves(a, "marked")
  /\ UNCHANGED <<content, previews, cache, known, editor, edits, strays, deaths, numbers>>

(* tx.commit *)
Release(a) ==
  /\ At(a, "marked")
  /\ Moves(a, "committed")
  /\ UNCHANGED <<content, previews, cache, known, journals, editor, edits, strays, deaths, numbers>>

(* deleteJournal, then globalRefactorPreviewCache.delete. *)
Forget(a) ==
  /\ At(a, "committed")
  /\ journals' = journals \ Own(a)
  /\ cache' = cache \ {applying[a].id}
  /\ Moves(a, "applied")
  /\ UNCHANGED <<content, previews, known, editor, edits, strays, deaths, numbers>>

(* mintApplyEvidence: its files as they are by now. *)
MintApplied(a) ==
  /\ At(a, "applied")
  /\ known' = [f \in Files |-> IF f \in Preview(a).files THEN content[f] ELSE known[f]]
  /\ Ends(a)
  /\ UNCHANGED <<content, previews, cache, journals, editor, edits, strays, deaths, numbers>>

-----------------------------------------------------------------------------

(* recoverStaleJournals, by whoever comes first: the owner is dead and the *)
(* locks are free.  A committed journal only goes; a prepared one without  *)
(* intents puts every preimage back that the disk differs from, whoever    *)
(* wrote what is there by now.                                             *)
PutBack(j) == [f \in Files |-> IF f \in FilesOf(j) THEN j.pre[f] ELSE content[f]]
Recover ==
  /\ \E j \in Unrecovered :
       /\ FilesOf(j) \cap Locked = {}
       /\ journals' = journals \ {j}
       /\ \/ j.state = "committed" /\ UNCHANGED <<content, strays>>
          \/ /\ j.state = "prepared"
             /\ content' = PutBack(j)
             /\ strays' = strays \cup
                  {j.pre[f] : f \in {g \in FilesOf(j) : content[g] \notin {j.pre[g], previews[j.of].new[g]}}}
  /\ UNCHANGED <<previews, cache, known, applying, editor, edits, deaths, numbers>>

(* Another process edits a file: recovery first, then under the lock. *)
EditorRecovers ==
  /\ editor = "idle" /\ Cardinality(edits) < MaxRewrites
  /\ RecoveryDone
  /\ editor' = "recovered"
  /\ UNCHANGED <<content, previews, cache, known, applying, journals, edits, strays, deaths, numbers>>

EditorWrites ==
  /\ editor = "recovered"
  /\ \E f \in Files \ Locked : content' = [content EXCEPT ![f] = numbers + 1]
  /\ edits' = edits \cup {numbers + 1}
  /\ numbers' = numbers + 1 /\ editor' = "idle"
  /\ UNCHANGED <<previews, cache, known, applying, journals, strays, deaths>>

(* The process of the session ends at any point: cache, authority and locks*)
(* are gone, its journals have a dead owner.                               *)
Die ==
  /\ deaths < MaxDeaths
  /\ deaths' = deaths + 1
  /\ cache' = {} /\ known' = [f \in Files |-> 0]
  /\ applying' = [a \in Appliers |-> Waiting]
  /\ journals' = {[j EXCEPT !.dead = TRUE] : j \in journals}
  /\ UNCHANGED <<content, previews, editor, edits, strays, numbers>>

Request(a) ==
  \/ Take(a) \/ RecoveryRan(a) \/ Begin(a) \/ Verify(a) \/ Prepare(a) \/ WriteNext(a)
  \/ FailWrite(a) \/ Mark(a) \/ Release(a) \/ Forget(a) \/ MintApplied(a)

PreviewNext ==
  \/ ReadFiles \/ Stage \/ Expire \/ Recover \/ EditorRecovers \/ EditorWrites \/ Die
  \/ \E a \in Appliers : Request(a)

PreviewSpec == PreviewInit /\ [][PreviewNext]_pvars

-----------------------------------------------------------------------------

(* No refactoring is left half done: when nobody is applying one and no    *)
(* dead process left a journal, no file has the new text of a preview while*)
(* another still has the text it was planned from - whatever was killed,   *)
(* refused or failed on the way, and however the files of two previews     *)
(* overlap.  But for strays: a rollback that fails to write a file leaves  *)
(* it (refactor-preview.ts:293 ignores that), and recovery of a preview    *)
(* that failed earlier restores files that others have changed since       *)
(* (recovery-journal.ts:335).                                              *)
WholeRefactor ==
  (Locked = {} /\ Unrecovered = {}) =>
    \A i \in DOMAIN previews : \A f, g \in previews[i].files :
      content[f] = previews[i].new[f] /\ content[g] = previews[i].base[g]
        => {content[f], content[g]} \cap strays # {}

(* A refactoring replaces nothing but the text it was planned from: two    *)
(* requests for one preview, an edit made between staging and applying, or *)
(* an eviction never make it overwrite something else, although the        *)
(* preview is taken from the cache long before the locks are.              *)
ReplacesItsBase ==
  \A a \in Appliers : \A f \in applying'[a].done \ applying[a].done :
    content[f] = Preview(a).base[f]
RefactorReplacesItsBase == [][ReplacesItsBase]_pvars

(* recovery-journal.ts: what matches neither the text before nor the text  *)
(* of the transaction is never overwritten - recovery takes back writes of *)
(* the dead transaction and no edit that came after it.                    *)
RecoveryKeepsEdits ==
  [][journals' # journals => \A f \in Files : content'[f] # content[f] => content[f] \notin edits]_pvars

=============================================================================
