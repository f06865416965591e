# Pi-SmartEdit: a verification project in TLA+

Pi-SmartEdit is a TypeScript extension for the Pi coding agent: it edits files
on behalf of a language model. Many of its promises are about what happens when
several processes edit the same files, when a call fails half-way, when a
process is killed, or when a user edits a file between two steps. This
directory models those parts in TLA+, checks the models with TLC on small
instances and proves the central invariants with TLAPS for instances of any
size. All source paths are under `src/src/`.

## 1. Inventory

| Component | State it keeps | Operations | Modules |
|---|---|---|---|
| Path locks (`mutation/edit-transaction.ts:17-170`, `recovery-journal.ts:179-224`) | lock files in the temporary directory, a map of promises per process | acquire, reclaim of abandoned files, release | FileLock, PathLocks, LockTable |
| Transactions (`mutation/edit-transaction.ts`, `transaction-runner.ts`, `recovery-journal.ts`, `patch/group-application.ts`) | files, snapshots, list of mutations, one journal file per transaction | begin, write, remove, rename, rollback, commit; prepare, intent, mark, delete; recovery scan | PatchTransaction, AtomicStore |
| Patch calls (`patch/`) | groups, grants in use, planned topology, reports | group, authorise, plan, write, verify, rename, delete, report | PatchCall |
| Undo history (`undo/edit-history.ts`, `undo/atomic-write.ts`) | record files in `.smart-edit-undo` | save, restore a transaction or an entry, clear | UndoHistory; AtomicPatch for entries without a version |
| Read snapshots and authority (`context/`, `safety/context-guard.ts`, `extension/read-events.ts`, `session.ts`, `post-lanes.ts`, `retry-evidence.ts`) | the strongest grant per file, what was read when | record, check, narrow, renew | EditAuthority |
| Match pipeline (`core/`) | none: functions of a text and edits | match in tiers, plan a batch, apply | TextMatch, Mutations, EditPlan |
| Hashline editing (`hashline/`) | none | anchor, validate, relocate, apply, fall back | HashlineOps, Hashline |
| Transfer tool (`transfer/`) | staged copies and moves | plan, resolve, stage | Transfer, over HashlineOps |
| Patch formats (`formats/`) | staged operations of an atomic patch | detect, parse; validate, apply, retry, roll back | Formats; AtomicPatch |
| Refactor previews (`lsp/refactor-preview-cache.ts`, `patch/refactor-preview.ts`) | 16 previews with a TTL, bound to a session | stage, expire, take, apply | RefactorPreview |
| Language servers (`lsp/lsp-connection.ts`, `lsp-manager.ts`, `document-sync.ts`) | request table, handlers, server table, pending starts, lock of each open document | request, notify, data, exit, overflow, get, restart, remove, shutdown, open, close | LspConnection, LspManager, LspSession |
| Diagnostics (`lsp/diagnostics.ts`, `semantic-nav.ts`, `smartread-diagnostics-client.ts`) | listeners, the mode of the client | check, navigate, probe | LspSession, DiagnosticsMode |
| Background verification (`verification/background-runner.ts`, `repair-loop.ts`, `auto-validate.ts`) | running and finished jobs, failures per file | schedule, cancel, time out, finalize, evict; validate, repair, validate again | BackgroundRuns, RepairLoop |
| Ordering in one process (`mutation/mutation-ownership.ts`, `mutation-queue.ts`) | claim table, promise chain per file | claim, look up, release, prune; enqueue | DiagnosticsOwner; the chain has no caller |
| Extension shell (`index.ts`, `extension/`) | repeated-call counters, session | register, dispatch, render | LoopGuard, and the lanes in EditAuthority, DiagnosticsMode and DiagnosticsOwner |
| Syntax trees (`ast/`) | LRU of ten parses | parse, delta, reparse | not modelled |
| Heuristic verifiers (`verification/` otherwise, `safety/approval-gating.ts`) | none | advisory notes about text | not modelled |

**How they interact.** A tool call is parsed (formats) into intents, grouped by
file, and each group is authorised by what the session has read, matched
against the file (match pipeline or hashline) and passed through the repair
loop. `runPatchTransaction` has before that recovered the journals of dead
processes, taken the locks of all paths, made snapshots and written a journal;
it applies one group after the other, each operation announced by an intent in
the journal. Success is the journal's commit mark; everything before it is rolled
back on failure, by the process itself or, if it died, by the recovery scan of
the next transaction of any process. Undo records are computed under the locks
and saved after them. Diagnostics and background verification follow, and the
session's grant is carried over to the new text. Transfers and refactorings
reach the same transactions by paths of their own; the loop guard stands before
all of them.

**What is hard**, component by component, with the properties that make it
correct (names of properties in section 3):

* *Path locks.* Polling, age, owner liveness and unlink-by-name race with each
  other; locks of several paths are held while waiting for more. Exclusive,
  never leaked, every acquisition ends, no circular wait.
* *Transactions.* A kill between any two steps; recovery racing with live
  transactions; failures inside rollback. All or nothing, no bytes that no
  journal can take back, recovery spares what others wrote, the end is reached.
* *Patch calls.* Several files, several kinds of change per file, files that
  others write between reading and writing. What was applied is what was
  asked, and what was changed is reported even when the call fails.
* *Undo.* Records saved one by one after the commit; a restore of several files
  without locks or journal. Undone as a whole or not at all.
* *Authority.* Grants survive edits, reads and retries that arrive in any order.
  Nothing is replaced that was not observed.
* *Match pipeline, hashline, transfer.* Offsets computed against one text and
  used in another; laxer and laxer searches. The place is the one meant, spans do
  not overlap, the order of application is immaterial, nothing is lost.
* *Formats.* Seven syntaxes told apart by inspection. A patch is read as what it
  means, and what is not read is mentioned.
* *Previews.* A check whose file changed before its use; a death in the middle.
  What is replaced is what was previewed; all files or none.
* *Language servers.* A response racing a timeout or an exit; a restart racing
  a pending start; one document shared by concurrent calls. No request waits
  without a timer; no process is forgotten; a call sees its own text; calls end.
* *Background verification.* Exit, error, timeout and cancellation of one process
  race to settle it. Slots are given back once; a repair is safe to take.
* *Ordering in one process.* Two handlers of one event in either order, with a
  claim that expires. Nothing is reported twice.
* *Loop guard.* Calls overlap between the question and the answer. No request
  that changes nothing is repeated for ever.

`PROJECT.json` lists the hazards with their lines and the properties that
cover them.

## 2. Modules

### FileLock: one lock file

`acquireFileLock`, `reclaimIfAbandoned` and the release they return
(`edit-transaction.ts:38-142`). Every `await` is a step boundary: open, write the
owner record, read it back, judge it, unlink, sleep. The file is an inode with a
creator, whether its record has landed, and whether it looks older than
`LOCK_STALE_MS`; `rm(lockPath)` takes whatever is there. It may also fail, which
the code swallows everywhere: while reclaiming, the contender tries again at once,
past its deadline and without a sleep (`ReclaimFails`); in a release or after a
failed write, the process leaves its own file behind (`KeepsFile`, remembered by
the ghost `stuck`). Processes may be killed anywhere (`MaxCrashes`, which bounds
the files kept as well), deadlines pass at any time (`Expire`), and an unwritten
file ages (`Age`): always if its creator is dead, and for a live one only if
`SlowWrites`, which stands for a creator stalled for five seconds between
`open` and `writeFile`.

### PathLocks over LockTable: the locks of several paths

`acquire` (`edit-transaction.ts:150-170`) and `acquireRecoveryLocks`
(`recovery-journal.ts:185-224`). Keys are taken in sorted order; a transaction joins
the promise chain of its process and then polls for the lock file; the releases run
in reverse. A transaction that fails gives everything back; a scan that throws does
not: it keeps its earlier locks at its deadline (`ScanTimeout`) and the lock whose
owner record it could not write (`ScanWriteFails`). That a removal may fail is
FileLock's subject only. `LockTable` is the abstraction, "all paths at one instant",
and `TakenAtOnce` says PathLocks implements it. Two modules rest on that:
PatchTransaction takes the free locks of a transaction in one step, and FileLock
lets a contender be a process (`OnePerProcess`).

### PatchTransaction over AtomicStore: a patch call

`runPatchTransaction` with the journal and the file operations. Each transaction
runs in a process of its own. `disk`, `lock` and `journal` outlive processes; the
other variables are the memory of a process and go when it dies. One action per
handler: `ListJournals` to `RecoverFails` are `recoverStaleJournals`; `Begin`,
`Guard` and `Prepare` the start of the runner; `AppendIntent`, `AppendIntent2`,
`Apply`, `Link`, `Unlink` the group loop with the journal; `MarkCommitted`,
`Commit`, `DeleteJournal` the end; `RestorePath`, `RestoreFails`, `RollbackDone`
the rollback, reached from `Reject` (a verifier, stale content) and from every
failing call. `Die` is an exit or a kill, after which others take the process
for dead; `ForeignEdit` an edit by a program that takes no lock. The lock file of
a dead process is judged in one step (`JudgeLock`) and unlinked by name in another
(`UnlinkLock`), so that the lock unlinked may be one that a third process has taken
in between, as in FileLock. The ghost `orphaned` remembers the paths at which a
process died with its lock file, the ghost `writer` whose bytes a path holds.

It runs no second call inside the same process, and takes a script of operations
as given; `PatchCall` says where the script comes from.

Contents are told apart by equality only, as the code does with its hashes; file
modes, quarantine copies, diagnostics and the wording of results are left out.
Advisory verifiers reach the model as `Reject`, which may happen at any point of
the group loop.

`AtomicStore` is what a caller may expect: the files change by whole transactions,
and by the edits of programs that take no lock, which are counted (`outside`):
nothing but such an edit may pass for one. `AllOrNothing` says PatchTransaction
implements it under the mapping `Logical`: a path holds what it will hold once every
interrupted transaction has been undone, which jumps at the commit mark and nowhere
else.

### UndoHistory

An edit is a committed transaction (one step, by `AllOrNothing`). `UndoRecords`
is `getUndoRecords`, with its rules about the first mutation of a path and about
renames; `SaveRecord` writes one file at a time after the commit and may stop
(`SaveStops`). A restore picks the latest record of a path, loads the records of
that transaction in directory order, requires all of them (`Complete`), compares
each file with what the transaction left (`Preflight`), takes a snapshot, and then
acts record by record, with `ApplyFails` and `RollbackPath` for the failure path.
It takes no lock, so the properties speak of restores during which nobody else
changed a file (the ghost `calm`). The entries without a version, which only an
atomic patch writes, are in AtomicPatch.

### LspConnection, LspManager, LspSession: language servers

Three layers, each extending the one below.

`LspConnection` is `LSPConnection`: per connection whether it is `open` (not
`closed`), whether its handlers are still `attached` to the process, the `pending`
table and the listeners; and, apart from it, the requests whose `timers` run,
because several paths empty one without the other. `StartRequest` is `request`;
`Timeout`, `ReceiveAnswer`, `ReceiveDiagnostics`, `ExitSeen` and `Overflow` are
the callbacks. The server (external) reads in order and owes an answer to each
request and a publication for each content it was shown; it may send what it owes
at any time, in any order, after the document was closed, or never. It may ask
something of its own under a number one of our requests has (`ServerAsks`) and may
exit (`ServerExits`).

`LspManager` is `LSPManager` for one language, since its maps keep languages
apart: `GetServer` with the start that callers share, `Spawn` to `NoServer` for the
loop over configurations, `BeginStop` and `Kill` for the shutdown of a connection,
which is asked for by a failed start, by `removeServer` and by `getServer` itself.

`LspSession` has the callers: a check after an edit (`withOpenDocument`, its lock
per server and document, `didOpen`, a request that shows it has been read, three
seconds of listening, the request for diagnostics, `didClose`), the requests of
`semantic-nav.ts`, `restartServer` and the session's shutdown.

Left out: the abort signal of a request, which no caller passes, and with it
`$/cancelRequest`, after which a server may answer or not, as before; document
versions, which nobody reads; the codec (a frame is whole or the buffer
overflows). A message nobody waits for is never delivered, which differs in
nothing from its being dropped.

### PatchCall: from intents to a report

One call of the edit tool, `src/src/patch/`, above the transaction. `BeginCall`
groups the intents by path (`Join`, `Topologies`); `Grant` to `Authorized` find the
grant of each group, prior or by `evidenceRef`; then group by group: `PlanGroup`,
`Check`, `SkipWrite` or `WriteGroup`, `VerifyGroup`, `Rename`, `DeleteTarget`, each
with the way it fails, and `Refuse` for what is turned down without a failing call.
`Rollback` restores the snapshots, or all but one of them; `changedResources` is
what the call says it changed. `ForeignWrite` writes any file between any two steps,
and only a bounded number of calls fail. A path may be a link to another
(`LinksTo`), because groups are keyed by the path given and locks by the real one. A
file is a sequence of lines and an edit names its line: finding it is TextMatch's
subject.

### EditAuthority: what may be replaced

One file, whose lines are numbers nobody else uses, so that a line is known
wherever it moves; a hash is the content itself. `Read` and `ResultArrives` are
the evidence of SmartRead and its ingestion, two events with anything between
them; `Plan`, `Repair`, `Write`, `Delete`, `Mint` an edit with the grant made of
it (`Narrowed` carries ranges across the edit's diff); `RetryBegins` and
`RetryEnds` the windows offered after a failed search; `NativeWrite`, `NewSession`
and `Foreign`, at any stage of an edit, what happens beside it. The ghost `seen` is the
set of lines the agent was shown or wrote, the ghost `lapsed` those that a grant
came to name, or a repair to replace, in the two ways section 5 describes.

### TextMatch, Mutations, EditPlan: from an edit to a text

`TextMatch` has the six tiers of `core/edit-match.ts` as functions of a text: a
normal form, a search in it, and the map back to the original text (`MapBack`),
each column by column as the code does it, with its quirks. `Mutations` is the
stretch-and-replacement that every kind of edit becomes, the test for overlap and
the application from the end. `EditPlan` resolves text, symbol, pattern and
hashline operations of one request against the same text and applies them:
`Open` and `Edit`. The reference definitions are in the properties: `Elsewhere`
looks at every stretch of the file, `Reference` builds the result position by
position.

### HashlineOps, Hashline, Transfer

`HashlineOps` is `src/hashline/`: tokens, hash validation, relocation inside a
window, the structural check and the two searching fallbacks, on lines that carry an
identity the code does not see. `Hashline` reads a file, lets it drift, and edits by
the tokens shown (`ShowRows`, `Insert`, `Vanish`, `HashEdit`); the ghost identities
tell whether the edit landed on the lines meant. `Transfer` resolves blocks and
destinations of a batch of copies and moves against the files before the batch and
plans each file once (`Execute`).

### Formats and AtomicPatch

`Formats` detects and parses seven formats, from lines [marker or sign, text] to
changes; every transition of the parsers' state machines is there, spelling is not.
A run starts from a list of changes written in each format, with noise around it
(or, for an atomic patch, in the dress of a diff), or from scraps of lines in any
order, and compares what is read. `AtomicPatch` is the executor in
`formats/atomic-patch.ts`: `BeginEnvelope`, `Save`, `ApplyOp` with its retries,
`RollbackOp` through the unversioned undo entries, whose guard is part of the model.

### RefactorPreview

Staging (`Stage`) of previews, each over files of its own (`Shapes`), the cache
with its bound and its age (`Stored`, `Expire`), and the application by concurrent
requests: `Take`, the locks (`Begin`), the check of every file against the preview
(`Verify`), one write per file (`WriteNext`), the end (`Mark`, `Release`, `Forget`,
`MintApplied`), `FailWrite` with a rollback that may fail for any of the files written,
`Die`, `Recover`, and another SmartEdit process that recovers and then edits
(`EditorRecovers`, `EditorWrites`). The ghost `strays` has the texts a rollback could not
take back and those recovery put over a later text.

### BackgroundRuns and RepairLoop

`BackgroundRuns` is the table of `background-runner.ts`: a run is scheduled or
refused for lack of slots, and then `close`, `error`, the timer and a cancellation
race; whichever comes first settles it. `RepairLoop` validates a candidate (with
the four validators in order, and the compilers' verdict as an input that may
change), repairs it, validates again, and counts the failures per file.

### DiagnosticsOwner, DiagnosticsMode, LoopGuard

`DiagnosticsOwner`: the claim of a call, its time to live, the pruning, and the
handlers of two extensions in either order. `DiagnosticsMode`: concurrent checks
share one probe that may time out before or after the answer. `LoopGuard`: the
counters per fingerprint, bounded, with requests that overlap.

## 3. What is checked

Every property of a passing run has a mutant in `PROJECT.json`: an operator
`Bug...` beside the one it replaces, with which TLC finds the property violated.

| Run | Question | Result |
|---|---|---|
| `locks` | one lock file among three processes, one of them killed or unable to remove its file: exclusive until then (`ExclusiveUntilCrash`), no lock left behind (`NoLeakedLock`), acquisitions end unless an `rm` goes on failing (`AcquisitionEnds`); and overlapping sets of paths in and across processes, a recovery scan, timeouts and failures anywhere: `TakenAtOnce`, `NothingLeft` but by a scan that threw, and `NoDeadlock` without relying on a timeout | holds |
| `patch_crash` | three transactions in turn, two deaths anywhere, one failing journal write: `AllOrNothing`, `NoOrphanBytes`, `RecoveryCleansUp` | holds |
| `patch_concurrent` | two transactions at once, two failing calls, an edit by a program that takes no lock: `AllOrNothing`, `TransactionEnds` | holds |
| `patch_everything` | three transactions at once, a death, a failing restore: `Isolation` but for paths where a process died with its lock, `FailedRollbackJournaled` | holds |
| `lsp_session` | two calls, two configurations, one fault: `UnsettledIsTimed`, `ServerIsInitialized`, `NoStrayServer`, `OwnDocument`, and every call ends (`CallsEnd`) | holds |
| `session_parts` | every other part on an instance of its own, see below | holds |
| `file_lock_reclaim_race` | `MutualExclusion` after one kill | violated |
| `edit_and_rename_recovery` | `QuarantineOnlyForeign` when a group that edits and renames a file dies before the link | violated |
| `undo_edit_and_rename` | `UndoRestores` for an edited and renamed file | violated |
| `preview_recovery` | `RecoveryKeepsEdits` after a failed refactoring, an edit and the end of the session | violated |
| `add_over_partial_read` | `OnlyAttested` when Add File names a file of which one line was read | violated |
| `atomic_rollback` | `FailedPatchChangesNothing` when the second operation of an envelope does not fit | violated |

The violated ones are disagreements between the code and a sentence of its own
comments; `PROJECT.json` "findings" quotes both. Where a property of a passing run
is true of the code only with an exception, the exception is a named part of the
property, the case is in the run, and the comment at the property says at which
line of the code it happens.

`locks` (MCLocks) picks one of its two halves in the same way as the next run does.

`session_parts` (MCSessionParts, MCTextParts) picks one part and lets only that
part move. The parts share no state, so their state spaces are added, not
multiplied, and a property of one part speaks of the states in which it moves.

| Part | Properties |
|---|---|
| EditAuthority | `AuthorityObserved`: a valid grant covers only lines that were shown or written; `OnlyObservedReplaced`: nor is any other line replaced; but for `lapsed` |
| RefactorPreview | `WholeRefactor`: all files or none, once recovery has run, but for `strays`; `RefactorReplacesItsBase` |
| DiagnosticsOwner | `NeverDouble`: diagnostics of one mutation come from one extension, unless its claim has been lost to age or number |
| LoopGuard | `NoEndlessNoop`: a request that changes nothing runs a bounded number of times in a row |
| BackgroundRuns | `SlotsAreHonest`: the count of slots is that of the runs, no process goes on unwatched, each run is answered once |
| DiagnosticsMode | `OneMode`: all checks of a session go one way |
| UndoHistory | `UndoRestores`, `FailedUndoChangesNothing`: as a whole or not at all |
| EditPlan, TextMatch | `TargetIsTheOne`: what is replaced is the only text that fits, but in the tiers of `CountedOtherwise`; `BatchIsSimultaneous`: all edits act on the text before |
| Hashline | `RelocationFollowsTheLines`: while the lines shown are still together within the window, a relocated edit lands on them |
| Transfer | `NothingLostInTransfer`: lines are kept, and a moved line exists once, but those in `Spoilt` |
| Formats | `PatchMeansItsChanges`: what a format writes down is read back, in spite of noise, but for the lists in `Misread` and what is added in the dress of a diff; `NothingLostUnsaid`: a codex patch that is accepted without a warning loses no line it adds or removes |
| PatchCall | `AppliedIsWhatWasAsked`, but for `Dropped` additions; `ChangesAreReported`: also by calls that fail |
| AtomicPatch | `SuccessIsWhole`: success means every operation took effect once, in the envelope's order or in the one the code's comment names |
| RepairLoop | `RepairIsSafe`: what is handed back differs from the candidate in layout and closing brackets only, and has passed; trying again is of no use |

### Bounds

* Three processes suffice for the lock file: a dead owner and two contenders is
  the smallest configuration of the reclaim race, and one kill, or one file its
  owner could not remove, makes the owner; any `rm` of an abandoned file may fail.
* `locks` has for several paths both kinds of neighbour (same process, other
  process) and a recovery scan, and requests `{1,2}` and `{2}`: one can hold what
  the other waits for, in either position. A circular wait needs two keys.
* `patch_*` use two paths, one of which exists at the start, so that scripts
  create, overwrite, remove and rename. Three transactions let one recover
  another and be recovered by the third; two deaths include a death during
  recovery. Kills and overlapping transactions together are the subject of
  `patch_everything` only, see section 5; only the path at which a process died with
  its lock is excepted there, and the others keep their exclusion.
* `lsp_session` has two calls on one document in four mixes, which are the pairs
  that meet: two checks, a check beside a restart, a request beside a shutdown,
  a restart beside a shutdown. Two configurations and two connections let a start
  fail and the next one succeed, or a server be replaced; more connections are
  never made by two calls that may not fail twice. One fault (exit, overflow or a
  request of the server) besides silence, refusal and failure to spawn, which are
  free.
* Undo: three paths, the third absent at first, scripts that create, remove,
  rename and write a file twice, one fault, and one undoer that restores again
  and again.
* Authority: three lines that may become four (`InitLines`, `MaxLines`), one read,
  two edits of up to two hunks, one foreign write; two edits let a grant carried
  over by the first be used by the second. Others may write at any stage, between an
  edit's write and the grant made of it too, and a repair may follow any edit.
* Planning: texts of one to three lines over an alphabet with indentation, a curly
  quote, a comment prefix and trailing blanks; requests of one or two operations of
  every kind, and longer texts in which the comment and the similarity tier find
  a text twice, or a ligature stands. Similarity has the code's 0.85 (in percent), and
  97 with a lead of 8 for a dominant match.
* Hashline: a window of 2 (5 in the code) around texts of up to three lines with up
  to two lines of drift, so that a line can leave the window. Two texts share a hash.
* Transfer: two files and a new one, batches of one or two transfers, blank lines,
  and lines that look like a patch's plus line.
* Formats: changes of two files in every format, pairs of them, updates of two
  hunks, four kinds of noise and none; and every sequence of four lines of eleven kinds.
* Patch calls: two files, a free path and a link to the first, requests of one or
  two intents, grants of every coverage, one foreign write and one failing call
  (`MaxForeignWrites`, `MaxCallFaults`). Text edits together with an Add File of the
  same path, and several edits that create one file, are among the requests.
* Atomic patches: one to three operations, two attempts (three in the code), two
  failing calls.
* Repair loop: texts of one to three lines, two attempts, one tracked file
  (`Tracked`, 200 in the code) of two, counts up to six, one change of the
  compiler's verdict.
* Previews: three files, previews of the first two and of the last two, so that one
  file is common to both, two requests, a cache of one entry with two previews, one
  death, one failure with any part of its rollback failing, one edit by others.
  Claims: three calls, a table of two, a time to live of two ticks in three. Guard:
  three requests, two runners, a limit of two, a table of two. Background: three
  runs for two slots. Probe: three checks.

The bounds of caches and counters are small so that a few steps reach and pass
them. Deadlock checking is off where behaviours end: transactions, restores, lock
sets and requests are finite in number.

### Fairness

`FileLock`: weak fairness of each live process's steps (its event loop runs) and
of its clock passing the deadline. `PathLocks`: weak fairness of each locker's
steps, its transaction's end included (which `TransactionEnds` shows), and none
of the timeouts, so that `NoDeadlock` is due to the order of the keys.
`LspSession`: one weak fairness condition on everything the event loop does by
itself, continuations and timers; nothing is required of a server. One condition
is enough because calls, starts and shutdowns take finitely many steps: the loop
runs out of things to do only when every call has ended.
`PatchTransaction`: weak fairness of each process's steps; kills, faults and
foreign edits are never required. `session_parts` states none: its properties
are safety properties.

## 4. What is proved

TLAPS checks, for every value of the constants allowed by the modules'
assumptions:

* **PathLocksProofs** `LocksTakenAtOnce`, that PathLocks implements LockTable, and
  `OneContender`. The inductive invariant has the types, that a lock file somebody
  will remove is its own, that whoever has a promise to resolve is first of its
  chain, and that recovery scans stay out of the chains. A step into "hold" is the
  abstract `Take`, because the file at a path has one owner. `NothingIsLeft`,
  whatever times out or fails, a lock file left by a scan that threw excepted:
  `Accounts` adds that every lock file is on its owner's list, that nobody at rest
  has a list, and that whoever is in a chain is there once, with a promise to
  resolve or its turn to await.
* **PatchTransactionProofs** `TypeCorrect`; `RollbackJournaled`: a rollback that
  failed leaves its prepared journal; `Isolated`: whoever is between the guard and
  the release of a transaction has the locks of its paths, but for paths at which a
  process died with its lock file: at the others the owner of a lock file is alive
  and nobody is about to unlink it (`LInv`). These hold with any number of
  overlapping transactions, deaths, failing calls and foreign edits. `IInv` adds to
  the types that a transaction beyond `Prepare` has a prepared journal until it has
  decided, that it stands at an operation of its script, and that recovery deals
  only with journals of the dead: without the last, a scan could delete the journal
  of a live transaction. The same module, further on: `OrphansNone` and
  `CleanStart`, two promises of crash recovery, for any number of transactions and
  files, scripts of any length and deaths anywhere, recovery included. Assumed are
  `Alone` (transactions follow each other, nobody edits without locks, and calls
  fail only before the first operation or at the commit mark) and `Once` (the
  operations of one script have no path in common, which rules out a group that
  edits and renames a file); section 5 says what happens without them. `RInv`
  relates the files to the journals. The bytes somebody wrote and has not committed
  are those its journal announces, and not those it would put back (`Backed`); a
  journal's paths hold one or the other (`Intact`); and what recovery has passed is
  nobody's (`Swept`). These are inductive only with where the running transaction
  stands: its snapshots (`Snapped`), its mutations (`Mine`, `Earlier`), the intents
  of its present operation (`Intended`), that there is one journal at most (`Pile`),
  and that no living process keeps a lock it does not use (`Locks`), without which
  recovery could time out and skip the journal. `Atomicity`, under the same
  assumptions: PatchTransaction implements AtomicStore. `AInv` adds that the
  operations behind a transaction have left what they say and nothing else has
  changed (`Performed`), and that beside a transaction that may have changed files
  lies no other journal (`Clear`). With it the mapping `Logical` equals `Settled`,
  which asks the writer of each path whether it has committed and needs no choice.
  Every step but the commit mark leaves `Settled` alone, and the mark turns the
  snapshots into what the operations make of them.
* **LspSessionProofs** `TypeCorrect`; `RequestsTimed`; `NoStray`; `DocumentsOwned`;
  `ServersInitialized`.
  `RequestsTimed` needs types only. For `NoStray`, `Serving` adds that a process
  that runs has an open connection, that what was shut down is down, that a start
  has the table to itself, and that whatever is in use has been spawned: otherwise
  closing an already closed connection could leave its process running. For
  `DocumentsOwned`, `Locked` adds that whoever uses a document is first of its
  lock, and `Empty` that a process not yet spawned has been shown nothing. Most
  steps neither start or stop a server (`Still`) nor show it anything (`Unseen`)
  nor change who uses it (`SameUsers`); the proof looks closely at the few that do.
  For `ServersInitialized`, `Answered` adds that a request is settled only by an
  answer to itself; the steps that neither ask for nor answer initialize are `Calm`.
* **SessionProofs** holds what is proved of the smaller modules, one after the
  other.
  - FileLock: `TypeCorrect`; `Exclusive`: until a process has been killed or has
    left its file behind the lock file is exclusive. By itself exclusion is not
    inductive: a release unlinks by name. `PairedInv` adds that the file at the path
    and the process past its `open` name each other, that nobody has seen a stale
    file, and that nobody is about to unlink one. `NothingLeaks`, with any number of
    kills: `CreatorBusy`, that the creator of the file at the path is at work or
    dead as long as nobody is `stuck`, holds although the file of another may be
    removed on the way.
  - `NoLoop`, `OneReport`, `Honest`, `SameMode`: the loop guard, the claims, the
    background runs, the diagnostics mode. `GuardInv`: the guard has counted a
    request it remembers exactly as often as it ran for nothing, and whoever is
    past the guard has room for one more futile run; without the second half the
    overlapping runners break the bound. `OwnerInv`: the claim of a call that may
    yet report is in the table unless it is older than its time to live or as many
    were made after it as the table holds. `RunsInv`: a run in the registry has not
    been answered for, so that it is settled by the first of the events that race
    and by no other. `ModeInv`: a check that waits for the probe waits for the one
    there is, and a check past it has its outcome.
  - `EnvelopeWhole`: an atomic patch that reports success has done each of its
    operations once, in the order of the envelope (and hence in one of the two the
    property allows), for envelopes of any length, any number of
    failing calls and attempts. `AtomicInv` says that while a patch is on its way the
    files are the outcome of the operations behind it, and what a call that has
    ended or rolls back can have come to. What the operations mean is a fold;
    `EnvelopeFolds` equates it with the last of a chain of outcomes (`Outcomes`), in
    which an operation that is applied is one link. `EnvelopesParsed` assumes that
    envelopes are sequences of operations as the parser makes them.
  - `OnceOrNever`: `RepairIsSafe` for any texts made of lines of tokens, whatever
    the tokens, and any limits. What a repair loop hands back has passed and has the
    body of the text it was given, and a loop that passes does so in its first
    attempt unless the files on disk change. `RepairInv` needs, for the last, that
    a text an attempt goes on from fails, and stays failing when repaired
    (`Hopeless`); `KeptInv` adds the body. That the repairs keep it
    (`RepairedKeeps`) compares four folds and is by induction over sequences:
    `SeqInduction` takes the claim as the set of what satisfies it, and `FoldOf` is
    a fold over an operation given as a function, with its two equations
    (`FoldOfAppend`). A fold of the library is equated with one of these for each
    operation (`SolidsFold`, `TokensFold`, `TidyFold`, `RemovedFold`); then lines and
    texts that follow one another have their tokens one after the other
    (`SolidsConcat`, `TokensConcat`), and the closers a repair adds or removes are
    after the last token that is none (`OpenedConcat`).
* **RefactorPreviewProofs** `BaseReplaced`: for any number of files and requests
  a write replaces the text the preview was planned from. `PreviewInv` adds that
  whoever is past `Begin` has the locks of its files, so that requests past it have
  no file in common, and that from `Verify` on the files not yet written are as the
  preview's base. It is the lock, not the cache, that makes this true: two requests
  may hold one preview.
* **AuthorityProofs** `OnlySeenIsGranted` and `OnlySeenIsReplaced`, for texts of any
  length. Half of the module is about what the model's operators compute: that
  `Narrowed` moves a range by the sum of the growth of the blocks before it,
  which telescopes along the chain of the lines both texts share (`PairsChain`,
  `Telescope`), so that a line the two texts share is granted after the edit only
  if it was granted before (`NarrowedIs`); that `Apply` keeps the order of the lines
  that stay and takes away only what its hunks name (`ApplyKeeps`); that a union of
  ranges grants no more than the ranges do (`MergeCovers`, `RecordedShown`).
  `SeenInv` has that all evidence there is, ingested or not, names lines that were
  seen or lapsed (`Known`), that the grant does not change while an edit is on its way
  (`Editing`), and that what an edit wrote is on disk until its evidence is taken
  (`Landed`); `Taken` adds that what an edit takes away, and all within reach of its
  repair, has been. Nothing is assumed about when others write, reads are ingested
  or repairs follow; `MaxReads`, `MaxEdits`, `MaxForeign` and the length of texts are
  arbitrary; an edit has one or two hunks, as in the model. A grant made of an edit is
  accounted for by what the edit wrote, or by `lapsed` when the file is no longer what
  was written (`Landed`); a repair stays in reach of the hunks, and what it takes
  beyond them has lapsed.
  `RelocatedToItsLines`, of Hashline, for files, windows, drift and edits of any
  size: a relocated edit lands on the lines whose rows were shown. `LinesInv` says
  only that the lines the model has numbered keep the text they were shown with
  until the edit (`LinesBeside`); the argument is about one edit: the rows compared
  are the landmarks (`ComparedAreLandmarks`), a shift that fits them is the drift
  (`LandsThere`), and the edit's range goes with them (`RebasedMeans`). Assumed is
  `FilesAreLines`, that files are sequences and the window is a number.
* **PatchCallProofs** `EveryChangeReported`: every file a call has changed when it
  ends is reported, also when it failed and could not restore a file, and an
  applied call reports what the files hold, for requests of any length, any files,
  links, grants and foreign writes. `CallInv` adds that the call knows what it
  changed last (`Known`), that it has reported what it knows, but for the rollback of
  a rename (`Reported`), that a report is ahead of the file only between the write
  and its rename (`Truthful`, `Departing`). It assumes one failing call at most
  (`OneFault`): section 5 says what happens with two.
* **UndoProofs** `UndoneWhole`: a restore that succeeds has put back what the files
  held before the transaction and nothing else, for transactions of any length,
  any number of edits, restores and failures. Assumed is `RenamesApart`, that the
  files of a rename occur in no other operation of its transaction; the run
  `undo_edit_and_rename` shows what happens otherwise. `UndoInv` relates three
  things: the records on disk say what the edit found and left, and count
  themselves (`Recording`), so that a restore that finds them complete has all of
  them (`Loaded`), and the files are as the records applied so far make them
  (`Progress`). `FailureChangesNothing`: a restore that reports failure has changed
  nothing unless its rollback failed too; `KeptInv` says that the files it may
  change are those whose snapshot it took. `OneFailureChangesNothing`: with one
  operation for each file, as the planner makes them (`OnePerFile`), and one failing
  call, the rollback never fails, because what starts a rollback has then been that
  call (`Blame`).

Only model-checked:

* Liveness (`AcquisitionEnds`, `NoDeadlock`, `TransactionEnds`, `CallsEnd`): it
  needs ENABLED, which is out of the prover's reach.
* `WholeRefactor`: previews over different files can undo parts of each other, and
  an argument has to follow every such chain. `patch_everything` and `patch_concurrent`
  do the same for ordinary transactions.
* `AllOrNothing` for transactions that overlap, or whose calls fail in the middle:
  `patch_concurrent`. The proof needs one journal at a time.
* `PatchMeansItsChanges` and `NothingLostUnsaid`: the parsers of Formats are a
  recursive operator, and a module that reaches one cannot be proved about.
* `TargetIsTheOne`, `BatchIsSimultaneous`, `NothingLostInTransfer` and
  `AppliedIsWhatWasAsked`: they compare what two algorithms compute, over sequences
  that are filtered and sorted. The library's induction rules take an operator as a
  parameter and cannot be instantiated, and its filters, sorts and folds cannot be
  reasoned about with an operator left open. Where a proof here had to reason
  about a fold, the induction was restated with the claim as a set
  (`SeqInduction`, `UpTo`), as the least counterexample in a set of numbers
  (`Least`), or as the equations a chosen function has to satisfy (`FoldOf`,
  `AfterIs`, `IteratedIs`, `EnvelopeFolds`), once for each operation that is folded;
  the same would have to be done for each fold, filter and sort of these modules.

Proving has also corrected models. A CASE whose arms overlap has no definite
value in TLA+, whatever TLC takes: `EnvelopeWhole` could not be proved until the
arms of `Effect` in AtomicPatch excluded each other, and the tables of Formats
were put in the order of the code's own if-chains for the same reason.

## 5. Seen while modelling

**Transactions.** With overlapping transactions *and* a death (`Overlap = TRUE`,
`MaxDeaths = 1`):

* Recovery overwrites what it should preserve, with three transactions. One that had
  scanned before another died commits to the same path; the next scan then reverts
  the committed bytes (`recovery-journal.ts:330-338`). The lock of a dead process is
  reclaimed in `begin` without its journal being looked at.
* `NoOrphanBytes` fails with two. The journal is read before its owner is found
  dead and is not read again (`recovery-journal.ts:280-289`), so an intent
  appended in between is unknown to recovery, which deletes the journal.

`recovery-journal.ts:18-19` promises that third-party drift is never overwritten. For
a path without intents it is (`recovery-journal.ts:335`): `preview_recovery` shows it
for a preview, and an edit by the user between a crash and the recovery fares no
better. No property of a passing run claims that drift survives.

`rm` of an abandoned lock file may fail, and the code takes it for removed
(`edit-transaction.ts:91,95,135`): where it fails for ever, that contender spins
without a sleep past its deadline. `AcquisitionEnds` excepts it.

After a failed write, `persistContentGroup` rolls back, and `outcome.committed =
true` (`group-application.ts:678`) makes `runPatchTransaction` skip its `finally`
block, the only place that deletes the journal after a rollback ("Delete it only
after a fully successful rollback", `transaction-runner.ts:288`) and that filters
the report: the journal stays although nothing is left to take back, and files that
were restored are reported as changed. The models do the same (`OpFails`, `Kept`). A
group that edits and renames one file and dies between the intents of the rename and
its link has its own edit taken for third-party drift, because only the last intent
of a path counts (`recovery-journal.ts:236-246`): the run
`edit_and_rename_recovery`; `undo_edit_and_rename` shows the same pair of operations
going wrong in the undo records. A transaction that removes a file and writes it
again gets one undo record, "delete", whose restore always fails because the file
exists.

**Patch calls.**

* A text edit and an Add File of one path: the added content is dropped silently
  (`group-planning.ts:608`; `Dropped` in `AppliedIsWhatWasAsked`). Several edits with an
  empty `oldText` of one new file compose in reverse order, and the property takes
  them so.
* With an `evidenceRef` a call cannot create files.
* With two failing calls a renamed file that could not be restored is not reported;
  a rename whose file is written, fails to be linked and fails to be rolled back is
  reported as removed while it holds the text; a write by another program between
  verification and rename is moved and reported with the planned content.
* Paths created under a symlinked directory: the filter after a failed rollback
  compares a resolved path with `canonicalPath`.

**Authority.**

* A repair after a pure deletion or insertion may touch an unedited, unobserved
  line: `decideRepairConfinement` gives a span of no length one line
  (`group-planning.ts:658-671`), although its comment (649-657) wants the preimage
  footprint.
* A write by another program between an edit's write and `buildMutationEvidence`'s
  read mints a grant for lines never observed (`extension/session.ts:122-159`), which
  149-150 are against. A read ingested in the same place makes narrowing shift ranges
  that are new already. This and the repairs are in the model: their lines are the
  ghost `lapsed`, the exception of both properties.
* The snapshot cache (`read-cache.ts`, `recordRead`) pairs the metadata of a later
  stat with an earlier content; it only warns.

**Matching.** The comment tier counts occurrences without stripping prefixes
(`edit-diff.ts`, about 597), and self-overlapping occurrences are one;
`mapStrippedToOriginal` (`match-comment.ts:118-133`) adds the indentation of a
commented line twice; an `oldText` of blanks makes `countOccurrences` loop for
ever; the exact tier in a scope looks at where a match starts only; a scoped
replaceAll that needs a laxer tier fails when an exact match stands after the
scope; with ligatures the Unicode tier replaces part of the text; in the relative
and comment tiers an `oldText` that ends in a line feed swallows the next line's
indentation or prefix; mixed line endings become the first line's.
Where a tier counts otherwise than it searches (comment, similarity, ligatures) the
code takes one of several texts that fit, although `edit-diff.ts:129` says that an
`oldText` must be unique: the cases are in the run, and `CountedOtherwise` excepts them.

**Hashline, transfer.** Interior lines of a range are never validated; the full
fuzzy fallback takes the first match, and an ambiguous relocation falls through to
it, although `docs/hashline-spec.md:506-513` says it is rejected; a deletion by a
fallback leaves an empty line. Transferred lines lose what looks like
a patch or hash prefix (`hashline-content.ts:75-107`), and one whose bare text stands at
the destination already is not inserted at all, so that moving it deletes it. Two
blocks for one new or empty file are glued together on one line
(`staging.ts:244-266`, `tool.ts:49`). These are in the model, as the exception `Spoilt`.
A blank line moved alone stays where it was, too (`hashline-apply.ts:138-142`: the
joined strings are equal).

**Formats.**

* openai_patch: an update-only patch of several files attributes all sections to
  the first (`openai-patch.ts:98-116`), ignores context lines (both `Misread`), and
  searches for a bare "@@" literally.
* atomic: Add File keeps "+" and "@@" (`atomic-patch.ts:260-285`; the example at
  `README.md:200-209` has "+"; the noise "dress"); the first unprefixed line of a
  hunk moves to its end, the others vanish, as do lines of an Update section outside
  a hunk; a malformed Rename swallows the next line.
* codex and atomic: a blank line after a hunk becomes empty context; trailing blank
  lines of an added file go; a "Move to" after hunks is lost with a warning; a
  context line that reads SEARCH or ======= routes the patch to search_replace.
* search_replace: blank lines at the edges of a block go, and a block with nothing
  else to search for fails (`Misread`); a lone "=======" in the text searched for
  splits early. Unified renames edit the new path without renaming.
* The executor: an update with "Move to" wants its target to exist, patches the
  target's text and deletes the source; operations run in the order of the envelope,
  while `atomic-patch.ts:477` says "Add, then Delete, then Update, then Rename"
  (`SuccessIsWhole` accepts either); after a success, its entry is the newest of the
  path and never fits, so that undo refuses that path from then on.
* The streaming parser marks hunks it throttles as emitted and never shows them.

**Verification.** Every failing attempt of a repair loop counts up to three
failures, in a table shared with native writes and reset at the start of a
session only: one failing edit reaches the three at which decomposition is
suggested. Compilers run on the file on disk, not on the candidate, so that a file
that did not compile before the edit can never pass. A validation that passes the
second time counts the attempt as failed. `finalValidation` is the failing one
even after a repair that passed.

**Others.** `diagnostics.ts:82` calls diagnostics confirmed that may belong to an
earlier text (91-92 say otherwise). `LSPManager.shutdown` does not wait for servers
that are still starting. The loop guard's message asks to read the file again,
which does not reset it. A claim is released early only when the event is an error. The
conflict detector's delta mode misreports; it has no caller.

## 6. Plan

Done: every component of section 1 that decides something has its module, the ones
with concurrency, and those that report what they did, their proofs. What would come
next, in this order:

1. `AppliedIsWhatWasAsked`, `NothingLostInTransfer` and `BatchIsSimultaneous` for
   requests of any length, along the lines of `EnvelopeFolds`; the first needs that
   a file is named in one way and not both edited and added.
2. `Atomicity` with failing calls in the middle, where the rollback itself may fail
   and a second journal stay behind.
3. `WholeRefactor` for any number of previews over any files: an invariant that says
   of each journal which texts its restore would bring back.
4. PatchCall with two calls over one PathLocks, and the preview's application as a
   second kind of transaction in PatchTransaction, so that recovery of one meets
   the other.

Runs stay small: two or three actors, two or three files or keys, one or two
faults, and at most a few minutes each.

## 7. Not modelled, and why

* Syntax trees: tree-sitter is a library, what it finds enters EditPlan as the
  ranges of symbols and patterns. The cache of parses and the incremental parse are
  exported and used by nothing in `src/src`, and nobody passes an old tree.
* Heuristic verifiers: pattern lists whose output is advisory text; no state
  depends on them. Those that can reject a group are `CheckFails` in PatchCall and
  `Reject` in PatchTransaction.
* Code without a caller: `mutation-queue.ts`, `conflict-detector.ts`, `clearUndoHistory`,
  `reset` of the SmartRead client, the streaming parser. `applyAtomicPatch` and
  `BackgroundRunRegistry` are exported and tested but not called yet either; they
  are modelled because they are exposed to interleavings and failures.
* The 100 ms after which the similarity search (`match-similarity.ts:118-132`) stops
  and keeps the best window it has seen: a wall clock has no place in a function of
  texts, so `TextMatch` says what the complete search finds.
* Wording, layout and rendering of messages and reports, arguments and their
  validation, registration with the host, language servers and compilers
  (external programs, modelled through what the code does with their answers).

The inventory names every directory; `PROJECT.json` "components" has the status of each.
