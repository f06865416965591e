--------------------------- MODULE EditAuthority ---------------------------
(***************************************************************************)
(* Which lines of a file the agent may replace.  SmartRead's results carry *)
(* evidence of what was shown; the session keeps the strongest grant per   *)
(* file (context/evidence-authority.ts), an edit is authorised against it  *)
(* (patch/group-planning.ts, context/patch-authorization.ts), and after an *)
(* edit the grant is carried over to the new text (extension/post-lanes.ts,*)
(* extension/session.ts), or renewed for a failed one (retry-evidence.ts). *)
(*                                                                         *)
(* One file.  A line is a number nobody else uses, so that a line is known *)
(* by its number wherever it moves; a hash is the content itself.          *)
(***************************************************************************)
EXTENDS Integers, Sequences, FiniteSets, FiniteSetsExt, SequencesExt

CONSTANTS
  InitLines,     \* lines of the file at the start
  MaxLines,      \* the file grows no longer than this
  MaxReads, MaxEdits, MaxForeign,  \* how often each happens
  MaxHunks       \* separate places one edit changes

Stages == {"idle", "planned", "repaired", "written", "deleted", "retrying"}

ASSUME AuthorityAssumption ==
  /\ InitLines \in Nat \ {0} /\ MaxLines \in Nat /\ InitLines <= MaxLines
  /\ MaxReads \in Nat /\ MaxEdits \in Nat /\ MaxForeign \in Nat
  /\ MaxHunks \in {1, 2}

VARIABLES
  disk,     \* the lines of the file; <<>> once deleted
  seen,     \* ghost: the lines the agent was shown or wrote itself
  lapsed,   \* ghost: the lines the code takes for seen that may not have been
  grant,    \* priorAuthorityStore: the entry of the file
  event,    \* evidence of a read whose result has not been ingested
  lastRead, \* what an evidenceRef is resolved to (resolve_evidence)
  call,     \* the edit in progress
  used      \* how many lines, reads, edits and foreign writes there were

vars == <<disk, seen, lapsed, grant, event, lastRead, call, used>>

None == [coverage |-> "none", ranges |-> {}, sha |-> <<>>]
Idle == [stage |-> "idle", base |-> <<>>, text |-> <<>>, full |-> FALSE,
         hunks |-> <<>>, hint |-> FALSE, windows |-> {}]

-----------------------------------------------------------------------------
(* Ranges of lines are pairs, both ends included. *)

Span(r) == r[1]..r[2]
Spans(R) == UNION {Span(r) : r \in R}
Within(r, a) == a[1] <= r[1] /\ r[2] <= a[2]

(* mergeLineRanges: the maximal runs of the lines covered. *)
Merge(R) ==
  LET S == Spans(R) IN
  {r \in S \X S : /\ r[1] <= r[2] /\ Span(r) \subseteq S
                  /\ r[1] - 1 \notin S /\ r[2] + 1 \notin S}

FullFile(text) == [coverage |-> "full-file", ranges |-> {<<1, Len(text)>>}, sha |-> text]
LineRange(R, text) == [coverage |-> "line-range", ranges |-> R, sha |-> text]

(* A mistake: ranges are added up without a look at the hash. *)
BugRecorded(g, r) ==
  IF r.coverage \notin {"full-file", "line-range"} THEN g
  ELSE IF g.coverage = "none" \/ r.coverage = "full-file" THEN r
  ELSE IF g.coverage = "full-file" THEN g
  ELSE [r EXCEPT !.ranges = Merge(g.ranges \cup r.ranges)]

(* store.record: weak evidence is ignored, another hash replaces the grant,*)
(* the same hash only ever widens it.                                      *)
Recorded(g, r) ==
  IF r.coverage \notin {"full-file", "line-range"} THEN g
  ELSE IF g.coverage = "none" \/ g.sha # r.sha THEN r
  ELSE IF g.coverage = "full-file" THEN g
  ELSE IF r.coverage = "full-file" THEN r
  ELSE [r EXCEPT !.ranges = Merge(g.ranges \cup r.ranges)]

(* A mistake: only the first line of a span is looked up. *)
BugCovers(g, R) ==
  CASE g.coverage = "full-file"  -> TRUE
    [] g.coverage = "line-range" -> \A r \in R : \E a \in g.ranges : a[1] <= r[1] /\ r[1] <= a[2]
    [] OTHER -> FALSE

(* checkResourceCoverage: each range inside one allowed range. *)
Covers(g, R) ==
  CASE g.coverage = "full-file"  -> TRUE
    [] g.coverage = "line-range" -> \A r \in R : \E a \in g.ranges : Within(r, a)
    [] OTHER -> FALSE

(* The hash is what replaced lines are compared with; validateResourceAuthority. *)
Authorizes(g, R, requireFull) ==
  /\ requireFull => g.coverage = "full-file"
  /\ Covers(g, R)

(* The lines a grant lets the agent replace. *)
Granted(g) ==
  LET lines == IF g.coverage = "full-file" THEN DOMAIN g.sha ELSE Spans(g.ranges)
  IN {g.sha[i] : i \in lines \cap DOMAIN g.sha}

-----------------------------------------------------------------------------
(* Two contents share the lines both have, in the same order; a block is   *)
(* what lies between two neighbouring shared lines, in old and new numbers *)
(* (generateDiffString, read back by parsePostEditDiff).                   *)
Blocks(old, new) ==
  LET at(s, l) == CHOOSE i \in DOMAIN s : s[i] = l
      pairs == {<<0, 0>>, <<Len(old) + 1, Len(new) + 1>>}
               \cup {<<at(old, l), at(new, l)>> : l \in ToSet(old) \cap ToSet(new)}
      next(p) == CHOOSE q \in pairs : q[1] > p[1] /\ \A r \in pairs : r[1] > p[1] => q[1] <= r[1]
      block(p) == [old |-> p[1] + 1, oldLen |-> next(p)[1] - p[1] - 1,
                   new |-> p[2] + 1, newLen |-> next(p)[2] - p[2] - 1]
  IN {b \in {block(p) : p \in {q \in pairs : q[1] <= Len(old)}} : b.oldLen + b.newLen > 0}

(* narrowPostEditRanges, mapPoint: where line x of the old text went. *)
MapPoint(B, x, isEnd) ==
  LET passed == {b \in B : IF b.oldLen > 0 THEN x >= b.old + b.oldLen ELSE x >= b.old}
      hit == {b \in B : x \in b.old..(b.old + b.oldLen - 1)}
  IN IF hit = {} THEN x + MapThenSumSet(LAMBDA b : b.newLen - b.oldLen, passed)
     ELSE LET b == CHOOSE b \in hit : TRUE IN IF isEnd THEN b.new + b.newLen - 1 ELSE b.new

(* narrowPostEditRanges: the prior ranges moved, and what the edit wrote. *)
Narrowed(R, B, lineCount) ==
  LET moved == {<<MapPoint(B, r[1], FALSE), MapPoint(B, r[2], TRUE)>> : r \in R}
      changed == {<<b.new, b.new + b.newLen - 1>> : b \in {c \in B : c.newLen > 0}}
      inside == {r \in moved \cup changed : r[1] <= r[2] /\ r[2] >= 1 /\ r[1] <= lineCount}
  IN Merge({<<Max({1, r[1]}), Min({lineCount, r[2]})>> : r \in inside})

-----------------------------------------------------------------------------
(* An edit: hunks in ascending order, each replacing `len` lines from line *)
(* `at` by `new` fresh lines (len = 0 inserts before `at`).                *)
HunkSet(n) == {h \in [at : 1..n, len : 0..2, new : 0..1] :
                 /\ h.len + h.new > 0 /\ h.at + h.len - 1 <= n}
Hunks(n) ==
  {<<h>> : h \in HunkSet(n)} \cup
  IF MaxHunks = 1 THEN {}
  ELSE {<<h, k>> : h \in HunkSet(n), k \in {x \in HunkSet(n) : x.len = 1}}
Disjoint(H) == \A i \in 1..(Len(H) - 1) : H[i].at + H[i].len < H[i + 1].at

Fresh(k) == [i \in 1..k |-> used.lines + i]

(* applyMutations: from the last hunk to the first, on the original text. *)
Apply(text, H) ==
  LET put(t, h, new) == SubSeq(t, 1, h.at - 1) \o new \o SubSeq(t, h.at + h.len, Len(t))
      first(t) == put(t, H[1], Fresh(H[1].new))
      total == H[Len(H)].new + IF Len(H) = 1 THEN 0 ELSE H[1].new
  IN IF Len(H) = 1 THEN first(text)
     ELSE first(put(text, H[2], SubSeq(Fresh(total), H[1].new + 1, total)))

NewLines(H) == H[1].new + IF Len(H) = 1 THEN 0 ELSE H[2].new

(* computePreimage / computePostimageLineRanges: a span of no length is the*)
(* line it stands before, in either text.                                  *)
LineSpan(start, len) == <<start, IF len = 0 THEN start ELSE start + len - 1>>
Preimage(H) == [i \in DOMAIN H |-> LineSpan(H[i].at, H[i].len)]
Postimage(H) ==
  [i \in DOMAIN H |->
     LineSpan(H[i].at + IF i = 1 THEN 0 ELSE H[1].new - H[1].len, H[i].new)]

(* mapRepairSpanToPreimage, for one line of the staged text. *)
MapLine(H, line) ==
  LET pre == Preimage(H)
      post == Postimage(H)
      in == {i \in DOMAIN H : line \in Span(post[i])}
      before == {i \in DOMAIN H : line > post[i][2]}
      grown(i) == (pre[i][2] - pre[i][1]) - (post[i][2] - post[i][1])
  IN IF in # {} THEN pre[Min(in)][1] ELSE line + MapThenSumSet(grown, before)

(* In one of its places the edit replaces nothing, or leaves nothing.      *)
EmptySpan(H) == \E i \in DOMAIN H : H[i].len = 0 \/ H[i].new = 0

(* decideRepairConfinement *)
Confined(H, r) ==
  \E i \in DOMAIN H : Within(<<MapLine(H, r[1]), MapLine(H, r[2])>>, Preimage(H)[i])

-----------------------------------------------------------------------------

Init ==
  /\ disk = [i \in 1..InitLines |-> i]
  /\ seen = {} /\ lapsed = {}
  /\ grant = None /\ event = None /\ lastRead = None
  /\ call = Idle
  /\ used = [lines |-> InitLines, reads |-> 0, edits |-> 0, foreign |-> 0]

(* SmartRead shows some of the file and attaches evidence to its result. *)
Read ==
  /\ call.stage = "idle" /\ event = None /\ disk # <<>> /\ used.reads < MaxReads
  /\ \E r \in {FullFile(disk), [None EXCEPT !.coverage = "metadata-only"]}
              \cup {LineRange({<<a, b>>}, disk) : a \in DOMAIN disk, b \in DOMAIN disk} :
       /\ r.coverage = "line-range" => \A x \in r.ranges : x[1] <= x[2]
       /\ event' = r /\ lastRead' = r
       /\ seen' = seen \cup Granted(r)
  /\ used' = [used EXCEPT !.reads = @ + 1]
  /\ UNCHANGED <<disk, lapsed, grant, call>>

(* ingestSmartReadEvidence: the tool_result event of the read. *)
ResultArrives ==
  /\ call.stage = "idle" /\ event # None
  /\ grant' = Recorded(grant, event)
  /\ event' = None
  /\ UNCHANGED <<disk, seen, lapsed, lastRead, call, used>>

(* session_start: the store is made anew and an old inspection has the     *)
(* identity of the old session.                                            *)
NewSession ==
  /\ call.stage = "idle" /\ grant # None /\ event = None
  /\ grant' = None /\ lastRead' = None
  /\ UNCHANGED <<disk, seen, lapsed, event, call, used>>

(* selectGroupAuthority: a prior grant wins over the evidenceRef; without  *)
(* either an existing file is refused (acquirePatchEnvelope).              *)
Authority == IF grant # None THEN grant ELSE lastRead

(* resolveAuthorizedGroupPreimage and planGroupMutation: the hash must be  *)
(* that of the file now, and each replaced span inside an allowed range.   *)
Plan ==
  /\ call.stage = "idle" /\ event = None /\ disk # <<>> /\ used.edits < MaxEdits
  /\ Authority # None /\ Authority.sha = disk
  /\ \E H \in Hunks(Len(disk)) :
       /\ Disjoint(H)
       /\ Authorizes(Authority, ToSet(Preimage(H)), FALSE)
       /\ Len(Apply(disk, H)) <= MaxLines
       /\ call' = [Idle EXCEPT !.stage = "planned", !.base = disk, !.text = Apply(disk, H),
                               !.full = (Authority.coverage = "full-file"), !.hunks = H]
       /\ used' = [used EXCEPT !.edits = @ + 1, !.lines = @ + NewLines(H)]
  /\ UNCHANGED <<disk, seen, lapsed, grant, event, lastRead>>

(* applyAuthorizedRepair: the repair loop replaced line k of the candidate *)
(* by a new line, which is taken only when it maps back into what the edit *)
(* replaced.  A span of no lines counts as one there, so after a pure      *)
(* insertion or deletion the line may be one the edit had left alone.      *)
Repair ==
  /\ call.stage = "planned"
  /\ \E k \in DOMAIN call.text :
       LET fresh == used.lines + 1 IN
       /\ call.full \/ Confined(call.hunks, <<k, k>>)
       /\ call' = [call EXCEPT !.stage = "repaired", !.text = [@ EXCEPT ![k] = fresh]]
       /\ used' = [used EXCEPT !.lines = fresh]
       /\ lapsed' = lapsed \cup IF ~call.full /\ EmptySpan(call.hunks) THEN {call.text[k]} ELSE {}
  /\ UNCHANGED <<disk, seen, grant, event, lastRead>>

(* recheckPrewriteFreshness, then the write through the transaction. *)
Write ==
  /\ call.stage \in {"planned", "repaired"}
  /\ IF disk = call.base
     THEN /\ disk' = call.text
          /\ seen' = seen \cup (ToSet(call.text) \ ToSet(call.base))
          /\ call' = [call EXCEPT !.stage = "written", !.hint = TRUE]
     ELSE call' = Idle /\ UNCHANGED <<disk, seen>>
  /\ UNCHANGED <<lapsed, grant, event, lastRead, used>>

(* runTopologyOnlyDelete: only a full-file grant for the current content. *)
Delete ==
  /\ call.stage = "idle" /\ event = None /\ disk # <<>> /\ used.edits < MaxEdits
  /\ Authorizes(Authority, {}, TRUE) /\ Authority.sha = disk
  /\ disk' = <<>>
  /\ call' = [Idle EXCEPT !.stage = "deleted", !.hint = TRUE]
  /\ used' = [used EXCEPT !.edits = @ + 1]
  /\ UNCHANGED <<seen, lapsed, grant, event, lastRead>>

(* The host's write tool: all of the file at once, no authority asked. *)
NativeWrite ==
  /\ call.stage = "idle" /\ event = None /\ used.edits < MaxEdits
  /\ disk' = Fresh(2)
  /\ seen' = seen \cup ToSet(disk')
  /\ call' = [Idle EXCEPT !.stage = "written", !.text = disk']
  /\ used' = [used EXCEPT !.edits = @ + 1, !.lines = @ + 2]
  /\ UNCHANGED <<lapsed, grant, event, lastRead>>

(* handleEditSuccessResult, handleWriteResult: buildMutationEvidence reads *)
(* the file, narrows a line-range grant along the diff shown, or claims the*)
(* whole file; a missing file or an empty narrowing mints nothing.  The    *)
(* file is read anew and taken for what the edit left, also when somebody  *)
(* else has written it since.                                              *)
Mint ==
  /\ call.stage \in {"written", "deleted"}
  /\ LET narrowed == Narrowed(grant.ranges, Blocks(call.base, call.text), Len(disk)) IN
     grant' = IF disk = <<>> THEN grant
              ELSE IF ~(call.hint /\ grant.coverage = "line-range") THEN Recorded(grant, FullFile(disk))
              ELSE IF narrowed = {} THEN grant
              ELSE Recorded(grant, LineRange(narrowed, disk))
  /\ lapsed' = lapsed \cup IF disk # call.text THEN Granted(grant') ELSE {}
  /\ call' = Idle
  /\ UNCHANGED <<disk, seen, event, lastRead, used>>

(* checkRetryEligibility, collectRetryWindows, authorizeRetryWindows: an   *)
(* edit found no match; windows of five lines round the place, cut down to *)
(* what the grant allows.                                                  *)
RetryBegins ==
  /\ call.stage = "idle" /\ event = None /\ disk # <<>> /\ used.reads < MaxReads
  /\ grant.coverage \in {"full-file", "line-range"} /\ grant.sha = disk
  /\ \E at \in DOMAIN disk :
       LET window == <<Max({1, at - 2}), Min({Len(disk), at + 2})>>
           cut == IF grant.coverage = "full-file" THEN {window}
                  ELSE {r \in {<<Max({window[1], a[1]}), Min({window[2], a[2]})>> : a \in grant.ranges} :
                          r[1] <= r[2]}
       IN cut # {} /\ call' = [Idle EXCEPT !.stage = "retrying", !.base = disk, !.windows = cut]
  /\ used' = [used EXCEPT !.reads = @ + 1]
  /\ UNCHANGED <<disk, seen, lapsed, grant, event, lastRead>>

(* mintRetryEvidenceFromSelection: read again, and only the same content   *)
(* is shown and recorded.                                                  *)
RetryEnds ==
  /\ call.stage = "retrying"
  /\ IF disk = call.base
     THEN LET r == LineRange(call.windows, disk) IN
          grant' = Recorded(grant, r) /\ seen' = seen \cup Granted(r)
     ELSE UNCHANGED <<grant, seen>>
  /\ call' = Idle
  /\ UNCHANGED <<disk, lapsed, event, lastRead, used>>

(* Another program replaces or inserts a line, or makes the file again.    *)
Foreign ==
  /\ used.foreign < MaxForeign
  /\ LET fresh == used.lines + 1 IN
     /\ \/ \E k \in DOMAIN disk : disk' = [disk EXCEPT ![k] = fresh]
        \/ \E k \in DOMAIN disk : Len(disk) < MaxLines /\ disk' = InsertAt(disk, k, fresh)
        \/ disk = <<>> /\ disk' = <<fresh>>
     /\ used' = [used EXCEPT !.foreign = @ + 1, !.lines = fresh]
  /\ UNCHANGED <<seen, lapsed, grant, event, lastRead, call>>

Next == \/ Read \/ ResultArrives \/ NewSession \/ Plan \/ Repair \/ Write \/ Delete
        \/ NativeWrite \/ Mint \/ RetryBegins \/ RetryEnds \/ Foreign

Spec == Init /\ [][Next]_vars

-----------------------------------------------------------------------------
(* Properties. *)

(* While the content is the one a grant was recorded for, the grant names  *)
(* only lines the agent was shown or wrote: carrying a grant through an    *)
(* edit neither slides onto a neighbouring line nor widens over a gap (the *)
(* shifts in narrowPostEditRanges, the rules of store.record).  Excepted   *)
(* are the lines of a file that somebody else wrote between an edit and    *)
(* the reading of its evidence: buildMutationEvidence (session.ts:122-159) *)
(* narrows the grant to, or claims the whole of, whatever it finds there,  *)
(* though session.ts:149-150 is against "authorizing lines it never        *)
(* observed".                                                              *)
AuthorityObserved == grant.sha = disk => Granted(grant) \subseteq seen \cup lapsed

(* An edit or a deletion, together with the repair it took along, takes    *)
(* away only lines the agent was shown or wrote, whatever others did to    *)
(* the file between planning and writing (the two freshness checks, the    *)
(* spans authorised, the confinement of a repair).  Excepted are the lines *)
(* a grant names wrongly, as above, and a line that a repair replaced      *)
(* after a pure insertion or deletion: its span of no lines is given one   *)
(* (group-planning.ts:658-671, edit-planner's byteSpanToLineRange), so the *)
(* line behind it passes for the edit's own, against the footprint the     *)
(* comment at group-planning.ts:649-657 asks for.                          *)
OnlyObservedReplaced ==
  [][(call'.hint /\ ~call.hint) => ToSet(disk) \ ToSet(disk') \subseteq seen \cup lapsed]_vars

=============================================================================
