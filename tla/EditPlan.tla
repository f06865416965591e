------------------------------ MODULE EditPlan ------------------------------
(***************************************************************************)
(* Planning the edits of one file (core/edit-planner.ts): every operation  *)
(* is resolved against the same text - by searching (TextMatch), by symbol,*)
(* by pattern or by hashline - and all changes are then made together.     *)
(* A symbol is a line here, a pattern a character, a hashline a line range *)
(* to be replaced; syntax trees and ast-grep are outside this module.      *)
(***************************************************************************)
EXTENDS TextMatch

CONSTANTS
  Files,     \* texts a file may have: sets of [bom, ends, text]
  Requests   \* sequences of operations [kind, old, new, all, lines, sym]

VARIABLES
  file,      \* the file, [bom, ends, text]
  last       \* ghost: the last plan, [before, ops, plan]

pvars == <<file, last>>

NoPlan == [before |-> <<>>, ops |-> <<>>, plan |-> [ok |-> FALSE]]

SymbolicOps == {"replaceBody", "insertBefore", "insertAfter"}
Of(ops, kinds) == {i \in DOMAIN ops : ops[i].kind \in kinds}

(* lineRangeToScope, lineRangeToByteRange: the line feed belongs to the    *)
(* line; <<>> when the range is not one of the file.                       *)
ScopeOfLines(c, ls, r) ==
  LET feed == IF r[2] < Len(ls) \/ (c # <<>> /\ Last(c) = "n") THEN 1 ELSE 0
  IN IF r[1] < 1 \/ r[2] < r[1] \/ r[2] > Len(ls) THEN <<>>
     ELSE <<LineStart(ls, r[1]), LineStart(ls, r[2]) + Len(ls[r[2]]) + feed>>
LineScope(c, r) == ScopeOfLines(c, Lines(c), r)

(* resolveAnchorToScope, findSymbolNode: the node of the symbol. *)
NodeOf(ls, k) ==
  IF k \notin DOMAIN ls \/ ls[k] = <<>> THEN <<>>
  ELSE <<LineStart(ls, k), LineStart(ls, k) + Len(ls[k])>>
Node(c, k) == NodeOf(Lines(c), k)

(* resolveEditScope, intersectScopes: a scope given and not found, or two  *)
(* that do not meet, is an error and never the whole file.                 *)
Meeting(given) ==
  LET meet == <<Max({s[1] : s \in given}), Min({s[2] : s \in given})>>
  IN IF given = {} THEN [ok |-> TRUE, scope |-> <<>>]
     ELSE IF <<>> \in given \/ (Cardinality(given) = 2 /\ meet[1] >= meet[2])
     THEN [ok |-> FALSE, scope |-> <<>>]
     ELSE [ok |-> TRUE, scope |-> meet]
Scope(c, op) ==
  Meeting((IF op.sym = 0 THEN {} ELSE {Node(c, op.sym)})
            \cup (IF op.lines = <<>> THEN {} ELSE {LineScope(c, op.lines)}))
InScope(s, from, to) == s = <<>> \/ (s[1] <= from /\ to <= s[2])

Planned(ok, M) == [ok |-> ok, muts |-> M]

(* collectTextMutations: a batch without effect is an error only when it   *)
(* is alone.                                                               *)
TextBatch(c, ops) ==
  LET idx == SetToSortSeq(Of(ops, {"text"}), <)
      edit(i) == [old |-> ops[i].old, new |-> ops[i].new, all |-> ops[i].all,
                  scope |-> Scope(c, ops[i]).scope]
      batch(r) == IF r.err = "no change" /\ Len(idx) < Len(ops) THEN Planned(TRUE, {})
                  ELSE Planned(r.err = "none",
                               {Mutation(x.at, x.at + x.len, x.new, idx[x.edit]) : x \in r.spans})
  IN IF idx = <<>> THEN Planned(TRUE, {})
     ELSE batch(ApplyEdits(c, [k \in DOMAIN idx |-> edit(idx[k])]))

(* resolveSymbolicMutation, symbolicSpanOf: replaces the whole node, or    *)
(* inserts at one of its ends; within the scope.                           *)
SymbolicOp(c, ops, i) ==
  LET node == Node(c, ops[i].sym)
      from == IF ops[i].kind = "insertAfter" THEN node[2] ELSE node[1]
      to == IF ops[i].kind = "replaceBody" THEN node[2] ELSE from
  IN IF node = <<>> THEN Planned(FALSE, {})
     ELSE Planned(InScope(Scope(c, ops[i]).scope, from, to), {Mutation(from, to, ops[i].new, i)})

(* collectOneStructuralMutation, filterStructuralToScope: all matches      *)
(* inside the scope, at least one.                                         *)
StructuralOp(c, ops, i) ==
  LET at == {p \in 0..(Len(c) - 1) : c[p + 1] = ops[i].old[1]}
      in == {p \in at : InScope(Scope(c, ops[i]).scope, p, p + 1)}
  IN Planned(in # {}, {Mutation(p, p + 1, ops[i].new, i) : p \in in})

(* collectOneHashlineMutation: nothing changed is no mutation. *)
HashlineOp(c, ops, i) ==
  LET s == LineScope(c, ops[i].lines)
      m == ChangedSpan(c, Slice(c, 0, s[1]) \o ops[i].new \o Slice(c, s[2], Len(c)), i)
  IN IF s = <<>> THEN Planned(FALSE, {})
     ELSE IF m.from = m.to /\ m.new = <<>> THEN Planned(TRUE, {})
     ELSE Planned(InScope(Scope(c, ops[i]).scope, m.from, m.to), {m})

Resolved(c, ops, i) ==
  CASE ops[i].kind \in SymbolicOps  -> SymbolicOp(c, ops, i)
    [] ops[i].kind = "structural"   -> StructuralOp(c, ops, i)
    [] ops[i].kind = "hashline"     -> HashlineOp(c, ops, i)

PreimageRanges(c, M) == {LinesOf(c, m.from, m.to - m.from) : m \in M}

(* computePostimageLineRanges: shifted by what the changes before it add. *)
PostimageRanges(c, M) ==
  LET before(m) == {x \in M : x.from < m.from \/ (x.from = m.from /\ x.req < m.req)}
      start(m) == m.from + MapThenSumSet(LAMBDA x : Len(x.new) - (x.to - x.from), before(m))
  IN {LinesOf(Applied(c, M), start(m), Len(m.new)) : m \in M}

(* planTextEdits, finalizePlan; restoreLineEndings goes by the first line  *)
(* end of the file.                                                        *)
Finished(f, M, text) ==
  IF text = f.text THEN [ok |-> FALSE]
  ELSE [ok |-> TRUE, muts |-> M,
        file |-> [bom |-> f.bom, text |-> text,
                  ends |-> IF f.ends \in {"crlf", "crlf first"} THEN "crlf" ELSE "lf"],
        pre |-> PreimageRanges(f.text, M), post |-> PostimageRanges(f.text, M)]
Combined(f, each, M) ==
  IF (\A b \in each : b.ok) /\ Disjoint(M) /\ InsertsApart(M)
  THEN Finished(f, M, Applied(f.text, M)) ELSE [ok |-> FALSE]
AllOf(f, each) == Combined(f, each, UNION {b.muts : b \in each})
Plan(f, ops) ==
  IF \E i \in DOMAIN ops : ~Scope(f.text, ops[i]).ok THEN [ok |-> FALSE]
  ELSE AllOf(f, {TextBatch(f.text, ops)} \cup {Resolved(f.text, ops, i) : i \in DOMAIN ops \ Of(ops, {"text"})})

-----------------------------------------------------------------------------

PlanInit == file = [bom |-> FALSE, ends |-> "lf", text |-> <<>>] /\ last = NoPlan

Open == /\ file.text = <<>> /\ last = NoPlan
        /\ file' \in Files
        /\ UNCHANGED last

Edit(ops) ==
  /\ file.text # <<>> /\ last = NoPlan
  /\ last' = [before |-> file, ops |-> ops, plan |-> Plan(file, ops)]
  /\ file' = IF last'.plan.ok THEN last'.plan.file ELSE file

PlanNext == Open \/ \E ops \in Requests : Edit(ops)

-----------------------------------------------------------------------------
(* Properties. *)

(* Every stretch of text, other than `used`, that a tier takes for u.      *)
Normal(tier, style, t) ==
  CASE tier = "exact"       -> t
    [] tier = "indentation" -> t
    [] tier = "unicode"     -> Fuzzy(t)
    [] tier = "relative"    -> StripIndent(t)
Wanted(tier, style, old) ==
  IF tier = "indentation" THEN Reindented(old, style) ELSE Normal(tier, style, old)
Elsewhere(c, tier, style, old, used, s, e) ==
  \E a \in s..e, b \in s..e :
    /\ a < b /\ \A x \in used : b <= x.at \/ x.at + x.len <= a
    /\ Normal(tier, style, Slice(c, a, b)) = Wanted(tier, style, old)

(* The engine's view of a text-only request. *)
TextOf(c, op) == [old |-> op.old, new |-> op.new, all |-> op.all, scope |-> Scope(c, op).scope]

SearchedFrom(d) == IF d.scope = <<>> THEN 0 ELSE d.scope[1]
SearchedTo(c, d) == IF d.scope = <<>> THEN Len(c) ELSE Min({Len(c), d.scope[2]})
IsTheOne(c, d, style, used, x) ==
  /\ Normal(x.tier, style, Slice(c, x.at, x.at + x.len)) = Wanted(x.tier, style, d.old)
  /\ ~Elsewhere(c, x.tier, style, d.old, used, SearchedFrom(d), SearchedTo(c, d))

(* Where the code counts otherwise than it searches: the comment tier is   *)
(* counted with its prefixes (edit-diff.ts:587-598, assertExactTierUnique),*)
(* so that the first of several is taken; of similar texts the best one is *)
(* (561-577); and a ligature is mapped back to a part of the text          *)
(* (mapCharInLine).                                                        *)
CountedOtherwise(c, x) ==
  \/ x.tier \in {"comment", "similarity"}
  \/ x.tier = "unicode" /\ "L" \in ToSet(c)

FoundRight(c, d, style, used) ==
  \A x \in used : CountedOtherwise(c, x) \/ IsTheOne(c, d, style, used, x)

(* edit-diff.ts:129: "Each oldText must be unique".  What an accepted edit *)
(* replaces is the text it asked for, up to what its tier ignores, mapped  *)
(* back without sliding; and nothing else it may search, outside the place *)
(* replaced, is such a text - with replaceAll, all of them are replaced.   *)
(* But for the matches that are counted otherwise than they are found:     *)
(* there the code takes one of several.                                    *)
TargetIsTheOne ==
  last.plan.ok => \A i \in Of(last.ops, {"text"}) :
    LET c == last.before.text
        d == Preprocessed(c, TextOf(c, last.ops[i]))
    IN FoundRight(c, d, Style(c), Located(c, d, 1, Style(c)).spans)

(* Position by position: what is inserted there in the order asked for,    *)
(* then the replacement that starts there or the character that stays.     *)
Reference(c, M) ==
  LET at(p) == {m \in M : m.from = p}
      inserted(p) == FoldLeft(LAMBDA t, m : t \o m.new, <<>>,
                              SetToSortSeq({m \in at(p) : m.to = p}, LAMBDA x, y : x.req < y.req))
      replaced(p) == {m \in at(p) : m.to > p}
      gone(p) == \E m \in M : m.from <= p /\ p < m.to
      here(p) == inserted(p) \o (IF replaced(p) = {} THEN <<>> ELSE (CHOOSE m \in replaced(p) : TRUE).new)
                             \o (IF gone(p) \/ p = Len(c) THEN <<>> ELSE <<c[p + 1]>>)
  IN FoldLeft(LAMBDA t, p : t \o here(p), <<>>, [k \in 1..(Len(c) + 1) |-> k - 1])

(* The operations of a request, whichever way each is resolved, take       *)
(* effect together on the text the agent read: no change moves or spoils   *)
(* another, and listing the operations the other way round gives the same  *)
(* text, but for insertions at one place, which keep the order asked for.  *)
BatchIsSimultaneous ==
  LET M == last.plan.muts
      twoHere == \E x, y \in M : x # y /\ x.from = y.from
      same(plan) == plan.ok /\ plan.file.text = last.plan.file.text
  IN last.plan.ok =>
       /\ last.plan.file.text = Reference(last.before.text, M)
       /\ twoHere \/ same(Plan(last.before, Reverse(last.ops)))

=============================================================================
