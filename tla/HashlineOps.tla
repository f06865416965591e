---------------------------- MODULE HashlineOps ----------------------------
(***************************************************************************)
(* Edits addressed by LINE+HASH tokens copied from a read (src/hashline/): *)
(* provenance, hash validation, relocation inside a window, the structural *)
(* check and the two searching fallbacks.  Lines are records [id, text],   *)
(* texts atoms; searching by characters is TextMatch's subject.            *)
(***************************************************************************)
EXTENDS Integers, Sequences, FiniteSets, SequencesExt

CONSTANTS
  HashOf,       \* the hash of a text; two texts may share one
  Structural,   \* texts without letters or digits: hashed by line number
  Heads,        \* texts that open a symbol, which lasts to the next head
  LooseOf,      \* what the laxer tiers compare instead of the text
  Blank,        \* the empty line
  Window        \* ANCHOR_REBASE_WINDOW

(* computeLineHashSync: a structural line's hash tells only its number.    *)
Hash(n, text) == IF text \in Structural THEN <<"line", n>> ELSE <<"text", HashOf[text]>>
Token(n, hash) == [line |-> n, hash |-> hash]
NoHash == <<"|">>                  \* the token "N|": hash not checked

-----------------------------------------------------------------------------
(* Content pasted from a read or a diff (hashline-content.ts): rows        *)
(* [mark, text, bare], the text and the text without its prefix.           *)

(* collectLinePrefixStats, stripNewLinePrefixes: prefixes are taken off    *)
(* when every line has one, or, for a diff's "+", half of them.            *)
Stripped(rows) ==
  LET real == {i \in DOMAIN rows : rows[i].mark # "notice" /\ rows[i].text # Blank}
      with(marks) == {i \in real : rows[i].mark \in marks}
      allHash == real # {} /\ with({"hash", "plus hash"}) = real
      plus == ~allHash /\ with({"plus hash"}) = {} /\ with({"plus"}) # {}
              /\ 2 * Cardinality(with({"plus"})) >= Cardinality(real)
      bare(r) == allHash \/ (plus /\ r.mark = "plus") \/ r.mark = "plus hash"
      kept == IF allHash \/ plus \/ with({"plus hash"}) # {}
              THEN SelectSeq(rows, LAMBDA r : r.mark # "notice") ELSE rows
  IN [i \in DOMAIN kept |-> [id |-> 0, text |-> IF bare(kept[i]) THEN kept[i].bare ELSE kept[i].text]]

-----------------------------------------------------------------------------
(* Provenance, validation, relocation.                                     *)

(* authoredAnchors, targetLines *)
Authored(e) ==
  CASE e.op = "replace_range" -> {e.pos} \cup (IF e.pos.line = e.end.line THEN {} ELSE {e.end})
    [] e.op \in {"append_at", "prepend_at"} -> {e.pos}
    [] OTHER -> {}
Target(e) == IF e.op = "replace_range" THEN e.pos.line..e.end.line ELSE {e.pos.line}

Emitted(s) == {Token(r.line, Hash(r.line, r.text)) : r \in s.rows}

(* checkHashlineSnapshotProvenance *)
Provenance(e, s) == s.anchors => Authored(e) \subseteq Emitted(s)

(* validateEditAnchors: a range's inner lines are compared with themselves,*)
(* and of two tokens for one line only the first is looked at.             *)
Valid(e, c) ==
  /\ Authored(e) # {} => \A n \in Target(e) : n \in DOMAIN c
  /\ \A t \in Authored(e) : t.hash \in {NoHash, Hash(t.line, c[t.line].text)}

RowAt(s, n) == {r \in s.rows : r.line = n}
SameThere(s, c, n, k) == \A r \in RowAt(s, n) : n + k \in DOMAIN c /\ c[n + k].text = r.text

(* matchesAtOffset, contextMatches: the lines themselves, and those of     *)
(* their two neighbours that were shown - at least one - at one distance.  *)
Shifts(e, s, c) ==
  LET from == e.pos.line
      to == IF e.op = "replace_range" THEN e.end.line ELSE from
      near == {n \in {from - 1, to + 1} : RowAt(s, n) # {}}
  IN {k \in (0 - Window)..Window :
        /\ k # 0 /\ near # {}
        /\ \A n \in from..to : RowAt(s, n) # {}
        /\ \A n \in (from..to) \cup near : SameThere(s, c, n, k)}

Moved(e, k) ==
  IF e.op = "replace_range"
  THEN [e EXCEPT !.pos.line = @ + k, !.end.line = @ + k]
  ELSE [e EXCEPT !.pos.line = @ + k]

(* A mistake: the nearest of several places is taken. *)
BugRecovered(e, s, c) ==
  IF ~s.anchors \/ Authored(e) = {} THEN {}
  ELSE {Moved(e, k) : k \in {x \in Shifts(e, s, c) : \A y \in Shifts(e, s, c) : x <= y}}

(* tryRecoverHashlineEdit: exactly one place, or none. *)
Recovered(e, s, c) ==
  IF ~s.anchors \/ Authored(e) = {} \/ Cardinality(Shifts(e, s, c)) # 1 THEN {}
  ELSE {Moved(e, k) : k \in Shifts(e, s, c)}

(* findEnclosingSymbols, as a line's last head. *)
Enclosing(texts, n) ==
  LET heads == {i \in 1..n : texts[i] \in Heads}
  IN IF heads = {} THEN {} ELSE {texts[CHOOSE i \in heads : \A j \in heads : j <= i]}

(* verifyHashlineStructuralRecovery, reconstructFullSnapshot: only when    *)
(* the whole file was shown and the lines were inside a symbol.            *)
StructureHolds(e, r, s, c) ==
  LET old == [n \in 1..Cardinality(s.rows) |-> (CHOOSE x \in s.rows : x.line = n).text]
      was == Enclosing(old, e.pos.line)
  IN s.partial \/ was = {} \/ Enclosing([i \in DOMAIN c |-> c[i].text], r.pos.line) = was

-----------------------------------------------------------------------------
(* Making the change (hashline-apply.ts, hashline-fallback.ts).            *)

TextsOf(ls) == [i \in DOMAIN ls |-> ls[i].text]
Splice(c, from, to, new) == SubSeq(c, 1, from - 1) \o new \o SubSeq(c, to + 1, Len(c))
HoldsAt(c, n, new) ==
  /\ n >= 1 /\ n + Len(new) - 1 <= Len(c)
  /\ TextsOf(SubSeq(c, n, n + Len(new) - 1)) = TextsOf(new)

(* The joined text of lines: one blank line and no line at all look alike. *)
Joined(ts) == IF ts = <<Blank>> THEN <<>> ELSE ts

(* applySingleEdit: lines that are there already are not added again, and  *)
(* a range whose joined text is the new one stays, so that one blank line  *)
(* is never deleted alone; an empty file is one blank line.                *)
AppliedLines(e, c) ==
  LET put(n) == IF e.new = <<>> THEN c ELSE Splice(c, n, n - 1, e.new)
  IN CASE e.op = "replace_range" ->
            IF Joined(TextsOf(SubSeq(c, e.pos.line, e.end.line))) = Joined(TextsOf(e.new)) THEN c
            ELSE Splice(c, e.pos.line, e.end.line, e.new)
       [] e.op = "append_at" -> IF HoldsAt(c, e.pos.line + 1, e.new) THEN c ELSE put(e.pos.line + 1)
       [] e.op = "prepend_at" ->
            IF HoldsAt(c, e.pos.line - Len(e.new), e.new) THEN c ELSE put(e.pos.line)
       [] e.op = "append_file" ->
            IF HoldsAt(c, Len(c) - Len(e.new) + 1, e.new) THEN c
            ELSE IF TextsOf(c) = <<Blank>> /\ e.new # <<>> THEN e.new ELSE put(Len(c) + 1)
       [] e.op = "prepend_file" -> IF HoldsAt(c, 1, e.new) THEN c ELSE put(1)

(* reconstructOldText: every line of the range must have been shown; an    *)
(* insertion's suffixed token is in no snapshot.                           *)
OldText(e, s) ==
  IF ~s.anchors \/ e.op # "replace_range" \/ ~({e.pos, e.end} \subseteq Emitted(s))
     \/ \E n \in e.pos.line..e.end.line : RowAt(s, n) = {}
  THEN <<>>
  ELSE [i \in 1..(e.end.line - e.pos.line + 1) |-> (CHOOSE r \in RowAt(s, e.pos.line + i - 1) : TRUE).text]

(* findText, whole lines: the first place of the first tier that has one.  *)
FirstPlace(c, old, scope) ==
  LET at(n) == [i \in 1..Len(old) |-> c[n + i - 1].text]
      all == {n \in scope : n + Len(old) - 1 \in scope}
      exact == {n \in all : at(n) = old}
      loose == {n \in all : \A i \in DOMAIN old : LooseOf[at(n)[i]] = LooseOf[old[i]]}
      best == IF exact # {} THEN exact ELSE loose
  IN {n \in best : \A m \in best : n <= m}

(* The lines of the symbol named in the request, when it is found once. *)
SymbolScope(c, head) ==
  LET at == {n \in DOMAIN c : c[n].text = head}
  IN IF Cardinality(at) # 1 THEN {}
     ELSE {n \in DOMAIN c : Enclosing(TextsOf(c), n) = {head}}

(* applyMatchInPlace: an empty replacement leaves an empty line. *)
InPlace(c, n, old, new) ==
  Splice(c, n, n + Len(old) - 1, IF new = <<>> THEN <<[id |-> 0, text |-> Blank]>> ELSE new)

Outcome(tier, from, to, c) == [tier |-> tier, at |-> <<from, to>>, lines |-> c]
Rejected(c) == Outcome("reject", 1, 0, c)
Direct(tier, e, c) ==
  Outcome(tier, IF Authored(e) = {} THEN 1 ELSE e.pos.line,
          IF e.op = "replace_range" THEN e.end.line ELSE 0, AppliedLines(e, c))

(* The two fallbacks of applyHashlinePath: within the symbol, then in the  *)
(* whole file, always the first place.                                     *)
Searched(e, s, c) ==
  LET old == OldText(e, s)
      scoped == IF e.sym = Blank THEN {} ELSE FirstPlace(c, old, SymbolScope(c, e.sym))
      anywhere == FirstPlace(c, old, DOMAIN c)
      hit(tier, at) == LET n == CHOOSE x \in at : TRUE
                       IN Outcome(tier, n, n + Len(old) - 1, InPlace(c, n, old, e.new))
  IN IF old = <<>> THEN Rejected(c)
     ELSE IF scoped # {} THEN hit("scoped", scoped)
     ELSE IF anywhere # {} THEN hit("fuzzy", anywhere)
     ELSE Rejected(c)

(* applyHashlinePath *)
Path(e, s, c) ==
  LET recovered == Recovered(e, s, c)
      r == CHOOSE x \in recovered : TRUE
  IN IF ~Provenance(e, s) THEN Rejected(c)
     ELSE IF Valid(e, c) THEN Direct("direct", e, c)
     ELSE IF recovered = {} THEN Searched(e, s, c)
     ELSE IF ~StructureHolds(e, r, s, c) THEN Rejected(c)
     ELSE Direct("rebased", r, c)

=============================================================================
