------------------------------ MODULE TextMatch ------------------------------
(***************************************************************************)
(* Finding the text an edit means and replacing it (core/edit-match.ts and *)
(* its match-*.ts parts, core/edit-diff.ts).  The text is looked for in    *)
(* six tiers, each laxer than the one before; a tier normalises both sides,*)
(* searches, and maps the place found back to the original text.           *)
(*                                                                         *)
(* A text is a sequence of characters; "s" is a space, "t" a tab, "n" a    *)
(* line feed, "/" a comment prefix (//, # or --, one character here), "q"  *)
(* an ASCII quote, "Q" a curly one, "L" a ligature that normalises to two  *)
(* letters, "." a line of three dots; everything else is a letter.         *)
(* Offsets count from 0, as they do in the code.                           *)
(***************************************************************************)
EXTENDS Mutations

CONSTANTS
  Threshold, DominantMin, DominantDelta,  \* similarity, in percent
  AllowFuzzy, Prose   \* fuzzyMatch setting; not a code file

Tiers == <<"exact", "indentation", "unicode", "comment", "similarity", "relative">>

IndexOf(t, u, from) ==
  LET S == {i \in from..(Len(t) - Len(u)) : Slice(t, i, i + Len(u)) = u}
  IN IF S = {} THEN -1 ELSE Min(S)
Includes(t, u) == IndexOf(t, u, 0) # -1

Blanks == {"s", "t"}
IndentLen(l) == Min({i \in 0..Len(l) : i = Len(l) \/ l[i + 1] \notin Blanks})
Indent(l) == SubSeq(l, 1, IndentLen(l))
Rest(l) == SubSeq(l, IndentLen(l) + 1, Len(l))
Trim(t) ==
  LET S == {i \in DOMAIN t : t[i] \notin Blanks \cup {"n"}}
  IN IF S = {} THEN <<>> ELSE SubSeq(t, Min(S), Max(S))
TrimEnd(t) ==
  LET S == {i \in DOMAIN t : t[i] \notin Blanks \cup {"n"}}
  IN IF S = {} THEN <<>> ELSE SubSeq(t, 1, Max(S))
EachLine(t, Op(_)) == Join([k \in DOMAIN Lines(t) |-> Op(Lines(t)[k])])
Letter(c) == c \notin Blanks \cup {"n", "/", "q", "Q", "."}
Repeat(c, n) == [i \in 1..n |-> c]

-----------------------------------------------------------------------------
(* The normal forms of the tiers. *)

(* detectIndentation, inferIndentWidth *)
Style(c) ==
  LET ls == ToSet(SelectSeq(Lines(c), LAMBDA l : Len(l) > 0))
      count(ch) == Len(SelectSeq(Lines(c), LAMBDA l : Len(l) > 0 /\ l[1] = ch))
      depths == {Cardinality({i \in 1..Len(l) : \A j \in 1..i : l[j] = "s"}) : l \in ls} \ {0}
      most(w) == 10 * Cardinality({d \in depths : d % w = 0}) > 6 * Cardinality(depths)
  IN IF count("t") > count("s") THEN [char |-> "t", width |-> 4]
     ELSE [char |-> "s",
           width |-> CASE depths = {} -> 2
                       [] depths # {} /\ most(4) /\ Min(depths) >= 4 -> 4
                       [] depths # {} /\ ~(most(4) /\ Min(depths) >= 4) /\ most(2) /\ Min(depths) >= 2 -> 2
                       [] OTHER -> Min(depths)]

Tabs(ws) == Cardinality({i \in DOMAIN ws : ws[i] = "t"})
Rounded(units, width) == (2 * units + width) \div (2 * width)
Level(ws, style) == Rounded(Tabs(ws) * style.width + Len(ws) - Tabs(ws), style.width)
MakeIndent(level, style) ==
  IF style.char = "t" THEN Repeat("t", level) ELSE Repeat("s", level * style.width)

(* normalizeIndentation *)
Reindented(t, style) == EachLine(t, LAMBDA l : MakeIndent(Level(Indent(l), style), style) \o Rest(l))

(* normalizeForFuzzyMatch: line by line, trailing blanks go. *)
Face(c) == IF c = "Q" THEN <<"q">> ELSE IF c = "L" THEN <<"f", "i">> ELSE <<c>>
Faces(l) == FoldLeft(LAMBDA t, c : t \o Face(c), <<>>, l)
Fuzzy(t) == EachLine(t, LAMBDA l : Faces(TrimEnd(l)))

(* detectCommentStyle: 60% of the first 20 lines with text. *)
Commented(c) ==
  LET full == SelectSeq(Lines(c), LAMBDA l : Trim(l) # <<>>)
      sample == SubSeq(full, 1, Min({20, Len(full)}))
      marked == SelectSeq(sample, LAMBDA l : Rest(l)[1] = "/")
  IN sample # <<>> /\ 10 * Len(marked) >= 6 * Len(sample)
Marked(l) == Rest(l) # <<>> /\ Rest(l)[1] = "/"
Uncommented(t) == EachLine(t, LAMBDA l : IF Marked(l) THEN Indent(l) \o Tail(Rest(l)) ELSE l)

StripIndent(t) == EachLine(t, Rest)

-----------------------------------------------------------------------------
(* Where a column of a normalised line is in the original line. *)

(* mapCharInLine: stops where one character became two. *)
FuzzyCol(l, col) == Min({col, Len(l)} \cup {i - 1 : i \in {j \in DOMAIN l : l[j] = "L"}})
(* mapStrippedToOriginal counts the indentation twice in a commented line. *)
CommentCol(l, col) == IF Marked(l) THEN IndentLen(l) + 1 + col ELSE col
(* mapStrippedIndexToOriginal *)
RelativeCol(l, col) == IndentLen(l) + col

Norm(tier, t) ==
  CASE tier = "unicode"  -> Fuzzy(t)
    [] tier = "comment"  -> Uncommented(t)
    [] tier = "relative" -> StripIndent(t)
Col(tier, l, col) ==
  CASE tier = "unicode"  -> FuzzyCol(l, col)
    [] tier = "comment"  -> CommentCol(l, col)
    [] tier = "relative" -> RelativeCol(l, col)

MapBack(tier, orig, norm, off) ==
  LET k == Max({i \in DOMAIN Lines(norm) : LineStart(Lines(norm), i) <= off})
  IN LineStart(Lines(orig), k) + Col(tier, Lines(orig)[k], off - LineStart(Lines(norm), k))

NoMatch == [tier |-> "none", at |-> -1, len |-> 0]
Match(tier, at, len) == [tier |-> tier, at |-> at, len |-> len]

(* A place in the normal form, mapped back, unless nothing is left of it. *)
Place(tier, s, e, from, to) ==
  IF to <= from \/ s + to > e THEN NoMatch ELSE Match(tier, s + from, to - from)
FoundAt(tier, window, norm, i, len, s, e) ==
  IF i = -1 THEN NoMatch
  ELSE Place(tier, s, e, MapBack(tier, window, norm, i), MapBack(tier, window, norm, i + len))
SearchedIn(tier, window, norm, wanted, s, e) ==
  FoundAt(tier, window, norm, IndexOf(norm, wanted, 0), Len(wanted), s, e)

(* tryUnicodeMatch, tryCommentPrefixMatch, tryStrippedIndentMatch *)
Mapped(tier, c, old, s, e) ==
  LET window == Slice(c, s, e)
  IN SearchedIn(tier, window, Norm(tier, window), Norm(tier, old), s, e)

-----------------------------------------------------------------------------
(* Similarity: windows of two lines more or fewer than the text wanted. *)

Distance(a, b) ==
  LET d[i \in 0..Len(a), j \in 0..Len(b)] ==
        IF i = 0 THEN j ELSE IF j = 0 THEN i
        ELSE Min({d[i - 1, j] + 1, d[i, j - 1] + 1, d[i - 1, j - 1] + IF a[i] = b[j] THEN 0 ELSE 1})
  IN d[Len(a), Len(b)]
Ratio(a, b) ==
  IF a = <<>> /\ b = <<>> THEN 100 ELSE 100 - (100 * Distance(a, b)) \div Max({Len(a), Len(b)})

(* computeSimilarityScore *)
Score(A, B) ==
  LET a == [i \in DOMAIN A |-> TrimEnd(A[i])]
      b == [i \in DOMAIN B |-> TrimEnd(B[i])]
      both == 1..Min({Len(a), Len(b)})
      all == Max({Len(a), Len(b)})
      unequal == {i \in both : a[i] # b[i]}
      extra == {i \in (1..all) \ both : (IF i <= Len(a) THEN a[i] ELSE b[i]) # <<>>}
      compared == Cardinality(unequal) + Cardinality(extra)
      chars == IF compared = 0 THEN 100
               ELSE MapThenSumSet(LAMBDA i : Ratio(a[i], b[i]), unequal) \div compared
  IN (60 * (Cardinality(both) - Cardinality(unequal))) \div all + (40 * chars) \div 100

Windows(ls, n) ==
  {w \in [size : Max({1, n - 2})..Min({n + 2, Len(ls)}), from : 1..Len(ls)] :
     w.from + w.size - 1 <= Len(ls)}
WindowScores(ls, old) ==
  [w \in Windows(ls, Len(old)) |-> Score(old, SubSeq(ls, w.from, w.from + w.size - 1))]
Earlier(v, w) == v.size < w.size \/ (v.size = w.size /\ v.from <= w.from)
Best(score) ==
  CHOOSE w \in DOMAIN score :
    \A v \in DOMAIN score : score[v] < score[w] \/ (score[v] = score[w] /\ Earlier(w, v))

(* scanSimilarityWindows, buildSimilarityResult: the first of the best. *)
WindowMatch(ls, w, score, s) ==
  IF score[w] < Threshold THEN NoMatch
  ELSE Match("similarity", s + LineStart(ls, w.from), Len(Join(SubSeq(ls, w.from, w.from + w.size - 1))))
SimilarIn(ls, score, s) == IF DOMAIN score = {} THEN NoMatch ELSE WindowMatch(ls, Best(score), score, s)
SimilarTo(ls, old, s) == SimilarIn(ls, WindowScores(ls, old), s)
Similar(c, old, s, e) ==
  IF Trim(old) = <<>> THEN NoMatch ELSE SimilarTo(Lines(Slice(c, s, e)), Lines(old), s)

(* isDominantFuzzyMatch *)
Dominant(best, second) == best >= DominantMin /\ best - second >= DominantDelta

(* countSimilarityOccurrences *)
TwoApart(good) ==
  LET first == CHOOSE w \in good : \A v \in good : Earlier(w, v)
  IN \E w \in good : w.from >= first.from + first.size \/ first.from >= w.from + w.size
AmbiguousScores(score, best) ==
  /\ TwoApart({w \in DOMAIN score : score[w] >= Threshold})
  /\ ~Dominant(score[best], Max({0} \cup {score[w] : w \in DOMAIN score \ {best}}))
AmbiguousBy(score) == AmbiguousScores(score, Best(score))
SimilarAmbiguous(c, old) == AmbiguousBy(WindowScores(Lines(c), Lines(old)))

-----------------------------------------------------------------------------
(* findTextWithTelemetry: the first tier that finds anything in [s, e). *)

TryExact(c, old, s, e) ==
  LET i == IndexOf(c, old, s) IN IF i = -1 \/ i >= e THEN NoMatch ELSE Match("exact", i, Len(old))

TryIndentation(c, old, style, s, e) ==
  LET u == Reindented(old, style)
      i == IndexOf(c, u, s)
  IN IF i = -1 \/ i + Len(u) > e THEN NoMatch ELSE Match("indentation", i, Len(u))

Try(tier, c, old, style, s, e) ==
  CASE tier = "exact"       -> TryExact(c, old, s, e)
    [] tier = "indentation" -> TryIndentation(c, old, style, s, e)
    [] tier = "similarity"  -> IF AllowFuzzy THEN Similar(c, old, s, e) ELSE NoMatch
    [] OTHER                -> IF \/ tier # "unicode" /\ Trim(old) = <<>>
                                  \/ tier = "comment" /\ ~Commented(c)
                               THEN NoMatch ELSE Mapped(tier, c, old, s, e)

Otherwise(m, next) == IF m # NoMatch THEN m ELSE next
FindText(c, old, style, s, e) ==
  LET from[k \in 1..7] ==
        IF k = 7 THEN NoMatch ELSE Otherwise(Try(Tiers[k], c, old, style, s, e), from[k + 1])
  IN from[1]

Rank(tier) == CHOOSE k \in DOMAIN Tiers : Tiers[k] = tier

(* findAllMatches: searches on without a scope, from place to place. *)
FindAll(c, old, style, tier, s, e) ==
  LET from[p \in 0..(Len(c) + 1)] ==
        LET andOn(m) ==
              IF m = NoMatch \/ m.at + m.len > e \/ m.at >= e THEN <<>>
              ELSE (IF Rank(m.tier) <= Rank(tier) THEN <<m>> ELSE <<>>)
                     \o from[IF m.len <= 0 THEN m.at + 1 ELSE m.at + m.len]
        IN IF p >= e THEN <<>> ELSE andOn(FindText(c, old, style, p, Len(c)))
  IN from[s]

-----------------------------------------------------------------------------
(* An edit: [old, new, all, scope]; scope is <<>> or a pair of offsets. *)

(* countOccurrences, for u # <<>>: one after the other, never overlapping. *)
Count(t, u) ==
  LET from[p \in 0..Len(t)] ==
        LET i == IndexOf(t, u, p) IN IF i = -1 THEN 0 ELSE 1 + from[i + Len(u)]
  IN from[0]

(* A mistake: curly quotes are not straightened before counting. *)
BugAmbiguous(tier, c, old) ==
  CASE tier = "unicode"    -> Count(c, old) > 1
    [] tier = "similarity" -> SimilarAmbiguous(c, old)
    [] OTHER               -> Count(StripIndent(c), StripIndent(old)) > 1

(* assertSingleMatchUnique, within the scope.  The comment tier is counted *)
(* with its comment prefixes.                                              *)
Ambiguous(tier, c, old) ==
  CASE tier = "unicode"    -> Count(Fuzzy(c), Fuzzy(old)) > 1
    [] tier = "similarity" -> SimilarAmbiguous(c, old)
    [] OTHER               -> Count(StripIndent(c), StripIndent(old)) > 1

(* Counting occurrences of the empty text never ends. *)
CountsForEver(tier, old) == tier \notin {"unicode", "similarity"} /\ StripIndent(old) = <<>>

(* stripEofContextAnchor *)
WithoutEofBlanks(c, d) ==
  LET n == Len(d.old)
      u == TrimEnd(d.old)
      blanks == n >= 2 /\ d.old[n] = "n" /\ d.old[n - 1] \in {"n", "s"}
      after == SubSeq(c, IndexOf(c, u, 0) + Len(u) + 1, Len(c))
  IN IF blanks /\ u # <<>> /\ ~Includes(c, d.old) /\ Includes(c, u) /\ Trim(after) = <<>>
     THEN [d EXCEPT !.old = u] ELSE d

(* extendDeletionWithTrailingNewline *)
WholeLineDeleted(c, d) ==
  IF d.new = <<>> /\ Last(d.old) # "n" /\ Includes(c, Append(d.old, "n"))
  THEN [d EXCEPT !.old = Append(@, "n")] ELSE d

(* materializeDotdotdots: each piece between dots occurs once, in order.   *)
PiecesBetween(t, ls, dots) ==
  LET piece(k) == LineStart(ls, dots[k] + 1) - (IF k = 1 THEN 0 ELSE 1)
      end(k) == IF k = Len(dots) - 1 THEN Len(t) ELSE LineStart(ls, dots[k + 1])
  IN [k \in 1..(Len(dots) - 1) |-> Slice(t, piece(k), end(k))]
Dotted(ls) ==
  SetToSortSeq({0, Len(ls) + 1} \cup {k \in DOMAIN ls : Trim(ls[k]) = <<".">>}, <)
Pieces(t) == PiecesBetween(t, Lines(t), Dotted(Lines(t)))
ElidedBy(c, d, olds, news) ==
  LET used == {k \in DOMAIN olds : Trim(olds[k]) # <<>>}
      prior(k) == {j \in used : j < k}
      at[k \in used] ==
        IndexOf(c, olds[k], IF prior(k) = {} THEN 0 ELSE at[Max(prior(k))] + Len(olds[Max(prior(k))]))
      once(places) == \A k \in used : places[k] # -1 /\ IndexOf(c, olds[k], places[k] + 1) = -1
      all(places) == Slice(c, places[Min(used)], places[Max(used)] + Len(olds[Max(used)]))
      filled(text, places, s) ==
        FoldLeft(LAMBDA t, k : Slice(t, 0, places[k] - s) \o news[k] \o Slice(t, places[k] - s + Len(olds[k]), Len(t)),
                 text, SetToSortSeq(used, >))
      elided(places) ==
        IF ~once(places) THEN d
        ELSE [d EXCEPT !.old = all(places), !.new = filled(all(places), places, places[Min(used)])]
  IN IF Len(olds) = 1 \/ Len(olds) # Len(news) \/ used = {} THEN d ELSE elided(at)
Elided(c, d) == ElidedBy(c, d, Pieces(d.old), Pieces(d.new))

Preprocessed(c, d) == Elided(c, WholeLineDeleted(c, WithoutEofBlanks(c, d)))

(* checkIdempotency: the new text stands where, or next to where, the old  *)
(* one would be.                                                           *)
AlreadyThere(c, d) ==
  LET o == Trim(d.old)
      w == Trim(d.new)
      i == IndexOf(c, o, 0)
  IN /\ o # <<>> /\ w # <<>> /\ i # -1
     /\ \/ o = w
        \/ i >= Len(w) /\ Slice(c, i - Len(w), i) = w
        \/ Slice(c, i + Len(o), i + Len(o) + Len(w)) = w

(* countIndentLevel: a tab counts as one character in a file of spaces. *)
IndentLevel(ws, style) ==
  IF style.char = "s" THEN Rounded(Len(ws), style.width)
  ELSE IF ws # <<>> /\ ws[1] = "t" THEN Len(ws) ELSE Level(ws, style)

(* adaptNewTextIndentation: all lines in the style of the file, the first  *)
(* as far from the line found as the new text is from the old one.         *)
Adapted(new, old, found, style) ==
  LET ind(t) == Indent(Lines(t)[1])
      delta == IF ind(old) = <<>> /\ ind(found) # <<>> THEN 0
               ELSE IndentLevel(ind(new), style) - IndentLevel(ind(old), style)
      level == Max({0, IndentLevel(ind(found), style) + delta})
      ls == Lines(Reindented(new, style))
  IN IF new = <<>> THEN new ELSE Join([ls EXCEPT ![1] = MakeIndent(level, style) \o Rest(@)])

(* preserveQuoteStyle *)
Curled(new, found) ==
  LET letter(i) == i \in DOMAIN new /\ Letter(new[i])
  IN IF ~Prose \/ "Q" \notin ToSet(found) THEN new
     ELSE [i \in DOMAIN new |-> IF new[i] = "q" /\ letter(i - 1) # letter(i + 1) THEN "Q" ELSE new[i]]

(* buildReplaceAllSpan, buildSingleMatchSpan *)
NewText(d, m, found, style) ==
  IF m.tier = "exact" THEN IF d.all THEN Curled(d.new, found) ELSE d.new
  ELSE Curled(Adapted(d.new, d.old, found, style), found)
SpanOf(c, d, n, style, m) ==
  [edit |-> n, at |-> m.at, len |-> m.len, tier |-> m.tier,
   new |-> NewText(d, m, Slice(c, m.at, m.at + m.len), style)]

(* What the first match m leads to: the matches to replace, or an error.   *)
Chosen(c, d, style, m, s, e) ==
  LET matches(ms) == [err |-> "none", found |-> ms]
      fails(why) == [err |-> why, found |-> {}]
      every(all) == IF all = <<>> THEN fails("not found") ELSE matches(ToSet(all))
  IN IF m = NoMatch
     THEN IF AlreadyThere(Slice(c, s, e), d) THEN matches({}) ELSE fails("not found")
     ELSE IF d.all THEN every(FindAll(c, d.old, style, m.tier, s, e))
     ELSE IF CountsForEver(m.tier, d.old) THEN fails("no answer")
     ELSE IF Ambiguous(m.tier, Slice(c, s, e), d.old) THEN fails("ambiguous")
     ELSE matches({m})

(* Spans of the n-th edit, or why there are none. *)
SpansOf(c, d, n, style, chosen) ==
  [err |-> chosen.err, spans |-> {SpanOf(c, d, n, style, x) : x \in chosen.found}]
LocatedIn(c, d, n, style, s, e) ==
  SpansOf(c, d, n, style, Chosen(c, d, style, FindText(c, d.old, style, s, e), s, e))
Located(c, d, n, style) ==
  LocatedIn(c, d, n, style, IF d.scope = <<>> THEN 0 ELSE d.scope[1],
            IF d.scope = <<>> THEN Len(c) ELSE d.scope[2])

(* validateNoOverlappingSpans *)
Overlap(spans) == \E x, y \in spans : x # y /\ x.at <= y.at /\ x.at + x.len > y.at

(* applySpansInReverse *)
Replaced(c, spans) ==
  FoldLeft(LAMBDA t, x : Slice(t, 0, x.at) \o x.new \o Slice(t, x.at + x.len, Len(t)),
           c, SetToSortSeq(spans, LAMBDA x, y : x.at > y.at))

(* applyEdits: the first edit that fails fails them all. *)
AppliedEdits(c, each, spans) ==
  LET bad == {n \in DOMAIN each : each[n].err # "none"}
      fails(why) == [err |-> why, text |-> c, spans |-> {}]
      done(text) == IF text = c THEN fails("no change") ELSE [err |-> "none", text |-> text, spans |-> spans]
  IN IF bad # {} THEN fails(each[Min(bad)].err)
     ELSE IF Overlap(spans) THEN fails("overlap")
     ELSE done(Replaced(c, spans))
AllSpans(c, each) == AppliedEdits(c, each, UNION {each[n].spans : n \in DOMAIN each})
EachLocated(c, edits, style) ==
  AllSpans(c, [n \in DOMAIN edits |-> Located(c, Preprocessed(c, edits[n]), n, style)])
ApplyEdits(c, edits) ==
  IF \E n \in DOMAIN edits : edits[n].old = <<>> THEN [err |-> "empty", text |-> c, spans |-> {}]
  ELSE EachLocated(c, edits, Style(c))

=============================================================================
