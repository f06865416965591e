------------------------------- MODULE Formats -------------------------------
(***************************************************************************)
(* Raw patches and the edit intents they are read as                       *)
(* (formats/edit-intents.ts and the parsers it chooses among).  A patch is *)
(* a sequence of lines [is, text, to]: a marker with its path, a line with *)
(* the sign " ", "-" or "+", or a line with no sign ("bare").  Spelling is *)
(* left out (case, blanks inside a marker, quotes around a path); a text   *)
(* that equals the name of a marker looks like that marker.                *)
(***************************************************************************)
EXTENDS Sequences, Naturals, SequencesExt, FiniteSets

CONSTANTS
  DefaultPath,                         \* the path of the call, for patches that name none
  Null,                                \* /dev/null
  ChangeLists,                         \* what the authors of the patches mean
  Noises,                              \* how sloppily they write it
  Scraps                               \* sequences of lines nobody meant anything by

VARIABLES meant, lines, read
fvars == <<meant, lines, read>>

Line(is, text) == [is |-> is, text |-> text, to |-> ""]
Signs == {" ", "-", "+"}
Markers == {"begin", "beginAtomic", "end", "add", "delete", "update", "move", "rename", "broken rename", "stars"}
Raw(l) == IF l.is \in Signs THEN l.is \o l.text ELSE l.text
IsBlank(l) == l.text = "" /\ l.is \in Signs \cup {"bare"}
Intent(kind, path, to, old, new) == [kind |-> kind, path |-> path, to |-> to, old |-> old, new |-> new]

Map(s, Op(_)) == [i \in DOMAIN s |-> Op(s[i])]
TextsOf(s, signs) == LET Has(l) == l.is \in signs
                         Text(l) == l.text
                     IN Map(SelectSeq(s, Has), Text)

RECURSIVE WithoutLastBlanks(_)
WithoutLastBlanks(s) == IF s # <<>> /\ Last(s) = "" THEN WithoutLastBlanks(Front(s)) ELSE s
WithoutBlankEdges(s) == Reverse(WithoutLastBlanks(Reverse(WithoutLastBlanks(s))))

(* The lines of a file that ends in a newline. *)
Ended(s) == IF s = <<>> THEN <<>> ELSE Append(s, "")

(* What a line looks like to the detector, which trims it, and whether it   *)
(* mentions a marker anywhere.                                             *)
Face(l) == IF l.is \in {" ", "bare"} THEN l.text ELSE l.is
Mentions(l, marks) == l.is \in marks \/ l.text \in marks

Detect(ls) ==
  LET faces == {Face(l) : l \in ToSet(ls)}
      first == SelectInSeq(ls, LAMBDA l : ~IsBlank(l))
  IN IF {"search", "sep", "replace"} \subseteq faces THEN "search_replace"
     ELSE IF "beginAtomic" \in faces THEN "atomic_patch"
     ELSE IF "begin" \in faces THEN
            IF \E l \in ToSet(ls) : Mentions(l, {"add", "delete", "move"}) THEN "codex_patch" ELSE "openai_patch"
     ELSE IF first # 0 /\ Face(ls[first]) \in {"from", "to"} /\ \E l \in ToSet(ls) : Mentions(l, {"hunk"}) THEN "unified_diff"
     ELSE "raw_edits"

(***************************************************************************)
(* The two grammars of sections, "codex" and "atomic".  The cursor stands  *)
(* in the preamble, between sections, in a section or in a hunk, and       *)
(* consumes one line at a time.                                            *)
(***************************************************************************)
Sides(h) == [old |-> TextsOf(h, {" ", "-"}), new |-> TextsOf(h, {" ", "+"})]

Contextual(l) == IF l.is \in Signs THEN l ELSE Line(" ", l.text)
HasSign(l) == l.is \in Signs \/ IsBlank(l)

BugCodexChunk(hunk) ==
  LET old == TextsOf(hunk, {" "}) \o TextsOf(hunk, {"-"})
      new == TextsOf(hunk, {" "}) \o TextsOf(hunk, {"+"})
  IN IF TextsOf(hunk, {"-", "+"}) = <<>> THEN <<>> ELSE <<[old |-> old, new |-> new]>>

(* Nothing for a hunk that changes nothing.                                *)
CodexChunk(hunk) ==
  LET signed == Map(SelectSeq(hunk, HasSign), Contextual)
  IN IF TextsOf(signed, {"-", "+"}) = <<>> THEN <<>> ELSE <<Sides(signed)>>

(* The atomic grammar keeps the first line without a sign, but behind the  *)
(* others, and drops the hunk only when nothing is left.                   *)
AtomicChunk(hunk) ==
  LET Loose(l) == ~HasSign(l)
      loose == Map(SelectSeq(hunk, Loose), Contextual)
      signed == Map(SelectSeq(hunk, HasSign), Contextual)
      all == IF loose = <<>> THEN signed ELSE Append(signed, loose[1])
  IN IF all = <<>> THEN <<>> ELSE <<Sides(all)>>

Section(l) == [is |-> l.is, path |-> l.text, to |-> l.to, lines |-> <<>>, chunks |-> <<>>]
Start(grammar) == [at |-> IF grammar = "codex_patch" THEN "preamble" ELSE "sections",
                   done |-> <<>>, hunk |-> <<>>, warned |-> FALSE]
Changed(c, f, v) == [c EXCEPT !.done[Len(c.done)][f] = v]
Lasting(c) == c.done[Len(c.done)]

(* The end of a hunk, which the codex grammar warns of when it is empty. *)
EndHunk(grammar, c) ==
  IF c.at # "hunk" THEN c
  ELSE LET chunk == IF grammar = "codex_patch" THEN CodexChunk(c.hunk) ELSE AtomicChunk(c.hunk)
       IN [Changed(c, "chunks", Lasting(c).chunks \o chunk) EXCEPT
             !.hunk = <<>>, !.at = "update", !.warned = @ \/ (grammar = "codex_patch" /\ chunk = <<>>)]

(* A marker ends whatever it meets; after one that is not understood the    *)
(* lines up to the next are skipped with a warning.                        *)
Skipped(c) == [c EXCEPT !.at = "sections", !.warned = TRUE]
CodexMarker(c, l) ==
  CASE l.is = "end" -> [c EXCEPT !.at = "end"]
    [] l.is = "add" -> [c EXCEPT !.done = Append(@, Section(l)), !.at = "add"]
    [] l.is = "delete" -> [c EXCEPT !.done = Append(@, Section(l)), !.at = "sections"]
    [] l.is = "update" -> [c EXCEPT !.done = Append(@, Section(l)), !.at = "head"]
    [] l.is = "move" /\ c.at = "head" -> [Changed(c, "to", l.text) EXCEPT !.at = "update"]
    [] OTHER -> Skipped(c)

(* Beyond these the atomic grammar has renames; one that is no rename takes *)
(* the next line with it.                                                  *)
AtomicMarker(c, l) ==
  CASE l.is = "rename" -> [c EXCEPT !.done = Append(@, Section(l)), !.at = "sections"]
    [] l.is = "broken rename" -> [Skipped(c) EXCEPT !.at = "skip"]
    [] l.is = "beginAtomic" -> [c EXCEPT !.at = "sections"]
    [] OTHER -> CodexMarker(c, l)

IsHunk(c, l) == c.at \in {"head", "update", "hunk"} /\ l.is = "hunk"
AddLine(c, t) == Changed(c, "lines", Append(Lasting(c).lines, t))

BugCodexLine(c, l) ==
  IF c.at = "add" THEN AddLine(c, IF l.is = "+" THEN l.text ELSE Raw(l))
  ELSE IF IsHunk(c, l) THEN [EndHunk("codex_patch", c) EXCEPT !.at = "hunk"]
  ELSE IF c.at = "hunk" THEN [c EXCEPT !.hunk = Append(@, l)]
  ELSE IF c.at \in {"head", "update"} /\ ~IsBlank(l) THEN [c EXCEPT !.at = "update"]
  ELSE IF c.at = "sections" /\ ~IsBlank(l) THEN [c EXCEPT !.warned = TRUE]
  ELSE c

CodexLine(c, l) ==
  IF c.at = "add" THEN AddLine(c, IF l.is = "+" THEN l.text ELSE Raw(l))
  ELSE IF IsHunk(c, l) THEN [EndHunk("codex_patch", c) EXCEPT !.at = "hunk"]
  ELSE IF c.at = "hunk" THEN [c EXCEPT !.hunk = Append(@, l),
                                                !.warned = @ \/ (l.is \notin Signs \cup {"no newline"} /\ ~IsBlank(l))]
  ELSE IF c.at \in {"head", "update"} /\ ~IsBlank(l) THEN [c EXCEPT !.at = "update", !.warned = TRUE]
  ELSE IF c.at = "sections" /\ ~IsBlank(l) THEN [c EXCEPT !.warned = TRUE]
  ELSE c

(* The atomic grammar keeps the signs of added lines and drops what stands  *)
(* between hunks without a word.                                           *)
AtomicLine(c, l) ==
  IF c.at = "add" THEN AddLine(c, Raw(l))
  ELSE IF IsHunk(c, l) THEN [EndHunk("atomic_patch", c) EXCEPT !.at = "hunk"]
  ELSE IF c.at = "hunk" THEN [c EXCEPT !.hunk = Append(@, l)]
  ELSE IF c.at \in {"head", "update"} /\ ~IsBlank(l) THEN [c EXCEPT !.at = "update"]
  ELSE IF c.at = "sections" /\ ~IsBlank(l) THEN [c EXCEPT !.warned = TRUE]
  ELSE c

Marker(grammar, c, l) == IF grammar = "codex_patch" THEN CodexMarker(c, l) ELSE AtomicMarker(c, l)
Consume(grammar, c, l) ==
  CASE c.at = "end" -> c
    [] c.at = "skip" -> [c EXCEPT !.at = "sections"]
    [] c.at = "preamble" -> IF l.is = "begin" THEN [c EXCEPT !.at = "sections"] ELSE [c EXCEPT !.warned = TRUE]
    [] OTHER -> IF l.is \in Markers THEN Marker(grammar, EndHunk(grammar, c), l)
                ELSE IF grammar = "codex_patch" THEN CodexLine(c, l) ELSE AtomicLine(c, l)

Closed(c) == [c EXCEPT !.warned = @ \/ (c.at \notin {"end", "preamble"} /\ c.done # <<>>)]
Parsed(grammar, ls) ==
  Closed(EndHunk(grammar, FoldLeft(LAMBDA c, l : Consume(grammar, c, l), Start(grammar), ls)))

SectionIntents(s) ==
  LET AsText(k) == Intent("text", s.path, "", k.old, k.new)
  IN CASE s.is = "add" -> <<Intent("add", s.path, "", <<>>, Ended(WithoutLastBlanks(s.lines)))>>
       [] s.is = "delete" -> <<Intent("delete", s.path, "", <<>>, <<>>)>>
       [] s.is = "rename" -> <<Intent("rename", s.path, s.to, <<>>, <<>>)>>
       [] s.is = "update" ->
            Map(s.chunks, AsText) \o IF s.to = "" THEN <<>> ELSE <<Intent("rename", s.path, s.to, <<>>, <<>>)>>

(***************************************************************************)
(* The openai format, read from one begin marker to the next end: every    *)
(* section starts at a hunk header, whose text opens both sides, keeps the *)
(* removed and the added lines, and belongs to the first file named.       *)
(***************************************************************************)
OpenAi(ls) ==
  LET ends(b) == {e \in b + 1..Len(ls) : ls[e].is = "end"}
      begins == {b \in DOMAIN ls : ls[b].is = "begin" /\ \A a \in 1..b - 1 :
                   ls[a].is = "begin" => \E e \in ends(a) : e < b}
      stop(b) == IF ends(b) = {} THEN Len(ls) + 1 ELSE CHOOSE e \in ends(b) : \A f \in ends(b) : e <= f
      headers(b) == {h \in b..stop(b) - 1 : ls[h].is = "hunk"}
      plain(b) == {h \in b..stop(b) - 1 : ls[h].is \in {" ", "bare"} /\ ~IsBlank(ls[h])}
      anchors(b) == IF headers(b) # {} THEN headers(b)
                    ELSE {h \in plain(b) : \A g \in plain(b) : h <= g}
      files(b) == SelectSeq(SubSeq(ls, b, stop(b) - 1), LAMBDA l : l.is = "update")
      path(b) == IF files(b) = <<>> THEN DefaultPath ELSE files(b)[1].text
      next(b, h) == CHOOSE n \in h + 1..stop(b) :
                      /\ n = stop(b) \/ n \in anchors(b)
                      /\ \A g \in anchors(b) : g > h => n <= g
      anchor(h) == Raw(ls[h])
      section(b, h) == LET body == SubSeq(ls, h + 1, next(b, h) - 1)
                       IN Intent("text", path(b), "", <<anchor(h)>> \o TextsOf(body, {"-"}), <<anchor(h)>> \o TextsOf(body, {"+"}))
      envelope(b) == LET at == SetToSortSeq(anchors(b), <) IN [i \in DOMAIN at |-> section(b, at[i])]
  IN FlattenSeq(LET at == SetToSortSeq(begins, <) IN [i \in DOMAIN at |-> envelope(at[i])])

(* A diff by files and hunks, as the library returns it; what a file of it  *)
(* means.                                                                  *)
Files(ls) ==
  FoldLeft(LAMBDA fs, l :
             IF l.is = "from" THEN Append(fs, [from |-> l.text, to |-> "", hunks |-> <<>>])
             ELSE IF fs = <<>> THEN fs
             ELSE IF l.is = "to" THEN [fs EXCEPT ![Len(fs)].to = l.text]
             ELSE IF l.is = "hunk" THEN [fs EXCEPT ![Len(fs)].hunks = Append(@, <<>>)]
             ELSE IF Last(fs).hunks = <<>> THEN fs
             ELSE [fs EXCEPT ![Len(fs)].hunks[Len(Last(fs).hunks)] = Append(@, l)],
           <<>>, ls)

FileIntents(f) ==
  LET AsContext(l) == IF l.is = "bare" THEN Line(" ", l.text) ELSE l
      Edited(h) == LET s == Sides(Map(h, AsContext))
                   IN IF s.old = s.new THEN <<>> ELSE <<Intent("text", f.to, "", s.old, s.new)>>
      body == FlattenSeq(f.hunks)
      added == TextsOf(body, {"+"})
      LastOf(kinds) == SelectLastInSeq(body, LAMBDA l : l.is \in kinds)
      open == LastOf({"no newline"}) > LastOf({"+"})
  IN CASE f.from = Null /\ f.to # Null ->
            <<Intent("add", f.to, "", <<>>, IF open THEN added ELSE Ended(added))>>
       [] f.to = Null /\ f.from # Null -> <<Intent("delete", f.from, "", <<>>, <<>>)>>
       [] OTHER -> FlattenSeq(Map(f.hunks, Edited))

(* Blocks of a search and its replacement; the last line before a block is  *)
(* its file when it looks like a file name.  An unfinished block or an      *)
(* empty search fails the whole patch.                                     *)
Blocks(ls) ==
  FoldLeft(LAMBDA b, l :
             IF b.at = "out" /\ l.is = "search" THEN [b EXCEPT !.at = "old", !.old = <<>>, !.new = <<>>]
             ELSE IF b.at = "out" THEN IF IsBlank(l) THEN b ELSE [b EXCEPT !.path = IF l.is = "name" THEN l.text ELSE DefaultPath]
             ELSE IF b.at = "old" /\ l.is = "sep" THEN [b EXCEPT !.at = "new"]
             ELSE IF b.at = "old" THEN [b EXCEPT !.old = Append(@, Raw(l))]
             ELSE IF b.at = "new" /\ l.is = "replace" THEN
                    LET old == WithoutBlankEdges(b.old)
                    IN [b EXCEPT !.at = "out", !.path = DefaultPath, !.failed = @ \/ old = <<>>,
                          !.intents = Append(@, Intent("text", b.path, "", old, WithoutBlankEdges(b.new)))]
             ELSE [b EXCEPT !.new = Append(@, Raw(l))],
           [at |-> "out", path |-> DefaultPath, old |-> <<>>, new |-> <<>>, intents |-> <<>>, failed |-> FALSE], ls)

(* JSON with defects: every strategy mends some of them, and none builds on *)
(* what another has mended.                                                *)
Cures == {{}, {"trailing comma"}, {"no brackets"}, {"code fence"}, {"code fence", "prose around"},
          {"newline in a string"}, {"unclosed"}}
Repaired(defects) == \E cure \in Cures : defects \subseteq cure

(* normalizeRawEdit: any failure of a parser empties the list, and an empty *)
(* list is a failure.                                                      *)
Outcome(intents, warned) == [intents |-> intents, warned |-> warned, failed |-> intents = <<>>]

SectionsOutcome(c) == Outcome(FlattenSeq(Map(c.done, SectionIntents)), c.warned)
Normalized(ls) ==
  LET grammar == Detect(ls)
  IN CASE grammar \in {"codex_patch", "atomic_patch"} -> SectionsOutcome(Parsed(grammar, ls))
       [] grammar = "openai_patch" -> Outcome(OpenAi(ls), FALSE)
       [] grammar = "unified_diff" -> Outcome(FlattenSeq(Map(Files(ls), FileIntents)), FALSE)
       [] grammar = "search_replace" ->
            LET b == Blocks(ls) IN Outcome(IF b.at # "out" \/ b.failed THEN <<>> ELSE b.intents, FALSE)
       [] OTHER ->
            LET json == {l \in ToSet(ls) : l.is = "json"}
            IN Outcome(IF \E l \in json : Repaired(l.to) THEN (CHOOSE l \in json : TRUE).text ELSE <<>>, FALSE)

(***************************************************************************)
(* The specification of the formats: how a list of changes is written.     *)
(***************************************************************************)
Cat(s, Op(_)) == FlattenSeq(Map(s, Op))
Both(a, b, t) == [is |-> a, text |-> b, to |-> t]
Hunk(h) == <<Line("hunk", "@@")>> \o h
Body(c, sign) == Map(c.lines, LAMBDA t : Line(sign, t))

InSections(c, addSign, sloppy) ==
  CASE c.kind = "add" -> <<Line("add", c.path)>> \o Body(c, addSign)
    [] c.kind = "delete" -> <<Line("delete", c.path)>> \o IF sloppy THEN <<Line("bare", "")>> ELSE <<>>
    [] c.kind = "rename" -> <<Both("rename", c.path, c.to)>>
    [] c.kind = "update" -> <<Line("update", c.path)>> \o (IF c.to = "" THEN <<>> ELSE <<Line("move", c.to)>>)
                            \o (IF sloppy THEN <<Line("bare", "junk")>> ELSE <<>>) \o Cat(c.hunks, Hunk)

InDiff(c) ==
  LET ends == CASE c.kind = "add" -> <<Null, c.path>> [] c.kind = "delete" -> <<c.path, Null>> [] OTHER -> <<c.path, c.path>>
  IN <<Line("from", ends[1]), Line("to", ends[2])>>
     \o IF c.kind = "update" THEN Cat(c.hunks, Hunk) ELSE Hunk(Body(c, IF c.kind = "add" THEN "+" ELSE "-"))

InBlocks(c) ==
  LET Plain(t) == Line("bare", t)
      Block(h) == <<Line("name", c.path), Line("search", "")>> \o Map(Sides(h).old, Plain) \o <<Line("sep", "")>>
                  \o Map(Sides(h).new, Plain) \o <<Line("replace", "")>>
  IN Cat(c.hunks, Block)

Anchored(h) == IF h[1].is = " " /\ h[1].text # "" THEN <<Line("hunk", h[1].text)>> \o Tail(h) ELSE Hunk(h)

(* The dress of a diff, as in the example at README.md:200-209.            *)
InDress(c) ==
  CASE c.kind = "add" -> <<Line("add", c.path)>> \o Hunk(Body(c, "+"))
    [] c.kind = "update" -> InSections([c EXCEPT !.hunks = <<>>], "+", FALSE)
                            \o <<Line("-", "-- " \o c.path), Line("+", "++ " \o c.path)>> \o Cat(c.hunks, Hunk)
    [] OTHER -> InSections(c, "+", FALSE)

Enveloped(begin, body, noise) ==
  (IF noise = "preamble" THEN <<Line("bare", "junk")>> ELSE <<>>) \o <<Line(begin, "")>> \o body
  \o IF noise = "no end" THEN <<>> ELSE <<Line("end", "")>>

Written(format, cs, noise) ==
  CASE format = "codex_patch" -> Enveloped("begin", Cat(cs, LAMBDA c : InSections(c, "+", noise = "junk")), noise)
    [] format = "atomic_patch" ->
         Enveloped("beginAtomic", Cat(cs, LAMBDA c : IF noise = "dress" THEN InDress(c) ELSE InSections(c, "bare", noise = "junk")), noise)
    [] format = "openai_patch" ->
         Enveloped("begin", Cat(cs, LAMBDA c : <<Line("update", c.path)>> \o Cat(c.hunks, Anchored)), noise)
    [] format = "unified_diff" -> Cat(cs, InDiff)
    [] format = "search_replace" -> Cat(cs, InBlocks)

Kinds(cs) == {c.kind : c \in ToSet(cs)}
Moves(cs) == \E c \in ToSet(cs) : c.kind = "update" /\ c.to # ""
HunksOf(cs) == UNION {IF c.kind = "update" THEN ToSet(c.hunks) ELSE {} : c \in ToSet(cs)}

(* What each format has words for. *)
CanSay(format, cs) ==
  CASE format = "codex_patch" -> "rename" \notin Kinds(cs)
    [] format = "atomic_patch" -> TRUE
    [] format = "openai_patch" -> Kinds(cs) = {"update"} /\ ~Moves(cs)
    [] format = "unified_diff" -> "rename" \notin Kinds(cs) /\ ~Moves(cs) /\ \A c \in ToSet(cs) : c.kind = "add" => c.lines # <<>>
    [] format = "search_replace" -> Kinds(cs) = {"update"} /\ ~Moves(cs)

(* Where the parsers read something else.  An update-only patch is openai's*)
(* (format-detector.ts:72-86): all of it belongs to the first file named   *)
(* (openai-patch.ts:98-102) and its context lines but the anchor are left  *)
(* out (openai-patch.ts:223-230).  Search and replace drops blank lines at *)
(* the edges of a block (search-replace.ts:151-156), and fails on a block  *)
(* with nothing else to search for (114-116).                              *)
Simple(cs) ==
  /\ Len(cs) = 1
  /\ \A h \in HunksOf(cs) : Len(h) > 1 /\ h[1].is = " " /\ h[1].text # "" /\ \A i \in 2..Len(h) : h[i].is # " "
Trimmed(t) == WithoutBlankEdges(t) = t
Misread(format, cs) ==
  CASE format = "codex_patch" -> Kinds(cs) \cap {"add", "delete"} = {} /\ ~Moves(cs)
    [] format = "openai_patch" -> ~Simple(cs)
    [] format = "search_replace" ->
         \E h \in HunksOf(cs) : Sides(h).old = <<>> \/ ~Trimmed(Sides(h).old) \/ ~Trimmed(Sides(h).new)
    [] OTHER -> FALSE

IntentsOf(c) ==
  LET Edited(h) == Intent("text", c.path, "", Sides(h).old, Sides(h).new)
  IN CASE c.kind = "add" -> <<Intent("add", c.path, "", <<>>, Ended(c.lines))>>
       [] c.kind = "delete" -> <<Intent("delete", c.path, "", <<>>, <<>>)>>
       [] c.kind = "rename" -> <<Intent("rename", c.path, c.to, <<>>, <<>>)>>
       [] c.kind = "update" ->
            Map(c.hunks, Edited) \o IF c.to = "" THEN <<>> ELSE <<Intent("rename", c.path, c.to, <<>>, <<>>)>>

AllFormats == {"codex_patch", "atomic_patch", "openai_patch", "unified_diff", "search_replace"}
Nobody == [format |-> "none", changes |-> <<>>, noise |-> "none"]
Unread == Outcome(<<>>, FALSE)

FormatsInit ==
  /\ \/ \E format \in AllFormats, cs \in ChangeLists, noise \in Noises :
          /\ CanSay(format, cs) /\ (noise = "dress" => format = "atomic_patch")
          /\ meant = [format |-> format, changes |-> cs, noise |-> noise]
          /\ lines = Written(format, cs, noise)
     \/ meant = Nobody /\ lines \in Scraps
  /\ read = Unread

ReadPatch == /\ read = Unread
             /\ read' = Normalized(lines)
             /\ UNCHANGED <<meant, lines>>

FormatsNext == ReadPatch

(* What an author meant by an Add File section in the dress of a diff is   *)
(* lost: the parser keeps its header and its signs as content              *)
(* (atomic-patch.ts:260-285), though README.md:200-209 writes one.         *)
ButAdds(is) == Map(is, LAMBDA i : IF i.kind = "add" THEN [i EXCEPT !.new = <<>>] ELSE i)

(* A patch in any format is read as the changes its author wrote, in their  *)
(* order, whatever preamble or junk surrounds them and whether or not it is *)
(* closed - but for the lists of changes in Misread, and for the contents   *)
(* of a file that is added in the dress of a diff.                         *)
PatchMeansItsChanges ==
  LET wanted == Cat(meant.changes, IntentsOf)
  IN meant # Nobody /\ read # Unread /\ ~Misread(meant.format, meant.changes) =>
       IF meant.noise = "dress" THEN ButAdds(read.intents) = ButAdds(wanted) ELSE read.intents = wanted

(* A codex patch that is accepted loses no line it adds or removes without  *)
(* a warning, however malformed it is: up to its end marker each of them    *)
(* is in an intent.  The other parsers drop such lines without a word       *)
(* (openai-patch.ts:229, atomic-patch.ts:325 and 417): for them it is not   *)
(* claimed.                                                                *)
NothingLostUnsaid ==
  LET last == SelectInSeq(lines, LAMBDA l : l.is = "end")
      said == IF last = 0 THEN lines ELSE SubSeq(lines, 1, last)
  IN meant = Nobody /\ read # Unread /\ Detect(lines) = "codex_patch" /\ ~read.warned =>
       \A l \in ToSet(said) : l.is \in {"-", "+"} =>
         \E i \in ToSet(read.intents) : {l.text, Raw(l)} \cap (ToSet(i.old) \cup ToSet(i.new)) # {}

===============================================================================
