------------------------------ MODULE RepairLoop ------------------------------
(***************************************************************************)
(* The repair loop an edit goes through before it is written               *)
(* (verification/repair-loop.ts), with the validation it repeats and the   *)
(* failures it counts by file (verification/auto-validate.ts), which the   *)
(* check of a native write counts too (extension/post-lanes.ts).           *)
(* A text is a sequence of lines, a line a sequence of tokens.  Of layout  *)
(* only blank lines and trailing blanks are kept.                          *)
(***************************************************************************)
EXTENDS Integers, Sequences, SequencesExt, FiniteSets, FiniteSetsExt

CONSTANTS
  LoopFiles,
  Candidates,     \* the texts an edit may propose
  Space,          \* a trailing blank
  Template,       \* the backtick of a template literal
  Faulty,         \* what the checks of the text find fault with: placeholders, stub bodies
  MaxRetries,     \* attempts of a loop, and failures before decomposition is suggested
  Tracked,        \* RETRY_COUNTS_MAX
  MaxCount, MaxChanges   \* bounds: failures of one file; changes of the compiler's verdict

VARIABLES
  loop,           \* the run of runRepairLoop
  counts,         \* retryCounts, the file counted last at the end
  compiles,       \* what the compiler says of the file on disk
  changes         \* how often that changed since the loop began, and of MaxChanges
rvars == <<loop, counts, compiles, changes>>

-----------------------------------------------------------------------------
(* checkStructural and the detectors that read the text: brackets are      *)
(* counted, wherever they stand.                                           *)
Columns(text) == UNION {{i} \X DOMAIN text[i] : i \in DOMAIN text}
Amount(text, tok) == Cardinality({p \in Columns(text) : text[p[1]][p[2]] = tok})
Excess(text, open, close) == Amount(text, open) - Amount(text, close)
Sound(text) ==
  /\ \A tok \in Faulty : Amount(text, tok) = 0
  /\ Excess(text, "{", "}") = 0 /\ Excess(text, "[", "]") = 0

(* runAutoValidation: compilers are run on the file, which holds what it   *)
(* held before the edit; the other checks read the text.                   *)
Passes(text) == Sound(text) /\ compiles

(* incrementRetryCount, evictStaleRetryCounts *)
FailuresOf(cs, f) == IF \E i \in DOMAIN cs : cs[i].file = f THEN (CHOOSE c \in ToSet(cs) : c.file = f).n ELSE 0
WithFailure(f) ==
  LET all == Append(SelectSeq(counts, LAMBDA c : c.file # f), [file |-> f, n |-> FailuresOf(counts, f) + 1])
  IN IF Len(all) > Tracked THEN Tail(all) ELSE all
Count(f, passed) == counts' = IF passed THEN counts ELSE WithFailure(f)

-----------------------------------------------------------------------------
(* The repairs.                                                            *)
BlankLine(line) == ToSet(line) \subseteq {Space}
Trimmed(line) == SubSeq(line, 1, Max({0} \cup {i \in DOMAIN line : line[i] # Space}))
LastLine(text) == Max({0} \cup {i \in DOMAIN text : ~BlankLine(text[i])})
Added(text, closer, n) == InsertAt(text, LastLine(text) + 1, [i \in 1..n |-> closer])

(* Removes a closing brace, if the text ends with one.                     *)
Removed(text, i) ==
  LET at == LastLine(text) IN
  IF at = 0 \/ Last(Trimmed(text[at])) # "}" THEN text
  ELSE LET end == Len(Trimmed(text[at])) IN [text EXCEPT ![at] = RemoveAt(@, end)]

(* Bug: the closers go before the last line that is not blank.             *)
BugBraces(text) ==
  LET n == Excess(text, "{", "}") IN
  IF n > 0 THEN InsertAt(text, Max({1, LastLine(text)}), [i \in 1..n |-> "}"])
  ELSE FoldLeft(Removed, text, [i \in 1..(-n) |-> i])

(* fixUnbalancedBraces; fixUnbalancedBrackets only ever adds.              *)
Braces(text) ==
  LET n == Excess(text, "{", "}") IN
  IF n > 0 THEN Added(text, "}", n) ELSE FoldLeft(Removed, text, [i \in 1..(-n) |-> i])

Brackets(text) ==
  LET n == Excess(text, "[", "]") IN IF n > 0 THEN Added(text, "]", n) ELSE text

(* stripTrailingWhitespace, removeDuplicateBlankLines *)
Tidied(acc, line) == IF line = <<>> /\ acc # <<>> /\ Last(acc) = <<>> THEN acc ELSE Append(acc, line)
Tidy(text) == FoldLeft(Tidied, <<>>, [i \in DOMAIN text |-> Trimmed(text[i])])

(* autoRepair: brackets are left alone in a text with a template literal.  *)
Repaired(text) ==
  Tidy(IF Amount(text, Template) > 0 THEN text ELSE Brackets(Braces(text)))

-----------------------------------------------------------------------------
NoText == <<>>
IdleLoop == [at |-> "idle", file |-> "", text |-> NoText, attempt |-> 1,
           passed |-> FALSE, repaired |-> NoText, decompose |-> FALSE]

BeginRepair(f, text) ==
  /\ loop.at = "idle"
  /\ FailuresOf(counts, f) + 3 * MaxRetries <= MaxCount
  /\ loop' = [IdleLoop EXCEPT !.at = "validate", !.file = f, !.text = text]
  /\ changes' = [changes EXCEPT !.here = 0]
  /\ UNCHANGED <<counts, compiles>>

(* What becomes of an attempt that failed.                                 *)
Again(l) == IF l.attempt < MaxRetries THEN [l EXCEPT !.at = "validate", !.attempt = @ + 1]
            ELSE [l EXCEPT !.at = "end"]

Validate ==
  /\ loop.at = "validate"
  /\ Count(loop.file, Passes(loop.text))
  /\ loop' = [loop EXCEPT !.at = IF Passes(loop.text) THEN "end" ELSE "repair",
                          !.passed = Passes(loop.text),
                          !.decompose = FailuresOf(counts', loop.file) >= MaxRetries]
  /\ UNCHANGED <<compiles, changes>>

(* autoRepair validates what the loop has just validated; a pass now is    *)
(* not a repair, and the attempt has failed.                               *)
Revalidate ==
  /\ loop.at = "repair"
  /\ Count(loop.file, Passes(loop.text))
  /\ loop' = IF Passes(loop.text) THEN Again(loop) ELSE [loop EXCEPT !.at = "repaired"]
  /\ UNCHANGED <<compiles, changes>>

(* A repair counts if it changed something and the result passes; one that *)
(* fails is forgotten, and the next attempt has the text of this one.      *)
AutoRepair ==
  /\ loop.at = "repaired"
  /\ LET text == Repaired(loop.text) IN
       /\ Count(loop.file, Passes(text))
       /\ loop' = IF text # loop.text /\ Passes(text)
                  THEN [loop EXCEPT !.at = "end", !.passed = TRUE, !.repaired = text]
                  ELSE Again(loop)
  /\ UNCHANGED <<compiles, changes>>

(* The edit goes on with what it was given or with the repaired text.      *)
Return ==
  /\ loop.at = "end"
  /\ loop' = IdleLoop
  /\ UNCHANGED <<counts, compiles, changes>>

(* handleWriteResult: a native write is checked as well, and its failures  *)
(* are counted with those of the edits.                                    *)
NativeWriteFails(f) ==
  /\ FailuresOf(counts, f) < MaxCount
  /\ Count(f, FALSE)
  /\ UNCHANGED <<loop, compiles, changes>>

(* resetRetryCounts *)
ResetCounts ==
  /\ loop.at = "idle"
  /\ counts' = <<>>
  /\ UNCHANGED <<loop, compiles, changes>>

(* Whoever writes the files the compiler looks at.                         *)
DiskChanges ==
  /\ changes.all < MaxChanges
  /\ compiles' = ~compiles
  /\ changes' = [all |-> changes.all + 1, here |-> changes.here + 1]
  /\ UNCHANGED <<loop, counts>>

RepairInit ==
  /\ loop = IdleLoop
  /\ counts = <<>>
  /\ compiles \in BOOLEAN
  /\ changes = [all |-> 0, here |-> 0]

RepairNext ==
  \/ \E f \in LoopFiles : NativeWriteFails(f) \/ \E text \in Candidates : BeginRepair(f, text)
  \/ Validate \/ Revalidate \/ AutoRepair \/ Return \/ ResetCounts \/ DiskChanges

-----------------------------------------------------------------------------
(* The tokens of a text without its layout, and without the closers it     *)
(* ends with.                                                              *)
Closers == {"}", "]"}
WithToken(toks, tok) == IF tok = Space THEN toks ELSE Append(toks, tok)
Solids(line) == FoldLeft(WithToken, <<>>, line)
WithLine(toks, line) == toks \o Solids(line)
SolidTokens(text) == FoldLeft(WithLine, <<>>, text)
Opened(toks) == SubSeq(toks, 1, Max({0} \cup {i \in DOMAIN toks : toks[i] \notin Closers}))
Body(text) == Opened(SolidTokens(text))

(* The text a loop hands back has passed every check of a text,            *)
HandedBackPassed ==
  loop.at = "end" /\ loop.repaired # NoText => loop.passed /\ Sound(loop.repaired)

(* and differs from the edit's only in layout and in the closers at its    *)
(* end.                                                                    *)
BodyIsKept ==
  loop.at = "end" /\ loop.repaired # NoText => Body(loop.repaired) = Body(loop.text)

(* To try again is of no use: while the files on disk stay as they are, a  *)
(* loop that passes does so in its first attempt, which is why             *)
(* patch-deps.ts:37-51 runs it once.                                       *)
FirstAttemptOrNone ==
  loop.at = "end" /\ loop.passed /\ changes.here = 0 => loop.attempt = 1

(* A repair is safe to take, and comes at once or never.                   *)
RepairIsSafe == HandedBackPassed /\ BodyIsKept /\ FirstAttemptOrNone
=============================================================================
