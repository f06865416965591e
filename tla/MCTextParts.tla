----------------------------- MODULE MCTextParts -----------------------------
(***************************************************************************)
(* What turns an edit request into text.  One part moves in a behaviour;   *)
(* those on an instance of their own share the places v1 to v3.            *)
(***************************************************************************)
EXTENDS Hashline, PatchCall, AtomicPatch, RepairLoop, MCCallScenes, MCAtomicScenes

(* Files of one or two lines with indentation ("s"), a curly quote ("Q")   *)
(* and comments ("/"), and some longer ones in which a tier that counts    *)
(* otherwise than it searches finds text twice; requests of one or two     *)
(* edits of every kind.                                                    *)
MCJoin(ls) == FoldLeft(LAMBDA t, l : t \o <<"n">> \o l, Head(ls), Tail(ls))
MCPlanLines == {<<"a">>, <<"b">>, <<"s", "s", "a">>, <<"Q">>, <<"a", "s">>, <<"/", "a">>, <<>>}
MCPlanContents ==
  {MCJoin(l) : l \in UNION {[1..k -> MCPlanLines \ {<<>>}] : k \in 1..2}}
  \cup {MCJoin(<<<<"b">>>> \o l) : l \in {<<x, y>> : x \in {<<"a">>, <<"Q">>, <<"s", "s", "a">>}, y \in {<<"a">>, <<"b">>, <<"Q">>, <<>>}}}
MCPlanTwice == {MCJoin(<<<<"/", "a">>, <<"/", "b">>, <<"/", "a">>, <<"/", "b">>>>), MCJoin(<<<<"a">>, <<"b">>, <<"a">>>>),
                MCJoin(<<<<"b">>, <<"a">>, <<"b">>, <<"a">>>>), MCJoin(<<<<"a", "L">>, <<"b">>>>)}
MCPlanFiles == {[bom |-> FALSE, ends |-> "lf", text |-> t] : t \in (MCPlanContents \cup MCPlanTwice) \ {<<>>}}
MCPlanTxt(old, new, all, range) == [kind |-> "text", old |-> old, new |-> new, all |-> all, lines |-> range, sym |-> 0]
MCPlanSym(kind, k, new) == [kind |-> kind, old |-> <<>>, new |-> new, all |-> FALSE, lines |-> <<>>, sym |-> k]
MCPlanPat(c, new, range) == [kind |-> "structural", old |-> <<c>>, new |-> new, all |-> FALSE, lines |-> range, sym |-> 0]
MCPlanHash(a, b, new) == [kind |-> "hashline", old |-> <<>>, new |-> new, all |-> FALSE, lines |-> <<a, b>>, sym |-> 0]
MCPlanOlds == {<<"a">>, <<"s", "a">>, <<"q">>, <<"a", "n", "b">>, <<"s", "a", "n", "b">>, <<"a", "n">>, <<"q", "n", "a">>, <<"b", "n", "a">>,
               <<"a", "n", "b", "n", "a", "n">>, <<"a", "f", "i">>}
MCPlanTexts == {MCPlanTxt(o, w, all, r) : o \in MCPlanOlds, w \in {<<>>, <<"b">>}, all \in BOOLEAN, r \in {<<>>, <<2, 3>>}}
MCPlanOthers == {MCPlanSym("replaceBody", 2, <<"x">>), MCPlanSym("insertBefore", 2, <<"x">>), MCPlanSym("insertAfter", 1, <<"y">>),
           MCPlanSym("insertBefore", 2, <<"z">>), MCPlanPat("b", <<"a">>, <<>>), MCPlanHash(1, 1, <<"b", "n">>), MCPlanHash(2, 2, <<>>)}
MCPlanRequests == {<<t>> : t \in MCPlanTexts} \cup {<<x, y>> : x \in MCPlanOthers, y \in MCPlanOthers}
              \cup {<<x, t>> : x \in MCPlanOthers, t \in {u \in MCPlanTexts : u.lines = <<>> /\ u.new = <<"b">> /\ Len(u.old) <= 2}}

(* A head, a line twice, and a text with the same hash as it.              *)
MCHashTexts == {"f", "x", "X", "}"}
MCHashOf == [t \in MCHashTexts \cup {""} |-> IF t = "X" THEN "x" ELSE t]
MCLooseOf == [t \in MCHashTexts \cup {""} |-> IF t = "X" THEN "x" ELSE t]
MCFileTexts == {<<"f", "x", "x">>, <<"x", "}">>, <<"">>}
MCRow(mark, text) == [mark |-> mark, text |-> text, bare |-> text]
MCContents == {<<>>, <<MCRow("plus hash", "}"), MCRow("hash", "x")>>}

(* Two files and a new one; copies and moves of one or two blocks.         *)
MCTransferTexts == {"a", "b", "c", "+a", ""}
MCTransferMarkOf == [t \in MCTransferTexts |-> IF t = "+a" THEN "plus" ELSE ""]
MCTransferBareOf == [t \in MCTransferTexts |-> IF t = "+a" THEN "a" ELSE t]
MCTransferHashOf == [t \in MCTransferTexts |-> t]
MCTransferPaths == {"A", "B", "N"}
MCTransferTrees == {[p \in MCTransferPaths |-> IF p = "A" THEN x ELSE IF p = "B" THEN y ELSE <<>>] :
              x \in {<<"a", "b", "a", "c">>, <<"b", "a">>, <<"+a", "">>}, y \in {<<"a">>, <<"a", "b">>, <<"">>, <<"b", "+a">>}}
MCTransferObserved == [p \in MCTransferPaths |-> IF p = "A" THEN 1..4 ELSE 1..3]
MCTransfer(op, from, pos, end, to, after) ==
  [op |-> op, from |-> from, pos |-> pos, end |-> end, to |-> to, after |-> after]
MCTransfers ==
  {MCTransfer(op, "A", r[1], r[2], w[1], w[2]) :
     op \in {"copy", "move"}, r \in {<<1, 1>>, <<1, 2>>, <<2, 3>>},
     w \in {<<"A", 0>>, <<"A", 3>>, <<"B", 0>>, <<"B", 1>>, <<"N", -1>>}}
MCBatches == {<<t>> : t \in MCTransfers} \cup {<<t, u>> : t, u \in MCTransfers}

(* Changes of two files in every format, and four arbitrary lines.         *)
MCLine(is, text) == [is |-> is, text |-> text, to |-> ""]
MCHunks == {<<MCLine("-", "a"), MCLine("+", "b")>>, <<MCLine(" ", "a"), MCLine("-", "b"), MCLine("+", "c")>>, <<MCLine(" ", "a"), MCLine("+", "b")>>,
            <<MCLine("-", "a"), MCLine(" ", "b"), MCLine("+", "c"), MCLine(" ", "a")>>, <<MCLine("+", "a"), MCLine(" ", ""), MCLine("-", "b")>>,
            <<MCLine("-", "a")>>, <<MCLine(" ", "a"), MCLine("-", "b"), MCLine("-", "c"), MCLine("+", "")>>, <<MCLine("+", "c")>>}
MCChange(kind, path, to, ls, hunks) == [kind |-> kind, path |-> path, to |-> to, lines |-> ls, hunks |-> hunks]
MCChanges ==
  {MCChange("add", p, "", ls, <<>>) : p \in {"f", "g"}, ls \in {<<>>, <<"a">>, <<"a", "", "b">>}}
  \cup {MCChange("delete", p, "", <<"a">>, <<>>) : p \in {"f", "g"}}
  \cup {MCChange("rename", "f", "g", <<>>, <<>>)}
  \cup {MCChange("update", p, to, <<>>, <<h>>) : p \in {"f", "g"}, to \in {"", "h"}, h \in MCHunks}
  \cup {MCChange("update", "f", "", <<>>, <<h, k>>) : h, k \in MCHunks}
MCChangeLists == {<<c>> : c \in MCChanges} \cup {<<c, d>> : c, d \in {x \in MCChanges : Len(x.hunks) <= 1}}
MCNoises == {"none", "preamble", "no end", "junk", "dress"}
MCScrap(is, i) == MCLine(is, IF is = "end" THEN "" ELSE <<"t1", "t2", "t3", "t4">>[i])
MCScraps == {<<MCLine("begin", "")>> \o [i \in 1..n |-> MCScrap(k[i], i)] :
               n \in {4}, k \in [1..4 -> {"update", "move", "add", "delete", "hunk", "+", "-", " ", "bare", "stars", "end"}]}

(* Files of up to three lines, with placeholders and template literals.    *)
MCRepairLines == {<<"w", "{">>, <<"}">>, <<"[">>, <<"]", " ">>, <<"w">>}
MCRepairTexts ==
  UNION {[1..k -> MCRepairLines] : k \in 1..2} \cup {<<<<"w", "{">>>> \o l : l \in [1..2 -> {<<"}", "}">>, <<"[">>, <<>>}]}
  \cup {<<<<"w", "{">>, l>> : l \in {<<"todo">>, <<"tick">>, <<" ">>, <<"w", "}", "}", " ">>}}

VARIABLES part, v1, v2, v3
textVars == <<hvars, cvars, avars, rvars, v1, v2, v3>>

Planner == INSTANCE EditPlan
             WITH Threshold <- 85, DominantMin <- 97, DominantDelta <- 8, AllowFuzzy <- TRUE, Prose <- TRUE,
                  Files <- MCPlanFiles, Requests <- MCPlanRequests, file <- v1, last <- v2
Batches == INSTANCE Transfer
             WITH Paths <- MCTransferPaths, MarkOf <- MCTransferMarkOf, BareOf <- MCTransferBareOf,
                  HashOf <- MCTransferHashOf, LooseOf <- MCTransferHashOf, Trees <- MCTransferTrees,
                  Observed <- MCTransferObserved, Batches <- MCBatches,
                  Structural <- {""}, Heads <- {}, Blank <- "", Window <- 2, tree <- v1, moved <- v2
Patches == INSTANCE Formats
             WITH DefaultPath <- "default", Null <- "null", ChangeLists <- MCChangeLists, Noises <- MCNoises,
                  Scraps <- MCScraps, meant <- v1, lines <- v2, read <- v3

TextParts == {"plan", "hashline", "transfer", "formats", "call", "envelope", "repair"}

PlacesInit ==
  \/ part = "plan" /\ Planner!PlanInit /\ v3 = 0
  \/ part = "transfer" /\ Batches!TransferInit /\ v3 = 0
  \/ part = "formats" /\ Patches!FormatsInit
  \/ part \notin {"plan", "transfer", "formats"} /\ v1 = 0 /\ v2 = 0 /\ v3 = 0

TextInit ==
  /\ PlacesInit
  /\ HashInit /\ (part = "hashline" \/ Len(lines) = 1)
  /\ RepairInit /\ (part = "repair" \/ compiles)
  /\ CallInit /\ AtomicInit

TextNext ==
  \/ part = "plan" /\ Planner!PlanNext /\ UNCHANGED <<hvars, cvars, avars, rvars, v3>>
  \/ part = "transfer" /\ Batches!TransferNext /\ UNCHANGED <<hvars, cvars, avars, rvars, v3>>
  \/ part = "formats" /\ Patches!FormatsNext /\ UNCHANGED <<hvars, cvars, avars, rvars>>
  \/ part = "hashline" /\ HashNext /\ UNCHANGED <<cvars, avars, rvars, v1, v2, v3>>
  \/ part = "call" /\ CallNext /\ UNCHANGED <<hvars, avars, rvars, v1, v2, v3>>
  \/ part = "envelope" /\ AtomicNext /\ UNCHANGED <<hvars, cvars, rvars, v1, v2, v3>>
  \/ part = "repair" /\ RepairNext /\ UNCHANGED <<hvars, cvars, avars, v1, v2, v3>>

(* EditPlan: text that stands in several places is not replaced in one of  *)
(* them at random, but in the tiers that count otherwise than they search. *)
TargetIsTheOne == part = "plan" => Planner!TargetIsTheOne
(* EditPlan: the edits of a batch all apply to the text before the batch.  *)
BatchIsSimultaneous == part = "plan" => Planner!BatchIsSimultaneous
(* Transfer: a move neither loses nor doubles a line, but those in Spoilt. *)
NothingLostInTransfer == part = "transfer" => Batches!NothingLostInTransfer
(* Formats: a patch is read as what its author meant, but for Misread and  *)
(* what is added in the dress of a diff.                                   *)
PatchMeansItsChanges == part = "formats" => Patches!PatchMeansItsChanges
(* Formats: a codex patch accepted loses no line without a warning.        *)
NothingLostUnsaid == part = "formats" => Patches!NothingLostUnsaid
===============================================================================
