----------------------------- MODULE Mutations -----------------------------
(***************************************************************************)
(* The changes a plan is made of (core/edit-planner.ts): a stretch of the  *)
(* text and what takes its place.  A text is a sequence of symbols, "\n"   *)
(* written Feed; what a symbol stands for is up to the module that plans.  *)
(***************************************************************************)
EXTENDS Integers, Sequences, FiniteSets, SequencesExt, FiniteSetsExt

Feed == "n"

(* A part of a text: offsets from 0, the end excluded. *)
Slice(t, a, b) == SubSeq(t, a + 1, Min({b, Len(t)}))

Lines(t) ==
  LET b == <<0>> \o SelectSeq([i \in 1..(Len(t) + 1) |-> i], LAMBDA i : i > Len(t) \/ t[i] = Feed)
  IN [k \in 1..(Len(b) - 1) |-> SubSeq(t, b[k] + 1, b[k + 1] - 1)]
Join(ls) == FoldLeft(LAMBDA t, l : t \o <<Feed>> \o l, Head(ls), Tail(ls))
LineStart(ls, k) == FoldLeft(LAMBDA n, l : n + Len(l) + 1, 0, SubSeq(ls, 1, k - 1))

Mutation(from, to, new, i) == [from |-> from, to |-> to, new |-> new, req |-> i]

(* computeChangedSpan: what is left without the common start and end. *)
ChangedSpan(a, b, i) ==
  LET both == Min({Len(a), Len(b)})
      p == Max({k \in 0..both : SubSeq(a, 1, k) = SubSeq(b, 1, k)})
      q == Max({k \in 0..(both - p) : SubSeq(a, Len(a) - k + 1, Len(a)) = SubSeq(b, Len(b) - k + 1, Len(b))})
  IN Mutation(p, Len(a) - q, SubSeq(b, p + 1, Len(b) - q), i)

(* assertNonZeroDisjoint *)
Disjoint(M) == \A x, y \in M : x # y /\ x.from < x.to /\ y.from < y.to => x.to <= y.from \/ y.to <= x.from
(* assertInsertsDisjoint: an insertion touches no replaced span, at either *)
(* end.                                                                    *)
InsertsApart(M) ==
  \A x, y \in M : x.from = x.to /\ y.from < y.to => x.from < y.from \/ x.from > y.to

(* A mistake: insertions at one place come out in reverse order. *)
BugApplied(c, M) ==
  FoldLeft(LAMBDA t, m : Slice(t, 0, m.from) \o m.new \o Slice(t, m.to, Len(t)), c,
           SetToSortSeq(M, LAMBDA x, y : x.from > y.from \/ (x.from = y.from /\ x.req < y.req)))

(* applyMutations *)
Applied(c, M) ==
  FoldLeft(LAMBDA t, m : Slice(t, 0, m.from) \o m.new \o Slice(t, m.to, Len(t)), c,
           SetToSortSeq(M, LAMBDA x, y : x.from > y.from \/ (x.from = y.from /\ x.req > y.req)))

(* byteSpanToLineRange *)
LinesOf(c, from, len) ==
  LET feeds(p) == Cardinality({i \in 1..p : i <= Len(c) /\ c[i] = Feed})
  IN <<1 + feeds(from), 1 + feeds(IF len > 0 THEN from + len - 1 ELSE from)>>

=============================================================================
