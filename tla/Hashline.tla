------------------------------ MODULE Hashline ------------------------------
(***************************************************************************)
(* A hashline edit against a file that may have drifted since the read     *)
(* whose tokens it uses.                                                   *)
(***************************************************************************)
EXTENDS HashlineOps

CONSTANTS
  InsertedTexts, \* what a foreign change may insert
  FileTexts,     \* the files to start from
  Replacements,      \* replacements: sequences of [mark, text, bare]
  MaxDrift       \* bound on the foreign changes between read and edit

VARIABLES
  lines,        \* the file: sequence of [id, text]
  shown,        \* the retained snapshot: [anchors, partial, rows]
  drift,        \* foreign changes so far
  done          \* ghost: the edit made, and what it found

hvars == <<lines, shown, drift, done>>

NoSnapshot == [anchors |-> FALSE, partial |-> TRUE, rows |-> {}]
NoEdit == [tier |-> "none", at |-> <<1, 0>>, edit |-> <<>>, found |-> <<>>]

-----------------------------------------------------------------------------

HashInit ==
  /\ lines \in {[i \in DOMAIN t |-> [id |-> i, text |-> t[i]]] : t \in FileTexts}
  /\ shown = NoSnapshot /\ drift = 0 /\ done = NoEdit

(* recordRead with parseDisplayedHashlineRows: rows with tokens, rows with *)
(* line numbers only, or (a native read) no rows at all.                   *)
ShowRows(from, to, kind) ==
  /\ shown = NoSnapshot
  /\ shown' = [anchors |-> kind # "native", partial |-> from > 1 \/ to < Len(lines),
               rows |-> IF kind # "tokens" THEN {}
                        ELSE {[line |-> n, id |-> lines[n].id, text |-> lines[n].text] : n \in from..to}]
  /\ UNCHANGED <<lines, drift, done>>

Drift(c) == shown # NoSnapshot /\ drift < MaxDrift /\ done = NoEdit
            /\ lines' = c /\ drift' = drift + 1 /\ UNCHANGED <<shown, done>>
Insert(n, t) == Drift(Splice(lines, n, n - 1, <<[id |-> 0, text |-> t]>>))
Vanish(n) == Len(lines) > 1 /\ Drift(Splice(lines, n, n, <<>>))

(* A token the agent can write: one it was shown, another line's that it   *)
(* guessed right, or a line number alone.                                  *)
Tokens == Emitted(shown) \cup {Token(1, NoHash)}
          \cup {Token(n, Hash(n, lines[n].text)) : n \in DOMAIN lines \cap {1}}

(* resolveHashlineEdits, then applyHashlinePath. *)
HashEdit(op, pos, end, sym, content) ==
  LET e == [op |-> op, pos |-> pos, end |-> end, sym |-> sym, new |-> Stripped(content)]
      r == Path(e, shown, lines)
  IN /\ done = NoEdit /\ shown # NoSnapshot
     /\ op = "replace_range" => pos.line <= end.line
     /\ lines' = r.lines
     /\ done' = [tier |-> r.tier, at |-> r.at, edit |-> e, found |-> lines]
     /\ UNCHANGED <<shown, drift>>

HashNext ==
  \/ \E from, to \in DOMAIN lines : from <= to /\ ShowRows(from, to, "tokens")
  \/ \E kind \in {"numbers", "native"} : ShowRows(1, Len(lines), kind)
  \/ \E n \in DOMAIN lines, t \in InsertedTexts : Insert(n, t)
  \/ \E n \in DOMAIN lines : Vanish(n)
  \/ \E pos \in Tokens, end \in Tokens, sym \in Heads \cup {Blank}, w \in Replacements :
       HashEdit("replace_range", pos, end, sym, w)
  \/ \E op \in {"append_at", "prepend_at"}, pos \in Tokens, w \in Replacements :
       HashEdit(op, pos, pos, Blank, w)
  \/ \E op \in {"append_file", "prepend_file"}, w \in Replacements :
       HashEdit(op, Token(0, NoHash), Token(0, NoHash), Blank, w)

-----------------------------------------------------------------------------
(* Properties. *)

(* The rows the relocation relies on: the target and its shown neighbours. *)
Landmarks(e, s) ==
  {r \in s.rows : \E n \in Target(e) : r.line \in {n - 1, n, n + 1}}

(* hashline-recovery.ts "snapshot-proven uniform shift": while the lines   *)
(* the agent was shown - those it edits and their neighbours - are still   *)
(* together in the file, not further away than the window, an edit that is *)
(* relocated lands on these very lines, whatever copies of them have come  *)
(* to stand nearby.  Where two places fit, the relocation refuses and the  *)
(* edit falls through to the searching tiers, which take the first place   *)
(* (hashline-edit.ts:359-398): of those edits it says nothing.             *)
RelocationFollowsTheLines ==
  LET e == done.edit
      c == done.found
      together(k) == \A r \in Landmarks(e, shown) : r.line + k \in DOMAIN c /\ c[r.line + k].id = r.id
  IN done.tier = "rebased" =>
       \A k \in (0 - Window)..Window : together(k) => done.at[1] = e.pos.line + k

=============================================================================
