------------------------------ MODULE Transfer ------------------------------
(***************************************************************************)
(* The transfer tool (src/transfer/): blocks of lines copied or moved, by  *)
(* reference, as hashline edits that are planned file by file against the  *)
(* state before the batch.  A line is an atom; a file without lines does   *)
(* not exist, an empty file is one blank line.  Writing the files is       *)
(* PatchTransaction's subject: here a batch is done or refused as a whole. *)
(***************************************************************************)
EXTENDS HashlineOps, Mutations

CONSTANTS
  Paths,
  MarkOf, BareOf,   \* how a line looks to stripNewLinePrefixes
  Trees,            \* the files to start from: functions from Paths to lines
  Observed,         \* [path -> line numbers the agent was shown]
  Batches           \* sequences of [op, from, pos, end, to, after]

VARIABLES
  tree,             \* the files
  moved             \* ghost: the batch, and the files before it

tvars == <<tree, moved>>

NoLines == <<>>
Block(f, t) == SubSeq(f[t.from], t.pos, t.end)
Rows(ls) == [i \in DOMAIN ls |-> [mark |-> MarkOf[ls[i]], text |-> ls[i], bare |-> BareOf[ls[i]]]]
Plain(ls) == [i \in DOMAIN ls |-> [id |-> 0, text |-> ls[i]]]

(* moveSpansOverlap, findOverlappingMoveSpan *)
OverlapsEarlier(batch, k) ==
  \E j \in 1..(k - 1) :
    /\ batch[j].op = "move" /\ batch[k].op = "move" /\ batch[j].from = batch[k].from
    /\ batch[k].pos <= batch[j].end /\ batch[j].pos <= batch[k].end

(* isSameFileMoveCandidate, isAfterLineInsideSourceSpan *)
LandsInItself(t) ==
  t.op = "move" /\ t.from = t.to /\ t.after \in (t.pos - 1)..t.end \ {0}

(* A mistake: a repeated block is looked for at the start of files only. *)
BugThereAlready(f, t) == t.after = 0 /\ HoldsAt(Plain(f[t.to]), 1, Plain(Block(f, t)))

(* findDuplicateDestination; 0 stands for `start`. *)
ThereAlready(f, t) == HoldsAt(Plain(f[t.to]), t.after + 1, Plain(Block(f, t)))

NoPlace == -1      \* `after` omitted

(* resolveTransferBatch, planTransfer and the checks of                    *)
(* materializeTransfers, in their order; every one looks at the files as   *)
(* they were before the batch.                                             *)
Allowed(f, batch, k) ==
  LET t == batch[k]
      new == f[t.to] = NoLines
  IN /\ f[t.from] # NoLines
     /\ new <=> t.after = NoPlace
     /\ t.pos <= t.end /\ t.end \in DOMAIN f[t.from]
     /\ ~new => t.after \in 0..Len(f[t.to])
     /\ t.op = "copy" => t.pos..t.end \subseteq Observed[t.from]   \* authorizeCopySource
     /\ ~OverlapsEarlier(batch, k)
     /\ ~LandsInItself(t)
     /\ ~new => ~ThereAlready(f, t)

(* appendTransferMutations: a file's edits in the order of the transfers.  *)
InsertEdit(t, f) ==
  [op |-> IF f[t.to] = NoLines THEN "append_file" ELSE IF t.after = 0 THEN "prepend_file" ELSE "append_at",
   pos |-> [line |-> t.after], end |-> [line |-> t.after], new |-> Stripped(Rows(Block(f, t)))]
DeleteEdit(t) ==
  [op |-> "replace_range", pos |-> [line |-> t.pos], end |-> [line |-> t.end], new |-> <<>>]
EditsOf(f, batch, p) ==
  FoldLeft(LAMBDA es, t : (IF t.to = p THEN Append(es, InsertEdit(t, f)) ELSE <<>> \o es)
                           \o (IF t.op = "move" /\ t.from = p THEN <<DeleteEdit(t)>> ELSE <<>>),
           <<>>, batch)

(* A file as the planner sees it: lines' atoms, with the line feeds. *)
TextOfLines(ls) ==
  IF ls = NoLines THEN <<>>
  ELSE Join([i \in DOMAIN ls |-> IF ls[i] = Blank THEN <<>> ELSE <<ls[i]>>])
LinesOfText(t) ==
  LET ls == Lines(t)
  IN [i \in DOMAIN ls |-> IF ls[i] = <<>> THEN Blank ELSE IF Len(ls[i]) = 1 THEN ls[i][1] ELSE ls[i]]

(* planTextEdits with hashline edits only: each is turned into the part of *)
(* the text it changes, and these are put together.                        *)
Changes(f, batch, p) ==
  LET es == EditsOf(f, batch, p)
      ls == IF f[p] = NoLines THEN <<Blank>> ELSE f[p]
      result(e) == TextOfLines(TextsOf(AppliedLines(e, Plain(ls))))
      all == {ChangedSpan(TextOfLines(ls), result(es[i]), i) : i \in DOMAIN es}
  IN {m \in all : m.from # m.to \/ m.new # <<>>}

Planned(f, batch, p) ==
  LET before == TextOfLines(f[p])
      touched(m) == LET r == LinesOf(before, m.from, m.to - m.from) IN r[1]..r[2]
      observed(M) == f[p] # NoLines => \A m \in M : touched(m) \subseteq Observed[p]
      changed(M, after) == [ok |-> Disjoint(M) /\ InsertsApart(M) /\ after # before /\ observed(M),
                            lines |-> LinesOfText(after)]
      applied(M) == changed(M, Applied(before, M))
  IN IF EditsOf(f, batch, p) = <<>> THEN [ok |-> TRUE, lines |-> f[p]] ELSE applied(Changes(f, batch, p))

-----------------------------------------------------------------------------

NoBatch == [batch |-> <<>>, before |-> <<>>, ok |-> FALSE]
TransferInit == tree \in Trees /\ moved = NoBatch

Done(batch, plan) ==
  LET ok == (\A k \in DOMAIN batch : Allowed(tree, batch, k)) /\ \A p \in Paths : plan[p].ok
  IN /\ tree' = IF ok THEN [p \in Paths |-> plan[p].lines] ELSE tree
     /\ moved' = [batch |-> batch, before |-> tree, ok |-> ok]

(* createTransferTool.execute, once every file is locked. *)
Execute(batch) == moved = NoBatch /\ Done(batch, [p \in Paths |-> Planned(tree, batch, p)])

TransferNext == \E batch \in Batches : Execute(batch)

-----------------------------------------------------------------------------
(* Properties. *)

Copies(ls, x) == Cardinality({i \in DOMAIN ls : ls[i] = x})
InTree(f, x) == MapThenSumSet(LAMBDA p : Copies(f[p], x), Paths)

Brought(f, t) == TextsOf(Stripped(Rows(Block(f, t))))

(* Lines the code may lose.  Blocks for one new or empty file are planned  *)
(* as insertions at one place with no line end between them                *)
(* (staging.ts:244-266).  Lines that look like rows pasted from a read or a*)
(* diff lose their prefix (hashline-content.ts:75-107), and where the text *)
(* without it stands already they are not inserted.                        *)
Glued(f, batch, k) ==
  f[batch[k].to] \in {NoLines, <<Blank>>} /\ \E j \in DOMAIN batch : j # k /\ batch[j].to = batch[k].to
Spoilt(f, batch) ==
  UNION {ToSet(Block(f, batch[k])) \cup ToSet(Brought(f, batch[k])) :
           k \in {k \in DOMAIN batch : Glued(f, batch, k) \/ Brought(f, batch[k]) # Block(f, batch[k])}}

(* tool.ts: all transfers of a batch "resolve against the same             *)
(* pre-transaction state and commit atomically".  Whatever the blocks have *)
(* to do with each other, no line is lost and none appears from nowhere: a *)
(* copied line is there once more, a moved one as often as before.  The    *)
(* layer that inserts leaves out lines it finds there already, and deleting*)
(* the source goes ahead all the same.  The lines of Spoilt are excepted;  *)
(* and of blank lines none is lost, but one that is moved alone also stays *)
(* (hashline-apply.ts:138-142), and a file left empty is a blank line.     *)
NothingLostInTransfer ==
  LET b == moved.batch
      f == moved.before
      copied(x) == FoldLeft(LAMBDA n, t : n + IF t.op = "copy" THEN Copies(Block(f, t), x) ELSE 0, 0, b)
      asked(x) == InTree(f, x) + copied(x)
      lines == UNION {ToSet(f[p]) : p \in Paths} \ Spoilt(f, b)
  IN moved.ok => \A x \in lines :
       IF x = Blank THEN InTree(tree, x) >= asked(x) ELSE InTree(tree, x) = asked(x)

=============================================================================
