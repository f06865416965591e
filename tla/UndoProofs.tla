----------------------------- MODULE UndoProofs -----------------------------
(***************************************************************************)
(* A restore of the undo history, for any transactions, any number of      *)
(* restores and any failing filesystem calls: one that reports failure has *)
(* changed nothing, one that reports success has undone a transaction as a *)
(* whole.                                                                  *)
(***************************************************************************)
EXTENDS UndoHistory, FiniteSetTheorems, SequenceTheorems, WellFoundedInduction, TLAPS

-----------------------------------------------------------------------------
(* What the operations of a transaction make of the files, one by one.     *)
Stepwise(g, s, st) ==
  g = [i \in 0..Len(s) |-> IF i = 0 THEN st ELSE Atomic!Effect(g[i - 1], s[i])]

(* A set of numbers has a least one.                                       *)
LEMMA Least ==
  ASSUME NEW S \in SUBSET Nat, S # {}
  PROVE  \E x \in S : \A y \in S : ~(y < x)
<1> DEFINE R == OpToRel(<, Nat)
<1>1. PICK x \in S : \A y \in S : ~(<<y, x>> \in R)
  <2>1. IsWellFoundedOn(R, Nat)
    BY NatLessThanWellFounded
  <2> HIDE DEF R
  <2> QED
    BY <2>1, WFMin
<1>2. \A y \in S : ~(y < x)
  BY <1>1, Zenon DEF OpToRel
<1> QED
  BY <1>2

(* So many of the operations have an outcome each.                         *)
Prefix(g, k, s, st) ==
  g = [i \in 0..k |-> IF i = 0 THEN st ELSE Atomic!Effect(g[i - 1], s[i])]

LEMMA OneFurther ==
  ASSUME NEW k \in Nat, k # 0, NEW s, NEW st, NEW h, Prefix(h, k - 1, s, st)
  PROVE  \E g : Prefix(g, k, s, st)
<1> DEFINE g == [i \in 0..k |-> IF i = k THEN Atomic!Effect(h[k - 1], s[k]) ELSE h[i]]
<1>1. \A i \in 0..(k - 1) : h[i] = IF i = 0 THEN st ELSE Atomic!Effect(h[i - 1], s[i])
  BY DEF Prefix
<1>2. ASSUME NEW i \in 0..k PROVE g[i] = IF i = 0 THEN st ELSE Atomic!Effect(g[i - 1], s[i])
  <2>1. CASE i = k
    <3>1. k - 1 \in 0..k /\ k - 1 # k /\ k \in 0..k
      OBVIOUS
    <3>2. g[k - 1] = h[k - 1] /\ g[k] = Atomic!Effect(h[k - 1], s[k])
      BY <3>1
    <3> QED
      BY <2>1, <3>2
  <2>2. CASE i # k
    <3>1. i \in 0..(k - 1) /\ (i # 0 => i - 1 \in 0..(k - 1) /\ i - 1 \in 0..k /\ i - 1 # k)
      BY <2>2
    <3>2. g[i] = h[i] /\ (i # 0 => g[i - 1] = h[i - 1])
      BY <2>2, <3>1
    <3> QED
      BY <1>1, <3>1, <3>2
  <2> QED
    BY <2>1, <2>2
<1>3. Prefix(g, k, s, st)
  <2>1. DOMAIN g = 0..k
    OBVIOUS
  <2>2. g = [i \in 0..k |-> g[i]]
    OBVIOUS
  <2> HIDE DEF g
  <2> QED
    BY <1>2, <2>2 DEF Prefix
<1> QED
  BY <1>3

LEMMA PrefixExists ==
  ASSUME NEW n \in Nat, NEW s, NEW st
  PROVE  \E g : Prefix(g, n, s, st)
<1> DEFINE D == {k \in Nat : ~\E g : Prefix(g, k, s, st)}
<1>1. SUFFICES ASSUME D # {} PROVE FALSE
  OBVIOUS
<1>2. PICK d \in D : \A k \in D : ~(k < d)
  <2>1. D \subseteq Nat
    OBVIOUS
  <2> HIDE DEF D
  <2> QED
    BY <1>1, <2>1, Least
<1>3. d \in Nat /\ ~\E g : Prefix(g, d, s, st)
  OBVIOUS
<1>4. CASE d = 0
  <2> DEFINE g == [i \in 0..0 |-> st]
  <2>1. \A i \in 0..0 : i = 0
    OBVIOUS
  <2>2. g = [i \in 0..0 |-> IF i = 0 THEN st ELSE Atomic!Effect(g[i - 1], s[i])]
    BY <2>1
  <2>3. Prefix(g, 0, s, st)
    BY <2>2 DEF Prefix
  <2> QED
    BY <1>3, <1>4, <2>3
<1>5. CASE d # 0
  <2>1. d - 1 \in Nat /\ d - 1 < d
    BY <1>3, <1>5
  <2>2. d - 1 \notin D
    BY <1>2, <2>1
  <2>3. PICK h : Prefix(h, d - 1, s, st)
    BY <2>1, <2>2
  <2> HIDE DEF D
  <2>4. \E g : Prefix(g, d, s, st)
    BY <1>3, <1>5, <2>3, OneFurther
  <2> QED
    BY <1>3, <2>4
<1> QED
  BY <1>4, <1>5

(* The files after a transaction are the last of these outcomes.           *)
LEMMA AfterSteps ==
  ASSUME NEW s, NEW st, Len(s) \in Nat
  PROVE  \E g : Stepwise(g, s, st) /\ Atomic!Result(s, st) = g[Len(s)]
<1> DEFINE n == Len(s)
           G(f) == [i \in 0..n |-> IF i = 0 THEN st ELSE Atomic!Effect(f[i - 1], s[i])]
           a == CHOOSE f : f = G(f)
<1>1. PICK g : Prefix(g, n, s, st)
  BY PrefixExists
<1>2. Atomic!After(s, st) = a
  BY DEF Atomic!After
<1>3. g = G(g)
  BY <1>1 DEF Prefix
<1>4. a = G(a)
  BY <1>3
<1>5. Stepwise(a, s, st)
  BY <1>4 DEF Stepwise
<1> HIDE DEF a
<1> QED
  BY <1>2, <1>5 DEF Atomic!Result

-----------------------------------------------------------------------------
(* What is assumed of the constants: a transaction is a sequence of         *)
(* operations on paths, "no transaction" is neither one nor a restore.     *)
Operations == [op : {"write", "remove", "rename"}, path : Paths, to : Paths, value : Values]
TypedConstants ==
  /\ Scripts \subseteq Seq(Operations)
  /\ NoTransaction \notin Undoers

Busy(u) == pc[u] \in {"preflight", "capture", "apply", "rmold", "rollback", "cleanup"}

Formed ==
  /\ DOMAIN pc = Undoers /\ DOMAIN tx = Undoers /\ DOMAIN recs = Undoers /\ DOMAIN left = Undoers
  /\ DOMAIN back = Undoers /\ DOMAIN snap = Undoers /\ DOMAIN start = Undoers /\ DOMAIN calm = Undoers
  /\ store = [p \in Paths |-> store[p]]
  /\ IsFiniteSet(undo)

(* A restore at work has records, and one of them before it.               *)
Listed(u) ==
  Busy(u) =>
    /\ recs[u] \in Seq(Range(recs[u])) /\ recs[u] # <<>>
    /\ left[u] \in Seq(Range(recs[u])) /\ left[u] # <<>>

(* Undisturbed, a restore has changed nothing before it applies records,   *)
(* then only the files these touch, whose snapshot it has; its rollback    *)
(* leaves them as they were.                                               *)
Kept(u) ==
  /\ Underway(u) => start[u] = [p \in Paths |-> start[u][p]]
  /\ calm[u] /\ pc[u] \in {"load", "preflight", "capture"} => store = start[u]
  /\ calm[u] /\ pc[u] \in {"apply", "rmold"} =>
       \A p \in Paths : IF p \in Touched(recs[u]) THEN snap[u][p] = start[u][p] ELSE store[p] = start[u][p]
  /\ calm[u] /\ pc[u] = "rollback" =>
       \A p \in Paths : IF p \in back[u] THEN snap[u][p] = start[u][p] ELSE store[p] = start[u][p]

KeptInv == Formed /\ \A u \in Undoers : Listed(u) /\ Kept(u)

LEMMA InitKeptInv == UndoInit => KeptInv
<1> SUFFICES ASSUME UndoInit PROVE KeptInv
  OBVIOUS
<1>1. Formed
  BY FS_EmptySet DEF UndoInit, Formed
<1>2. \A u \in Undoers : pc[u] = "idle"
  BY DEF UndoInit
<1> QED
  BY <1>1, <1>2 DEF KeptInv, Listed, Busy, Kept, Underway

-----------------------------------------------------------------------------
(* Steps of others leave a restore where it is, and disturb it when they   *)
(* change a file.                                                          *)
Same(u) ==
  /\ pc'[u] = pc[u] /\ tx'[u] = tx[u] /\ recs'[u] = recs[u] /\ left'[u] = left[u]
  /\ back'[u] = back[u] /\ snap'[u] = snap[u] /\ start'[u] = start[u]
Apart(u) == Same(u) /\ (Underway(u) /\ calm'[u] => calm[u] /\ store' = store)

LEMMA EditApart ==
  ASSUME TypedConstants, NEW u \in Undoers, NEW e \in Edits, Edit(e)
  PROVE  Apart(u)
<1>1. ASSUME NEW s \in Scripts, Commit(e, s) PROVE Apart(u)
  <2>1. Same(u)
    BY <1>1 DEF Commit, Same, restores
  <2>2. Disturb(NoTransaction)
    BY <1>1 DEF Commit
  <2>3. Underway(u) => ~calm'[u]
    BY <2>2 DEF Disturb, TypedConstants
  <2> QED
    BY <2>1, <2>3 DEF Apart
<1>2. CASE SaveRecord(e)
  BY <1>2 DEF SaveRecord, Apart, Same, restores, ghosts
<1>3. CASE SaveStops(e)
  BY <1>3 DEF SaveStops, Apart, Same, restores, ghosts
<1> QED
  BY <1>1, <1>2, <1>3 DEF Edit

(* A step of another restore.                                              *)
LEMMA RestoreApart ==
  ASSUME Formed, NEW u \in Undoers, NEW v \in Undoers, u # v, Restore(v)
  PROVE  Apart(u)
<1>1. ASSUME NEW p \in Paths, Pick(v, p) PROVE Apart(u)
  BY <1>1 DEF Pick, Apart, Same, Goto, Formed
<1>2. CASE Load(v)
  BY <1>2 DEF Load, Apart, Same, Goto, Formed, ghosts
<1>3. CASE Preflight(v)
  BY <1>3 DEF Preflight, Advance, Apart, Same, Goto, Formed, ghosts
<1>4. CASE Capture(v)
  BY <1>4 DEF Capture, Apart, Same, Goto, Formed, ghosts
<1>5. CASE ApplyRecord(v)
  BY <1>5 DEF ApplyRecord, Advance, Disturb, Apart, Same, Goto, Formed
<1>6. CASE LinkBack(v)
  BY <1>6 DEF LinkBack, Disturb, Apart, Same, Goto, Formed
<1>7. CASE RemoveNew(v)
  BY <1>7 DEF RemoveNew, Advance, Disturb, Apart, Same, Goto, Formed
<1>8. CASE ApplyFails(v)
  BY <1>8 DEF ApplyFails, Apart, Same, Goto, Formed, ghosts
<1>9. CASE RollbackPath(v)
  BY <1>9 DEF RollbackPath, Disturb, Apart, Same, Goto, Formed
<1>10. CASE RollbackFails(v)
  BY <1>10 DEF RollbackFails, Apart, Same, Goto, Formed, ghosts
<1>11. CASE Cleanup(v)
  BY <1>11 DEF Cleanup, Advance, Apart, Same, Goto, Formed, ghosts
<1> QED
  BY <1>1, <1>2, <1>3, <1>4, <1>5, <1>6, <1>7, <1>8, <1>9, <1>10, <1>11 DEF Restore

LEMMA ApartKept ==
  ASSUME NEW u \in Undoers, Listed(u), Kept(u), Apart(u)
  PROVE  Listed(u)' /\ Kept(u)'
<1>1. Listed(u)'
  BY DEF Listed, Busy, Apart, Same
<1>2. Kept(u)'
  <2>1. Underway(u)' <=> Underway(u)
    BY DEF Underway, Apart, Same
  <2>2. pc[u] \in {"load", "preflight", "capture", "apply", "rmold", "rollback"} => Underway(u)
    BY DEF Underway
  <2>3. Touched(recs[u])' = Touched(recs[u])
    BY DEF Apart, Same, Touched
  <2> QED
    BY <2>1, <2>2, <2>3 DEF Kept, Apart, Same
<1> QED
  BY <1>1, <1>2

-----------------------------------------------------------------------------
(* The files stay what the paths hold, and the records finitely many.      *)
LEMMA ResultFormed ==
  ASSUME NEW s \in Seq(Operations), NEW st, st = [p \in Paths |-> st[p]],
         NEW after, after = Atomic!Result(s, st)
  PROVE  after = [p \in Paths |-> after[p]]
<1>1. Len(s) \in Nat /\ Len(s) \in 0..Len(s)
  OBVIOUS
<1>2. PICK g : Stepwise(g, s, st) /\ after = g[Len(s)]
  BY <1>1, AfterSteps
<1>3. after = IF Len(s) = 0 THEN st ELSE Atomic!Effect(g[Len(s) - 1], s[Len(s)])
  BY <1>1, <1>2 DEF Stepwise
<1> QED
  BY <1>3 DEF Atomic!Effect

LEMMA FormedStep == TypedConstants /\ Formed /\ UndoNext => Formed'
<1> SUFFICES ASSUME TypedConstants, Formed, UndoNext PROVE Formed'
  OBVIOUS
<1>1. ASSUME NEW e \in Edits, NEW s \in Scripts, Commit(e, s) PROVE Formed'
  <2>1. store' = Atomic!Result(s, store)
    BY <1>1 DEF Commit
  <2>2. store' = [p \in Paths |-> store'[p]]
    BY <2>1, ResultFormed DEF Formed, TypedConstants
  <2>3. UNCHANGED <<undo, restores, start>> /\ DOMAIN calm' = Undoers
    BY <1>1 DEF Commit, Disturb
  <2> QED
    BY <2>2, <2>3 DEF Formed, restores
<1>2. ASSUME NEW e \in Edits, SaveRecord(e) PROVE Formed'
  <2>1. IsFiniteSet(undo')
    BY <1>2, FS_AddElement DEF SaveRecord, Formed
  <2> QED
    BY <1>2, <2>1 DEF SaveRecord, Formed, restores, ghosts
<1>3. ASSUME NEW e \in Edits, SaveStops(e) PROVE Formed'
  BY <1>3 DEF SaveStops, Formed, restores, ghosts
<1>4. ASSUME NEW u \in Undoers, NEW p \in Paths, Pick(u, p) PROVE Formed'
  BY <1>4 DEF Pick, Formed, Goto
<1>5. ASSUME NEW u \in Undoers, Load(u) PROVE Formed'
  BY <1>5 DEF Load, Formed, Goto, ghosts
<1>6. ASSUME NEW u \in Undoers, Preflight(u) PROVE Formed'
  BY <1>6 DEF Preflight, Advance, Formed, Goto, ghosts
<1>7. ASSUME NEW u \in Undoers, Capture(u) PROVE Formed'
  BY <1>7 DEF Capture, Formed, Goto, ghosts
<1>8. ASSUME NEW u \in Undoers, ApplyRecord(u) PROVE Formed'
  BY <1>8 DEF ApplyRecord, Advance, Formed, Goto, Disturb
<1>9. ASSUME NEW u \in Undoers, LinkBack(u) PROVE Formed'
  BY <1>9 DEF LinkBack, Formed, Goto, Disturb
<1>10. ASSUME NEW u \in Undoers, RemoveNew(u) PROVE Formed'
  BY <1>10 DEF RemoveNew, Advance, Formed, Goto, Disturb
<1>11. ASSUME NEW u \in Undoers, ApplyFails(u) PROVE Formed'
  BY <1>11 DEF ApplyFails, Formed, Goto, ghosts
<1>12. ASSUME NEW u \in Undoers, RollbackPath(u) PROVE Formed'
  BY <1>12 DEF RollbackPath, Formed, Goto, Disturb
<1>13. ASSUME NEW u \in Undoers, RollbackFails(u) PROVE Formed'
  BY <1>13 DEF RollbackFails, Formed, Goto, ghosts
<1>14. ASSUME NEW u \in Undoers, Cleanup(u) PROVE Formed'
  <2>1. IsFiniteSet(undo')
    BY <1>14, FS_RemoveElement DEF Cleanup, Formed
  <2> QED
    BY <1>14, <2>1 DEF Cleanup, Advance, Formed, Goto, ghosts
<1> QED
  BY <1>1, <1>2, <1>3, <1>4, <1>5, <1>6, <1>7, <1>8, <1>9, <1>10, <1>11, <1>12, <1>13, <1>14
  DEF UndoNext, Edit, Restore

(* The list of a set of records is one of its records after the other.     *)
LEMMA LoadedList ==
  ASSUME NEW rs, IsFiniteSet(rs), rs # {}, NEW s \in SetToSeqs(rs)
  PROVE  s \in Seq(Range(s)) /\ s # <<>> /\ Len(s) = Cardinality(rs) /\ Range(s) \subseteq rs
<1>1. PICK n \in Nat : n = Cardinality(rs)
  BY FS_CardinalityType
<1>2. n # 0
  BY <1>1, FS_EmptySet
<1>3. s \in [1..n -> rs]
  BY <1>1 DEF SetToSeqs
<1>4. s \in Seq(rs) /\ Len(s) = n
  BY <1>3
<1>5. s \in [1..n -> Range(s)]
  BY <1>3 DEF Range
<1>6. s \in Seq(Range(s))
  BY <1>5
<1> QED
  BY <1>1, <1>2, <1>3, <1>4, <1>6 DEF Range

(* The next of the list, or the first one again.                           *)
LEMMA AdvanceListed ==
  ASSUME NEW S, NEW l \in Seq(S), NEW r \in Seq(S), l # <<>>, r # <<>>,
         NEW n, n = IF Len(l) = 1 THEN r ELSE Tail(l)
  PROVE  n \in Seq(S) /\ n # <<>>
<1>1. CASE Len(l) = 1
  BY <1>1
<1>2. CASE Len(l) # 1
  <2>1. Tail(l) \in Seq(S) /\ Len(Tail(l)) = Len(l) - 1
    BY HeadTailProperties
  <2>2. Len(l) \in Nat /\ Len(l) # 0
    BY EmptySeq
  <2>3. Len(Tail(l)) # 0
    BY <1>2, <2>1, <2>2
  <2>4. Tail(l) # <<>>
    BY <2>1, <2>3, EmptySeq
  <2> QED
    BY <1>2, <2>1, <2>4
<1> QED
  BY <1>1, <1>2

(* A restore itself: it keeps its records in order.                        *)
LEMMA OwnListed ==
  ASSUME Formed, NEW u \in Undoers, Listed(u), Restore(u)
  PROVE  Listed(u)'
<1> DEFINE S == Range(recs[u])
<1>1. ASSUME NEW here, NEW next, Advance(u, here, next), Busy(u), recs' = recs PROVE Listed(u)'
  <2>1. left'[u] = IF Len(left[u]) = 1 THEN recs[u] ELSE Tail(left[u])
    BY <1>1 DEF Advance, Formed
  <2>2. left'[u] \in Seq(S) /\ left'[u] # <<>>
    BY <1>1, <2>1, AdvanceListed DEF Listed
  <2> QED
    BY <1>1, <2>2 DEF Listed
<1>2. ASSUME Busy(u), recs' = recs, left' = left PROVE Listed(u)'
  BY <1>2 DEF Listed
<1>3. ASSUME NEW p \in Paths, Pick(u, p) PROVE Listed(u)'
  BY <1>3 DEF Pick, Goto, Listed, Busy, Formed
<1>4. CASE Load(u)
  <2> DEFINE rs == {r \in undo : r.tx = tx[u]}
  <2>1. PICK s \in SetToSeqs(rs) : recs'[u] = s /\ left'[u] = s
    BY <1>4 DEF Load, Formed
  <2>2. pc'[u] = IF Complete(rs) THEN "preflight" ELSE "false"
    BY <1>4 DEF Load, Goto, Formed
  <2>3. CASE Complete(rs)
    <3>1. rs # {} /\ IsFiniteSet(rs)
      BY <2>3, FS_Subset DEF Complete, Formed
    <3> HIDE DEF rs
    <3> QED
      BY <2>1, <3>1, LoadedList DEF Listed
  <2>4. CASE ~Complete(rs)
    BY <2>2, <2>4 DEF Listed, Busy
  <2> QED
    BY <2>3, <2>4
<1>5. CASE Preflight(u)
  <2>1. Busy(u) /\ recs' = recs
    BY <1>5 DEF Preflight, Busy
  <2>2. Advance(u, "preflight", "capture") \/ (left' = left)
    BY <1>5 DEF Preflight
  <2> QED
    BY <1>1, <1>2, <2>1, <2>2
<1>6. CASE Capture(u)
  BY <1>2, <1>6 DEF Capture, Busy
<1>7. CASE ApplyRecord(u)
  BY <1>1, <1>7 DEF ApplyRecord, Busy
<1>8. CASE LinkBack(u)
  BY <1>2, <1>8 DEF LinkBack, Busy
<1>9. CASE RemoveNew(u)
  BY <1>1, <1>9 DEF RemoveNew, Busy
<1>10. CASE ApplyFails(u)
  BY <1>2, <1>10 DEF ApplyFails, Busy
<1>11. CASE RollbackPath(u)
  BY <1>2, <1>11 DEF RollbackPath, Busy
<1>12. CASE RollbackFails(u)
  BY <1>2, <1>12 DEF RollbackFails, Busy
<1>13. CASE Cleanup(u)
  BY <1>1, <1>13 DEF Cleanup, Busy
<1> QED
  BY <1>3, <1>4, <1>5, <1>6, <1>7, <1>8, <1>9, <1>10, <1>11, <1>12, <1>13 DEF Restore

LEMMA HeadTouched ==
  ASSUME NEW u \in Undoers, Listed(u), Busy(u)
  PROVE  Head(left[u]).path \in Touched(recs[u]) /\ Head(left[u]).from \in Touched(recs[u])
<1>1. Head(left[u]) \in Range(recs[u])
  BY HeadTailProperties DEF Listed
<1> QED
  BY <1>1 DEF Touched

(* It changes only what its snapshot holds, and puts that back.            *)
LEMMA OwnKept ==
  ASSUME Formed, NEW u \in Undoers, Listed(u), Kept(u), Restore(u)
  PROVE  Kept(u)'
<1>1. ASSUME NEW p \in Paths, Pick(u, p) PROVE Kept(u)'
  <2>1. store' = store /\ start'[u] = store /\ pc'[u] = "load"
    BY <1>1 DEF Pick, Goto, Formed
  <2> QED
    BY <2>1 DEF Kept, Formed
<1>2. CASE Load(u)
  <2>1. pc'[u] \in {"preflight", "false"} /\ pc[u] = "load"
    BY <1>2 DEF Load, Goto, Formed
  <2>2. store' = store /\ start' = start /\ calm' = calm
    BY <1>2 DEF Load, ghosts
  <2> QED
    BY <2>1, <2>2 DEF Kept, Underway
<1>3. CASE Preflight(u)
  <2>1. pc'[u] \in {"preflight", "capture", "false"} /\ pc[u] = "preflight"
    BY <1>3 DEF Preflight, Advance, Goto, Formed
  <2>2. store' = store /\ start' = start /\ calm' = calm
    BY <1>3 DEF Preflight, ghosts
  <2> QED
    BY <2>1, <2>2 DEF Kept, Underway
<1>4. CASE Capture(u)
  <2>1. pc'[u] = "apply" /\ pc[u] = "capture"
    BY <1>4 DEF Capture, Goto, Formed
  <2>2. store' = store /\ start' = start /\ calm' = calm /\ recs' = recs
    BY <1>4 DEF Capture, ghosts
  <2>3. \A p \in Paths : p \in Touched(recs[u]) => snap'[u][p] = store[p]
    BY <1>4 DEF Capture, Formed
  <2>4. Touched(recs[u])' = Touched(recs[u])
    BY <2>2 DEF Touched
  <2> QED
    BY <2>1, <2>2, <2>3, <2>4 DEF Kept, Underway
<1>5. ASSUME pc[u] \in {"apply", "rmold"}, pc'[u] \in {"apply", "rmold", "cleanup"},
             start' = start, recs' = recs, snap' = snap, calm'[u] => calm[u],
             NEW q \in Touched(recs[u]), NEW v, store' = [store EXCEPT ![q] = v]
      PROVE  Kept(u)'
  <2>1. Touched(recs[u])' = Touched(recs[u])
    BY <1>5 DEF Touched
  <2>2. \A p \in Paths : p # q => store'[p] = store[p]
    BY <1>5 DEF Formed
  <2> QED
    BY <1>5, <2>1, <2>2 DEF Kept, Underway
<1>6. CASE ApplyRecord(u)
  <2> DEFINE r == Head(left[u])
  <2>1. pc[u] = "apply" /\ pc'[u] \in {"apply", "cleanup"}
    BY <1>6 DEF ApplyRecord, Advance, Goto, Formed
  <2>2. r.path \in Touched(recs[u])
    BY <2>1, HeadTouched DEF Busy
  <2>3. store' = [store EXCEPT ![r.path] = IF r.op = "add" THEN Absent ELSE r.before]
    BY <1>6 DEF ApplyRecord
  <2>4. start' = start /\ recs' = recs /\ snap' = snap /\ (calm'[u] => calm[u])
    BY <1>6 DEF ApplyRecord, Disturb
  <2> HIDE DEF r
  <2> QED
    BY <1>5, <2>1, <2>2, <2>3, <2>4
<1>7. CASE LinkBack(u)
  <2> DEFINE r == Head(left[u])
  <2>1. pc[u] = "apply" /\ pc'[u] = "rmold"
    BY <1>7 DEF LinkBack, Goto, Formed
  <2>2. r.from \in Touched(recs[u])
    BY <2>1, HeadTouched DEF Busy
  <2>3. store' = [store EXCEPT ![r.from] = store[r.path]]
    BY <1>7 DEF LinkBack
  <2>4. start' = start /\ recs' = recs /\ snap' = snap /\ (calm'[u] => calm[u])
    BY <1>7 DEF LinkBack, Disturb
  <2> HIDE DEF r
  <2> QED
    BY <1>5, <2>1, <2>2, <2>3, <2>4
<1>8. CASE RemoveNew(u)
  <2> DEFINE r == Head(left[u])
  <2>1. pc[u] = "rmold" /\ pc'[u] \in {"apply", "cleanup"}
    BY <1>8 DEF RemoveNew, Advance, Goto, Formed
  <2>2. r.path \in Touched(recs[u])
    BY <2>1, HeadTouched DEF Busy
  <2>3. store' = [store EXCEPT ![r.path] = Absent]
    BY <1>8 DEF RemoveNew
  <2>4. start' = start /\ recs' = recs /\ snap' = snap /\ (calm'[u] => calm[u])
    BY <1>8 DEF RemoveNew, Disturb
  <2> HIDE DEF r
  <2> QED
    BY <1>5, <2>1, <2>2, <2>3, <2>4
<1>9. CASE ApplyFails(u)
  <2>1. pc[u] \in {"apply", "rmold"} /\ pc'[u] = "rollback"
    BY <1>9 DEF ApplyFails, Goto, Formed
  <2>2. back'[u] = Touched(recs[u])
    BY <1>9 DEF ApplyFails, Formed
  <2>3. store' = store /\ start' = start /\ recs' = recs /\ snap' = snap /\ calm' = calm
    BY <1>9 DEF ApplyFails, ghosts
  <2> QED
    BY <2>1, <2>2, <2>3 DEF Kept, Underway
<1>10. CASE RollbackPath(u)
  <2>1. PICK q \in back[u] : /\ store' = [store EXCEPT ![q] = snap[u][q]]
                             /\ back'[u] = back[u] \ {q}
    BY <1>10 DEF RollbackPath, Formed
  <2>2. pc[u] = "rollback" /\ pc'[u] \in {"rollback", "false"}
    BY <1>10 DEF RollbackPath, Goto, Formed
  <2>3. start' = start /\ snap' = snap /\ (calm'[u] => calm[u])
    BY <1>10 DEF RollbackPath, Disturb
  <2>4. \A p \in Paths : store'[p] = IF p = q THEN snap[u][q] ELSE store[p]
    BY <2>1 DEF Formed
  <2> QED
    BY <2>1, <2>2, <2>3, <2>4 DEF Kept, Underway
<1>11. CASE RollbackFails(u)
  <2>1. pc'[u] = "false"
    BY <1>11 DEF RollbackFails, Goto, Formed
  <2> QED
    BY <2>1 DEF Kept, Underway
<1>12. CASE Cleanup(u)
  <2>1. pc'[u] \in {"cleanup", "true"} /\ pc[u] = "cleanup" /\ start' = start
    BY <1>12 DEF Cleanup, Advance, Goto, Formed, ghosts
  <2> QED
    BY <2>1 DEF Kept, Underway
<1> QED
  BY <1>1, <1>2, <1>3, <1>4, <1>6, <1>7, <1>8, <1>9, <1>10, <1>11, <1>12 DEF Restore

LEMMA KeptStep == TypedConstants /\ KeptInv /\ [UndoNext]_uvars => KeptInv'
<1> SUFFICES ASSUME TypedConstants, KeptInv, [UndoNext]_uvars PROVE KeptInv'
  OBVIOUS
<1>1. CASE UNCHANGED uvars
  BY <1>1 DEF KeptInv, uvars, restores, ghosts, Formed, Listed, Kept, Busy, Underway, Touched
<1>2. CASE UndoNext
  <2>1. Formed'
    BY <1>2, FormedStep DEF KeptInv
  <2>2. ASSUME NEW u \in Undoers PROVE Listed(u)' /\ Kept(u)'
    <3>1. CASE \E e \in Edits : Edit(e)
      BY <3>1, EditApart, ApartKept DEF KeptInv
    <3>2. CASE \E v \in Undoers : v # u /\ Restore(v)
      BY <3>2, RestoreApart, ApartKept DEF KeptInv
    <3>3. CASE Restore(u)
      BY <3>3, OwnListed, OwnKept DEF KeptInv
    <3> QED
      BY <1>2, <3>1, <3>2, <3>3 DEF UndoNext
  <2> QED
    BY <2>1, <2>2 DEF KeptInv
<1> QED
  BY <1>1, <1>2

(* So one that reports failure has changed nothing, unless its rollback    *)
(* was cut short.                                                          *)
LEMMA FailureStep ==
  ASSUME TypedConstants, KeptInv, UndoNext, NEW u \in Undoers, pc'[u] = "false", pc[u] # "false", calm[u],
         ~RollbackFails(u)
  PROVE  store' = start[u]
<1>1. Formed /\ Listed(u) /\ Kept(u)
  BY DEF KeptInv
<1>2. Restore(u)
  <2>1. ~Same(u)
    BY DEF Same
  <2> QED
    BY <1>1, <2>1, EditApart, RestoreApart DEF UndoNext, Apart
<1>3. CASE Load(u)
  BY <1>1, <1>3 DEF Load, ghosts, Kept
<1>4. CASE Preflight(u)
  BY <1>1, <1>4 DEF Preflight, ghosts, Kept
<1>5. CASE RollbackPath(u)
  <2>1. PICK q \in back[u] : /\ store' = [store EXCEPT ![q] = snap[u][q]]
                             /\ Goto(u, IF back[u] = {q} THEN "false" ELSE "rollback")
    BY <1>5 DEF RollbackPath
  <2>2. back[u] = {q}
    BY <1>1, <2>1 DEF Goto, Formed
  <2>3. pc[u] = "rollback" /\ Underway(u)
    BY <1>5 DEF RollbackPath, Underway
  <2>4. \A p \in Paths : store'[p] = start[u][p]
    BY <1>1, <2>1, <2>2, <2>3 DEF Kept, Formed
  <2>5. store' = [p \in Paths |-> store'[p]]
    BY <1>1, <2>1 DEF Formed
  <2>6. start[u] = [p \in Paths |-> start[u][p]]
    BY <1>1, <2>3 DEF Kept
  <2> QED
    BY <2>4, <2>5, <2>6
<1>6. CASE \/ \E p \in Paths : Pick(u, p)
           \/ Capture(u) \/ ApplyRecord(u) \/ LinkBack(u) \/ RemoveNew(u) \/ ApplyFails(u) \/ Cleanup(u)
  <2>1. pc'[u] # "false"
    BY <1>1, <1>6 DEF Pick, Capture, ApplyRecord, LinkBack, RemoveNew, ApplyFails, Cleanup, Advance, Goto, Formed
  <2> QED
    BY <2>1
<1> QED
  BY <1>2, <1>3, <1>4, <1>5, <1>6 DEF Restore

-----------------------------------------------------------------------------
(* The files an operation names.  A rename is taken to be the only         *)
(* operation on either of its files: a file that is edited and renamed by  *)
(* one transaction cannot be restored, as a run of the model shows.        *)
Names(o) == IF o.op = "rename" THEN {o.path, o.to} ELSE {o.path}
RenamesApart ==
  \A s \in Scripts : \A i \in DOMAIN s : s[i].op = "rename" =>
    /\ s[i].path # s[i].to
    /\ \A j \in DOMAIN s : j # i => Names(s[i]) \cap Names(s[j]) = {}

(* Or every operation is, as the planner makes them: one for each file.    *)
OnePerFile ==
  /\ Absent \notin Values
  /\ \A s \in Scripts : \A i, j \in DOMAIN s : j # i => Names(s[i]) \cap Names(s[j]) = {}

(* What the undo records of an edit say, from what the files held before   *)
(* it and after.                                                           *)
Sides(r) == {r.path, r.from}
Describes(r, b, a) ==
  /\ r.path \in Paths /\ r.from \in Paths /\ r.after = a[r.path]
  /\ r.op # "rename" => r.from = r.path /\ r.before = b[r.path] /\ (r.op = "add" => b[r.path] = Absent)
  /\ r.op = "rename" =>
       /\ r.from # r.path /\ b[r.path] = Absent /\ a[r.path] = b[r.from]
       /\ b[r.from] # Absent /\ a[r.from] = Absent
  /\ OnePerFile => (r.op = "add" => a[r.path] # Absent) /\ (r.op = "delete" => a[r.path] = Absent)

Good(rs, b, a) ==
  /\ \A r \in rs : Describes(r, b, a)
  /\ \A r, q \in rs : r # q => Sides(r) \cap Sides(q) = {}
  /\ \A p \in Paths : b[p] # a[p] => \E r \in rs : p \in Sides(r)

(* The records an edit has saved, or has still to save, are among those it *)
(* made, which say how many they are.                                      *)
Whole(e) ==
  \E rs :
    /\ IsFiniteSet(rs) /\ Good(rs, pre[e], post[e])
    /\ \A r \in rs : r.tx = e /\ r.count \in Nat /\ r.count >= Cardinality(rs)
    /\ {r \in undo : r.tx = e} \subseteq rs
    /\ saving[e] \in Seq(rs)
Recording ==
  /\ DOMAIN saving = Edits /\ DOMAIN pre = Edits /\ DOMAIN post = Edits /\ order \in Seq(Edits)
  /\ \A r \in undo : r.tx \in Range(order)
  /\ \A e \in Edits : IF e \in Range(order) THEN Whole(e) ELSE saving[e] = <<>>

(* A restore has all the records of its edit, each once.                   *)
Distinct(s) == \A i, j \in DOMAIN s : i # j => s[i] # s[j]
Loaded(u) ==
  /\ Underway(u) => tx[u] \in Range(order)
  /\ Busy(u) =>
       /\ Good(Range(recs[u]), pre[tx[u]], post[tx[u]])
       /\ Distinct(recs[u]) /\ Distinct(left[u])

(* Undisturbed, it found the files as the edit left them, and has put back *)
(* those of the records it has applied.                                    *)
Done(u) == Range(recs[u]) \ Range(left[u])
WasLeft(r, f) == f[r.path] = r.after /\ (r.op = "rename" => f[r.from] = Absent)
Restored(u, rs, also) ==
  \A p \in Paths : store[p] = IF p \in also \/ \E r \in rs : p \in Sides(r) THEN pre[tx[u]][p] ELSE start[u][p]
Progress(u) ==
  calm[u] =>
    /\ pc[u] = "preflight" => \A r \in Done(u) : WasLeft(r, start[u])
    /\ pc[u] \in {"capture", "apply", "rmold", "cleanup"} => \A r \in Range(recs[u]) : WasLeft(r, start[u])
    /\ pc[u] = "capture" => Done(u) = {}
    /\ pc[u] = "apply" => Restored(u, Done(u), {})
    /\ pc[u] = "rmold" => Restored(u, Done(u), {Head(left[u]).from}) /\ Head(left[u]).op = "rename"
    /\ pc[u] = "cleanup" => Restored(u, Range(recs[u]), {})

(* What can be put back undisturbed is put back, unless a call failed.     *)
Blame(u) ==
  /\ faults \in Nat
  /\ OnePerFile /\ calm[u] /\ pc[u] = "rollback" => faults >= 1

UndoInv ==
  /\ KeptInv /\ Recording
  /\ \A u \in Undoers : Loaded(u) /\ Progress(u) /\ Blame(u)

-----------------------------------------------------------------------------
(* Taken one after the other, the elements of a set are all taken.         *)
LEMMA NthTakes ==
  ASSUME NEW is, is \subseteq Nat, IsFiniteSet(is), NEW n, n = Cardinality(is)
  PROVE  /\ \A k \in 1..n : Nth(is, k) \in is
         /\ \A i \in is : \E k \in 1..n : Nth(is, k) = i
<1> DEFINE Upto(i) == {j \in is : j <= i}
           f == [i \in is |-> Cardinality(Upto(i))]
<1>1. n \in Nat
  BY FS_CardinalityType
<1>2. ASSUME NEW i \in is
      PROVE  IsFiniteSet(Upto(i)) /\ Cardinality(Upto(i)) \in 1..n
  <2>1. Upto(i) \subseteq is /\ i \in Upto(i)
    OBVIOUS
  <2> HIDE DEF Upto
  <2>2. IsFiniteSet(Upto(i)) /\ Cardinality(Upto(i)) <= n
    BY <2>1, FS_Subset
  <2>3. Cardinality(Upto(i)) \in Nat /\ Cardinality(Upto(i)) # 0
    BY <2>1, <2>2, FS_CardinalityType, FS_EmptySet
  <2> QED
    BY <1>1, <2>2, <2>3
<1>3. ASSUME NEW i \in is, NEW j \in is, Cardinality(Upto(i)) = Cardinality(Upto(j)) PROVE i = j
  <2>1. IsFiniteSet(Upto(i)) /\ IsFiniteSet(Upto(j))
    BY <1>2
  <2>2. Upto(i) \subseteq Upto(j) \/ Upto(j) \subseteq Upto(i)
    <3>1. i \in Nat /\ j \in Nat /\ \A k \in is : k \in Nat
      OBVIOUS
    <3>2. CASE i <= j
      <4>1. \A k \in is : k <= i => k <= j
        BY <3>1, <3>2
      <4> QED
        BY <4>1
    <3>3. CASE ~(i <= j)
      <4>1. \A k \in is : k <= j => k <= i
        BY <3>1, <3>3
      <4> QED
        BY <4>1
    <3> QED
      BY <3>2, <3>3
  <2>3. Upto(i) = Upto(j)
    <3> HIDE DEF Upto
    <3> QED
      BY <1>3, <2>1, <2>2, FS_Subset
  <2>4. i \in Upto(i) /\ j \in Upto(j)
    OBVIOUS
  <2>5. i <= j /\ j <= i
    BY <2>3, <2>4
  <2> QED
    BY <2>5
<1>4. f \in Injection(is, 1..n)
  <2> HIDE DEF Upto
  <2> QED
    BY <1>2, <1>3 DEF Injection, IsInjective
<1>5. Cardinality(1..n) = n /\ IsFiniteSet(1..n)
  BY <1>1, FS_Interval
<1>6. f \in Surjection(is, 1..n)
  <2> HIDE DEF f
  <2> QED
    BY <1>4, <1>5, FS_Injection
<1>7. ASSUME NEW k \in 1..n PROVE \E i \in is : Cardinality(Upto(i)) = k
  <2> HIDE DEF Upto
  <2> QED
    BY <1>6 DEF Surjection
<1>8. ASSUME NEW k \in 1..n PROVE Nth(is, k) \in is /\ Cardinality(Upto(Nth(is, k))) = k
  <2>1. \E i \in is : Cardinality({j \in is : j <= i}) = k
    BY <1>7
  <2> QED
    BY <2>1, Zenon DEF Nth
<1>9. ASSUME NEW i \in is PROVE \E k \in 1..n : Nth(is, k) = i
  <2>1. PICK k \in 1..n : k = Cardinality(Upto(i))
    BY <1>2
  <2>2. Nth(is, k) \in is /\ Cardinality(Upto(Nth(is, k))) = k
    BY <1>8
  <2> HIDE DEF Upto
  <2> QED
    BY <1>3, <2>1, <2>2
<1> QED
  BY <1>8, <1>9

(* A list of lists made into one holds what the lists hold.                *)
Flat(f, ss) == f = [i \in 1..Len(ss) |-> IF i = 1 THEN ss[i] ELSE f[i - 1] \o ss[i]]
FlatTo(f, k, ss) == f = [i \in 1..k |-> IF i = 1 THEN ss[i] ELSE f[i - 1] \o ss[i]]

LEMMA OneMoreList ==
  ASSUME NEW k \in Nat, k # 0, NEW ss, NEW h, FlatTo(h, k - 1, ss)
  PROVE  \E f : FlatTo(f, k, ss)
<1> DEFINE f == [i \in 1..k |-> IF i # k THEN h[i] ELSE IF k = 1 THEN ss[k] ELSE h[k - 1] \o ss[k]]
<1>1. \A i \in 1..(k - 1) : h[i] = IF i = 1 THEN ss[i] ELSE h[i - 1] \o ss[i]
  BY DEF FlatTo
<1>2. ASSUME NEW i \in 1..k PROVE f[i] = IF i = 1 THEN ss[i] ELSE f[i - 1] \o ss[i]
  <2>1. CASE i = k
    <3>1. k # 1 => k - 1 \in 1..k /\ k - 1 # k
      OBVIOUS
    <3>2. k # 1 => f[k - 1] = h[k - 1]
      BY <3>1
    <3> QED
      BY <2>1, <3>2
  <2>2. CASE i # k
    <3>1. i \in 1..(k - 1) /\ (i # 1 => i - 1 \in 1..(k - 1) /\ i - 1 \in 1..k /\ i - 1 # k)
      BY <2>2
    <3>2. f[i] = h[i] /\ (i # 1 => f[i - 1] = h[i - 1])
      BY <2>2, <3>1
    <3> QED
      BY <1>1, <3>1, <3>2
  <2> QED
    BY <2>1, <2>2
<1>3. FlatTo(f, k, ss)
  <2>1. f = [i \in 1..k |-> f[i]]
    OBVIOUS
  <2> HIDE DEF f
  <2> QED
    BY <1>2, <2>1 DEF FlatTo
<1> QED
  BY <1>3

LEMMA FlatExists ==
  ASSUME NEW n \in Nat, NEW ss
  PROVE  \E f : FlatTo(f, n, ss)
<1> DEFINE D == {k \in Nat : ~\E f : FlatTo(f, k, ss)}
<1>1. SUFFICES ASSUME D # {} PROVE FALSE
  OBVIOUS
<1>2. PICK d \in D : \A k \in D : ~(k < d)
  <2>1. D \subseteq Nat
    OBVIOUS
  <2> HIDE DEF D
  <2> QED
    BY <1>1, <2>1, Least
<1>3. d \in Nat /\ ~\E f : FlatTo(f, d, ss)
  OBVIOUS
<1>4. CASE d = 0
  <2> DEFINE f == [i \in 1..0 |-> ss]
  <2>1. 1..0 = {}
    OBVIOUS
  <2>2. f = [i \in 1..0 |-> IF i = 1 THEN ss[i] ELSE f[i - 1] \o ss[i]]
    BY <2>1
  <2>3. FlatTo(f, 0, ss)
    BY <2>2 DEF FlatTo
  <2> QED
    BY <1>3, <1>4, <2>3
<1>5. CASE d # 0
  <2>1. d - 1 \in Nat /\ d - 1 < d
    BY <1>3, <1>5
  <2>2. d - 1 \notin D
    BY <1>2, <2>1
  <2>3. PICK h : FlatTo(h, d - 1, ss)
    BY <2>1, <2>2
  <2> HIDE DEF D
  <2>4. \E f : FlatTo(f, d, ss)
    BY <1>3, <1>5, <2>3, OneMoreList
  <2> QED
    BY <1>3, <2>4
<1> QED
  BY <1>4, <1>5

HoldsTo(l, k, ss, S) ==
  /\ l \in Seq(S)
  /\ \A x : x \in Range(l) <=> \E i \in 1..k : x \in Range(ss[i])

LEMMA FlatHolds ==
  ASSUME NEW S, NEW ss, NEW n \in Nat, \A i \in 1..n : ss[i] \in Seq(S),
         NEW f, FlatTo(f, n, ss), NEW j \in 1..n
  PROVE  HoldsTo(f[j], j, ss, S)
<1> DEFINE Ok(k) == HoldsTo(f[k], k, ss, S)
           D == {k \in 1..n : ~Ok(k)}
<1>1. SUFFICES ASSUME D # {} PROVE FALSE
  OBVIOUS
<1>2. PICK d \in D : \A k \in D : ~(k < d)
  <2>1. D \subseteq Nat
    OBVIOUS
  <2> HIDE DEF D
  <2> QED
    BY <1>1, <2>1, Least
<1>3. d \in 1..n /\ ~Ok(d)
  OBVIOUS
<1>4. f[d] = IF d = 1 THEN ss[d] ELSE f[d - 1] \o ss[d]
  BY <1>3 DEF FlatTo
<1>5. CASE d = 1
  <2>1. \A i \in 1..d : i = d
    BY <1>5
  <2> QED
    BY <1>3, <1>4, <1>5, <2>1 DEF HoldsTo
<1>6. CASE d # 1
  <2>1. d - 1 \in 1..n /\ d - 1 < d
    BY <1>3, <1>6
  <2>2. Ok(d - 1)
    BY <1>2, <2>1
  <2>3. PICK g : g = f[d - 1]
    OBVIOUS
  <2>4. g \in Seq(S) /\ ss[d] \in Seq(S) /\ f[d] = g \o ss[d]
    BY <1>3, <1>4, <1>6, <2>2, <2>3 DEF HoldsTo
  <2>5. Range(g \o ss[d]) = Range(g) \cup Range(ss[d])
    BY <2>4, RangeConcatenation
  <2>6. \A i : i \in 1..d <=> i \in 1..(d - 1) \/ i = d
    BY <1>3, <1>6
  <2>7. \A x : x \in Range(g) <=> \E i \in 1..(d - 1) : x \in Range(ss[i])
    BY <2>2, <2>3 DEF HoldsTo
  <2> HIDE DEF D
  <2>8. \A x : x \in Range(f[d]) <=> \E i \in 1..d : x \in Range(ss[i])
    BY <2>4, <2>5, <2>6, <2>7
  <2>9. f[d] \in Seq(S)
    BY <2>4, ConcatProperties
  <2> QED
    BY <1>3, <2>8, <2>9 DEF HoldsTo
<1> QED
  BY <1>5, <1>6

LEMMA FlattenHolds ==
  ASSUME NEW S, NEW ss \in Seq(Seq(S))
  PROVE  /\ FlattenSeq(ss) \in Seq(S)
         /\ \A x : x \in Range(FlattenSeq(ss)) <=> \E i \in 1..Len(ss) : x \in Range(ss[i])
<1> DEFINE n == Len(ss)
           G(f) == [i \in 1..n |-> IF i = 1 THEN ss[i] ELSE f[i - 1] \o ss[i]]
           a == CHOOSE f : f = G(f)
<1>1. n \in Nat /\ \A i \in 1..n : ss[i] \in Seq(S)
  OBVIOUS
<1>2. CASE n = 0
  <2>1. ss = <<>>
    BY <1>2, EmptySeq
  <2>2. FlattenSeq(ss) = <<>>
    BY <1>2, <2>1 DEF FlattenSeq
  <2> QED
    BY <1>2, <2>2 DEF Range
<1>3. CASE n # 0
  <2>1. PICK f : FlatTo(f, n, ss)
    BY <1>1, FlatExists
  <2>2. f = G(f)
    BY <2>1 DEF FlatTo
  <2>3. a = G(a)
    BY <2>2
  <2>4. FlattenSeq(ss) = a[n]
    BY <1>3 DEF FlattenSeq
  <2>5. FlatTo(a, n, ss)
    BY <2>3 DEF FlatTo
  <2> HIDE DEF a
  <2>6. n \in 1..n
    BY <1>1, <1>3
  <2> HIDE DEF n
  <2>7. HoldsTo(a[n], n, ss, S)
    BY <1>1, <2>5, <2>6, FlatHolds
  <2> QED
    BY <2>4, <2>7 DEF n, HoldsTo
<1> QED
  BY <1>2, <1>3

-----------------------------------------------------------------------------
(* The mutations of a transaction are those of its operations.             *)
MutationRecords == [path : Paths, op : {"add", "text", "delete", "rename"}, from : Paths, to : Paths]

LEMMA OfOperation ==
  ASSUME NEW o \in Operations, NEW b
  PROVE  /\ MutationsOf(o, b) \in Seq(MutationRecords)
         /\ o.op = "rename" =>
              Range(MutationsOf(o, b)) = {Mutation(o.path, "rename", o.path, o.to),
                                          Mutation(o.to, "rename", o.path, o.to)}
         /\ o.op = "remove" => Range(MutationsOf(o, b)) = {Mutation(o.path, "delete", o.path, o.path)}
         /\ o.op = "write" =>
              Range(MutationsOf(o, b)) =
                {Mutation(o.path, IF b[o.path] = Absent THEN "add" ELSE "text", o.path, o.path)}
<1>1. o.op \in {"write", "remove", "rename"} /\ o.path \in Paths /\ o.to \in Paths
  BY DEF Operations
<1>2. \A x, y : Range(<<x, y>>) = {x, y}
  BY DEF Range
<1>3. \A x : Range(<<x>>) = {x}
  BY DEF Range
<1>4. CASE o.op = "rename"
  <2>1. PICK x, y : x = Mutation(o.path, "rename", o.path, o.to) /\ y = Mutation(o.to, "rename", o.path, o.to)
    OBVIOUS
  <2>2. x \in MutationRecords /\ y \in MutationRecords
    BY <1>1, <2>1 DEF Mutation, MutationRecords
  <2>3. MutationsOf(o, b) = <<x, y>>
    BY <1>4, <2>1 DEF MutationsOf
  <2> QED
    BY <1>2, <1>4, <2>1, <2>2, <2>3
<1>5. CASE o.op = "remove"
  <2>1. PICK x : x = Mutation(o.path, "delete", o.path, o.path)
    OBVIOUS
  <2>2. x \in MutationRecords
    BY <1>1, <2>1 DEF Mutation, MutationRecords
  <2>3. MutationsOf(o, b) = <<x>>
    BY <1>5, <2>1 DEF MutationsOf
  <2> QED
    BY <1>3, <1>5, <2>1, <2>2, <2>3
<1>6. CASE o.op = "write"
  <2>1. PICK x : x = Mutation(o.path, IF b[o.path] = Absent THEN "add" ELSE "text", o.path, o.path)
    OBVIOUS
  <2>2. x \in MutationRecords
    BY <1>1, <2>1 DEF Mutation, MutationRecords
  <2>3. MutationsOf(o, b) = <<x>>
    BY <1>6, <2>1 DEF MutationsOf
  <2> QED
    BY <1>3, <1>6, <2>1, <2>2, <2>3
<1> QED
  BY <1>1, <1>4, <1>5, <1>6

LEMMA OfScript ==
  ASSUME NEW s \in Seq(Operations), NEW b
  PROVE  /\ Mutations(s, b) \in Seq(MutationRecords)
         /\ \A m : m \in Range(Mutations(s, b)) <=> \E i \in DOMAIN s : m \in Range(MutationsOf(s[i], b))
<1> DEFINE ss == [i \in DOMAIN s |-> MutationsOf(s[i], b)]
<1>1. \A i \in DOMAIN s : s[i] \in Operations
  OBVIOUS
<1>2. \A i \in DOMAIN s : ss[i] \in Seq(MutationRecords)
  BY <1>1, OfOperation
<1>3. ss \in Seq(Seq(MutationRecords)) /\ Len(ss) = Len(s) /\ DOMAIN s = 1..Len(s)
  <2>1. DOMAIN s = 1..Len(s) /\ Len(s) \in Nat
    OBVIOUS
  <2>2. ss \in [1..Len(s) -> Seq(MutationRecords)]
    BY <1>2, <2>1
  <2> HIDE DEF ss
  <2> QED
    BY <2>1, <2>2
<1>4. \A i \in DOMAIN s : ss[i] = MutationsOf(s[i], b)
  OBVIOUS
<1>5. Mutations(s, b) = FlattenSeq(ss)
  BY DEF Mutations
<1> HIDE DEF ss
<1> QED
  BY <1>3, <1>4, <1>5, FlattenHolds

-----------------------------------------------------------------------------
(* Operations that do not name a file leave it as it is.                   *)
LEMMA Untouched ==
  ASSUME NEW s \in Seq(Operations), NEW st, NEW g, Stepwise(g, s, st), NEW p \in Paths,
         NEW lo \in 0..Len(s), NEW hi \in 0..Len(s), lo <= hi,
         \A j \in (lo + 1)..hi : p \notin Names(s[j])
  PROVE  g[hi][p] = g[lo][p]
<1> DEFINE D == {k \in lo..hi : g[k][p] # g[lo][p]}
<1>1. SUFFICES ASSUME D # {} PROVE FALSE
  <2>1. hi \in lo..hi
    OBVIOUS
  <2> QED
    BY <2>1
<1>2. PICK d \in D : \A k \in D : ~(k < d)
  <2>1. D \subseteq Nat
    OBVIOUS
  <2> HIDE DEF D
  <2> QED
    BY <1>1, <2>1, Least
<1>3. d \in lo..hi /\ g[d][p] # g[lo][p]
  OBVIOUS
<1>4. d # lo
  BY <1>3
<1>5. d - 1 \in lo..hi /\ d - 1 < d /\ d \in (lo + 1)..hi /\ d \in 0..Len(s) /\ d # 0 /\ d \in 1..Len(s)
  BY <1>3, <1>4
<1>6. g[d - 1][p] = g[lo][p]
  BY <1>2, <1>5
<1> HIDE DEF D
<1>7. g[d] = Atomic!Effect(g[d - 1], s[d])
  BY <1>5 DEF Stepwise
<1>8. p \notin Names(s[d])
  BY <1>5
<1>9. Atomic!Effect(g[d - 1], s[d])[p] = g[d - 1][p]
  BY <1>8 DEF Atomic!Effect, Names
<1> QED
  BY <1>3, <1>6, <1>7, <1>9

(* A file changed is one that some operation names; an operation that has  *)
(* its files to itself does to them what it does alone.                    *)
LEMMA Outcome ==
  ASSUME NEW s \in Seq(Operations), NEW b, b = [p \in Paths |-> b[p]],
         NEW a, a = Atomic!Result(s, b)
  PROVE  /\ \A p \in Paths : a[p] # b[p] => \E i \in DOMAIN s : p \in Names(s[i])
         /\ \A i \in DOMAIN s :
              (\A j \in DOMAIN s : j # i => Names(s[i]) \cap Names(s[j]) = {})
              => \A p \in Names(s[i]) : p \in Paths => a[p] = Atomic!Effect(b, s[i])[p]
<1>1. Len(s) \in Nat /\ DOMAIN s = 1..Len(s) /\ Len(s) \in 0..Len(s) /\ 0 \in 0..Len(s)
  OBVIOUS
<1>2. PICK g : Stepwise(g, s, b) /\ a = g[Len(s)]
  BY <1>1, AfterSteps
<1>3. g[0] = b
  BY <1>1, <1>2 DEF Stepwise
<1>4. ASSUME NEW p \in Paths, a[p] # b[p] PROVE \E i \in DOMAIN s : p \in Names(s[i])
  <2>1. SUFFICES ASSUME \A j \in DOMAIN s : p \notin Names(s[j]) PROVE FALSE
    OBVIOUS
  <2>2. \A j \in (0 + 1)..Len(s) : p \notin Names(s[j])
    BY <1>1, <2>1
  <2>3. g[Len(s)][p] = g[0][p]
    BY <1>1, <1>2, <2>2, Untouched
  <2> QED
    BY <1>2, <1>3, <1>4, <2>3
<1>5. ASSUME NEW i \in DOMAIN s, \A j \in DOMAIN s : j # i => Names(s[i]) \cap Names(s[j]) = {},
             NEW p \in Names(s[i]), p \in Paths
      PROVE  a[p] = Atomic!Effect(b, s[i])[p]
  <2>1. i \in 1..Len(s) /\ i \in 0..Len(s) /\ i - 1 \in 0..Len(s) /\ i # 0
    BY <1>1
  <2>2. ASSUME NEW q \in Names(s[i]), q \in Paths PROVE g[i - 1][q] = b[q]
    <3>1. \A j \in (0 + 1)..(i - 1) : j \in DOMAIN s /\ j # i
      BY <1>1, <2>1
    <3>2. \A j \in (0 + 1)..(i - 1) : q \notin Names(s[j])
      BY <1>5, <2>2, <3>1
    <3>3. 0 <= i - 1
      BY <2>1
    <3>4. g[i - 1][q] = g[0][q]
      BY <1>1, <1>2, <2>1, <2>2, <3>2, <3>3, Untouched
    <3> QED
      BY <1>3, <3>4
  <2>3. g[i] = Atomic!Effect(g[i - 1], s[i])
    BY <1>2, <2>1 DEF Stepwise
  <2>4. a[p] = g[i][p]
    <3>1. \A j \in (i + 1)..Len(s) : j \in DOMAIN s /\ j # i
      BY <1>1, <2>1
    <3>2. \A j \in (i + 1)..Len(s) : p \notin Names(s[j])
      BY <1>5, <3>1
    <3>3. i <= Len(s)
      BY <2>1
    <3> QED
      BY <1>1, <1>2, <1>5, <2>1, <3>2, <3>3, Untouched
  <2>5. s[i].path \in Paths /\ s[i].path \in Names(s[i])
    <3>1. s[i] \in Operations
      OBVIOUS
    <3> QED
      BY <3>1 DEF Operations, Names
  <2>6. g[i - 1][s[i].path] = b[s[i].path]
    BY <2>2, <2>5
  <2>7. Atomic!Effect(g[i - 1], s[i])[p] = Atomic!Effect(b, s[i])[p]
    BY <1>5, <2>6 DEF Atomic!Effect, Names
  <2> QED
    BY <2>3, <2>4, <2>7
<1> QED
  BY <1>4, <1>5

-----------------------------------------------------------------------------
(* The mutation an operation is recorded by.                               *)
Recordings(o, b) ==
  CASE o.op = "rename" -> {Mutation(o.to, "rename", o.path, o.to)}
    [] o.op = "remove" -> {Mutation(o.path, "delete", o.path, o.path)}
    [] o.op = "write" -> {Mutation(o.path, IF b[o.path] = Absent THEN "add" ELSE "text", o.path, o.path)}

LEMMA FromOperation ==
  ASSUME TypedConstants, RenamesApart, NEW s \in Scripts, NEW b, NEW i \in RecordedMutations(Mutations(s, b))
  PROVE  \E k \in DOMAIN s : Mutations(s, b)[i] \in Recordings(s[k], b)
<1>1. s \in Seq(Operations)
  BY DEF TypedConstants
<1>2. PICK m : m = Mutations(s, b)[i]
  OBVIOUS
<1>3. m \in Range(Mutations(s, b)) /\ Recordable(Mutations(s, b), i)
  BY <1>2 DEF RecordedMutations, Range
<1>4. PICK k \in DOMAIN s : m \in Range(MutationsOf(s[k], b))
  BY <1>1, <1>3, OfScript
<1>5. s[k] \in Operations
  BY <1>1, <1>4
<1>6. s[k].op \in {"rename", "remove", "write"}
  BY <1>5 DEF Operations
<1>7. CASE s[k].op = "rename"
  <2>1. m \in {Mutation(s[k].path, "rename", s[k].path, s[k].to), Mutation(s[k].to, "rename", s[k].path, s[k].to)}
    BY <1>4, <1>5, <1>7, OfOperation
  <2>2. m.op = "rename" => m.path = m.to
    BY <1>2, <1>3 DEF Recordable
  <2>3. s[k].path # s[k].to
    BY <1>7 DEF RenamesApart
  <2>4. m = Mutation(s[k].to, "rename", s[k].path, s[k].to)
    BY <2>1, <2>2, <2>3 DEF Mutation
  <2> QED
    BY <1>2, <1>7, <2>4 DEF Recordings
<1>8. CASE s[k].op = "remove"
  BY <1>2, <1>4, <1>5, <1>8, OfOperation DEF Recordings
<1>9. CASE s[k].op = "write"
  BY <1>2, <1>4, <1>5, <1>9, OfOperation DEF Recordings
<1> QED
  BY <1>6, <1>7, <1>8, <1>9

(* A recorded operation is described by its record.                        *)
LEMMA RecordDescribes ==
  ASSUME TypedConstants, RenamesApart, NEW s \in Scripts, Applicable(s), store = [p \in Paths |-> store[p]],
         NEW a, a = Atomic!Result(s, store), NEW k \in DOMAIN s, NEW m \in Recordings(s[k], store),
         NEW e, NEW n, NEW r, r = UndoRecord(e, m, store, a, n)
  PROVE  Describes(r, store, a) /\ Sides(r) \subseteq Names(s[k])
<1>1. s \in Seq(Operations)
  BY DEF TypedConstants
<1>2. PICK o : o = s[k]
  OBVIOUS
<1>3. o.op \in {"rename", "remove", "write"} /\ o.path \in Paths /\ o.to \in Paths /\ o.value \in Values
  <2>1. s[k] \in Operations
    BY <1>1
  <2> QED
    BY <1>2, <2>1 DEF Operations
<1>4. (\A j \in DOMAIN s : j # k => Names(s[k]) \cap Names(s[j]) = {})
        => \A p \in Names(o) : p \in Paths => a[p] = Atomic!Effect(store, o)[p]
  BY <1>1, <1>2, Outcome
<1>5. r.op = m.op /\ r.path = m.path /\ r.from = m.from /\ r.before = store[m.from] /\ r.after = a[m.path]
  BY DEF UndoRecord
<1>6. CASE o.op = "rename"
  <2>1. m.path = o.to /\ m.op = "rename" /\ m.from = o.path
    BY <1>2, <1>6 DEF Recordings, Mutation
  <2>2. o.path # o.to
    BY <1>2, <1>6 DEF RenamesApart
  <2>3. \A p \in {o.path, o.to} : a[p] = Atomic!Effect(store, o)[p]
    BY <1>2, <1>3, <1>4, <1>6 DEF RenamesApart, Names
  <2>4. a[o.path] = Absent /\ a[o.to] = store[o.path]
    BY <1>3, <1>6, <2>2, <2>3 DEF Atomic!Effect
  <2>5. store[o.path] # Absent /\ store[o.to] = Absent
    BY <1>2, <1>6 DEF Applicable
  <2> QED
    BY <1>2, <1>3, <1>5, <1>6, <2>1, <2>2, <2>4, <2>5 DEF Describes, Sides, Names
<1>7. CASE o.op = "remove"
  <2>1. m.path = o.path /\ m.op = "delete" /\ m.from = o.path
    BY <1>2, <1>7 DEF Recordings, Mutation
  <2>2. OnePerFile => a[o.path] = Absent
    BY <1>2, <1>3, <1>4, <1>7 DEF OnePerFile, Names, Atomic!Effect
  <2> QED
    BY <1>2, <1>3, <1>5, <1>7, <2>1, <2>2 DEF Describes, Sides, Names
<1>8. CASE o.op = "write"
  <2>1. m.path = o.path /\ m.op = (IF store[o.path] = Absent THEN "add" ELSE "text") /\ m.from = o.path
    BY <1>2, <1>8 DEF Recordings, Mutation
  <2>2. OnePerFile => a[o.path] = o.value
    BY <1>2, <1>3, <1>4, <1>8 DEF OnePerFile, Names, Atomic!Effect
  <2>3. OnePerFile => a[o.path] # Absent
    BY <1>3, <2>2 DEF OnePerFile
  <2> QED
    BY <1>2, <1>3, <1>5, <1>8, <2>1, <2>3 DEF Describes, Sides, Names
<1> QED
  BY <1>3, <1>6, <1>7, <1>8

(* Two mutations recorded are of different operations, and of different    *)
(* files.                                                                  *)
LEMMA RecordsApart ==
  ASSUME TypedConstants, RenamesApart, NEW s \in Scripts, NEW b, NEW ms, ms = Mutations(s, b),
         NEW i \in RecordedMutations(ms), NEW j \in RecordedMutations(ms), i # j
  PROVE  {ms[i].path, ms[i].from} \cap {ms[j].path, ms[j].from} = {}
<1>1. s \in Seq(Operations) /\ ms \in Seq(MutationRecords)
  BY OfScript DEF TypedConstants
<1>2. ms[i].path # ms[j].path
  <2>1. DOMAIN ms \subseteq Nat /\ i \in DOMAIN ms /\ j \in DOMAIN ms
    BY <1>1 DEF RecordedMutations
  <2>2. \A x, y \in RecordedMutations(ms) : x < y => ms[x].path # ms[y].path
    <3>1. ASSUME NEW x \in RecordedMutations(ms), NEW y \in RecordedMutations(ms), x < y PROVE ms[x].path # ms[y].path
      <4>1. x \in DOMAIN ms /\ y \in DOMAIN ms /\ DOMAIN ms = 1..Len(ms) /\ Len(ms) \in Nat
        BY <1>1 DEF RecordedMutations
      <4>2. x \in 1..(y - 1)
        BY <3>1, <4>1
      <4> QED
        BY <4>2 DEF RecordedMutations
    <3> QED
      BY <3>1
  <2>3. i < j \/ j < i
    BY <2>1
  <2> QED
    BY <2>2, <2>3
<1>3. PICK k \in DOMAIN s : ms[i] \in Recordings(s[k], b)
  BY FromOperation
<1>4. PICK l \in DOMAIN s : ms[j] \in Recordings(s[l], b)
  BY FromOperation
<1>5. ASSUME NEW o \in Operations, NEW m \in Recordings(o, b)
      PROVE  /\ {m.path, m.from} \subseteq Names(o) /\ (o.op # "rename" => m.from = m.path)
             /\ \A q \in Recordings(o, b) : q = m
  <2>1. o.op \in {"rename", "remove", "write"}
    BY DEF Operations
  <2> QED
    BY <1>5, <2>1 DEF Recordings, Names, Mutation
<1>6. s[k] \in Operations /\ s[l] \in Operations
  BY <1>1
<1>7. k # l
  BY <1>2, <1>3, <1>4, <1>5, <1>6
<1>8. CASE s[k].op = "rename" \/ s[l].op = "rename"
  <2>1. Names(s[k]) \cap Names(s[l]) = {}
    BY <1>7, <1>8 DEF RenamesApart
  <2>2. {ms[i].path, ms[i].from} \subseteq Names(s[k]) /\ {ms[j].path, ms[j].from} \subseteq Names(s[l])
    BY <1>3, <1>4, <1>5, <1>6
  <2> QED
    BY <2>1, <2>2
<1>9. CASE s[k].op # "rename" /\ s[l].op # "rename"
  <2>1. ms[i].from = ms[i].path /\ ms[j].from = ms[j].path
    BY <1>3, <1>4, <1>5, <1>6, <1>9
  <2> QED
    BY <1>2, <2>1
<1> QED
  BY <1>8, <1>9

(* A file that some operation names is on some record.                     *)
LEMMA FirstRecorded ==
  ASSUME NEW ms \in Seq(MutationRecords), NEW i \in DOMAIN ms, Recordable(ms, i)
  PROVE  \E j \in RecordedMutations(ms) : ms[j].path = ms[i].path
<1> DEFINE D == {j \in DOMAIN ms : Recordable(ms, j) /\ ms[j].path = ms[i].path}
<1>1. D \subseteq Nat /\ i \in D
  OBVIOUS
<1>2. PICK d \in D : \A j \in D : ~(j < d)
  <2> HIDE DEF D
  <2> QED
    BY <1>1, Least
<1>3. \A j \in 1..(d - 1) : j \in DOMAIN ms /\ j < d
  OBVIOUS
<1>4. \A j \in 1..(d - 1) : ~(Recordable(ms, j) /\ ms[j].path = ms[i].path)
  BY <1>2, <1>3
<1>5. d \in DOMAIN ms /\ Recordable(ms, d) /\ ms[d].path = ms[i].path
  OBVIOUS
<1>6. d \in RecordedMutations(ms)
  BY <1>4, <1>5 DEF RecordedMutations
<1> QED
  BY <1>5, <1>6

LEMMA NamedIsRecorded ==
  ASSUME TypedConstants, RenamesApart, NEW s \in Scripts, NEW b, NEW ms, ms = Mutations(s, b),
         NEW k \in DOMAIN s, NEW p \in Names(s[k])
  PROVE  \E i \in RecordedMutations(ms) : p \in {ms[i].path, ms[i].from}
<1>1. s \in Seq(Operations) /\ ms \in Seq(MutationRecords)
  BY OfScript DEF TypedConstants
<1>2. ASSUME NEW m \in Range(ms) PROVE \E l \in DOMAIN s : m \in Range(MutationsOf(s[l], b))
  BY <1>1, OfScript
<1>3. ASSUME NEW o \in Operations, NEW m \in Range(MutationsOf(o, b))
      PROVE  m.path \in Names(o) /\ m.from \in Names(o) /\ (m.op = "rename" <=> o.op = "rename")
  <2>1. o.op \in {"rename", "remove", "write"}
    BY DEF Operations
  <2>2. CASE o.op = "rename"
    BY <1>3, <2>2, OfOperation DEF Names, Mutation
  <2>3. CASE o.op = "remove"
    BY <1>3, <2>3, OfOperation DEF Names, Mutation
  <2>4. CASE o.op = "write"
    <3>1. PICK w \in {"add", "text"} : m = Mutation(o.path, w, o.path, o.path)
      BY <1>3, <2>4, OfOperation
    <3> QED
      BY <2>4, <3>1 DEF Names, Mutation
  <2> QED
    BY <2>1, <2>2, <2>3, <2>4
<1>4. \A l \in DOMAIN s : s[l] \in Operations
  BY <1>1
<1>5. CASE \E l \in DOMAIN s : s[l].op = "rename" /\ p \in Names(s[l])
  <2>1. PICK l \in DOMAIN s : s[l].op = "rename" /\ p \in Names(s[l])
    BY <1>5
  <2>2. PICK o \in Operations : o = s[l]
    BY <1>4
  <2>3. Mutation(o.to, "rename", o.path, o.to) \in Range(ms)
    <3>1. Mutation(o.to, "rename", o.path, o.to) \in Range(MutationsOf(s[l], b))
      BY <2>1, <2>2, OfOperation
    <3> QED
      BY <1>1, <3>1, OfScript
  <2>4. PICK i \in DOMAIN ms : ms[i] = Mutation(o.to, "rename", o.path, o.to)
    BY <2>3 DEF Range
  <2>5. ms[i].path = o.to /\ ms[i].op = "rename" /\ ms[i].to = o.to
    BY <2>4 DEF Mutation
  <2>6. PICK j \in RecordedMutations(ms) : ms[j].path = o.to
    BY <1>1, <2>5, FirstRecorded DEF Recordable
  <2>7. PICK x \in DOMAIN s : ms[j] \in Recordings(s[x], b)
    BY FromOperation
  <2>8. s[x].op \in {"rename", "remove", "write"}
    BY <1>4 DEF Operations
  <2>9. o.to \in Names(s[x])
    BY <2>6, <2>7, <2>8 DEF Recordings, Names, Mutation
  <2>10. o.to \in Names(s[l])
    BY <2>1, <2>2 DEF Names
  <2>11. x = l
    BY <2>1, <2>9, <2>10 DEF RenamesApart
  <2>12. ms[j].path = o.to /\ ms[j].from = o.path
    BY <2>1, <2>2, <2>7, <2>11 DEF Recordings, Mutation
  <2> QED
    BY <2>1, <2>2, <2>12 DEF Names
<1>6. CASE \A l \in DOMAIN s : s[l].op = "rename" => p \notin Names(s[l])
  <2>1. s[k].op # "rename" /\ p = s[k].path
    BY <1>6 DEF Names
  <2>2. \E m \in Range(MutationsOf(s[k], b)) : m.path = p /\ m.op # "rename"
    <3>1. s[k].op \in {"remove", "write"}
      BY <1>4, <2>1 DEF Operations
    <3>2. CASE s[k].op = "remove"
      <4>1. Mutation(p, "delete", p, p) \in Range(MutationsOf(s[k], b))
        BY <1>4, <2>1, <3>2, OfOperation
      <4> QED
        BY <4>1 DEF Mutation
    <3>3. CASE s[k].op = "write"
      <4>1. Mutation(p, IF b[p] = Absent THEN "add" ELSE "text", p, p) \in Range(MutationsOf(s[k], b))
        BY <1>4, <2>1, <3>3, OfOperation
      <4> QED
        BY <4>1 DEF Mutation
    <3> QED
      BY <3>1, <3>2, <3>3
  <2>3. PICK m \in Range(ms) : m.path = p /\ m.op # "rename"
    BY <1>1, <2>2, OfScript
  <2>4. PICK i \in DOMAIN ms : ms[i] = m
    BY DEF Range
  <2>5. ASSUME NEW j \in DOMAIN ms, ms[j].op = "rename" PROVE ms[j].from # p
    <3>1. ms[j] \in Range(ms)
      BY DEF Range
    <3>2. PICK l \in DOMAIN s : ms[j] \in Range(MutationsOf(s[l], b))
      BY <1>2, <3>1
    <3>3. s[l].op = "rename" /\ ms[j].from \in Names(s[l])
      BY <1>3, <1>4, <2>5, <3>2
    <3> QED
      BY <1>6, <3>3
  <2>6. Recordable(ms, i)
    BY <2>3, <2>4, <2>5 DEF Recordable
  <2> QED
    BY <1>1, <2>3, <2>4, <2>6, FirstRecorded
<1> QED
  BY <1>5, <1>6

(* So the records of a committed edit describe it, and count themselves.   *)
Describing(l, e, b, a) ==
  \E rs :
    /\ IsFiniteSet(rs) /\ Good(rs, b, a)
    /\ \A r \in rs : r.tx = e /\ r.count \in Nat /\ r.count >= Cardinality(rs)
    /\ l \in Seq(rs)

LEMMA RecordsGood ==
  ASSUME TypedConstants, RenamesApart, NEW s \in Scripts, Applicable(s), store = [p \in Paths |-> store[p]],
         NEW a, a = Atomic!Result(s, store), NEW e, NEW l, l = UndoRecords(e, s, store, a)
  PROVE  Describing(l, e, store, a)
<1> DEFINE ms == Mutations(s, store)
           is == RecordedMutations(ms)
           n == Cardinality(is)
           rec(i) == UndoRecord(e, ms[i], store, a, n)
           rs == {rec(i) : i \in is}
<1>1. s \in Seq(Operations) /\ ms \in Seq(MutationRecords)
  BY OfScript DEF TypedConstants
<1>2. is \subseteq Nat /\ IsFiniteSet(is) /\ n \in Nat
  <2>1. PICK k \in Nat : DOMAIN ms = 1..k
    BY <1>1
  <2>2. is \subseteq 1..k
    BY <2>1 DEF RecordedMutations
  <2>3. IsFiniteSet(1..k)
    BY FS_Interval
  <2> HIDE DEF is
  <2>4. IsFiniteSet(is)
    BY <2>2, <2>3, FS_Subset
  <2> QED
    BY <2>2, <2>4, FS_CardinalityType
<1>3. l = [k \in 1..n |-> rec(Nth(is, k))]
  BY DEF UndoRecords
<1>4. \A k \in 1..n : Nth(is, k) \in is
  <2> HIDE DEF is
  <2> QED
    BY <1>2, NthTakes
<1>5. l \in Seq(rs)
  <2>1. l \in [1..n -> rs]
    BY <1>3, <1>4
  <2> HIDE DEF rs, n
  <2> QED
    BY <1>2, <2>1
<1>6. IsFiniteSet(rs) /\ Cardinality(rs) <= n
  <2> DEFINE f == [i \in is |-> rec(i)]
  <2>1. f \in Surjection(is, rs)
    <3> HIDE DEF is, rec
    <3> QED
      BY DEF Surjection
  <2> HIDE DEF is, rs, f
  <2> QED
    BY <1>2, <2>1, FS_Surjection
<1>7. \A r \in rs : r.tx = e /\ r.count = n
  <2> HIDE DEF is, n, ms
  <2> QED
    BY DEF UndoRecord
<1>8. Good(rs, store, a)
  <2>1. ASSUME NEW r \in rs PROVE Describes(r, store, a)
    <3>1. PICK i \in is : r = rec(i)
      OBVIOUS
    <3>2. PICK k \in DOMAIN s : ms[i] \in Recordings(s[k], store)
      BY FromOperation
    <3> HIDE DEF is, n
    <3> QED
      BY <3>1, <3>2, RecordDescribes
  <2>2. ASSUME NEW r \in rs, NEW q \in rs, r # q PROVE Sides(r) \cap Sides(q) = {}
    <3>1. PICK i \in is, j \in is : r = rec(i) /\ q = rec(j)
      OBVIOUS
    <3>2. i # j
      BY <2>2, <3>1
    <3>3. {ms[i].path, ms[i].from} \cap {ms[j].path, ms[j].from} = {}
      BY <3>2, RecordsApart
    <3> HIDE DEF is, n, ms
    <3> QED
      BY <3>1, <3>3 DEF Sides, UndoRecord
  <2>3. ASSUME NEW p \in Paths, store[p] # a[p] PROVE \E r \in rs : p \in Sides(r)
    <3>1. PICK k \in DOMAIN s : p \in Names(s[k])
      BY <1>1, <2>3, Outcome
    <3>2. PICK i \in is : p \in {ms[i].path, ms[i].from}
      BY <3>1, NamedIsRecorded
    <3>3. rec(i) \in rs
      OBVIOUS
    <3> HIDE DEF is, n, ms, rs
    <3>4. p \in Sides(rec(i))
      BY <3>2 DEF Sides, UndoRecord
    <3> QED
      BY <3>3, <3>4
  <2> HIDE DEF rs
  <2> QED
    BY <2>1, <2>2, <2>3 DEF Good
<1> HIDE DEF rs, n
<1>9. \A r \in rs : r.tx = e /\ r.count \in Nat /\ r.count >= Cardinality(rs)
  <2>1. Cardinality(rs) \in Nat
    BY <1>6, FS_CardinalityType
  <2> QED
    BY <1>2, <1>6, <1>7, <2>1
<1> QED
  BY <1>5, <1>6, <1>8, <1>9 DEF Describing

-----------------------------------------------------------------------------
(* The records kept of an edit stay among those it made.                   *)
LEMMA WholeKept ==
  ASSUME NEW e, Whole(e), pre'[e] = pre[e], post'[e] = post[e],
         \A r \in undo' : r.tx = e => r \in undo \/ r \in Range(saving[e]),
         \A S : saving[e] \in Seq(S) => saving'[e] \in Seq(S)
  PROVE  Whole(e)'
<1>1. PICK rs :
        /\ IsFiniteSet(rs) /\ Good(rs, pre[e], post[e])
        /\ \A r \in rs : r.tx = e /\ r.count \in Nat /\ r.count >= Cardinality(rs)
        /\ {r \in undo : r.tx = e} \subseteq rs
        /\ saving[e] \in Seq(rs)
  BY Zenon DEF Whole
<1>2. Range(saving[e]) \subseteq rs
  BY <1>1, RangeOfSeq
<1>3. {r \in undo' : r.tx = e} \subseteq rs
  BY <1>1, <1>2
<1>4. saving'[e] \in Seq(rs)
  BY <1>1
<1>5. Good(rs, pre'[e], post'[e])
  BY <1>1
<1> QED
  BY <1>1, <1>3, <1>4, <1>5, Zenon DEF Whole, Good, Describes

LEMMA RangeAppend ==
  ASSUME NEW S, NEW q \in Seq(S), NEW x \in S
  PROVE  Append(q, x) \in Seq(S) /\ Range(Append(q, x)) = Range(q) \cup {x}
<1>1. Append(q, x) = q \o <<x>> /\ <<x>> \in Seq(S) /\ Append(q, x) \in Seq(S)
  BY AppendIsConcat
<1>2. Range(<<x>>) = {x}
  BY DEF Range
<1>3. Range(q \o <<x>>) = Range(q) \cup Range(<<x>>)
  BY <1>1, RangeConcatenation
<1> QED
  BY <1>1, <1>2, <1>3

LEMMA CommitRecording ==
  ASSUME TypedConstants, RenamesApart, Formed, Recording, NEW e \in Edits, NEW s \in Scripts, Commit(e, s)
  PROVE  Recording'
<1>1. PICK a : a = Atomic!Result(s, store)
  OBVIOUS
<1>2. /\ e \notin Range(order) /\ Applicable(s)
      /\ post' = [post EXCEPT ![e] = a] /\ pre' = [pre EXCEPT ![e] = store]
      /\ saving' = [saving EXCEPT ![e] = UndoRecords(e, s, store, a)]
      /\ order' = Append(order, e) /\ undo' = undo
  BY <1>1 DEF Commit
<1>3. order' \in Seq(Edits) /\ Range(order') = Range(order) \cup {e}
  BY <1>2, RangeAppend DEF Recording
<1>4. pre'[e] = store /\ post'[e] = a /\ saving'[e] = UndoRecords(e, s, store, a)
  BY <1>2 DEF Recording
<1>5. Whole(e)'
  <2>1. PICK rs :
          /\ IsFiniteSet(rs) /\ Good(rs, store, a)
          /\ \A r \in rs : r.tx = e /\ r.count \in Nat /\ r.count >= Cardinality(rs)
          /\ saving'[e] \in Seq(rs)
    <3>1. store = [p \in Paths |-> store[p]]
      BY DEF Formed
    <3>2. Describing(saving'[e], e, store, a)
      BY <1>1, <1>2, <1>4, <3>1, RecordsGood
    <3> QED
      BY <3>2 DEF Describing
  <2>2. Good(rs, pre'[e], post'[e])
    BY <1>4, <2>1
  <2>3. {r \in undo' : r.tx = e} \subseteq rs
    BY <1>2 DEF Recording
  <2> QED
    BY <2>1, <2>2, <2>3, Zenon DEF Whole, Good, Describes
<1>6. ASSUME NEW f \in Edits, f # e PROVE /\ pre'[f] = pre[f] /\ post'[f] = post[f] /\ saving'[f] = saving[f]
  BY <1>2, <1>6 DEF Recording
<1>7. ASSUME NEW f \in Edits, f # e, f \in Range(order) PROVE Whole(f)'
  <2>1. Whole(f)
    BY <1>7 DEF Recording
  <2>2. pre'[f] = pre[f] /\ post'[f] = post[f] /\ saving'[f] = saving[f]
    BY <1>6, <1>7
  <2> QED
    BY <1>2, <2>1, <2>2, WholeKept
<1>8. DOMAIN saving' = Edits /\ DOMAIN pre' = Edits /\ DOMAIN post' = Edits
  BY <1>2 DEF Recording
<1>9. \A r \in undo' : r.tx \in Range(order')
  BY <1>2, <1>3 DEF Recording
<1>10. ASSUME NEW f \in Edits PROVE IF f \in Range(order') THEN Whole(f)' ELSE saving'[f] = <<>>
  <2>1. CASE f = e
    BY <1>3, <1>5, <2>1
  <2>2. CASE f # e
    BY <1>3, <1>6, <1>7, <2>2 DEF Recording
  <2> QED
    BY <2>1, <2>2
<1>11. Range(order)' = Range(order')
  BY DEF Range
<1> QED
  BY <1>3, <1>8, <1>9, <1>10, <1>11 DEF Recording

LEMMA RecordingStep ==
  TypedConstants /\ RenamesApart /\ Formed /\ Recording /\ [UndoNext]_uvars => Recording'
<1> SUFFICES ASSUME TypedConstants, RenamesApart, Formed, Recording, [UndoNext]_uvars PROVE Recording'
  OBVIOUS
<1>1. ASSUME UNCHANGED <<order, pre, post>>, DOMAIN saving' = Edits,
             \A r \in undo' : r \in undo \/ (r.tx \in Edits /\ r \in Range(saving[r.tx]) /\ r.tx \in Range(order)),
             \A f \in Edits : (saving[f] = <<>> => saving'[f] = <<>>)
                            /\ (\A S : saving[f] \in Seq(S) => saving'[f] \in Seq(S))
      PROVE  Recording'
  <2>1. Range(order)' = Range(order)
    BY <1>1 DEF Range
  <2>2. ASSUME NEW f \in Edits, f \in Range(order) PROVE Whole(f)'
    <3>1. Whole(f)
      BY <2>2 DEF Recording
    <3>2. \A r \in undo' : r.tx = f => r \in undo \/ r \in Range(saving[f])
      BY <1>1
    <3>3. pre'[f] = pre[f] /\ post'[f] = post[f]
      BY <1>1
    <3>4. \A S : saving[f] \in Seq(S) => saving'[f] \in Seq(S)
      BY <1>1
    <3> QED
      BY <3>1, <3>2, <3>3, <3>4, WholeKept
  <2>3. \A f \in Edits : f \notin Range(order) => saving'[f] = <<>>
    BY <1>1 DEF Recording
  <2>4. \A r \in undo' : r.tx \in Range(order)
    BY <1>1 DEF Recording
  <2> QED
    BY <1>1, <2>1, <2>2, <2>3, <2>4 DEF Recording
<1>2. ASSUME NEW e \in Edits, NEW s \in Scripts, Commit(e, s) PROVE Recording'
  BY <1>2, CommitRecording
<1>3. ASSUME NEW e \in Edits, SaveRecord(e) PROVE Recording'
  <2>1. /\ saving[e] # <<>> /\ undo' = undo \cup {Head(saving[e])}
        /\ saving' = [saving EXCEPT ![e] = Tail(saving[e])] /\ UNCHANGED <<order, pre, post>>
    BY <1>3 DEF SaveRecord, ghosts
  <2>2. e \in Range(order) /\ Whole(e)
    BY <2>1 DEF Recording
  <2>3. PICK rs : (\A r \in rs : r.tx = e) /\ saving[e] \in Seq(rs)
    BY <2>2, Zenon DEF Whole
  <2>4. Head(saving[e]).tx = e
    BY <2>1, <2>3, HeadTailProperties
  <2>5. saving[e] \in Seq(Range(saving[e]))
    BY <2>3, SeqOfRange
  <2>6. Head(saving[e]) \in Range(saving[e])
    BY <2>1, <2>5, HeadTailProperties
  <2>7. \A S : saving[e] \in Seq(S) => Tail(saving[e]) \in Seq(S)
    BY <2>1, HeadTailProperties
  <2>8. \A r \in undo' : r \in undo \/ (r.tx \in Edits /\ r \in Range(saving[r.tx]) /\ r.tx \in Range(order))
    BY <2>1, <2>2, <2>4, <2>6
  <2>9. \A f \in Edits : saving'[f] = IF f = e THEN Tail(saving[e]) ELSE saving[f]
    BY <2>1 DEF Recording
  <2>10. \A f \in Edits : (saving[f] = <<>> => saving'[f] = <<>>)
                        /\ (\A S : saving[f] \in Seq(S) => saving'[f] \in Seq(S))
    BY <2>1, <2>7, <2>9
  <2>11. DOMAIN saving' = Edits
    BY <2>1 DEF Recording
  <2> QED
    BY <1>1, <2>1, <2>8, <2>10, <2>11
<1>4. ASSUME NEW e \in Edits, SaveStops(e) PROVE Recording'
  <2>1. saving' = [saving EXCEPT ![e] = <<>>] /\ UNCHANGED <<undo, order, pre, post>>
    BY <1>4 DEF SaveStops, ghosts
  <2>2. \A f \in Edits : saving'[f] = IF f = e THEN <<>> ELSE saving[f]
    BY <2>1 DEF Recording
  <2>3. \A S : <<>> \in Seq(S)
    BY EmptySeq
  <2>4. DOMAIN saving' = Edits
    BY <2>1 DEF Recording
  <2> QED
    BY <1>1, <2>1, <2>2, <2>3, <2>4
<1>5. ASSUME UNCHANGED <<order, pre, post, saving>>, \A r \in undo' : r \in undo PROVE Recording'
  BY <1>1, <1>5 DEF Recording
<1>6. ASSUME NEW u \in Undoers, Restore(u) PROVE Recording'
  <2>1. UNCHANGED <<order, pre, post, saving>>
    BY <1>6 DEF Restore, Pick, Load, Preflight, Capture, ApplyRecord, LinkBack, RemoveNew, ApplyFails, RollbackPath,
                RollbackFails, Cleanup, ghosts
  <2>2. \A r \in undo' : r \in undo
    BY <1>6 DEF Restore, Pick, Load, Preflight, Capture, ApplyRecord, LinkBack, RemoveNew, ApplyFails, RollbackPath,
                RollbackFails, Cleanup, ghosts
  <2> QED
    BY <1>5, <2>1, <2>2
<1>7. CASE UNCHANGED uvars
  BY <1>5, <1>7 DEF uvars, ghosts
<1> QED
  BY <1>2, <1>3, <1>4, <1>6, <1>7 DEF UndoNext, Edit

-----------------------------------------------------------------------------
(* What a committed edit found and left stays as noted.                    *)
LEMMA EditsStand ==
  ASSUME Recording, [UndoNext]_uvars, NEW e \in Range(order)
  PROVE  e \in Range(order') /\ pre'[e] = pre[e] /\ post'[e] = post[e]
<1>1. ASSUME NEW f \in Edits, NEW s \in Scripts, Commit(f, s)
      PROVE  e \in Range(order') /\ pre'[e] = pre[e] /\ post'[e] = post[e]
  <2>1. f # e /\ order' = Append(order, f)
    BY <1>1 DEF Commit
  <2>2. e \in Range(order')
    BY <2>1, RangeAppend DEF Recording
  <2>3. e \in Edits
    BY RangeOfSeq DEF Recording
  <2> QED
    BY <1>1, <2>1, <2>2, <2>3 DEF Commit, Recording
<1>2. ASSUME UNCHANGED <<order, pre, post>>
      PROVE  e \in Range(order') /\ pre'[e] = pre[e] /\ post'[e] = post[e]
  BY <1>2
<1>3. CASE \E f \in Edits : SaveRecord(f) \/ SaveStops(f)
  BY <1>2, <1>3 DEF SaveRecord, SaveStops, ghosts
<1>4. CASE \E u \in Undoers : Restore(u)
  <2>1. UNCHANGED <<order, pre, post>>
    BY <1>4 DEF Restore, Pick, Load, Preflight, Capture, ApplyRecord, LinkBack, RemoveNew, ApplyFails, RollbackPath,
                RollbackFails, Cleanup, ghosts
  <2> QED
    BY <1>2, <2>1
<1>5. CASE UNCHANGED uvars
  BY <1>2, <1>5 DEF uvars, ghosts
<1> QED
  BY <1>1, <1>3, <1>4, <1>5 DEF UndoNext, Edit

(* A complete set of records is all that the edit made.                    *)
LEMMA CompleteIsWhole ==
  ASSUME NEW e, Whole(e), NEW rs, rs = {r \in undo : r.tx = e}, Complete(rs)
  PROVE  Good(rs, pre[e], post[e])
<1>1. PICK all :
        /\ IsFiniteSet(all) /\ Good(all, pre[e], post[e])
        /\ \A r \in all : r.tx = e /\ r.count \in Nat /\ r.count >= Cardinality(all)
        /\ rs \subseteq all
  BY Zenon DEF Whole
<1>2. PICK r \in rs : r.count = Cardinality(rs)
  BY DEF Complete
<1>3. Cardinality(rs) >= Cardinality(all)
  BY <1>1, <1>2
<1>4. IsFiniteSet(rs) /\ Cardinality(rs) <= Cardinality(all)
  BY <1>1, FS_Subset
<1>5. Cardinality(rs) \in Nat /\ Cardinality(all) \in Nat
  BY <1>1, <1>4, FS_CardinalityType
<1>6. Cardinality(rs) = Cardinality(all)
  BY <1>3, <1>4, <1>5
<1>7. rs = all
  BY <1>1, <1>6, FS_Subset
<1> QED
  BY <1>1, <1>7

(* Their list has each of them, once.                                      *)
LEMMA ListedOnce ==
  ASSUME NEW rs, IsFiniteSet(rs), NEW s \in SetToSeqs(rs)
  PROVE  Distinct(s) /\ Range(s) = rs
<1>1. PICK n \in Nat : n = Cardinality(rs)
  BY FS_CardinalityType
<1>2. s \in [1..n -> rs] /\ \A i, j \in 1..n : i # j => s[i] # s[j]
  BY <1>1 DEF SetToSeqs
<1>3. s \in Injection(1..n, rs)
  BY <1>2 DEF Injection, IsInjective
<1>4. Cardinality(1..n) = n
  BY FS_Interval
<1>5. s \in Surjection(1..n, rs)
  BY <1>1, <1>3, <1>4, FS_Injection
<1> QED
  BY <1>2, <1>5 DEF Distinct, Range, Surjection

(* Past the head of such a list are the others.                            *)
LEMMA PastHead ==
  ASSUME NEW S, NEW l \in Seq(S), l # <<>>, Distinct(l)
  PROVE  /\ Head(l) \in Range(l)
         /\ Len(l) = 1 => Range(l) = {Head(l)}
         /\ Len(l) # 1 => Distinct(Tail(l)) /\ Range(Tail(l)) = Range(l) \ {Head(l)}
<1>1. PICK n \in Nat : n = Len(l)
  OBVIOUS
<1>2. n # 0 /\ DOMAIN l = 1..n
  BY <1>1, EmptySeq
<1>3. Head(l) = l[1] /\ 1 \in 1..n
  BY <1>1, <1>2
<1>4. ASSUME n = 1 PROVE Range(l) = {Head(l)}
  BY <1>2, <1>3, <1>4 DEF Range
<1>5. ASSUME n # 1 PROVE Distinct(Tail(l)) /\ Range(Tail(l)) = Range(l) \ {Head(l)}
  <2>1. Tail(l) \in Seq(S) /\ Len(Tail(l)) = n - 1
    BY <1>1, HeadTailProperties
  <2>2. DOMAIN Tail(l) = 1..(n - 1)
    BY <2>1
  <2>3. \A i \in 1..(n - 1) : Tail(l)[i] = l[i + 1] /\ i + 1 \in 1..n /\ i + 1 # 1
    BY <1>1, <1>2, <2>1
  <2>4. \A j \in 1..n : j # 1 => j - 1 \in 1..(n - 1) /\ (j - 1) + 1 = j
    OBVIOUS
  <2>5. Distinct(Tail(l))
    BY <1>2, <2>2, <2>3 DEF Distinct
  <2>6. ASSUME NEW x \in Range(Tail(l)) PROVE x \in Range(l) /\ x # Head(l)
    <3>1. PICK i \in 1..(n - 1) : x = Tail(l)[i]
      BY <2>2 DEF Range
    <3> QED
      BY <1>2, <1>3, <2>3, <3>1 DEF Distinct, Range
  <2>7. ASSUME NEW x \in Range(l), x # Head(l) PROVE x \in Range(Tail(l))
    <3>1. PICK j \in 1..n : x = l[j]
      BY <1>2 DEF Range
    <3>2. j # 1
      BY <1>3, <2>7, <3>1
    <3>3. j - 1 \in 1..(n - 1) /\ Tail(l)[j - 1] = x
      BY <2>3, <2>4, <3>1, <3>2
    <3> QED
      BY <2>2, <3>3 DEF Range
  <2> QED
    BY <2>5, <2>6, <2>7
<1>6. Head(l) \in Range(l)
  BY <1>2, <1>3 DEF Range
<1> QED
  BY <1>1, <1>4, <1>5, <1>6

(* A restore keeps the records of its edit.                                *)
LEMMA AdvanceDistinct ==
  ASSUME NEW S, NEW l \in Seq(S), NEW r \in Seq(S), l # <<>>, Distinct(l), Distinct(r)
  PROVE  Distinct(IF Len(l) = 1 THEN r ELSE Tail(l))
  BY PastHead

LEMMA LoadedStep ==
  ASSUME TypedConstants, KeptInv, Recording, [UndoNext]_uvars, NEW u \in Undoers, Loaded(u)
  PROVE  Loaded(u)'
<1>1. Formed /\ Listed(u)
  BY DEF KeptInv
<1>2. Range(order)' = Range(order')
  BY DEF Range
<1>3. ASSUME recs'[u] = recs[u], tx'[u] = tx[u], Distinct(left'[u]) \/ ~Busy(u)',
             Underway(u)' => Underway(u), Busy(u)' => Busy(u)
      PROVE  Loaded(u)'
  <2>1. ASSUME Underway(u)' PROVE tx'[u] \in Range(order') /\ pre'[tx[u]] = pre[tx[u]] /\ post'[tx[u]] = post[tx[u]]
    <3>1. tx[u] \in Range(order)
      BY <1>3, <2>1 DEF Loaded
    <3> QED
      BY <1>3, <3>1, EditsStand
  <2>2. Busy(u) => Underway(u)
    BY DEF Busy, Underway
  <2>3. Busy(u)' => Underway(u)'
    BY DEF Busy, Underway
  <2>4. ASSUME Busy(u)' PROVE Good(Range(recs[u]), pre[tx[u]], post[tx[u]])'
    <3>1. Good(Range(recs[u]), pre[tx[u]], post[tx[u]])
      BY <1>3, <2>4 DEF Loaded
    <3>2. Range(recs[u])' = Range(recs[u]) /\ pre[tx[u]]' = pre[tx[u]] /\ post[tx[u]]' = post[tx[u]]
      BY <1>3, <2>1, <2>3, <2>4 DEF Range
    <3> QED
      BY <3>1, <3>2, Zenon DEF Good, Describes
  <2>5. Busy(u)' => Distinct(recs[u])' /\ Distinct(left[u])'
    BY <1>3 DEF Loaded, Distinct
  <2> QED
    BY <1>2, <2>1, <2>4, <2>5 DEF Loaded
<1>4. CASE Same(u)
  BY <1>3, <1>4 DEF Same, Underway, Busy, Loaded
<1>5. ASSUME NEW p \in Paths, Pick(u, p) PROVE Loaded(u)'
  <2>1. PICK r \in undo : tx' = [tx EXCEPT ![u] = r.tx]
    BY <1>5 DEF Pick
  <2>2. tx'[u] \in Range(order)
    BY <1>1, <2>1 DEF Formed, Recording
  <2>3. order' = order /\ pc'[u] = "load"
    BY <1>1, <1>5 DEF Pick, Goto, Formed
  <2> QED
    BY <1>2, <2>2, <2>3 DEF Loaded, Busy
<1>6. CASE Load(u)
  <2> DEFINE rs == {r \in undo : r.tx = tx[u]}
  <2>1. PICK s \in SetToSeqs(rs) : recs'[u] = s /\ left'[u] = s
    BY <1>1, <1>6 DEF Load, Formed
  <2>2. pc'[u] = IF Complete(rs) THEN "preflight" ELSE "false"
    BY <1>1, <1>6 DEF Load, Goto, Formed
  <2>3. UNCHANGED <<order, tx, pre, post>> /\ tx[u] \in Range(order)
    BY <1>6 DEF Load, ghosts, Loaded, Underway
  <2>4. IsFiniteSet(rs)
    BY <1>1, FS_Subset DEF Formed
  <2>5. Distinct(s) /\ Range(s) = rs
    <3> HIDE DEF rs
    <3> QED
      BY <2>4, ListedOnce
  <2>6. ASSUME Complete(rs) PROVE Good(rs, pre[tx[u]], post[tx[u]])
    <3>1. tx[u] \in Edits
      BY <2>3, RangeOfSeq DEF Recording
    <3>2. Whole(tx[u])
      BY <2>3, <3>1 DEF Recording
    <3> QED
      BY <2>6, <3>2, CompleteIsWhole
  <2>7. ASSUME Complete(rs) PROVE Good(Range(recs[u]), pre[tx[u]], post[tx[u]])'
    <3>1. Range(recs[u])' = rs /\ pre[tx[u]]' = pre[tx[u]] /\ post[tx[u]]' = post[tx[u]]
      BY <2>1, <2>3, <2>5 DEF Range
    <3>2. PICK x : x = rs
      OBVIOUS
    <3> HIDE DEF rs
    <3> QED
      BY <2>6, <2>7, <3>1, Zenon DEF Good, Describes
  <2>8. Distinct(recs[u])' /\ Distinct(left[u])'
    BY <2>1, <2>5 DEF Distinct
  <2> HIDE DEF rs
  <2> QED
    BY <1>2, <2>2, <2>3, <2>7, <2>8 DEF Loaded, Busy
<1>7. ASSUME NEW here, NEW next, Advance(u, here, next), Busy(u) PROVE Distinct(left'[u])
  <2>1. left'[u] = IF Len(left[u]) = 1 THEN recs[u] ELSE Tail(left[u])
    BY <1>1, <1>7 DEF Advance, Formed
  <2> QED
    BY <1>1, <1>7, <2>1, AdvanceDistinct DEF Listed, Loaded
<1>8. ASSUME Restore(u), ~(\E p \in Paths : Pick(u, p)), ~Load(u) PROVE Loaded(u)'
  <2>1. recs' = recs /\ tx' = tx /\ Busy(u) /\ Underway(u)
    BY <1>8 DEF Restore, Preflight, Capture, ApplyRecord, LinkBack, RemoveNew, ApplyFails, RollbackPath,
                RollbackFails, Cleanup, Busy, Underway
  <2>2. left' = left \/ \E here, next : Advance(u, here, next)
    BY <1>8, Zenon DEF Restore, Preflight, Capture, ApplyRecord, LinkBack, RemoveNew, ApplyFails, RollbackPath,
                RollbackFails, Cleanup
  <2>3. Distinct(left'[u])
    BY <1>7, <2>1, <2>2 DEF Loaded
  <2> QED
    BY <1>3, <2>1, <2>3
<1>9. CASE UNCHANGED uvars
  <2>1. Same(u)
    BY <1>9 DEF uvars, restores, ghosts, Same
  <2> QED
    BY <1>4, <2>1
<1>10. CASE \E e \in Edits : Edit(e)
  BY <1>4, <1>10, EditApart DEF Apart
<1>11. CASE \E v \in Undoers : v # u /\ Restore(v)
  BY <1>1, <1>4, <1>11, RestoreApart DEF Apart
<1>12. CASE Restore(u)
  BY <1>5, <1>6, <1>8, <1>12
<1> QED
  BY <1>9, <1>10, <1>11, <1>12 DEF UndoNext

(* One record further: what is done grows by it, at the last to them all.  *)
LEMMA OneRecordDone ==
  ASSUME Formed, NEW u \in Undoers, Listed(u), Loaded(u), Busy(u), recs' = recs,
         NEW here, NEW next, Advance(u, here, next)
  PROVE  /\ Head(left[u]) \in Range(recs[u]) /\ Head(left[u]) \notin Done(u)
         /\ Range(recs[u])' = Range(recs[u])
         /\ \/ /\ pc'[u] = next /\ left'[u] = recs[u]
               /\ Range(recs[u]) = Done(u) \cup {Head(left[u])}
            \/ /\ pc'[u] = here
               /\ Done(u)' = Done(u) \cup {Head(left[u])}
<1>1. /\ recs[u] \in Seq(Range(recs[u])) /\ left[u] \in Seq(Range(recs[u])) /\ left[u] # <<>>
      /\ Distinct(left[u])
  BY DEF Listed, Loaded
<1>2. /\ left'[u] = IF Len(left[u]) = 1 THEN recs[u] ELSE Tail(left[u])
      /\ pc'[u] = IF Len(left[u]) = 1 THEN next ELSE here
  BY DEF Advance, Goto, Formed
<1>3. PICK l, h : l = left[u] /\ h = Head(left[u])
  OBVIOUS
<1>4. /\ h \in Range(l) /\ (Len(l) = 1 => Range(l) = {h})
      /\ (Len(l) # 1 => Range(Tail(l)) = Range(l) \ {h})
  BY <1>1, <1>3, PastHead
<1>5. Range(l) \subseteq Range(recs[u])
  BY <1>1, <1>3, RangeOfSeq
<1>6. Range(recs[u])' = Range(recs[u])
  BY DEF Range
<1>7. CASE Len(l) = 1
  BY <1>2, <1>3, <1>4, <1>5, <1>6, <1>7 DEF Done
<1>8. CASE Len(l) # 1
  <2>1. Range(left[u])' = Range(Tail(l))
    BY <1>2, <1>3, <1>8 DEF Range
  <2>2. Done(u)' = Range(recs[u]) \ Range(Tail(l))
    BY <1>6, <2>1 DEF Done
  <2>3. Done(u)' = Done(u) \cup {h}
    BY <1>3, <1>4, <1>5, <1>8, <2>2 DEF Done
  <2> QED
    BY <1>2, <1>3, <1>4, <1>5, <1>6, <1>8, <2>3 DEF Done
<1> QED
  BY <1>7, <1>8

(* A record applied puts its files back.                                   *)
LEMMA RecordRestored ==
  ASSUME NEW u \in Undoers, NEW rs, NEW r, NEW also, Restored(u, rs, also), also \subseteq Sides(r),
         UNCHANGED <<pre, tx, start>>,
         \A p \in Paths : p \notin Sides(r) => store'[p] = store[p],
         \A p \in Sides(r) : p \in Paths => store'[p] = pre[tx[u]][p]
  PROVE  Restored(u, rs \cup {r}, {})'
<1>1. ASSUME NEW p \in Paths
      PROVE  store'[p] = IF \E q \in rs \cup {r} : p \in Sides(q) THEN pre[tx[u]][p] ELSE start[u][p]
  <2>1. store[p] = IF p \in also \/ \E q \in rs : p \in Sides(q) THEN pre[tx[u]][p] ELSE start[u][p]
    BY DEF Restored
  <2>2. (\E q \in rs \cup {r} : p \in Sides(q)) <=> p \in Sides(r) \/ \E q \in rs : p \in Sides(q)
    OBVIOUS
  <2> QED
    BY <2>1, <2>2
<1>2. pre'[tx'[u]] = pre[tx[u]] /\ start'[u] = start[u]
  OBVIOUS
<1> QED
  BY <1>1, <1>2 DEF Restored, Sides

LEMMA ApartProgress ==
  ASSUME Recording, [UndoNext]_uvars, NEW u \in Undoers, Loaded(u), Progress(u), Apart(u)
  PROVE  Progress(u)'
<1>1. SUFFICES ASSUME calm'[u], Busy(u) PROVE Progress(u)'
  BY DEF Progress, Busy, Apart, Same
<1>2. Underway(u)
  BY <1>1 DEF Busy, Underway
<1>3. store' = store /\ calm[u] /\ Same(u)
  BY <1>1, <1>2 DEF Apart
<1>4. pre'[tx'[u]] = pre[tx[u]]
  BY <1>2, <1>3, EditsStand DEF Loaded, Same
<1>5. Range(recs[u])' = Range(recs[u]) /\ Done(u)' = Done(u)
  BY <1>3 DEF Same, Range, Done
<1>6. ASSUME NEW rs, NEW also, Restored(u, rs, also) PROVE Restored(u, rs, also)'
  BY <1>3, <1>4, <1>6 DEF Restored, Same, Sides
<1> QED
  BY <1>3, <1>5, <1>6 DEF Progress, Same, WasLeft

(* The files of a record still to be applied are as they were found.       *)
LEMMA StillFound ==
  ASSUME NEW u \in Undoers, Busy(u), Loaded(u), Restored(u, Done(u), {}),
         NEW r \in Range(recs[u]), r \notin Done(u), WasLeft(r, start[u])
  PROVE  /\ r.path \in Paths /\ r.from \in Paths /\ Describes(r, pre[tx[u]], post[tx[u]])
         /\ store[r.path] = r.after /\ store[r.from] = start[u][r.from]
         /\ r.op = "rename" => store[r.from] = Absent
<1>1. Describes(r, pre[tx[u]], post[tx[u]]) /\ r.path \in Paths /\ r.from \in Paths
  BY DEF Loaded, Good, Describes
<1>2. \A q \in Done(u) : q \in Range(recs[u]) /\ q # r
  BY DEF Done
<1>3. \A q \in Done(u) : Sides(q) \cap Sides(r) = {}
  BY <1>2 DEF Loaded, Good
<1>4. \A p \in Sides(r) : ~\E q \in Done(u) : p \in Sides(q)
  BY <1>3
<1>5. r.path \in Sides(r) /\ r.from \in Sides(r)
  BY DEF Sides
<1>6. store[r.path] = start[u][r.path] /\ store[r.from] = start[u][r.from]
  BY <1>1, <1>4, <1>5 DEF Restored
<1> QED
  BY <1>1, <1>6 DEF WasLeft

LEMMA OwnProgress ==
  ASSUME Formed, NEW u \in Undoers, Listed(u), Kept(u), Loaded(u), Progress(u), Restore(u)
  PROVE  Progress(u)'
<1>1. ASSUME NEW p \in Paths, Pick(u, p) PROVE Progress(u)'
  <2>1. pc'[u] = "load"
    BY <1>1 DEF Pick, Goto, Formed
  <2> QED
    BY <2>1 DEF Progress
<1>2. CASE Load(u)
  <2>1. pc'[u] \in {"preflight", "false"}
    BY <1>2 DEF Load, Goto, Formed
  <2>2. recs'[u] = left'[u]
    BY <1>2 DEF Load, Formed
  <2>3. Done(u)' = {}
    BY <2>2 DEF Done, Range
  <2> QED
    BY <2>1, <2>3 DEF Progress
<1>3. CASE Preflight(u)
  <2>1. pc[u] = "preflight" /\ Busy(u) /\ UNCHANGED <<store, recs, start, calm, pre, tx>>
    BY <1>3 DEF Preflight, Busy, ghosts
  <2>2. CASE ~AsLeft(Head(left[u]))
    <3>1. pc'[u] = "false"
      BY <1>3, <2>2 DEF Preflight, Goto, Formed
    <3> QED
      BY <3>1 DEF Progress
  <2>3. CASE AsLeft(Head(left[u]))
    <3>1. Advance(u, "preflight", "capture")
      BY <1>3, <2>3 DEF Preflight
    <3>2. PICK h : h = Head(left[u])
      OBVIOUS
    <3>3. /\ Range(recs[u])' = Range(recs[u])
          /\ \/ /\ pc'[u] = "capture" /\ left'[u] = recs[u]
                /\ Range(recs[u]) = Done(u) \cup {h}
             \/ /\ pc'[u] = "preflight"
                /\ Done(u)' = Done(u) \cup {h}
      BY <2>1, <3>1, <3>2, OneRecordDone
    <3>4. calm[u] => WasLeft(h, start[u])
      BY <2>1, <2>3, <3>2 DEF Kept, AsLeft, WasLeft
    <3>5. calm[u] => \A r \in Done(u) \cup {h} : WasLeft(r, start[u])
      BY <2>1, <3>4 DEF Progress
    <3>6. \A r : WasLeft(r, start[u])' <=> WasLeft(r, start[u])
      BY <2>1 DEF WasLeft
    <3>7. left'[u] = recs[u] => Done(u)' = {}
      BY <2>1 DEF Done, Range
    <3> QED
      BY <2>1, <3>3, <3>5, <3>6, <3>7 DEF Progress
  <2> QED
    BY <2>2, <2>3
<1>4. CASE Capture(u)
  <2>1. pc[u] = "capture" /\ pc'[u] = "apply" /\ UNCHANGED <<store, recs, left, start, calm, pre, tx>>
    BY <1>4 DEF Capture, Goto, Formed, ghosts
  <2>2. Range(recs[u])' = Range(recs[u]) /\ Done(u)' = Done(u)
    BY <2>1 DEF Range, Done
  <2>3. calm[u] => Done(u) = {} /\ store = start[u]
    BY <2>1 DEF Progress, Kept
  <2>4. calm[u] => Restored(u, {}, {})'
    BY <2>1, <2>3 DEF Restored
  <2>5. calm[u] => Restored(u, Done(u), {})'
    BY <2>2, <2>3, <2>4
  <2> QED
    BY <2>1, <2>2, <2>5 DEF Progress, WasLeft
<1>5. ASSUME Advance(u, "apply", "cleanup"), Busy(u), UNCHANGED <<recs, start, pre, tx>>, calm'[u],
             \A r \in Range(recs[u]) : WasLeft(r, start[u]),
             NEW h, h = Head(left[u]), NEW d, d = Done(u), Restored(u, d \cup {h}, {})'
      PROVE  Progress(u)'
  <2>1. /\ Range(recs[u])' = Range(recs[u])
        /\ \/ /\ pc'[u] = "cleanup" /\ Range(recs[u]) = d \cup {h}
           \/ /\ pc'[u] = "apply" /\ Done(u)' = d \cup {h}
    BY <1>5, OneRecordDone
  <2>2. \A r \in Range(recs[u])' : WasLeft(r, start[u])'
    BY <1>5, <2>1 DEF WasLeft
  <2>3. CASE pc'[u] = "cleanup"
    <3>1. Restored(u, Range(recs[u]), {})'
      BY <1>5, <2>1, <2>3
    <3> QED
      BY <2>2, <2>3, <3>1 DEF Progress
  <2>4. CASE pc'[u] = "apply"
    <3>1. Restored(u, Done(u), {})'
      BY <1>5, <2>1, <2>4
    <3> QED
      BY <2>2, <2>4, <3>1 DEF Progress
  <2> QED
    BY <2>1, <2>3, <2>4
<1>6. ASSUME Busy(u), calm'[u] => calm[u], pc[u] \in {"apply", "rmold"}, calm'[u]
      PROVE  \A r \in Range(recs[u]) : WasLeft(r, start[u])
  BY <1>6 DEF Progress
<1>7. CASE ApplyRecord(u)
  <2>1. PICK h, d : h = Head(left[u]) /\ d = Done(u)
    OBVIOUS
  <2>2. /\ pc[u] = "apply" /\ h.op # "rename" /\ UNCHANGED <<recs, start, pre, tx>> /\ (calm'[u] => calm[u])
        /\ store' = [store EXCEPT ![h.path] = IF h.op = "add" THEN Absent ELSE h.before]
        /\ Advance(u, "apply", "cleanup") /\ Busy(u)
    BY <1>7, <2>1 DEF ApplyRecord, Disturb, Busy
  <2>3. SUFFICES ASSUME calm'[u] PROVE Progress(u)'
    BY DEF Progress
  <2>4. Restored(u, d, {}) /\ \A r \in Range(recs[u]) : WasLeft(r, start[u])
    BY <2>1, <2>2, <2>3 DEF Progress
  <2>5. h \in Range(recs[u])
    BY <2>1, <2>2, OneRecordDone
  <2>6. Describes(h, pre[tx[u]], post[tx[u]]) /\ h.path \in Paths
    BY <2>2, <2>5 DEF Loaded, Good, Describes
  <2>7. Sides(h) = {h.path}
    BY <2>2, <2>6 DEF Sides, Describes
  <2>8. store'[h.path] = pre[tx[u]][h.path]
    BY <2>2, <2>6 DEF Describes, Formed
  <2>9. \A p \in Paths : p \notin Sides(h) => store'[p] = store[p]
    BY <2>2, <2>7 DEF Formed
  <2>10. \A p \in Sides(h) : p \in Paths => store'[p] = pre[tx[u]][p]
    BY <2>7, <2>8
  <2>11. Restored(u, d \cup {h}, {})'
    BY <2>2, <2>4, <2>9, <2>10, RecordRestored
  <2> QED
    BY <1>5, <2>1, <2>2, <2>3, <2>4, <2>11
<1>8. CASE LinkBack(u)
  <2>1. PICK h, d : h = Head(left[u]) /\ d = Done(u)
    OBVIOUS
  <2>2. /\ pc[u] = "apply" /\ h.op = "rename" /\ UNCHANGED <<recs, left, start, pre, tx>> /\ (calm'[u] => calm[u])
        /\ store' = [store EXCEPT ![h.from] = store[h.path]] /\ pc'[u] = "rmold" /\ Busy(u)
    BY <1>8, <2>1 DEF LinkBack, Disturb, Busy, Goto, Formed
  <2>3. SUFFICES ASSUME calm'[u] PROVE Progress(u)'
    BY DEF Progress
  <2>4. Restored(u, d, {}) /\ \A r \in Range(recs[u]) : WasLeft(r, start[u])
    BY <2>1, <2>2, <2>3 DEF Progress
  <2>5. h \in Range(recs[u]) /\ h \notin d
    BY <2>1, <2>2, HeadTailProperties, PastHead, RangeOfSeq DEF Listed, Loaded, Done
  <2>6. Describes(h, pre[tx[u]], post[tx[u]]) /\ store[h.path] = h.after /\ h.from \in Paths
    BY <2>1, <2>2, <2>4, <2>5, StillFound
  <2>7. store[h.path] = pre[tx[u]][h.from]
    BY <2>2, <2>6 DEF Describes
  <2>8. Restored(u, d, {h.from})'
    BY <2>2, <2>4, <2>6, <2>7 DEF Restored, Formed, Sides
  <2>9. Done(u)' = d /\ Range(recs[u])' = Range(recs[u]) /\ Head(left[u])' = h
    BY <2>1, <2>2 DEF Done, Range
  <2>10. \A r \in Range(recs[u])' : WasLeft(r, start[u])'
    BY <2>2, <2>4, <2>9 DEF WasLeft
  <2>11. Restored(u, Done(u), {Head(left[u]).from})'
    BY <2>8, <2>9
  <2> QED
    BY <2>2, <2>9, <2>10, <2>11 DEF Progress
<1>9. CASE RemoveNew(u)
  <2>1. PICK h, d : h = Head(left[u]) /\ d = Done(u)
    OBVIOUS
  <2>2. /\ pc[u] = "rmold" /\ UNCHANGED <<recs, start, pre, tx>> /\ (calm'[u] => calm[u])
        /\ store' = [store EXCEPT ![h.path] = Absent] /\ Advance(u, "apply", "cleanup") /\ Busy(u)
    BY <1>9, <2>1 DEF RemoveNew, Disturb, Busy
  <2>3. SUFFICES ASSUME calm'[u] PROVE Progress(u)'
    BY DEF Progress
  <2>4. /\ Restored(u, d, {h.from}) /\ \A r \in Range(recs[u]) : WasLeft(r, start[u])
        /\ h.op = "rename"
    BY <2>1, <2>2, <2>3 DEF Progress
  <2>5. h \in Range(recs[u])
    BY <2>1, <2>2, OneRecordDone
  <2>6. Describes(h, pre[tx[u]], post[tx[u]]) /\ h.path \in Paths /\ h.from \in Paths
    BY <2>5, <2>2 DEF Loaded, Good, Describes
  <2>7. \A p \in Paths : p \notin Sides(h) => store'[p] = store[p]
    BY <2>2 DEF Formed, Sides
  <2>8. h.from # h.path /\ pre[tx[u]][h.path] = Absent
    BY <2>4, <2>6 DEF Describes
  <2>9. store'[h.path] = pre[tx[u]][h.path]
    BY <2>2, <2>6, <2>8 DEF Formed
  <2>10. store'[h.from] = pre[tx[u]][h.from]
    BY <2>2, <2>4, <2>6, <2>8 DEF Formed, Restored
  <2>11. \A p \in Sides(h) : p \in Paths => store'[p] = pre[tx[u]][p]
    BY <2>9, <2>10 DEF Sides
  <2>12. {h.from} \subseteq Sides(h)
    BY DEF Sides
  <2>13. Restored(u, d \cup {h}, {})'
    BY <2>2, <2>4, <2>7, <2>11, <2>12, RecordRestored
  <2> QED
    BY <1>5, <2>1, <2>2, <2>3, <2>4, <2>13
<1>10. CASE Cleanup(u)
  <2>1. /\ pc[u] = "cleanup" /\ pc'[u] \in {"cleanup", "true"}
        /\ UNCHANGED <<store, recs, start, calm, pre, tx>>
    BY <1>10 DEF Cleanup, Advance, Goto, Formed, ghosts
  <2>2. Range(recs[u])' = Range(recs[u])
    BY <2>1 DEF Range
  <2>3. Restored(u, Range(recs[u]), {}) => Restored(u, Range(recs[u]), {})'
    BY <2>1, <2>2 DEF Restored, Sides
  <2> QED
    BY <2>1, <2>2, <2>3 DEF Progress, WasLeft
<1>11. CASE ApplyFails(u) \/ RollbackPath(u) \/ RollbackFails(u)
  <2>1. pc'[u] \in {"rollback", "false"}
    BY <1>11 DEF ApplyFails, RollbackPath, RollbackFails, Goto, Formed
  <2> QED
    BY <2>1 DEF Progress
<1> QED
  BY <1>1, <1>2, <1>3, <1>4, <1>7, <1>8, <1>9, <1>10, <1>11 DEF Restore

(* Undisturbed, what a restore has to do is possible: it fails only when a *)
(* call fails.                                                             *)
LEMMA HeadPossible ==
  ASSUME OnePerFile, Formed, NEW u \in Undoers, Listed(u), Loaded(u), Progress(u), calm[u],
         pc[u] \in {"apply", "rmold"}
  PROVE  IF pc[u] = "apply" THEN Possible(Head(left[u])) ELSE store[Head(left[u]).path] # Absent
<1>1. PICK h : h = Head(left[u])
  OBVIOUS
<1>2. Busy(u)
  BY DEF Busy
<1>3. h \in Range(recs[u]) /\ h \notin Done(u)
  BY <1>1, <1>2, HeadTailProperties, PastHead, RangeOfSeq DEF Listed, Loaded, Done
<1>4. Describes(h, pre[tx[u]], post[tx[u]]) /\ h.path \in Paths /\ h.from \in Paths
  BY <1>2, <1>3 DEF Loaded, Good, Describes
<1>5. WasLeft(h, start[u])
  BY <1>3 DEF Progress
<1>6. CASE pc[u] = "apply"
  <2>1. store[h.path] = h.after /\ (h.op = "rename" => store[h.from] = Absent)
    BY <1>2, <1>3, <1>5, <1>6, StillFound DEF Progress
  <2> QED
    BY <1>1, <1>4, <1>6, <2>1 DEF Possible, Describes
<1>7. CASE pc[u] = "rmold"
  <2>1. h.op = "rename" /\ Restored(u, Done(u), {h.from})
    BY <1>1, <1>7 DEF Progress
  <2>2. \A q \in Done(u) : q \in Range(recs[u]) /\ q # h
    BY <1>3 DEF Done
  <2>3. \A q \in Done(u) : Sides(q) \cap Sides(h) = {}
    BY <1>2, <1>3, <2>2 DEF Loaded, Good
  <2>4. h.path \in Sides(h)
    BY DEF Sides
  <2>5. store[h.path] = start[u][h.path]
    BY <1>4, <2>1, <2>3, <2>4 DEF Restored, Describes
  <2> QED
    BY <1>1, <1>4, <1>5, <1>7, <2>1, <2>5 DEF WasLeft, Describes
<1> QED
  BY <1>6, <1>7

LEMMA BlameStep ==
  ASSUME TypedConstants, KeptInv, Recording, [UndoNext]_uvars, NEW u \in Undoers, Loaded(u), Progress(u), Blame(u)
  PROVE  Blame(u)'
<1>1. faults \in Nat /\ Formed /\ Listed(u)
  BY DEF Blame, KeptInv
<1>2. faults' = faults \/ Fault
  BY DEF UndoNext, Edit, Commit, SaveRecord, SaveStops, Restore, Pick, Load, Preflight, Capture, ApplyRecord, LinkBack,
         RemoveNew, ApplyFails, RollbackPath, RollbackFails, Cleanup, uvars
<1>3. faults' \in Nat /\ faults' >= faults
  BY <1>1, <1>2 DEF Fault
<1>4. SUFFICES ASSUME OnePerFile, calm'[u], pc'[u] = "rollback" PROVE faults' >= 1
  BY <1>3 DEF Blame
<1>5. ASSUME pc[u] = "rollback", calm[u] PROVE faults' >= 1
  BY <1>1, <1>3, <1>4, <1>5 DEF Blame
<1>6. CASE Apart(u)
  <2>1. pc[u] = "rollback" /\ calm[u]
    BY <1>4, <1>6 DEF Apart, Same, Underway
  <2> QED
    BY <1>5, <2>1
<1>7. CASE Restore(u)
  <2>1. CASE ApplyFails(u)
    <3>1. calm[u] /\ pc[u] \in {"apply", "rmold"}
      BY <1>4, <2>1 DEF ApplyFails, ghosts
    <3>2. Fault
      BY <1>1, <1>4, <2>1, <3>1, HeadPossible DEF ApplyFails
    <3> QED
      BY <1>1, <3>2 DEF Fault
  <2>2. CASE RollbackPath(u)
    <3>1. calm[u] /\ pc[u] = "rollback"
      BY <1>4, <2>2 DEF RollbackPath, Disturb
    <3> QED
      BY <1>5, <3>1
  <2>3. CASE ~ApplyFails(u) /\ ~RollbackPath(u)
    <3>1. pc'[u] # "rollback"
      BY <1>1, <1>7, <2>3 DEF Restore, Pick, Load, Preflight, Capture, ApplyRecord, LinkBack, RemoveNew,
         RollbackFails, Cleanup, Advance, Goto, Formed
    <3> QED
      BY <1>4, <3>1
  <2> QED
    BY <2>1, <2>2, <2>3
<1>8. CASE UNCHANGED uvars
  <2>1. Apart(u)
    BY <1>8 DEF uvars, restores, ghosts, Same, Apart
  <2> QED
    BY <1>6, <2>1
<1>9. Apart(u) \/ Restore(u) \/ UNCHANGED uvars
  BY <1>1, EditApart, RestoreApart DEF UndoNext
<1> QED
  BY <1>6, <1>7, <1>8, <1>9

LEMMA InitUndoInv == UndoInit => UndoInv
<1> SUFFICES ASSUME UndoInit PROVE UndoInv
  OBVIOUS
<1>1. KeptInv
  BY InitKeptInv
<1>2. undo = {} /\ order = <<>> /\ faults = 0 /\ \A u \in Undoers : pc[u] = "idle"
  BY DEF UndoInit
<1>3. order \in Seq(Edits) /\ Range(order) = {}
  BY <1>2, EmptySeq DEF Range
<1>4. Recording
  BY <1>2, <1>3 DEF UndoInit, Recording
<1>5. \A u \in Undoers : Loaded(u) /\ Progress(u) /\ Blame(u)
  BY <1>2 DEF Loaded, Progress, Blame, Underway, Busy
<1> QED
  BY <1>1, <1>4, <1>5 DEF UndoInv

LEMMA UndoInvStep == TypedConstants /\ RenamesApart /\ UndoInv /\ [UndoNext]_uvars => UndoInv'
<1> SUFFICES ASSUME TypedConstants, RenamesApart, UndoInv, [UndoNext]_uvars PROVE UndoInv'
  OBVIOUS
<1>1. KeptInv /\ KeptInv' /\ Formed
  BY KeptStep DEF UndoInv, KeptInv
<1>2. Recording /\ Recording'
  BY <1>1, RecordingStep DEF UndoInv
<1>3. ASSUME NEW u \in Undoers PROVE Loaded(u)' /\ Progress(u)' /\ Blame(u)'
  <2>1. Loaded(u) /\ Progress(u) /\ Blame(u) /\ Listed(u) /\ Kept(u)
    BY DEF UndoInv, KeptInv
  <2>2. Loaded(u)' /\ Blame(u)'
    BY <1>1, <1>2, <2>1, LoadedStep, BlameStep
  <2>3. Apart(u) => Progress(u)'
    BY <1>2, <2>1, ApartProgress
  <2>4. Restore(u) => Progress(u)'
    BY <1>1, <2>1, OwnProgress
  <2>5. UNCHANGED uvars => Apart(u)
    BY DEF uvars, restores, ghosts, Same, Apart
  <2>6. Apart(u) \/ Restore(u) \/ UNCHANGED uvars
    BY <1>1, EditApart, RestoreApart DEF UndoNext
  <2> QED
    BY <2>2, <2>3, <2>4, <2>5, <2>6
<1> QED
  BY <1>1, <1>2, <1>3 DEF UndoInv

-----------------------------------------------------------------------------
(* A restore that reports success has restored what its edit changed, and  *)
(* nothing else.                                                           *)
LEMMA SuccessStep ==
  ASSUME TypedConstants, UndoInv, [UndoNext]_uvars
  PROVE  UndoneAsAWhole
<1> SUFFICES ASSUME NEW u \in Undoers, pc'[u] = "true", pc[u] # "true", calm[u], NEW p \in Paths
             PROVE  store'[p] = IF pre[tx[u]][p] # post[tx[u]][p] THEN pre[tx[u]][p] ELSE start[u][p]
  BY DEF UndoneAsAWhole
<1>1. Formed /\ Listed(u) /\ Loaded(u) /\ Progress(u)
  BY DEF UndoInv, KeptInv
<1>2. Cleanup(u)
  <2>1. ~Same(u) /\ ~UNCHANGED uvars
    BY DEF Same, uvars, restores
  <2>2. Restore(u)
    BY <1>1, <2>1, EditApart, RestoreApart DEF UndoNext, Apart
  <2>3. CASE \/ \E q \in Paths : Pick(u, q)
             \/ Load(u) \/ Preflight(u) \/ Capture(u) \/ ApplyRecord(u) \/ LinkBack(u) \/ RemoveNew(u)
             \/ ApplyFails(u) \/ RollbackPath(u) \/ RollbackFails(u)
    <3>1. pc'[u] # "true"
      BY <1>1, <2>3 DEF Pick, Load, Preflight, Capture, ApplyRecord, LinkBack, RemoveNew, ApplyFails, RollbackPath,
                        RollbackFails, Advance, Goto, Formed
    <3> QED
      BY <3>1
  <2> QED
    BY <2>2, <2>3 DEF Restore
<1>3. pc[u] = "cleanup" /\ store' = store /\ Busy(u)
  BY <1>2 DEF Cleanup, Busy
<1>4. Restored(u, Range(recs[u]), {}) /\ \A r \in Range(recs[u]) : WasLeft(r, start[u])
  BY <1>1, <1>3 DEF Progress
<1>5. store[p] = IF \E r \in Range(recs[u]) : p \in Sides(r) THEN pre[tx[u]][p] ELSE start[u][p]
  BY <1>4 DEF Restored
<1>6. Good(Range(recs[u]), pre[tx[u]], post[tx[u]])
  BY <1>1, <1>3 DEF Loaded
<1>7. CASE pre[tx[u]][p] # post[tx[u]][p]
  <2>1. \E r \in Range(recs[u]) : p \in Sides(r)
    BY <1>6, <1>7 DEF Good
  <2> QED
    BY <1>3, <1>5, <1>7, <2>1
<1>8. CASE pre[tx[u]][p] = post[tx[u]][p]
  <2>1. ASSUME NEW r \in Range(recs[u]), p \in Sides(r) PROVE start[u][p] = pre[tx[u]][p]
    <3>1. Describes(r, pre[tx[u]], post[tx[u]]) /\ WasLeft(r, start[u])
      BY <1>4, <1>6 DEF Good
    <3>2. p = r.path
      BY <1>8, <2>1, <3>1 DEF Sides, Describes
    <3> QED
      BY <1>8, <3>1, <3>2 DEF Describes, WasLeft
  <2> QED
    BY <1>3, <1>5, <1>8, <2>1
<1> QED
  BY <1>7, <1>8

(* A restore undoes a transaction as a whole, for any transactions whose   *)
(* renames have their files to themselves, however many of the records the *)
(* save left behind and whatever fails (restoreTransactionUndoState,       *)
(* edit-history.ts:470).                                                   *)
THEOREM UndoneWhole ==
  ASSUME TypedConstants, RenamesApart
  PROVE  UndoSpec => UndoRestores
<1>1. UndoInit => UndoInv
  BY InitUndoInv
<1>2. UndoInv /\ [UndoNext]_uvars => UndoInv'
  BY UndoInvStep
<1>3. UndoInv /\ [UndoNext]_uvars => UndoneAsAWhole
  BY SuccessStep
<1> QED
  BY <1>1, <1>2, <1>3, PTL DEF UndoSpec, UndoRestores

(* A restore that reports failure has changed nothing, for any             *)
(* transactions, unless its rollback was itself cut short.                 *)
RollbackWorks == \A u \in Undoers : ~RollbackFails(u)

THEOREM FailureChangesNothing ==
  ASSUME TypedConstants
  PROVE  UndoSpec /\ [][RollbackWorks]_uvars => FailedUndoChangesNothing
<1>1. UndoInit => KeptInv
  BY InitKeptInv
<1>2. KeptInv /\ [UndoNext]_uvars => KeptInv'
  BY KeptStep
<1>3. KeptInv /\ [UndoNext]_uvars /\ [RollbackWorks]_uvars => [NothingUndone]_uvars
  BY FailureStep DEF NothingUndone, RollbackWorks
<1> QED
  BY <1>1, <1>2, <1>3, PTL DEF UndoSpec, FailedUndoChangesNothing

(* And when one call fails at most and the operations of a transaction are *)
(* one for each file, that never happens to a rollback undisturbed.        *)
THEOREM OneFailureChangesNothing ==
  ASSUME TypedConstants, RenamesApart, OnePerFile, MaxFaults \in Nat, MaxFaults <= 1
  PROVE  UndoSpec => FailedUndoChangesNothing
<1>1. UndoInit => UndoInv
  BY InitUndoInv
<1>2. UndoInv /\ [UndoNext]_uvars => UndoInv'
  BY UndoInvStep
<1>3. UndoInv /\ [UndoNext]_uvars => [NothingUndone]_uvars
  <2> SUFFICES ASSUME UndoInv, UndoNext, NEW u \in Undoers, pc'[u] = "false", pc[u] # "false", calm[u]
               PROVE  store' = start[u]
    BY DEF NothingUndone
  <2>1. KeptInv /\ Blame(u)
    BY DEF UndoInv
  <2>2. ~RollbackFails(u)
    BY <2>1 DEF Blame, RollbackFails, Fault
  <2> QED
    BY <2>1, <2>2, FailureStep
<1> QED
  BY <1>1, <1>2, <1>3, PTL DEF UndoSpec, FailedUndoChangesNothing

=============================================================================
