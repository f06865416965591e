----------------------------- MODULE SessionProofs -----------------------------
(***************************************************************************)
(* The small parts of a session that overlapping requests, checks and runs *)
(* share: the loop guard, the claims on diagnostics, the slots of the      *)
(* background runner, the mode of the diagnostics client, the lock file of *)
(* a path; the executor of atomic envelopes and the repair loop.  For any  *)
(* number of requests, checks, runs and processes, and any texts.          *)
(***************************************************************************)
EXTENDS FileLock, LoopGuard, DiagnosticsOwner, BackgroundRuns, DiagnosticsMode, AtomicPatch,
        RepairLoop, FiniteSetTheorems, SequenceTheorems, WellFoundedInduction, TLAPS

-----------------------------------------------------------------------------
(* Numbers and finite sets. *)

(* The smaller of two numbers. *)
LEMMA TwoMin ==
  ASSUME NEW m \in Nat, NEW n \in Nat
  PROVE  Min({m, n}) \in Nat /\ (m <= n => Min({m, n}) = m) /\ (n <= m => Min({m, n}) = n)
<1>1. CASE m <= n
  BY <1>1 DEF Min
<1>2. CASE n < m
  BY <1>2 DEF Min
<1> QED
  BY <1>1, <1>2

(* A set of numbers has a least one. *)
LEMMA Least ==
  ASSUME NEW S \in SUBSET Nat, S # {}
  PROVE  \E x \in S : \A y \in S : x <= y
<1> DEFINE R == OpToRel(<, Nat)
<1>1. PICK x \in S : \A y \in S : ~(<<y, x>> \in R)
  <2>1. IsWellFoundedOn(R, Nat)
    BY NatLessThanWellFounded
  <2> HIDE DEF R
  <2> QED
    BY <2>1, WFMin
<1>2. \A y \in S : ~(y < x)
  BY <1>1, Zenon DEF OpToRel
<1> QED
  BY <1>2

(* Of a finite set of claims any number of oldest ones can be set apart:   *)
(* the newest k, because the rest always has a newest one to add.          *)
LEMMA NewestApart ==
  ASSUME NEW L, IsFiniteSet(L), NEW now \in Nat, \A x \in L : x.at \in 0..now
  PROVE  \A k \in 0..Cardinality(L) : \E T \in SUBSET L :
           Cardinality(T) = k /\ \A x \in L \ T, y \in T : x.at <= y.at
<1> DEFINE Apart(T) == \A x \in L \ T, y \in T : x.at <= y.at
           Bad == {k \in 0..Cardinality(L) : ~\E T \in SUBSET L : Cardinality(T) = k /\ Apart(T)}
<1>1. Cardinality(L) \in Nat
  BY FS_CardinalityType
<1>2. Bad \in SUBSET Nat
  BY <1>1
<1>3. ASSUME Bad # {} PROVE FALSE
  <2>1. PICK k \in Bad : \A j \in Bad : k <= j
    BY <1>2, <1>3, Least
  <2>2. k # 0
    <3>1. Cardinality({}) = 0 /\ Apart({})
      BY FS_EmptySet
    <3> QED
      BY <3>1
  <2>3. k - 1 \in 0..Cardinality(L) /\ k - 1 \notin Bad
    BY <1>1, <2>1, <2>2
  <2>4. PICK T \in SUBSET L : Cardinality(T) = k - 1 /\ Apart(T)
    BY <2>3
  <2>5. L \ T # {}
    <3>1. T # L
      BY <1>1, <2>1, <2>4
    <3> QED
      BY <3>1
  <2>6. PICK z \in L \ T : \A x \in L \ T : x.at <= z.at
    <3> DEFINE Ages == {now - x.at : x \in L \ T}
    <3>1. Ages \in SUBSET Nat /\ Ages # {}
      BY <2>5
    <3>2. PICK a \in Ages : \A b \in Ages : a <= b
      BY <3>1, Least
    <3>3. PICK z \in L \ T : a = now - z.at
      BY <3>2
    <3>4. \A x \in L \ T : now - z.at <= now - x.at
      BY <3>2, <3>3
    <3>5. \A x \in L \ T : x.at \in Int /\ z.at \in Int
      BY <3>3
    <3> QED
      BY <3>4, <3>5
  <2>7. Apart(T \cup {z})
    BY <2>4, <2>6
  <2>8. Cardinality(T \cup {z}) = k
    <3>1. IsFiniteSet(T)
      BY FS_Subset
    <3>2. z \notin T /\ k \in Nat
      BY <1>2, <2>1, <2>6
    <3>3. Cardinality(T \cup {z}) = Cardinality(T) + 1
      BY <3>1, <3>2, FS_AddElement
    <3> QED
      BY <2>4, <3>2, <3>3
  <2>9. T \cup {z} \in SUBSET L
    BY <2>4, <2>6
  <2> QED
    BY <2>1, <2>7, <2>8, <2>9
<1> QED
  BY <1>3

-----------------------------------------------------------------------------
(* The loop guard. *)

Entries == [req : Fingerprints, count : Nat]
Unique(s) == \A i, j \in DOMAIN s : s[i].req = s[j].req => i = j

(* The requests of a kind that are past the guard. *)
Under(r) == {g \in Runners : running[g] = r}

(* NoEndlessNoop as an induction needs it: the guard has counted a request *)
(* it remembers exactly as often as it ran for nothing, and whoever is past*)
(* the guard has room to run for nothing once more.                        *)
GuardInv ==
  /\ noops \in Seq(Entries) /\ Unique(noops)
  /\ running \in [Runners -> Fingerprints \cup {"none"}]
  /\ row \in [Fingerprints -> Nat] /\ forgotten \subseteq Fingerprints
  /\ \A r \in Fingerprints \ forgotten :
       row[r] = Counted(r) /\ Counted(r) + Cardinality(Under(r)) <= MostFutile

(* Deleting a key leaves the entries of the others. *)
LEMMA OthersAre ==
  ASSUME noops \in Seq(Entries), Unique(noops), NEW r \in Fingerprints
  PROVE  /\ Others(r) \in Seq(Entries) /\ Unique(Others(r))
         /\ ToSet(Others(r)) = {e \in ToSet(noops) : e.req # r}
<1>1. CASE Places(noops, r) = {}
  <2>1. \A e \in ToSet(noops) : e.req # r
    BY <1>1 DEF Places, ToSet
  <2> QED
    BY <1>1, <2>1 DEF Others
<1>2. CASE Places(noops, r) # {}
  <2> DEFINE i == CHOOSE k \in Places(noops, r) : TRUE
             n == Len(noops)
             O == SubSeq(noops, 1, i - 1) \o SubSeq(noops, i + 1, n)
  <2>1. i \in 1..n /\ noops[i].req = r
    BY <1>2 DEF Places
  <2>2. \A k \in 1..n : k # i => noops[k].req # r
    BY <2>1 DEF Unique
  <2>3. Others(r) = O
    BY <1>2 DEF Others, RemoveAt
  <2> HIDE DEF i
  <2>4. O \in Seq(Entries) /\ Len(O) = n - 1 /\ \A k \in 1..(n - 1) : O[k] = IF k < i THEN noops[k] ELSE noops[k + 1]
    <3> DEFINE P == SubSeq(noops, 1, i - 1)
               Q == SubSeq(noops, i + 1, n)
    <3>1. P \in Seq(Entries) /\ Len(P) = i - 1 /\ \A k \in 1..(i - 1) : P[k] = noops[k]
      BY <2>1
    <3>2. Q \in Seq(Entries) /\ Len(Q) = n - i /\ \A k \in 1..(n - i) : Q[k] = noops[k + i]
      BY <2>1
    <3>3. O = P \o Q
      OBVIOUS
    <3> HIDE DEF P, Q, O
    <3>6. i \in Nat /\ n \in Nat /\ i - 1 \in Nat /\ n - i \in Nat
      BY <2>1
    <3> HIDE DEF n
    <3>7. O \in Seq(Entries) /\ Len(O) = Len(P) + Len(Q)
      <4>1. P \in Seq(Entries) /\ Q \in Seq(Entries)
        BY <3>1, <3>2
      <4> QED
        BY <3>3, <4>1
    <3>4. O \in Seq(Entries) /\ Len(O) = (i - 1) + (n - i)
      BY <3>1, <3>2, <3>7
    <3>5. \A k \in 1..((i - 1) + (n - i)) : O[k] = IF k <= i - 1 THEN P[k] ELSE Q[k - (i - 1)]
      BY <3>1, <3>2, <3>3, <3>6
    <3>8. (i - 1) + (n - i) = n - 1
      BY <3>6
    <3>9. ASSUME NEW k \in 1..(n - 1) PROVE O[k] = IF k < i THEN noops[k] ELSE noops[k + 1]
      <4>1. CASE k < i
        <5>1. O[k] = P[k] /\ k \in 1..(i - 1)
          BY <3>5, <3>6, <3>8, <4>1
        <5> QED
          BY <3>1, <4>1, <5>1
      <4>2. CASE k >= i
        <5>1. O[k] = Q[k - (i - 1)] /\ k - (i - 1) \in 1..(n - i)
          BY <3>5, <3>6, <3>8, <4>2
        <5>2. O[k] = noops[(k - (i - 1)) + i] /\ (k - (i - 1)) + i = k + 1
          BY <3>2, <3>6, <5>1
        <5> QED
          BY <3>6, <4>2, <5>2
      <4> QED
        BY <3>6, <4>1, <4>2
    <3> QED
      BY <3>4, <3>8, <3>9
  <2> HIDE DEF O
  <2>5. Unique(O)
    <3> SUFFICES ASSUME NEW j \in 1..(n - 1), NEW k \in 1..(n - 1), O[j].req = O[k].req PROVE j = k
      BY <2>4 DEF Unique
    <3> DEFINE m(x) == IF x < i THEN x ELSE x + 1
    <3>1. O[j] = noops[m(j)] /\ O[k] = noops[m(k)] /\ m(j) \in 1..n /\ m(k) \in 1..n
      BY <2>1, <2>4
    <3>2. m(j) = m(k)
      BY <3>1 DEF Unique
    <3> QED
      BY <2>1, <3>2
  <2>6. \A e \in ToSet(O) : e \in ToSet(noops) /\ e.req # r
    <3> SUFFICES ASSUME NEW k \in 1..(n - 1) PROVE O[k] \in ToSet(noops) /\ O[k].req # r
      BY <2>4 DEF ToSet
    <3>1. PICK m \in 1..n : m # i /\ O[k] = noops[m]
      <4>1. k \in 1..n /\ k + 1 \in 1..n /\ i \in Nat
        BY <2>1
      <4>2. O[k] = IF k < i THEN noops[k] ELSE noops[k + 1]
        BY <2>4
      <4>3. (k < i => k # i) /\ (~(k < i) => k + 1 # i)
        BY <4>1
      <4> QED
        BY <4>1, <4>2, <4>3
    <3> QED
      BY <2>2, <3>1 DEF ToSet
  <2>7. ASSUME NEW e \in ToSet(noops), e.req # r PROVE e \in ToSet(O)
    <3>1. PICK k \in 1..n : e = noops[k]
      BY DEF ToSet
    <3>2. CASE k < i
      BY <2>1, <2>4, <3>1, <3>2 DEF ToSet
    <3>3. CASE k > i
      <4>1. k - 1 \in 1..(n - 1) /\ O[k - 1] = noops[k]
        BY <2>1, <2>4, <3>3
      <4> QED
        BY <2>4, <3>1, <4>1 DEF ToSet
    <3> QED
      BY <2>1, <2>7, <3>1, <3>2, <3>3
  <2> QED
    BY <2>3, <2>4, <2>5, <2>6, <2>7
<1> QED
  BY <1>1, <1>2

(* Counting a request anew changes its entry and no other. *)
LEMMA ObservedAre ==
  ASSUME noops \in Seq(Entries), Unique(noops), NEW r \in Fingerprints, Counted(r) \in Nat
  PROVE  /\ Observed(r) \in Seq(Entries) /\ Unique(Observed(r))
         /\ ToSet(Observed(r)) = {e \in ToSet(noops) : e.req # r} \cup {[req |-> r, count |-> Counted(r) + 1]}
<1> DEFINE O == Others(r)
           e == [req |-> r, count |-> Counted(r) + 1]
           A == Append(O, e)
<1>1. O \in Seq(Entries) /\ Unique(O) /\ ToSet(O) = {x \in ToSet(noops) : x.req # r}
  BY OthersAre
<1>2. e \in Entries /\ e.req = r
  BY DEF Entries
<1>3. Observed(r) = A
  BY DEF Observed
<1> HIDE DEF O, e
<1>4. A \in Seq(Entries) /\ Len(A) = Len(O) + 1 /\ A[Len(O) + 1] = e /\ \A k \in 1..Len(O) : A[k] = O[k]
  BY <1>1, <1>2
<1> HIDE DEF A
<1>5. \A k \in 1..Len(O) : O[k].req # r
  BY <1>1 DEF ToSet
<1>6. Unique(A)
  BY <1>1, <1>2, <1>4, <1>5 DEF Unique
<1>7. ToSet(A) = ToSet(O) \cup {e}
  <2>1. \A k \in 1..Len(A) : A[k] \in ToSet(O) \cup {e}
    BY <1>1, <1>4 DEF ToSet
  <2>2. \A k \in 1..Len(O) : O[k] \in ToSet(A)
    BY <1>1, <1>4 DEF ToSet
  <2>3. e \in ToSet(A)
    BY <1>1, <1>4 DEF ToSet
  <2> QED
    BY <1>4, <2>1, <2>2, <2>3 DEF ToSet
<1> QED
  BY <1>1, <1>3, <1>4, <1>6, <1>7 DEF e

(* Making room drops entries and changes none. *)
LEMMA EvictedAre ==
  ASSUME NEW s \in Seq(Entries), Unique(s)
  PROVE  Evicted(s) \in Seq(Entries) /\ Unique(Evicted(s)) /\ ToSet(Evicted(s)) \subseteq ToSet(s)
<1> DEFINE n == Len(s)
           d == Max({0, n - MaxFingerprints})
           E == SubSeq(s, 1 + d, n)
<1>1. d \in 0..n
  <2>1. n \in Nat /\ MaxFingerprints \in Nat
    BY GuardAssumption
  <2> HIDE DEF n
  <2>2. CASE n <= MaxFingerprints
    <3>1. d = 0
      BY <2>1, <2>2 DEF Max
    <3> QED
      BY <2>1, <3>1
  <2>3. CASE n > MaxFingerprints
    <3>1. d = n - MaxFingerprints
      BY <2>1, <2>3 DEF Max
    <3> QED
      BY <2>1, <2>3, <3>1
  <2> QED
    BY <2>1, <2>2, <2>3
<1>2. Evicted(s) = E
  BY DEF Evicted
<1> HIDE DEF d
<1>3. E \in Seq(Entries) /\ Len(E) = n - d /\ \A k \in 1..(n - d) : E[k] = s[k + d]
  BY <1>1
<1> HIDE DEF E
<1>4. Unique(E)
  <2> SUFFICES ASSUME NEW j \in 1..(n - d), NEW k \in 1..(n - d), E[j].req = E[k].req PROVE j = k
    BY <1>3 DEF Unique
  <2>1. j + d \in 1..n /\ k + d \in 1..n /\ s[j + d].req = s[k + d].req
    BY <1>1, <1>3
  <2>2. j + d = k + d
    BY <2>1 DEF Unique
  <2> QED
    BY <1>1, <2>2
<1>5. ToSet(E) \subseteq ToSet(s)
  <2>1. \A k \in 1..(n - d) : k + d \in 1..n /\ E[k] = s[k + d]
    BY <1>1, <1>3
  <2> QED
    BY <1>3, <2>1 DEF ToSet
<1> QED
  BY <1>2, <1>3, <1>4, <1>5

(* A count is that of the entry, if there is one. *)
LEMMA CountOf ==
  ASSUME NEW s \in Seq(Entries), Unique(s), NEW r \in Fingerprints
  PROVE  /\ CountIn(s, r) \in Nat
         /\ (\A x \in ToSet(s) : x.req # r) => CountIn(s, r) = 0
         /\ \A x \in ToSet(s) : x.req = r => CountIn(s, r) = x.count
<1>1. \A i \in DOMAIN s : s[i].count \in Nat
  <2>1. \A i \in DOMAIN s : s[i] \in Entries
    OBVIOUS
  <2> QED
    BY <2>1 DEF Entries
<1>2. \A i \in Places(s, r) : i \in DOMAIN s /\ s[i] \in ToSet(s) /\ s[i].req = r
  BY DEF Places, ToSet
<1>3. CASE Places(s, r) = {}
  BY <1>3 DEF CountIn, Places, ToSet
<1>4. CASE Places(s, r) # {}
  <2> DEFINE i == CHOOSE k \in Places(s, r) : TRUE
  <2>1. i \in Places(s, r)
    BY <1>4
  <2>2. CountIn(s, r) = s[i].count
    BY <1>4 DEF CountIn
  <2> HIDE DEF i
  <2>3. \A k \in DOMAIN s : s[k].req = r => k = i
    BY <1>2, <2>1 DEF Unique
  <2> QED
    BY <1>1, <1>2, <2>1, <2>2, <2>3 DEF ToSet
<1> QED
  BY <1>3, <1>4

LEMMA UnderFinite ==
  ASSUME NEW S \in SUBSET Runners
  PROVE  IsFiniteSet(S) /\ Cardinality(S) \in Nat /\ Cardinality(S) <= Cardinality(Runners) /\ Cardinality(Runners) \in Nat
BY FS_Subset, FS_CardinalityType, GuardAssumption

(* A request that ran for nothing is counted, or forgotten. *)
LEMMA NoopStep ==
  ASSUME GuardInv, NEW g \in Runners, LeaveNoop(g)
  PROVE  GuardInv'
<1>0. PICK r \in Fingerprints : r = running[g]
  BY DEF LeaveNoop, GuardInv
<1> DEFINE s == Observed(r)
<1>1. r \in Fingerprints /\ noops \in Seq(Entries) /\ Unique(noops)
  BY DEF GuardInv
<1>2. Counted(r) \in Nat
  BY <1>1, CountOf DEF Counted
<1>3. s \in Seq(Entries) /\ Unique(s)
      /\ ToSet(s) = {e \in ToSet(noops) : e.req # r} \cup {[req |-> r, count |-> Counted(r) + 1]}
  BY <1>1, <1>2, ObservedAre
<1>4. noops' = Evicted(s) /\ running' = [running EXCEPT ![g] = "none"]
      /\ row' = [row EXCEPT ![r] = Min({@ + 1, MostFutile + 1})]
      /\ forgotten' = forgotten \cup ({e.req : e \in ToSet(s)} \ {e.req : e \in ToSet(noops')})
  BY <1>0 DEF LeaveNoop
<1> HIDE DEF s
<1>5. noops' \in Seq(Entries) /\ Unique(noops') /\ ToSet(noops') \subseteq ToSet(s)
  BY <1>3, <1>4, EvictedAre
<1>6. MostFutile \in Nat
  BY GuardAssumption, UnderFinite DEF MostFutile
<1>7. running' \in [Runners -> Fingerprints \cup {"none"}] /\ row' \in [Fingerprints -> Nat]
  <2>1. row[r] \in Nat /\ row \in [Fingerprints -> Nat]
    BY <1>1 DEF GuardInv
  <2>2. Min({row[r] + 1, MostFutile + 1}) \in Nat
    BY <1>6, <2>1, TwoMin
  <2> QED
    BY <1>1, <1>4, <2>1, <2>2 DEF GuardInv
<1>8. \A e \in ToSet(s) : e.req \in Fingerprints
  <2>1. \A e \in ToSet(s) : e \in Entries
    BY <1>3 DEF ToSet
  <2> QED
    BY <2>1 DEF Entries
<1>9. \A q \in Fingerprints : q # r => Under(q)' = Under(q)
  <2> SUFFICES ASSUME NEW q \in Fingerprints, q # r PROVE Under(q)' = Under(q)
    OBVIOUS
  <2>1. \A h \in Runners : h # g => running'[h] = running[h]
    BY <1>4 DEF GuardInv
  <2>2. running'[g] = "none" /\ q # "none"
    BY <1>4, GuardAssumption DEF GuardInv
  <2> QED
    BY <1>0, <2>1, <2>2 DEF Under
<1>10. Cardinality(Under(r)') = Cardinality(Under(r)) - 1
  <2>1. \A h \in Runners : h # g => running'[h] = running[h]
    BY <1>4 DEF GuardInv
  <2>2. running'[g] = "none" /\ r # "none"
    BY <1>1, <1>4, GuardAssumption DEF GuardInv
  <2>3. Under(r)' = Under(r) \ {g} /\ g \in Under(r)
    BY <1>0, <2>1, <2>2 DEF Under
  <2> QED
    BY <2>3, UnderFinite, FS_RemoveElement DEF Under
<1>11. ASSUME NEW q \in Fingerprints, q \notin forgotten', q # r
       PROVE  row'[q] = Counted(q)' /\ Counted(q)' + Cardinality(Under(q)') <= MostFutile
  <2>1. row[q] = Counted(q) /\ Counted(q) + Cardinality(Under(q)) <= MostFutile
    BY <1>4, <1>11 DEF GuardInv
  <2>2. Counted(q)' = Counted(q)
    <3>1. CASE \E e \in ToSet(noops) : e.req = q
      <4>1. PICK e \in ToSet(noops) : e.req = q
        BY <3>1
      <4>2. e \in ToSet(s)
        BY <1>3, <1>11, <4>1
      <4>3. PICK f \in ToSet(noops') : f.req = q
        BY <1>4, <1>11, <4>1, <4>2
      <4>4. f \in ToSet(noops) /\ f.req = q
        BY <1>3, <1>5, <1>11, <4>3
      <4> QED
        BY <1>1, <1>5, <4>3, <4>4, CountOf DEF Counted
    <3>2. CASE \A e \in ToSet(noops) : e.req # q
      <4>1. \A e \in ToSet(noops') : e.req # q
        BY <1>3, <1>5, <1>11, <3>2
      <4> QED
        BY <1>1, <1>5, <3>2, <4>1, CountOf DEF Counted
    <3> QED
      BY <3>1, <3>2
  <2> QED
    BY <1>4, <1>9, <1>11, <2>1, <2>2 DEF GuardInv
<1>12. ASSUME r \notin forgotten'
       PROVE  row'[r] = Counted(r)' /\ Counted(r)' + Cardinality(Under(r)') <= MostFutile
  <2>1. row[r] = Counted(r) /\ Counted(r) + Cardinality(Under(r)) <= MostFutile
    BY <1>1, <1>4, <1>12 DEF GuardInv
  <2>2. PICK f \in ToSet(noops') : f.req = r
    <3>1. [req |-> r, count |-> Counted(r) + 1] \in ToSet(s)
      BY <1>3
    <3> QED
      BY <1>4, <1>12, <3>1
  <2>3. f.count = Counted(r) + 1
    BY <1>3, <1>5, <2>2
  <2>4. Counted(r)' = Counted(r) + 1
    <3>1. \A q \in Fingerprints : \A x \in ToSet(noops') : x.req = q => CountIn(noops', q) = x.count
      BY <1>5, CountOf
    <3> QED
      BY <1>1, <2>2, <2>3, <3>1 DEF Counted
  <2>5. Cardinality(Under(r)) \in Nat
    BY UnderFinite DEF Under
  <2>6. row'[r] = Min({row[r] + 1, MostFutile + 1})
    BY <1>1, <1>4 DEF GuardInv
  <2>7. Cardinality(Under(r)) >= 1
    <3>1. Cardinality(Under(r)') \in Nat
      BY UnderFinite DEF Under
    <3> QED
      BY <1>10, <2>5, <3>1
  <2>8. row'[r] = row[r] + 1
    <3>1. row[r] + 1 <= MostFutile + 1 /\ row[r] \in Nat
      BY <1>2, <1>6, <2>1, <2>5, <2>7
    <3> QED
      <4>1. row[r] + 1 \in Nat /\ MostFutile + 1 \in Nat
        BY <1>6, <3>1
      <4> QED
        BY <2>6, <3>1, <4>1, TwoMin
  <2> QED
    BY <1>2, <1>6, <1>10, <2>1, <2>4, <2>5, <2>8
<1>13. MostFutile' = MostFutile
  BY DEF MostFutile
<1> QED
  <2>1. forgotten' \subseteq Fingerprints
    BY <1>4, <1>8 DEF GuardInv
  <2> QED
    BY <1>5, <1>7, <1>11, <1>12, <1>13, <2>1 DEF GuardInv

LEMMA GuardStep == GuardInv /\ [GuardNext]_gvars => GuardInv'
<1> SUFFICES ASSUME GuardInv, [GuardNext]_gvars PROVE GuardInv'
  OBVIOUS
<1>1. CASE UNCHANGED gvars
  BY <1>1 DEF gvars, GuardInv, Counted, Under, MostFutile
<1>2. ASSUME noops' = <<>>, forgotten' = {}, row' = [r \in Fingerprints |-> 0],
             running' \in [Runners -> Fingerprints \cup {"none"}]
      PROVE  GuardInv'
  <2>1. \A r \in Fingerprints : Counted(r)' = 0
    BY <1>2 DEF Counted, CountIn, Places
  <2>2. \A r \in Fingerprints : Cardinality(Under(r)') \in Nat /\ Cardinality(Under(r)') <= Cardinality(Runners)
    BY UnderFinite DEF Under
  <2>3. Cardinality(Runners) \in Nat
    BY UnderFinite
  <2> QED
    BY <1>2, <2>1, <2>2, <2>3, GuardAssumption DEF GuardInv, Unique, MostFutile
<1>3. CASE ResetGuard
  BY <1>2, <1>3 DEF ResetGuard, GuardInv
<1>4. ASSUME NEW g \in Runners, LeaveApplied(g) PROVE GuardInv'
  BY <1>2, <1>4 DEF LeaveApplied, GuardInv
<1>5. ASSUME NEW g \in Runners, Enter(g) PROVE GuardInv'
  <2>1. PICK r \in Fingerprints : Counted(r) < BlockAfterNoops /\ running' = [running EXCEPT ![g] = r]
    BY <1>5 DEF Enter
  <2>2. \A q \in Fingerprints : Counted(q)' = Counted(q) /\ Counted(q) \in Nat
    BY <1>5, CountOf DEF Enter, Counted, GuardInv
  <2>3. \A q \in Fingerprints : q # r => Under(q)' = Under(q)
    BY <1>5, <2>1, GuardAssumption DEF Enter, Under, GuardInv
  <2>4. Counted(r) + Cardinality(Under(r)') <= MostFutile
    <3>1. Cardinality(Under(r)') \in Nat /\ Cardinality(Under(r)') <= Cardinality(Runners) /\ Cardinality(Runners) \in Nat
      BY UnderFinite DEF Under
    <3> QED
      BY <2>1, <2>2, <3>1, GuardAssumption DEF MostFutile
  <2> QED
    BY <1>5, <2>1, <2>2, <2>3, <2>4 DEF Enter, GuardInv, MostFutile
<1>6. ASSUME NEW g \in Runners, LeaveRejected(g) PROVE GuardInv'
  <2>1. \A q \in Fingerprints : Counted(q)' = Counted(q) /\ Counted(q) \in Nat
    BY <1>6, CountOf DEF LeaveRejected, Counted, GuardInv
  <2>2. \A q \in Fingerprints : Under(q)' \subseteq Under(q)
    BY <1>6, GuardAssumption DEF LeaveRejected, Under, GuardInv
  <2>3. \A q \in Fingerprints : Cardinality(Under(q)') <= Cardinality(Under(q))
        /\ Cardinality(Under(q)') \in Nat /\ Cardinality(Under(q)) \in Nat
    <3> SUFFICES ASSUME NEW q \in Fingerprints
                 PROVE  Cardinality(Under(q)') <= Cardinality(Under(q))
                        /\ Cardinality(Under(q)') \in Nat /\ Cardinality(Under(q)) \in Nat
      OBVIOUS
    <3>1. Under(q) \in SUBSET Runners /\ Under(q)' \in SUBSET Runners
      BY DEF Under
    <3> QED
      BY <2>2, <3>1, UnderFinite, FS_Subset
  <2>4. MostFutile \in Nat /\ MostFutile' = MostFutile
    BY GuardAssumption, UnderFinite DEF MostFutile
  <2> QED
    BY <1>6, <2>1, <2>3, <2>4 DEF LeaveRejected, GuardInv
<1> QED
  BY <1>1, <1>3, <1>4, <1>5, <1>6, NoopStep DEF GuardNext

(* Two futile runs are tolerated, and one more for each request that was   *)
(* past the guard at the time (mutation-loop-guard.ts:4-6).                *)
THEOREM NoLoop == GuardSpec => []NoEndlessNoop
<1>1. GuardInit => GuardInv
  <2> SUFFICES ASSUME GuardInit PROVE GuardInv
    OBVIOUS
  <2>1. \A r \in Fingerprints : Counted(r) = 0 /\ Under(r) = {}
    BY GuardAssumption DEF GuardInit, Counted, CountIn, Places, Under
  <2>2. Cardinality(Runners) \in Nat /\ Cardinality({}) = 0
    BY UnderFinite, FS_EmptySet
  <2>3. 0 + 0 <= MostFutile
    BY <2>2, GuardAssumption DEF MostFutile
  <2>4. \A r \in Fingerprints : Counted(r) + Cardinality(Under(r)) <= MostFutile
    BY <2>1, <2>2, <2>3
  <2> QED
    BY <2>1, <2>4 DEF GuardInit, GuardInv, Unique
<1>2. GuardInv => NoEndlessNoop
  <2> SUFFICES ASSUME GuardInv, NEW r \in Fingerprints \ forgotten PROVE row[r] <= MostFutile
    BY DEF NoEndlessNoop
  <2>1. Cardinality(Under(r)) \in Nat /\ MostFutile \in Int
    BY UnderFinite, GuardAssumption DEF Under, MostFutile
  <2> QED
    BY <2>1 DEF GuardInv
<1> QED
  BY <1>1, <1>2, GuardStep, PTL DEF GuardSpec

-----------------------------------------------------------------------------
(* The claims on diagnostics. *)

Mine(c) == [id |-> c, at |-> claimedAt[c]]
Claimed == {c \in ToolCalls : stage[c] # "new"}
Later(c) == {d \in ToolCalls \ {c} : stage[d] # "new" /\ claimedAt[d] >= claimedAt[c]}

(* A claim lasts no longer, or was the oldest when others needed its place.*)
Lost(c) == clock - claimedAt[c] > ClaimTtl \/ Cardinality(Later(c)) >= MaxClaims

(* NeverDouble as an induction needs it: the claim of a call that may yet  *)
(* go through, or did, is in the map unless it was lost in one of the two  *)
(* ways; and SmartRead speaks up for such a call only when it was.         *)
OwnerInv ==
  /\ stage \in [ToolCalls -> {"new", "running", "ended"}]
  /\ claimedAt \in [ToolCalls -> Nat] /\ clock \in Nat
  /\ \A c \in ToolCalls : claimedAt[c] <= clock
  /\ IsFiniteSet(Claimed) /\ IsFiniteSet(claims)
  /\ \A x \in claims : \E c \in Claimed : x = Mine(c)
  /\ reported \in [ToolCalls -> SUBSET {"SmartEdit", "SmartRead"}]
  /\ failed \subseteq {c \in ToolCalls : stage[c] = "ended"}
  /\ \A c \in ToolCalls : stage[c] # "ended" => reported[c] = {}
  /\ \A c \in failed : "SmartEdit" \notin reported[c]
  /\ \A c \in Claimed \ failed : Mine(c) \in claims \/ Lost(c)
  /\ \A c \in ToolCalls \ failed : "SmartRead" \in reported[c] => Lost(c)

(* Pruning keeps some of the claims, as prune means it to. *)
LEMMA PrunedIs ==
  ASSUME OwnerInv
  PROVE  LET live == {x \in claims : clock - x.at <= ClaimTtl}
             T == Pruned(claims)
         IN /\ T \subseteq live /\ IsFiniteSet(live)
            /\ Cardinality(T) = Min({Cardinality(live), MaxClaims})
            /\ \A x \in live \ T, y \in T : x.at <= y.at
<1> DEFINE live == {x \in claims : clock - x.at <= ClaimTtl}
           n == Min({Cardinality(live), MaxClaims})
           Fit(T) == Cardinality(T) = n /\ \A x \in live \ T, y \in T : x.at <= y.at
<1>1. IsFiniteSet(live) /\ Cardinality(live) \in Nat
  BY FS_Subset, FS_CardinalityType DEF OwnerInv
<1>2. \A x \in live : x.at \in 0..clock
  <2> SUFFICES ASSUME NEW x \in live PROVE x.at \in 0..clock
    OBVIOUS
  <2>1. PICK c \in ToolCalls : x = Mine(c)
    BY DEF OwnerInv, Claimed
  <2> QED
    BY <2>1 DEF OwnerInv, Mine
<1>3. n \in 0..Cardinality(live)
  BY <1>1, TwoMin, OwnerAssumption
<1>4. clock \in Nat
  BY DEF OwnerInv
<1> HIDE DEF live, n
<1>5. \E T \in SUBSET live : Fit(T)
  BY <1>1, <1>2, <1>3, <1>4, NewestApart
<1>6. Pruned(claims) = CHOOSE T \in SUBSET live : Fit(T)
  BY DEF Pruned, live, n
<1> HIDE DEF Fit
<1>7. Pruned(claims) \in SUBSET live /\ Fit(Pruned(claims))
  BY <1>5, <1>6
<1> QED
  BY <1>1, <1>7 DEF live, n, Fit

(* Whatever prune takes has expired or makes room for as many newer ones.  *)
LEMMA PrunedKeeps ==
  ASSUME OwnerInv, NEW c \in Claimed, Mine(c) \in claims
  PROVE  Mine(c) \in Pruned(claims) \/ Lost(c)
<1> DEFINE live == {x \in claims : clock - x.at <= ClaimTtl}
           T == Pruned(claims)
<1>1. /\ T \subseteq live /\ IsFiniteSet(live)
      /\ Cardinality(T) = Min({Cardinality(live), MaxClaims})
      /\ \A x \in live \ T, y \in T : x.at <= y.at
  BY PrunedIs
<1>2. CASE Mine(c) \notin live
  <2>1. clock - claimedAt[c] > ClaimTtl
    BY <1>2, OwnerAssumption DEF Mine, OwnerInv, Claimed
  <2> QED
    BY <2>1 DEF Lost
<1>3. CASE Mine(c) \in live \ T
  <2>1. Cardinality(live) \in Nat /\ MaxClaims \in Nat
    BY <1>1, FS_CardinalityType, OwnerAssumption
  <2>2. Cardinality(T) = MaxClaims
    <3>1. Cardinality(T) # Cardinality(live)
      BY <1>1, <1>3, FS_Subset
    <3> QED
      BY <1>1, <2>1, <3>1, TwoMin
  <2> DEFINE D == {d \in Claimed : Mine(d) \in T}
             f == [d \in D |-> Mine(d)]
  <2>3. D \subseteq Later(c)
    <3> SUFFICES ASSUME NEW d \in D PROVE d \in Later(c)
      OBVIOUS
    <3>1. claimedAt[c] <= claimedAt[d]
      BY <1>1, <1>3 DEF Mine
    <3>2. d # c
      BY <1>3
    <3> QED
      BY <3>1, <3>2 DEF Later, Claimed, OwnerInv
  <2>4. IsFiniteSet(Later(c)) /\ IsFiniteSet(D) /\ Cardinality(D) <= Cardinality(Later(c))
    <3>1. Later(c) \in SUBSET Claimed
      BY DEF Later, Claimed
    <3>2. IsFiniteSet(Later(c))
      BY <3>1, FS_Subset DEF OwnerInv
    <3> QED
      BY <2>3, <3>2, FS_Subset
  <2>5. \A y \in T : \E d \in D : f[d] = y
    BY <1>1 DEF OwnerInv
  <2>6. f \in Surjection(D, T)
    BY <2>5 DEF Surjection
  <2>7. Cardinality(T) <= Cardinality(D)
    <3> HIDE DEF D, T, f
    <3> QED
      BY <2>4, <2>6, FS_Surjection
  <2>8. Cardinality(D) \in Nat /\ Cardinality(Later(c)) \in Nat
    BY <2>4, FS_CardinalityType
  <2> QED
    BY <2>1, <2>2, <2>4, <2>7, <2>8 DEF Lost
<1> QED
  BY <1>2, <1>3

(* What was lost stays lost: time goes on, and claims are made, not unmade.*)
LEMMA LostStays ==
  ASSUME OwnerInv, IsFiniteSet(Claimed'), Claimed \subseteq Claimed', clock' \in Nat, clock' >= clock,
         \A d \in Claimed : claimedAt'[d] = claimedAt[d]
  PROVE  \A c \in Claimed : Mine(c)' = Mine(c) /\ (Lost(c) => Lost(c)')
<1> SUFFICES ASSUME NEW c \in Claimed PROVE Mine(c)' = Mine(c) /\ (Lost(c) => Lost(c)')
  OBVIOUS
<1>1. Later(c) \subseteq Later(c)' /\ Later(c)' \subseteq Claimed'
  BY DEF Later, Claimed
<1>2. IsFiniteSet(Later(c)')
  BY <1>1, FS_Subset
<1>3. /\ Cardinality(Later(c)) <= Cardinality(Later(c)')
      /\ Cardinality(Later(c)) \in Nat /\ Cardinality(Later(c)') \in Nat
  BY <1>1, <1>2, FS_Subset, FS_CardinalityType
<1>4. clock \in Nat /\ claimedAt[c] \in Nat
  BY DEF OwnerInv, Claimed
<1> QED
  BY <1>3, <1>4, OwnerAssumption DEF Lost, Mine

(* The claims left by prune are still those of the calls. *)
LEMMA PrunedTypes ==
  ASSUME OwnerInv
  PROVE  IsFiniteSet(Pruned(claims)) /\ Pruned(claims) \subseteq claims
<1>1. Pruned(claims) \subseteq claims
  BY PrunedIs
<1> QED
  BY <1>1, FS_Subset DEF OwnerInv

LEMMA OwnerStep == OwnerInv /\ [OwnerNext]_ovars => OwnerInv'
<1> SUFFICES ASSUME OwnerInv, [OwnerNext]_ovars PROVE OwnerInv'
  OBVIOUS
<1>1. CASE UNCHANGED ovars
  BY <1>1 DEF ovars, OwnerInv, Claimed, Mine, Lost, Later
<1>2. CASE Tick
  <2>1. Claimed' = Claimed /\ clock' \in Nat /\ clock' >= clock /\ claimedAt' = claimedAt
    BY <1>2 DEF Tick, Claimed, OwnerInv
  <2>2. \A c \in Claimed : Mine(c)' = Mine(c) /\ (Lost(c) => Lost(c)')
    BY <2>1, LostStays DEF OwnerInv
  <2>3. \A c \in ToolCalls : claimedAt[c] <= clock'
    BY <2>1 DEF OwnerInv
  <2>4. \A c \in ToolCalls : "SmartRead" \in reported[c] => c \in Claimed
    BY DEF OwnerInv, Claimed
  <2> QED
    BY <1>2, <2>1, <2>2, <2>3, <2>4 DEF Tick, OwnerInv
<1>3. ASSUME NEW c \in ToolCalls, Claim(c) PROVE OwnerInv'
  <2>1. Claimed' = Claimed \cup {c} /\ c \notin Claimed /\ IsFiniteSet(Claimed')
    <3>1. Claimed' = Claimed \cup {c} /\ c \notin Claimed
      BY <1>3 DEF Claim, Claimed, OwnerInv
    <3> QED
      BY <3>1, FS_AddElement DEF OwnerInv
  <2>2. \A d \in Claimed : claimedAt'[d] = claimedAt[d]
    BY <1>3, <2>1 DEF Claim, OwnerInv
  <2>3. \A d \in Claimed : Mine(d)' = Mine(d) /\ (Lost(d) => Lost(d)')
    BY <1>3, <2>1, <2>2, LostStays DEF Claim, OwnerInv
  <2>4. claims' = Pruned(claims) \cup {Mine(c)'}
    BY <1>3 DEF Claim, Mine, OwnerInv
  <2>5. IsFiniteSet(claims') /\ \A x \in claims' : \E d \in Claimed' : x = Mine(d)'
    <3>1. IsFiniteSet(claims')
      BY <2>4, PrunedTypes, FS_AddElement
    <3>2. \A x \in Pruned(claims) : \E d \in Claimed : x = Mine(d)
      BY PrunedTypes DEF OwnerInv
    <3> QED
      BY <2>1, <2>3, <2>4, <3>1, <3>2
  <2>6. \A d \in Claimed' \ failed' : Mine(d)' \in claims' \/ Lost(d)'
    <3> SUFFICES ASSUME NEW d \in Claimed \ failed PROVE Mine(d)' \in claims' \/ Lost(d)'
      BY <1>3, <2>1, <2>4 DEF Claim
    <3> QED
      BY <2>3, <2>4, PrunedKeeps DEF OwnerInv
  <2>7. \A d \in ToolCalls : "SmartRead" \in reported[d] => d \in Claimed
    BY DEF OwnerInv, Claimed
  <2>8. /\ stage' \in [ToolCalls -> {"new", "running", "ended"}] /\ claimedAt' \in [ToolCalls -> Nat]
        /\ \A d \in ToolCalls : claimedAt'[d] <= clock'
        /\ failed \subseteq {d \in ToolCalls : stage'[d] = "ended"}
        /\ \A d \in ToolCalls : stage'[d] # "ended" => reported[d] = {}
    BY <1>3 DEF Claim, OwnerInv
  <2> QED
    BY <1>3, <2>1, <2>3, <2>5, <2>6, <2>7, <2>8 DEF Claim, OwnerInv
<1>4. ASSUME NEW c \in ToolCalls, EndCall(c) PROVE OwnerInv'
  <2>1. Claimed' = Claimed
    BY <1>4 DEF EndCall, Claimed, OwnerInv
  <2>2. \A d \in Claimed : Mine(d)' = Mine(d) /\ (Lost(d) => Lost(d)')
    BY <1>4, <2>1, LostStays DEF EndCall, OwnerInv
  <2>3. reported[c] = {} /\ c \notin failed
    BY <1>4 DEF EndCall, OwnerInv
  <2>4. \A d \in ToolCalls : "SmartRead" \in reported'[d] => d \in Claimed /\ "SmartRead" \in reported[d]
    BY <1>4 DEF EndCall, OwnerInv, Claimed
  <2>5. /\ stage' \in [ToolCalls -> {"new", "running", "ended"}]
        /\ reported' \in [ToolCalls -> SUBSET {"SmartEdit", "SmartRead"}]
        /\ failed' \subseteq {d \in ToolCalls : stage'[d] = "ended"} /\ failed \subseteq failed'
        /\ \A d \in ToolCalls : stage'[d] # "ended" => reported'[d] = {}
    BY <1>4 DEF EndCall, OwnerInv
  <2>6. \A d \in failed' : "SmartEdit" \notin reported'[d]
    BY <1>4, <2>3 DEF EndCall, OwnerInv
  <2> QED
    BY <1>4, <2>1, <2>2, <2>4, <2>5, <2>6 DEF EndCall, OwnerInv
<1>5. ASSUME NEW c \in ToolCalls, EditHandler(c) PROVE OwnerInv'
  <2>1. Claimed' = Claimed /\ \A d \in ToolCalls : Mine(d)' = Mine(d) /\ Lost(d)' = Lost(d)
    BY <1>5 DEF EditHandler, Claimed, Mine, Lost, Later
  <2>2. claims' \subseteq claims /\ IsFiniteSet(claims')
    <3>1. claims' \subseteq claims
      BY <1>5 DEF EditHandler
    <3> QED
      BY <3>1, FS_Subset DEF OwnerInv
  <2>3. \A d \in Claimed \ failed : Mine(d) \in claims => Mine(d) \in claims'
    BY <1>5 DEF EditHandler, Mine
  <2> QED
    BY <1>5, <2>1, <2>2, <2>3 DEF EditHandler, OwnerInv, Claimed
<1>6. ASSUME NEW c \in ToolCalls, ReadHandler(c) PROVE OwnerInv'
  <2>1. Claimed' = Claimed /\ \A d \in ToolCalls : Mine(d)' = Mine(d) /\ Lost(d)' = Lost(d)
    BY <1>6 DEF ReadHandler, Claimed, Mine, Lost, Later
  <2>2. claims' = Pruned(claims) /\ claims' \subseteq claims /\ IsFiniteSet(claims')
    BY <1>6, PrunedTypes DEF ReadHandler
  <2>3. \A d \in Claimed \ failed : Mine(d) \in claims' \/ Lost(d)
    BY <2>2, PrunedKeeps DEF OwnerInv
  <2>4. /\ reported' \in [ToolCalls -> SUBSET {"SmartEdit", "SmartRead"}]
        /\ \A d \in ToolCalls : "SmartEdit" \in reported'[d] => "SmartEdit" \in reported[d]
        /\ \A d \in ToolCalls : d # c => reported'[d] = reported[d]
    BY <1>6 DEF ReadHandler, OwnerInv
  <2>5. c \in Claimed /\ stage[c] = "ended"
    BY <1>6 DEF ReadHandler, Claimed
  <2>6. ASSUME c \notin failed, "SmartRead" \in reported'[c] PROVE Lost(c)
    <3>1. CASE Mine(c) \in claims'
      <4>1. \E x \in claims' : x.id = c
        BY <3>1 DEF Mine
      <4>2. reported' = reported
        BY <1>6, <4>1 DEF ReadHandler
      <4> QED
        BY <2>6, <4>2 DEF OwnerInv
    <3> QED
      BY <2>3, <2>5, <2>6, <3>1
  <2>7. \A d \in ToolCalls \ failed : "SmartRead" \in reported'[d] => Lost(d)
    BY <2>4, <2>6 DEF OwnerInv
  <2>8. \A d \in ToolCalls : stage[d] # "ended" => reported'[d] = {}
    BY <2>4, <2>5 DEF OwnerInv
  <2>9. \A d \in failed : "SmartEdit" \notin reported'[d]
    BY <2>4 DEF OwnerInv
  <2>10. \A x \in claims' : \E d \in Claimed : x = Mine(d)'
    <3> SUFFICES ASSUME NEW x \in claims' PROVE \E d \in Claimed : x = Mine(d)'
      OBVIOUS
    <3>1. PICK d \in Claimed : x = Mine(d)
      BY <2>2 DEF OwnerInv
    <3> QED
      BY <2>1, <3>1 DEF Claimed
  <2>11. UNCHANGED <<stage, failed, claimedAt, clock>>
    BY <1>6 DEF ReadHandler
  <2>12. \A d \in Claimed \ failed : Mine(d)' \in claims' \/ Lost(d)'
    BY <2>1, <2>3 DEF Claimed
  <2> QED
    BY <2>1, <2>2, <2>4, <2>7, <2>8, <2>9, <2>10, <2>11, <2>12 DEF OwnerInv
<1> QED
  BY <1>1, <1>2, <1>3, <1>4, <1>5, <1>6 DEF OwnerNext

(* The only ways to two reports of diagnostics for one mutation, in        *)
(* whichever order the two extensions see its result                       *)
(* (mutation-ownership.ts:5): its call outlasted its claim, or as many     *)
(* calls as the map holds were claimed after it and evicted the claim.     *)
THEOREM OneReport == OwnerSpec => []NeverDouble
<1>1. OwnerInit => OwnerInv
  <2> SUFFICES ASSUME OwnerInit PROVE OwnerInv
    OBVIOUS
  <2>1. Claimed = {} /\ claims = {} /\ IsFiniteSet({})
    BY FS_EmptySet DEF OwnerInit, Claimed
  <2> QED
    BY <2>1 DEF OwnerInit, OwnerInv
<1>2. OwnerInv => NeverDouble
  <2> SUFFICES ASSUME OwnerInv, NEW c \in ToolCalls, Cardinality(reported[c]) = 2
               PROVE  Lost(c)
    BY DEF NeverDouble, Lost, Later
  <2>1. reported[c] = {"SmartEdit", "SmartRead"}
    <3>1. reported[c] \in SUBSET {"SmartEdit", "SmartRead"}
      BY DEF OwnerInv
    <3>2. reported[c] # {}
      BY FS_EmptySet
    <3>3. \A x : reported[c] # {x}
      BY FS_Singleton
    <3> QED
      BY <3>1, <3>2, <3>3
  <2> QED
    BY <2>1 DEF OwnerInv
<1> QED
  BY <1>1, <1>2, OwnerStep, PTL DEF OwnerSpec

-----------------------------------------------------------------------------
(* The slots of the background runner. *)

(* SlotsAreHonest as an induction needs it: a run in the registry has not  *)
(* been answered, so that whatever settles it is its first answer.         *)
RunsInv ==
  /\ runs \subseteq RunIds /\ IsFiniteSet(runs)
  /\ process \in [RunIds -> {"none", "alive", "killed", "closing", "gone"}]
  /\ settled \in [RunIds -> SUBSET {"passed", "failed", "timeout"}]
  /\ active = Cardinality(runs)
  /\ \A r \in RunIds : process[r] = "alive" => r \in runs
  /\ \A r \in RunIds : process[r] = "none" \/ r \in runs => settled[r] = {}
  /\ \A r \in RunIds : process[r] = "none" => r \notin runs
  /\ \A r \in RunIds : settled[r] = {} \/ \E x : settled[r] = {x}

(* Whoever comes first settles a run and frees its slot; for whoever comes *)
(* later nothing changes.                                                  *)
LEMMA FinalizeKeeps ==
  ASSUME RunsInv, NEW r \in RunIds, NEW verdict \in {"passed", "failed", "timeout"},
         Finalize(r, verdict),
         process' \in [RunIds -> {"none", "alive", "killed", "closing", "gone"}],
         process'[r] # "alive", process'[r] # "none",
         \A q \in RunIds \ {r} : process'[q] = process[q]
  PROVE  RunsInv'
<1>1. CASE r \notin runs
  BY <1>1 DEF Finalize, RunsInv
<1>2. CASE r \in runs
  <2>1. runs' = runs \ {r} /\ active' = active - 1 /\ settled' = [settled EXCEPT ![r] = @ \cup {verdict}]
    BY <1>2 DEF Finalize
  <2>2. IsFiniteSet(runs') /\ Cardinality(runs') = Cardinality(runs) - 1
    BY <1>2, <2>1, FS_RemoveElement DEF RunsInv
  <2>3. settled'[r] = {verdict}
    BY <1>2, <2>1 DEF RunsInv
  <2>4. \A q \in RunIds : settled'[q] = {} \/ \E x : settled'[q] = {x}
    BY <2>1, <2>3 DEF RunsInv
  <2> QED
    BY <1>2, <2>1, <2>2, <2>3, <2>4 DEF RunsInv
<1> QED
  BY <1>1, <1>2

LEMMA RunsStep == RunsInv /\ [RunsNext]_bvars => RunsInv'
<1> SUFFICES ASSUME RunsInv, [RunsNext]_bvars PROVE RunsInv'
  OBVIOUS
<1>1. CASE UNCHANGED bvars
  BY <1>1 DEF RunsInv, bvars
<1>2. ASSUME NEW r \in RunIds, Schedule(r) PROVE RunsInv'
  <2>1. r \notin runs
    BY <1>2 DEF Schedule, RunsInv
  <2>2. IsFiniteSet(runs') /\ Cardinality(runs') = Cardinality(runs) + 1
    BY <1>2, <2>1, FS_AddElement DEF Schedule, RunsInv
  <2> QED
    BY <1>2, <2>2 DEF Schedule, RunsInv
<1>3. ASSUME NEW r \in RunIds, Exit(r) PROVE RunsInv'
  BY <1>3 DEF Exit, RunsInv
<1>4. ASSUME NEW r \in RunIds, OnClose(r) PROVE RunsInv'
  <2>1. PICK verdict \in {"passed", "failed"} : Finalize(r, verdict)
    BY <1>4 DEF OnClose
  <2> QED
    BY <1>4, <2>1, FinalizeKeeps DEF OnClose, RunsInv
<1>5. ASSUME NEW r \in RunIds, OnError(r) PROVE RunsInv'
  BY <1>5, FinalizeKeeps DEF OnError, RunsInv
<1>6. ASSUME NEW r \in RunIds, OnTimeout(r) PROVE RunsInv'
  <2>1. CASE process[r] = "none"
    BY <1>6, <2>1 DEF OnTimeout, Signalled, Finalize, RunsInv
  <2>2. CASE process[r] # "none"
    BY <1>6, <2>2, FinalizeKeeps DEF OnTimeout, Signalled, RunsInv
  <2> QED
    BY <2>1, <2>2
<1>7. ASSUME NEW r \in RunIds, CancelRun(r) PROVE RunsInv'
  BY <1>7, FinalizeKeeps DEF CancelRun, Signalled, RunsInv
<1>8. ASSUME NEW r \in RunIds, EvictRun(r) PROVE RunsInv'
  BY <1>8 DEF EvictRun, RunsInv
<1> QED
  BY <1>1, <1>2, <1>3, <1>4, <1>5, <1>6, <1>7, <1>8 DEF RunsNext

(* Whatever order close, error, timeout and cancel come in, a run takes    *)
(* one slot, gives it back once and is answered once                       *)
(* (background-runner.ts, finalize).                                       *)
THEOREM Honest == RunsSpec => []SlotsAreHonest
<1>1. RunsInit => RunsInv
  BY FS_EmptySet DEF RunsInit, RunsInv
<1>2. RunsInv => SlotsAreHonest
  <2> SUFFICES ASSUME RunsInv, NEW r \in RunIds PROVE Cardinality(settled[r]) <= 1
    BY DEF RunsInv, SlotsAreHonest
  <2>1. CASE settled[r] = {}
    BY <2>1, FS_EmptySet
  <2>2. ASSUME NEW x, settled[r] = {x} PROVE Cardinality(settled[r]) <= 1
    <3>1. Cardinality({x}) = 1
      BY FS_Singleton
    <3> QED
      BY <2>2, <3>1
  <2> QED
    BY <2>1, <2>2 DEF RunsInv
<1> QED
  BY <1>1, <1>2, RunsStep, PTL DEF RunsSpec

-----------------------------------------------------------------------------
(* The mode of the diagnostics client. *)

(* A check has a mode only once the session has, and the same; the bus was *)
(* probed once if the probe is out or the mode known, and whoever waits    *)
(* has a probe to wait for.                                                *)
ModeInv ==
  /\ mode \in Modes \cup {"none"} /\ probe \in {"none", "sent"} /\ probes \in 0..1
  /\ check \in [Checks -> {"new", "probing", "decided", "remote", "local", "done"}]
  /\ chosen \in [Checks -> Modes \cup {"none"}]
  /\ \A c \in Checks : chosen[c] # "none" => chosen[c] = mode
  /\ \A c \in Checks : check[c] \in {"new", "probing"} => chosen[c] = "none"
  /\ \A c \in Checks : check[c] = "probing" => probe = "sent"
  /\ probe = "sent" => mode = "none"
  /\ probe = "none" /\ mode = "none" => probes = 0

LEMMA ModeStep == ModeInv /\ [ModeNext]_dvars => ModeInv'
<1> SUFFICES ASSUME ModeInv, [ModeNext]_dvars PROVE ModeInv'
  OBVIOUS
<1>1. CASE UNCHANGED dvars
  BY <1>1 DEF ModeInv, dvars
<1>2. CASE ProbeEnds
  BY <1>2 DEF ProbeEnds, ModeInv, Modes
<1>3. ASSUME NEW c \in Checks, BeginCheck(c) PROVE ModeInv'
  <2>1. CASE mode # "none"
    BY <1>3, <2>1 DEF BeginCheck, Resolves, ModeInv
  <2>2. CASE mode = "none"
    BY <1>3, <2>2 DEF BeginCheck, Resolves, ModeInv
  <2> QED
    BY <2>1, <2>2
<1>4. ASSUME NEW c \in Checks, AskRemote(c) \/ AskLocal(c) \/ Lane(c) PROVE ModeInv'
  BY <1>4 DEF AskRemote, AskLocal, Lane, ModeInv
<1> QED
  BY <1>1, <1>2, <1>3, <1>4 DEF ModeNext

(* The outcome of the probe is the mode of every check of the session,     *)
(* those that waited for it and those that came later                      *)
(* (smartread-diagnostics-client.ts, resolveMode).                         *)
THEOREM SameMode == ModeSpec => []OneMode
<1>1. ModeInit => ModeInv
  BY DEF ModeInit, ModeInv
<1>2. ModeInv => OneMode
  <2> SUFFICES ASSUME ModeInv PROVE OneMode
    OBVIOUS
  <2>1. ASSUME NEW c \in Checks, NEW d \in Checks PROVE {chosen[c], chosen[d]} # Modes
    <3>1. chosen[c] = "none" \/ chosen[d] = "none" \/ chosen[c] = chosen[d]
      BY DEF ModeInv
    <3> QED
      BY <3>1 DEF Modes
  <2> QED
    BY <2>1 DEF ModeInv, OneMode
<1> QED
  BY <1>1, <1>2, ModeStep, PTL DEF ModeSpec

-----------------------------------------------------------------------------
(* The lock file: its types, and exclusion as long as no contender has     *)
(* been killed.  The second needs a strengthening: without a dead owner or *)
(* a stale unwritten file no process ever reaches the unlink of            *)
(* reclaimIfAbandoned, so the file at the lock path always belongs to the  *)
(* one process past open("wx").                                            *)
AllAlive == \A p \in Procs : Alive(p)

(* The file at the path and the process past open("wx") name each other,   *)
(* and nobody has seen, let alone judged, a lock file to be abandoned.     *)
Paired ==
    /\ \A p \in Procs : pc[p] # "rm"
    /\ \A p \in Procs :
          pc[p] \in {"write", "hold"} => file # NoFile /\ file.creator = p
    /\ file # NoFile => pc[file.creator] \in {"write", "hold"} /\ ~file.stale
    /\ \A p \in Procs : seen[p] # NoFile => ~seen[p].stale

PairedInv == (~SlowWrites /\ ~stuck /\ AllAlive) => Paired

(* The variables keep their types in every behaviour of the lock file.     *)
THEOREM TypeCorrect == Spec => []TypeOK
<1> USE FileLockAssumption DEF TypeOK, Inode, Locations
<1>1. Init => TypeOK
  <2>1. Init => stuck \in BOOLEAN
    BY Zenon DEF Init
  <2>2. Init => /\ file \in Inode \cup {NoFile}
                /\ pc \in [Procs -> Locations]
                /\ seen \in [Procs -> Inode \cup {NoFile}]
                /\ expired \in [Procs -> BOOLEAN]
                /\ crashes \in 0..MaxCrashes
    BY DEF Init
  <2> QED
    BY <2>1, <2>2 DEF TypeOK
<1>2. TypeOK /\ [Next]_vars => TypeOK'
  <2> SUFFICES ASSUME TypeOK, [Next]_vars PROVE TypeOK'
    OBVIOUS
  <2> USE DEF Goto
  <2>1. ASSUME NEW p \in Procs, Start(p) PROVE TypeOK'
    BY <2>1 DEF Start
  <2>2. ASSUME NEW p \in Procs, OpenCreates(p) PROVE TypeOK'
    BY <2>2 DEF OpenCreates
  <2>3. ASSUME NEW p \in Procs, OpenExists(p) \/ OpenFails(p) PROVE TypeOK'
    BY <2>3 DEF OpenExists, OpenFails
  <2>4. ASSUME NEW p \in Procs, WriteInfo(p) PROVE TypeOK'
    BY <2>4 DEF WriteInfo
  <2>5. ASSUME NEW p \in Procs, WriteFails(p) \/ Reclaim(p) \/ Release(p)
        PROVE TypeOK'
    BY <2>5 DEF WriteFails, Reclaim, Release
  <2>11. ASSUME NEW p \in Procs, ReclaimFails(p) \/ KeepsFile(p) PROVE TypeOK'
    <3>1. /\ file' = file /\ seen' = seen /\ expired' = expired
          /\ \/ pc' = [pc EXCEPT ![p] = "open"]
             \/ pc' = [pc EXCEPT ![p] = "idle"]
             \/ pc' = [pc EXCEPT ![p] = "failed"]
      BY <2>11 DEF ReclaimFails, KeepsFile
    <3>2. crashes' \in 0..MaxCrashes
      BY <2>11 DEF ReclaimFails, KeepsFile
    <3>3. stuck' \in BOOLEAN
      BY <2>11, Zenon DEF ReclaimFails, KeepsFile
    <3> QED
      BY <3>1, <3>2, <3>3
  <2>6. ASSUME NEW p \in Procs, ReadOwner(p) \/ Judge(p) \/ Retry(p) \/ GiveUp(p)
        PROVE TypeOK'
    BY <2>6 DEF ReadOwner, Judge, Retry, GiveUp
  <2>7. ASSUME NEW p \in Procs, Crash(p) PROVE TypeOK'
    BY <2>7 DEF Crash
  <2>8. ASSUME NEW p \in Procs, Expire(p) PROVE TypeOK'
    BY <2>8 DEF Expire
  <2>9. CASE Age
    BY <2>9 DEF Age
  <2>10. CASE UNCHANGED vars
    BY <2>10 DEF vars
  <2> QED
    BY <2>1, <2>2, <2>3, <2>4, <2>5, <2>6, <2>7, <2>8, <2>9, <2>10, <2>11
    DEF Next, Step
<1> QED
  BY <1>1, <1>2, PTL DEF Spec

(* A killed process stays dead, so processes alive after a step were alive *)
(* before it.                                                              *)
LEMMA AliveBefore == TypeOK /\ [Next]_vars /\ AllAlive' => AllAlive
<1> SUFFICES ASSUME TypeOK, [Next]_vars, AllAlive' PROVE AllAlive
  OBVIOUS
<1> USE DEF TypeOK, AllAlive, Alive, Goto
<1>1. ASSUME NEW p \in Procs, Start(p) \/ Expire(p) \/ OpenCreates(p) \/ WriteInfo(p)
      PROVE AllAlive
  BY <1>1 DEF Start, Expire, OpenCreates, WriteInfo
<1>2. ASSUME NEW p \in Procs, OpenExists(p) \/ OpenFails(p) \/ ReadOwner(p) \/ Judge(p)
      PROVE AllAlive
  BY <1>2 DEF OpenExists, OpenFails, ReadOwner, Judge
<1>3. ASSUME NEW p \in Procs, WriteFails(p) \/ Reclaim(p) \/ Release(p)
      PROVE AllAlive
  BY <1>3 DEF WriteFails, Reclaim, Release
<1>6. ASSUME NEW p \in Procs, ReclaimFails(p) \/ KeepsFile(p) PROVE AllAlive
  BY <1>6 DEF ReclaimFails, KeepsFile
<1>4. ASSUME NEW p \in Procs, Retry(p) \/ GiveUp(p) \/ Crash(p) PROVE AllAlive
  BY <1>4 DEF Retry, GiveUp, Crash
<1>5. CASE Age \/ UNCHANGED vars
  BY <1>5 DEF Age, vars
<1> QED
  BY <1>1, <1>2, <1>3, <1>4, <1>5, <1>6 DEF Next, Step

(* Nor is a failed removal ever forgotten.                                 *)
LEMMA NotStuckBefore == TypeOK /\ [Next]_vars /\ ~stuck' => ~stuck
<1> SUFFICES ASSUME TypeOK, [Next]_vars, stuck PROVE stuck'
  BY DEF TypeOK
<1>1. ASSUME NEW p \in Procs, Start(p) \/ Expire(p) \/ OpenCreates(p) \/ WriteInfo(p)
      PROVE stuck'
  BY <1>1 DEF Start, Expire, OpenCreates, WriteInfo
<1>2. ASSUME NEW p \in Procs, OpenExists(p) \/ OpenFails(p) \/ ReadOwner(p) \/ Judge(p)
      PROVE stuck'
  BY <1>2 DEF OpenExists, OpenFails, ReadOwner, Judge
<1>3. ASSUME NEW p \in Procs, WriteFails(p) \/ Reclaim(p) \/ Release(p)
             \/ ReclaimFails(p) \/ KeepsFile(p)
      PROVE stuck'
  BY <1>3 DEF WriteFails, Reclaim, Release, ReclaimFails, KeepsFile
<1>4. ASSUME NEW p \in Procs, Retry(p) \/ GiveUp(p) \/ Crash(p) PROVE stuck'
  BY <1>4 DEF Retry, GiveUp, Crash
<1>5. CASE Age \/ UNCHANGED vars
  BY <1>5 DEF Age, vars
<1> QED
  BY <1>1, <1>2, <1>3, <1>4, <1>5 DEF Next, Step

(* A file just created is an inode and not the absence of one.             *)
LEMMA FreshInode ==
  ASSUME NEW p \in Procs
  PROVE  /\ [creator |-> p, written |-> FALSE, stale |-> FALSE] \in Inode
         /\ [creator |-> p, written |-> FALSE, stale |-> FALSE] # NoFile
<1>1. [creator |-> p, written |-> FALSE, stale |-> FALSE] \in Inode
  BY DEF Inode
<1>2. NoFile \notin Inode
  BY FileLockAssumption DEF Inode
<1> QED
  BY <1>1, <1>2

(* Every step keeps the file and the process past open("wx") paired.       *)
LEMMA PairedInvStep == TypeOK /\ PairedInv /\ [Next]_vars => PairedInv'
<1> SUFFICES ASSUME TypeOK, Paired, [Next]_vars, ~SlowWrites, AllAlive, AllAlive',
                    ~stuck, ~stuck'
             PROVE  Paired'
  BY AliveBefore, NotStuckBefore DEF PairedInv
<1> USE FileLockAssumption DEF TypeOK, Inode, Locations, Paired, Goto
<1>1. ASSUME NEW p \in Procs, Start(p) \/ OpenFails(p) PROVE Paired'
  BY <1>1 DEF Start, OpenFails
<1>2. ASSUME NEW p \in Procs, OpenCreates(p) PROVE Paired'
  <2> DEFINE fresh == [creator |-> p, written |-> FALSE, stale |-> FALSE]
  <2>0. fresh # NoFile
    BY FreshInode
  <2>1. /\ file' = fresh
        /\ file' # NoFile
        /\ pc' = [pc EXCEPT ![p] = "write"]
        /\ seen' = seen
    BY <1>2, <2>0 DEF OpenCreates
  <2>2. \A q \in Procs : pc[q] \notin {"write", "hold"}
    BY <1>2 DEF OpenCreates
  <2>3. file'.creator = p /\ ~file'.stale /\ pc'[p] = "write"
    BY <2>1
  <2>4. \A q \in Procs : q # p => pc'[q] = pc[q]
    BY <2>1
  <2> QED
    BY <2>1, <2>2, <2>3, <2>4
<1>3. ASSUME NEW p \in Procs, OpenExists(p) PROVE Paired'
  BY <1>3 DEF OpenExists
<1>4. ASSUME NEW p \in Procs, WriteInfo(p) PROVE Paired'
  BY <1>4 DEF WriteInfo
<1>5. ASSUME NEW p \in Procs, WriteFails(p) \/ Release(p) PROVE Paired'
  BY <1>5 DEF WriteFails, Release
<1>6. ASSUME NEW p \in Procs, ReadOwner(p) PROVE Paired'
  BY <1>6 DEF ReadOwner
<1>7. ASSUME NEW p \in Procs, Judge(p) PROVE Paired'
  <2>1. ~Abandoned(seen[p])
    BY <1>7 DEF Abandoned, AllAlive
  <2> QED
    BY <1>7, <2>1 DEF Judge
<1>8. ASSUME NEW p \in Procs, Reclaim(p) PROVE Paired'
  BY <1>8 DEF Reclaim
<1>9. ASSUME NEW p \in Procs, Retry(p) \/ GiveUp(p) PROVE Paired'
  BY <1>9 DEF Retry, GiveUp
<1>10. ASSUME NEW p \in Procs, Crash(p) PROVE Paired'
  BY <1>10 DEF Crash, AllAlive, Alive
<1>11. ASSUME NEW p \in Procs, Expire(p) PROVE Paired'
  BY <1>11 DEF Expire
<1>12. CASE Age
  BY <1>12 DEF Age, AllAlive
<1>13. CASE UNCHANGED vars
  BY <1>13 DEF vars
<1>14. ASSUME NEW p \in Procs, ReclaimFails(p) \/ KeepsFile(p) PROVE Paired'
  BY <1>14 DEF ReclaimFails, KeepsFile
<1> QED
  BY <1>1, <1>2, <1>3, <1>4, <1>5, <1>6, <1>7, <1>8, <1>9, <1>10, <1>11,
     <1>12, <1>13, <1>14 DEF Next, Step

(* edit-transaction.ts promises that cooperating transactions serialize on *)
(* a path.  It holds for any number of processes until one is killed or    *)
(* cannot remove its own lock file.                                        *)
THEOREM Exclusive == Spec => []ExclusiveUntilCrash
<1>1. Init => PairedInv
  BY DEF Init, PairedInv, Paired
<1>2. PairedInv => ExclusiveUntilCrash
  BY DEF PairedInv, Paired, AllAlive, ExclusiveUntilCrash, MutualExclusion, Holders
<1> QED
  BY <1>1, <1>2, TypeCorrect, PairedInvStep, PTL DEF Spec
(* Whoever created the file at the lock path has not come to rest since,   *)
(* or was killed: it is writing its owner record or holds the lock.  It    *)
(* holds although a file may be removed under its creator, by a reclaim    *)
(* or by the release of another, as long as no own file had to be kept.    *)
CreatorBusy == ~stuck /\ file # NoFile => pc[file.creator] \in {"write", "hold", "dead"}

(* No step lets a process rest while the file at the lock path is its own. *)
LEMMA CreatorBusyStep == TypeOK /\ CreatorBusy /\ [Next]_vars => CreatorBusy'
<1> SUFFICES ASSUME TypeOK, CreatorBusy, [Next]_vars, ~stuck, ~stuck'
             PROVE  CreatorBusy'
  BY NotStuckBefore DEF CreatorBusy
<1> USE FileLockAssumption DEF TypeOK, Inode, Locations, CreatorBusy, Goto
<1>1. ASSUME NEW p \in Procs, Start(p) \/ OpenExists(p) \/ OpenFails(p)
      PROVE CreatorBusy'
  BY <1>1 DEF Start, OpenExists, OpenFails
<1>2. ASSUME NEW p \in Procs, OpenCreates(p) PROVE CreatorBusy'
  <2>1. file'.creator = p /\ pc'[p] = "write"
    BY <1>2 DEF OpenCreates
  <2> QED
    BY <2>1
<1>3. ASSUME NEW p \in Procs, WriteInfo(p) PROVE CreatorBusy'
  BY <1>3 DEF WriteInfo
<1>4. ASSUME NEW p \in Procs, WriteFails(p) \/ Reclaim(p) \/ Release(p)
      PROVE CreatorBusy'
  BY <1>4 DEF WriteFails, Reclaim, Release
<1>5. ASSUME NEW p \in Procs, ReadOwner(p) \/ Judge(p) \/ Retry(p) \/ GiveUp(p)
      PROVE CreatorBusy'
  BY <1>5 DEF ReadOwner, Judge, Retry, GiveUp
<1>6. ASSUME NEW p \in Procs, Crash(p) \/ Expire(p) PROVE CreatorBusy'
  BY <1>6 DEF Crash, Expire
<1>8. ASSUME NEW p \in Procs, ReclaimFails(p) \/ KeepsFile(p) PROVE CreatorBusy'
  BY <1>8 DEF ReclaimFails, KeepsFile
<1>7. CASE Age \/ UNCHANGED vars
  BY <1>7 DEF Age, vars
<1> QED
  BY <1>1, <1>2, <1>3, <1>4, <1>5, <1>6, <1>7, <1>8 DEF Next, Step

(* No lock outlives its users, whatever is killed, reclaimed or timed out: *)
(* when everybody is at rest the path is free, or its creator was killed,  *)
(* or a process could not remove its own file.                             *)
THEOREM NothingLeaks == Spec => []NoLeakedLock
<1>1. Init => CreatorBusy
  BY DEF Init, CreatorBusy
<1>2. TypeOK /\ CreatorBusy => NoLeakedLock
  <2> SUFFICES ASSUME TypeOK, CreatorBusy, ~stuck, file # NoFile,
                      \A p \in Procs : pc[p] \in {"idle", "failed", "dead"}
               PROVE  ~Alive(file.creator)
    BY DEF NoLeakedLock
  <2>1. file.creator \in Procs
    BY DEF TypeOK, Inode
  <2> QED
    BY <2>1 DEF CreatorBusy, Alive
<1> QED
  BY <1>1, <1>2, TypeCorrect, CreatorBusyStep, PTL DEF Spec

-----------------------------------------------------------------------------
(* What is assumed of the constants: a parsed envelope has an operation,   *)
(* its operations are on paths, and a tree gives each path what it holds.  *)
Kinds == {"add", "delete", "update", "rename"}
Envelope(ops) ==
  /\ Len(ops) \in Nat \ {0} /\ DOMAIN ops = 1..Len(ops)
  /\ \A i \in DOMAIN ops : ops[i].kind \in Kinds /\ ops[i].path \in AtomicPaths /\ ops[i].to \in AtomicPaths
EnvelopesParsed == (\A ops \in Envelopes : Envelope(ops)) /\ \A tree \in Trees : tree = [p \in AtomicPaths |-> tree[p]]

(* What is folded: the outcome of a sequence of operations, file by file.  *)
(* Every set of the numbers up to n has a value, and there is one function *)
(* that gives it.                                                          *)
Folds(f, n, s, st) ==
  f = [N \in SUBSET (1..n) |-> IF N = {} THEN st ELSE Meant(f[N \ {Max(N)}], s[Max(N)])]

(* The outcomes after each of the operations, from the first.              *)
Outcomes(g, s, st) ==
  g = [i \in 0..Len(s) |-> IF i = 0 THEN st ELSE Meant(g[i - 1], s[i])]

(* The greatest of the numbers up to n.                                    *)
LEMMA Greatest ==
  ASSUME NEW n \in Nat, NEW N \in SUBSET (1..n), n \in N
  PROVE  Max(N) = n
<1>1. \E x \in N : \A y \in N : x >= y
  OBVIOUS
<1>2. PICK m : m = Max(N)
  OBVIOUS
<1>3. m \in N /\ \A y \in N : m >= y
  BY <1>1, <1>2, Zenon DEF Max
<1> QED
  BY <1>2, <1>3

(* A fold over n numbers is made from a fold over one less.                *)
LEMMA FoldFurther ==
  ASSUME NEW n \in Nat, n # 0, NEW s, NEW st, NEW h, Folds(h, n - 1, s, st)
  PROVE  \E f : Folds(f, n, s, st)
<1> DEFINE f == [N \in SUBSET (1..n) |-> IF n \in N THEN Meant(h[N \ {n}], s[n]) ELSE h[N]]
<1>1. ASSUME NEW N \in SUBSET (1..(n - 1))
      PROVE  h[N] = IF N = {} THEN st ELSE Meant(h[N \ {Max(N)}], s[Max(N)])
  BY DEF Folds
<1>2. ASSUME NEW N \in SUBSET (1..n)
      PROVE  f[N] = IF N = {} THEN st ELSE Meant(f[N \ {Max(N)}], s[Max(N)])
  <2>1. PICK m : m = Max(N)
    OBVIOUS
  <2>2. N \ {m} \in SUBSET (1..n)
    OBVIOUS
  <2>3. CASE n \in N
    <3>1. m = n
      BY <2>1, <2>3, Greatest
    <3>2. f[N \ {n}] = h[N \ {n}] /\ f[N] = Meant(h[N \ {n}], s[n])
      BY <2>2, <2>3, <3>1
    <3> HIDE DEF f
    <3> QED
      BY <2>1, <2>3, <3>1, <3>2
  <2>4. CASE n \notin N
    <3>1. N \in SUBSET (1..(n - 1))
      BY <2>4
    <3>2. f[N] = h[N] /\ f[N \ {m}] = h[N \ {m}]
      BY <2>2, <2>4
    <3> HIDE DEF f
    <3> QED
      BY <1>1, <2>1, <3>1, <3>2
  <2> QED
    BY <2>3, <2>4
<1>3. f = [N \in SUBSET (1..n) |-> f[N]]
  OBVIOUS
<1>4. Folds(f, n, s, st)
  <2> HIDE DEF f
  <2> QED
    BY <1>2, <1>3 DEF Folds
<1> QED
  BY <1>4

LEMMA FoldExists ==
  ASSUME NEW n \in Nat, NEW s, NEW st
  PROVE  \E f : Folds(f, n, s, st)
<1> DEFINE D == {k \in Nat : ~\E f : Folds(f, k, s, st)}
<1> SUFFICES ASSUME D # {} PROVE FALSE
  OBVIOUS
<1>1. PICK d \in D : \A k \in D : d <= k
  <2>1. D \in SUBSET Nat
    OBVIOUS
  <2> HIDE DEF D
  <2> QED
    BY <2>1, Least
<1>2. d \in Nat /\ ~\E f : Folds(f, d, s, st)
  OBVIOUS
<1>3. CASE d = 0
  <2> DEFINE f == [N \in SUBSET (1..0) |-> st]
  <2>1. \A N \in SUBSET (1..0) : N = {}
    OBVIOUS
  <2>2. f = [N \in SUBSET (1..0) |-> IF N = {} THEN st ELSE Meant(f[N \ {Max(N)}], s[Max(N)])]
    BY <2>1
  <2>3. Folds(f, 0, s, st)
    <3> HIDE DEF f
    <3> QED
      BY <2>2 DEF Folds
  <2> QED
    BY <1>2, <1>3, <2>3
<1>4. CASE d # 0
  <2>1. d - 1 \in Nat /\ ~(d <= d - 1)
    BY <1>2, <1>4
  <2>2. d - 1 \notin D
    BY <1>1, <2>1
  <2>3. PICK h : Folds(h, d - 1, s, st)
    BY <2>1, <2>2
  <2> HIDE DEF D
  <2> QED
    BY <1>2, <1>4, <2>3, FoldFurther
<1> QED
  BY <1>3, <1>4

(* The fold of an envelope is the last of its outcomes.                    *)
LEMMA EnvelopeFolds ==
  ASSUME NEW s, DOMAIN s = 1..Len(s), Len(s) \in Nat, NEW st
  PROVE  \E g : Outcomes(g, s, st) /\ FoldLeft(Meant, st, s) = g[Len(s)]
<1> DEFINE n == Len(s)
           F(f) == [N \in SUBSET (1..n) |-> IF N = {} THEN st
                       ELSE LET x == Max(N) IN Meant(f[N \ {x}], s[x])]
           a == CHOOSE f : f = F(f)
<1>1. n \in Nat /\ DOMAIN s = 1..n
  OBVIOUS
<1>2. FoldLeft(Meant, st, s) = a[1..n]
  BY <1>1 DEF FoldLeft, MapThenFoldSet
<1>3. PICK h : Folds(h, n, s, st)
  BY <1>1, FoldExists
<1>4. h = F(h)
  BY <1>3 DEF Folds
<1>5. a = F(a)
  <2> HIDE DEF F
  <2> QED
    BY <1>4
<1>6. Folds(a, n, s, st)
  BY <1>5 DEF Folds
<1> DEFINE g == [i \in 0..n |-> a[1..i]]
<1>7. Outcomes(g, s, st)
  <2> HIDE DEF a
  <2>1. ASSUME NEW i \in 0..n PROVE g[i] = IF i = 0 THEN st ELSE Meant(g[i - 1], s[i])
    <3>1. a[1..i] = IF 1..i = {} THEN st ELSE Meant(a[(1..i) \ {Max(1..i)}], s[Max(1..i)])
      <4>1. 1..i \in SUBSET (1..n)
        BY <1>1
      <4> QED
        BY <1>6, <4>1 DEF Folds
    <3>2. CASE i = 0
      <4>1. 1..i = {}
        BY <3>2
      <4> QED
        BY <3>1, <3>2, <4>1
    <3>3. CASE i # 0
      <4>1. i \in Nat /\ i \in 1..i /\ (1..i) \ {i} = 1..(i - 1) /\ i - 1 \in 0..n
        BY <1>1, <3>3
      <4>2. Max(1..i) = i
        BY <4>1, Greatest
      <4>3. g[i - 1] = a[1..(i - 1)] /\ g[i] = a[1..i] /\ 1..i # {}
        BY <4>1
      <4> HIDE DEF g
      <4> QED
        BY <3>1, <3>3, <4>1, <4>2, <4>3
    <3> QED
      BY <3>2, <3>3
  <2>2. g = [i \in 0..n |-> g[i]]
    OBVIOUS
  <2> HIDE DEF g
  <2> QED
    BY <2>1, <2>2 DEF Outcomes
<1>8. g[n] = a[1..n]
  BY <1>1
<1> HIDE DEF a, g
<1> QED
  BY <1>2, <1>7, <1>8

-----------------------------------------------------------------------------
(* An envelope whose updates stay where they are.                          *)
Straight(ops) == \A i \in DOMAIN ops : ops[i].kind = "update" => ops[i].to = ops[i].path
Follows(n, tree) == Straight(executor.ops) => \A g : Outcomes(g, executor.ops, before) => tree = g[n]

Calling == {"ops", "at", "snapshot", "todo", "tries", "undone", "status", "rolledBack"}
AtomicForm ==
  /\ DOMAIN executor = Calling
  /\ contents = [p \in AtomicPaths |-> contents[p]]
  /\ executor.at \in {"idle", "save", "apply", "rollback", "end"}
  /\ executor.at # "idle" => Envelope(executor.ops)
  /\ executor.at = "idle" => executor.status = <<>>

(* On the way, the files hold the outcome of what has been applied, and a  *)
(* rename is to another name, because the plan was found valid.            *)
OnTheWay ==
  executor.at \in {"save", "apply"} =>
    /\ executor.status \in Seq({"applied"}) /\ Len(executor.status) < Len(executor.ops)
    /\ executor.at = "save" => executor.status = <<>>
    /\ executor.status = <<>> => contents = before
    /\ \A i \in DOMAIN executor.ops : executor.ops[i].kind = "rename" => executor.ops[i].path # executor.ops[i].to
    /\ Follows(Len(executor.status), contents)

(* What a call can have come to: all of it is done; its first operation, or*)
(* its validation, failed; a later one failed.                             *)
Whole == (\A i \in DOMAIN executor.ops : executor.status[i] = "applied") /\ Follows(Len(executor.ops), contents)
Nothing == executor.status[1] = "failed" /\ contents = before
Part == executor.status[1] = "rolled_back" /\ \E i \in DOMAIN executor.status : executor.status[i] = "failed"

Outcome ==
  /\ executor.at = "end" => DOMAIN executor.status = DOMAIN executor.ops /\ (Whole \/ Nothing \/ Part)
  /\ executor.at = "rollback" => DOMAIN executor.status = DOMAIN executor.ops /\ Part

AtomicInv == AtomicForm /\ OnTheWay /\ Outcome

LEMMA InitAtomicInv == EnvelopesParsed /\ AtomicInit => AtomicInv
  BY DEF EnvelopesParsed, AtomicInit, AtomicInv, AtomicForm, OnTheWay, Outcome, Calling

(* An operation that stays where it is does what it means.                 *)
LEMMA EffectIsMeant ==
  ASSUME NEW tree, tree = [p \in AtomicPaths |-> tree[p]], NEW op, op.kind \in Kinds, op.path \in AtomicPaths, op.to \in AtomicPaths,
         op.kind = "update" => op.to = op.path, op.kind = "rename" => op.path # op.to
  PROVE  Effect(tree, op) = Meant(tree, op)
<1>1. CASE op.kind = "add"
  BY <1>1 DEF Effect, Meant
<1>2. CASE op.kind = "delete"
  BY <1>2 DEF Effect, Meant
<1>3. CASE op.kind = "rename"
  BY <1>3 DEF Effect, Meant
<1>4. CASE op.kind = "update"
  <2>1. PICK text : text = FoldLeft(Replaced, tree[op.path], op.patches)
    OBVIOUS
  <2>2. Meant(tree, op) = [tree EXCEPT ![op.path] = text]
    BY <1>4, <2>1 DEF Meant
  <2>3. Patched(op, tree[op.path]) = text
    BY <2>1 DEF Patched
  <2>4. Effect(tree, op) = [p \in AtomicPaths |-> IF p = op.path THEN text ELSE tree[p]]
    <3>1. ASSUME NEW p \in AtomicPaths
          PROVE  Effect(tree, op)[p] = IF p = op.path THEN text ELSE tree[p]
      <4>1. CASE p = op.path
        <5>1. Patched(op, tree[p]) = text
          BY <2>3, <4>1
        <5>2. op.kind = "update" /\ p = op.to
          BY <1>4, <4>1
        <5>3. Effect(tree, op)[p] = Patched(op, tree[p])
          BY <5>2 DEF Effect
        <5> QED
          BY <4>1, <5>1, <5>3
      <4>2. CASE p # op.path
        BY <1>4, <4>2 DEF Effect
      <4> QED
        BY <4>1, <4>2
    <3>2. Effect(tree, op) = [p \in AtomicPaths |-> Effect(tree, op)[p]]
      BY DEF Effect
    <3> QED
      BY <3>1, <3>2
  <2> QED
    BY <2>2, <2>4
<1> QED
  BY <1>1, <1>2, <1>3, <1>4 DEF Kinds

LEMMA BeginStep ==
  ASSUME EnvelopesParsed, AtomicInv, NEW ops \in Envelopes, NEW force, NEW skipUndo, BeginEnvelope(ops, force, skipUndo)
  PROVE  AtomicInv'
<1>1. Envelope(ops) /\ DOMAIN ops # {} /\ 1 \in DOMAIN ops
  BY DEF EnvelopesParsed, Envelope
<1>2. before' = contents /\ contents' = contents /\ DOMAIN executor = Calling
  BY DEF BeginEnvelope, AtomicInv, AtomicForm
<1>3. CASE \A i \in DOMAIN ops : ValidOp(ops[i], force)
  <2>1. executor' = [executor EXCEPT !.ops = ops, !.at = "save",
                             !.snapshot = ~skipUndo, !.todo = IF skipUndo THEN {} ELSE Affected(ops, force)]
    BY <1>3 DEF BeginEnvelope
  <2>2. DOMAIN executor' = Calling /\ executor'.ops = ops /\ executor'.at = "save" /\ executor'.status = executor.status
    BY <1>2, <2>1 DEF Calling
  <2>3. executor.status = <<>>
    BY DEF BeginEnvelope, AtomicInv, AtomicForm
  <2>4. \A i \in DOMAIN ops : ops[i].kind = "rename" => ops[i].path # ops[i].to
    BY <1>3 DEF ValidOp
  <2>5. Follows(0, contents)'
    BY <1>2, <2>2 DEF Follows, Outcomes
  <2> QED
    BY <1>1, <1>2, <2>2, <2>3, <2>4, <2>5 DEF AtomicInv, AtomicForm, OnTheWay, Outcome, Envelope
<1>4. CASE ~\A i \in DOMAIN ops : ValidOp(ops[i], force)
  <2>1. executor' = [executor EXCEPT !.ops = ops, !.status = Statuses(ops, "failed"), !.at = "end"]
    BY <1>4 DEF BeginEnvelope
  <2>2. DOMAIN executor' = Calling /\ executor'.ops = ops /\ executor'.at = "end" /\ executor'.status = Statuses(ops, "failed")
    BY <1>2, <2>1 DEF Calling
  <2>3. Nothing' /\ DOMAIN executor'.status = DOMAIN ops
    BY <1>1, <1>2, <2>2 DEF Nothing, Statuses
  <2> QED
    BY <1>1, <1>2, <2>2, <2>3 DEF AtomicInv, AtomicForm, OnTheWay, Outcome
<1> QED
  BY <1>3, <1>4

LEMMA SavingSteps ==
  ASSUME AtomicInv, Save \/ Saved
  PROVE  AtomicInv'
<1>1. contents' = contents /\ before' = before /\ executor'.ops = executor.ops /\ executor'.status = executor.status
      /\ executor.at = "save" /\ executor'.at \in {"save", "apply"} /\ DOMAIN executor' = Calling
  <2>1. DOMAIN executor = Calling
    BY DEF AtomicInv, AtomicForm
  <2>2. CASE Save
    <3>1. PICK p : executor' = [executor EXCEPT !.todo = @ \ {p}]
      BY <2>2 DEF Save
    <3> QED
      BY <2>1, <2>2, <3>1 DEF Save, Calling
  <2>3. CASE Saved
    BY <2>1, <2>3 DEF Saved, Calling
  <2> QED
    BY <2>2, <2>3
<1>2. Follows(Len(executor.status), contents) => Follows(Len(executor.status), contents)'
  BY <1>1 DEF Follows
<1> QED
  BY <1>1, <1>2 DEF AtomicInv, AtomicForm, OnTheWay, Outcome

LEMMA ApplyStep ==
  ASSUME AtomicInv, ApplyOp
  PROVE  AtomicInv'
<1>0. PICK n : n = Len(executor.status)
  OBVIOUS
<1>1. /\ DOMAIN executor = Calling /\ executor.at = "apply" /\ before' = before
      /\ Envelope(executor.ops) /\ executor.status \in Seq({"applied"}) /\ n < Len(executor.ops) /\ n \in Nat
      /\ \A i \in DOMAIN executor.ops : executor.ops[i].kind = "rename" => executor.ops[i].path # executor.ops[i].to
      /\ Follows(n, contents) /\ contents = [p \in AtomicPaths |-> contents[p]]
  BY <1>0 DEF ApplyOp, AtomicInv, AtomicForm, OnTheWay
<1>2. PICK op : op = executor.ops[n + 1]
  OBVIOUS
<1>3. n + 1 \in DOMAIN executor.ops /\ op.kind \in Kinds /\ op.path \in AtomicPaths /\ op.to \in AtomicPaths
  BY <1>1, <1>2 DEF Envelope
<1>4. /\ executor'.ops = executor.ops /\ executor'.status = Append(executor.status, "applied") /\ DOMAIN executor' = Calling
      /\ executor'.at = IF n + 1 = Len(executor.ops) THEN "end" ELSE "apply"
  BY <1>0, <1>1 DEF ApplyOp, Calling
<1>5. contents' = [p \in AtomicPaths |-> contents'[p]]
  <2>1. CASE contents' = Effect(contents, op)
    BY <2>1 DEF Effect
  <2>2. CASE contents' = [Effect(contents, op) EXCEPT ![op.path] = contents[op.path]]
    BY <2>2 DEF Effect
  <2> QED
    BY <1>0, <1>2, <2>1, <2>2 DEF ApplyOp, Current
<1>6. Follows(n + 1, contents)'
  <2> SUFFICES ASSUME Straight(executor.ops), NEW g, Outcomes(g, executor.ops, before) PROVE contents' = g[n + 1]
    BY <1>1, <1>4 DEF Follows
  <2>1. op.kind = "update" => op.to = op.path
    BY <1>2, <1>3 DEF Straight
  <2>2. contents' = Effect(contents, op)
    BY <1>0, <1>2, <2>1 DEF ApplyOp, Current
  <2>3. contents' = Meant(contents, op)
    BY <1>1, <1>2, <1>3, <2>1, <2>2, EffectIsMeant
  <2>4. contents = g[n]
    BY <1>1 DEF Follows
  <2>5. g[n + 1] = Meant(g[n], op)
    BY <1>1, <1>2 DEF Outcomes
  <2> QED
    BY <2>3, <2>4, <2>5
<1>7. /\ Append(executor.status, "applied") \in Seq({"applied"})
      /\ Len(Append(executor.status, "applied")) = n + 1
  BY <1>0, <1>1
<1>8. CASE n + 1 = Len(executor.ops)
  <2>1. DOMAIN executor'.status = DOMAIN executor.ops /\ \A i \in DOMAIN executor.ops : executor'.status[i] = "applied"
    BY <1>0, <1>1, <1>4, <1>7, <1>8 DEF Envelope
  <2>2. Follows(Len(executor.ops), contents)'
    <3>1. Len(executor'.ops) = n + 1
      BY <1>4, <1>8
    <3> QED
      BY <1>6, <3>1 DEF Follows
  <2>3. Whole'
    BY <1>4, <2>1, <2>2 DEF Whole
  <2> QED
    BY <1>1, <1>4, <1>5, <1>8, <2>1, <2>3 DEF AtomicInv, AtomicForm, OnTheWay, Outcome
<1>9. CASE n + 1 # Len(executor.ops)
  <2>1. executor'.at = "apply" /\ Len(executor'.status) = n + 1 /\ n + 1 < Len(executor.ops)
    BY <1>1, <1>4, <1>7, <1>9 DEF Envelope
  <2>2. Follows(Len(executor.status), contents)'
    BY <1>6, <2>1 DEF Follows
  <2> QED
    BY <1>1, <1>4, <1>5, <1>7, <2>1, <2>2 DEF AtomicInv, AtomicForm, OnTheWay, Outcome
<1> QED
  BY <1>8, <1>9

LEMMA ApplyFailsStep ==
  ASSUME AtomicInv, ApplyOpFails
  PROVE  AtomicInv'
<1> DEFINE n == Len(executor.status) + 1
<1>1. /\ DOMAIN executor = Calling /\ executor.at = "apply" /\ before' = before /\ contents' = contents
      /\ Envelope(executor.ops) /\ executor.status \in Seq({"applied"}) /\ Len(executor.status) < Len(executor.ops) /\ n \in DOMAIN executor.ops
      /\ Follows(Len(executor.status), contents)
  <2>1. Len(executor.status) \in Nat
    BY DEF ApplyOpFails, AtomicInv, AtomicForm, OnTheWay
  <2> QED
    BY <2>1 DEF ApplyOpFails, AtomicInv, AtomicForm, OnTheWay, Envelope
<1>2. CASE executor.tries + 1 < MaxAttempts
  <2>1. /\ executor'.ops = executor.ops /\ executor'.at = "apply" /\ executor'.status = executor.status /\ DOMAIN executor' = Calling
    BY <1>1, <1>2 DEF ApplyOpFails, Calling
  <2>2. Follows(Len(executor.status), contents)'
    BY <1>1, <2>1 DEF Follows
  <2> QED
    BY <1>1, <2>1, <2>2 DEF AtomicInv, AtomicForm, OnTheWay, Outcome
<1>3. CASE ~(executor.tries + 1 < MaxAttempts)
  <2>1. executor' = [executor EXCEPT
            !.at = IF n = 1 THEN "end" ELSE "rollback",
            !.undone = n,
            !.status = [i \in DOMAIN executor.ops |->
                          IF i < n THEN "rolled_back" ELSE IF i = n THEN "failed" ELSE "skipped"]]
    BY <1>3 DEF ApplyOpFails
  <2>2. /\ executor'.ops = executor.ops /\ executor'.at = (IF n = 1 THEN "end" ELSE "rollback") /\ DOMAIN executor' = Calling
        /\ executor'.status = [i \in DOMAIN executor.ops |->
                             IF i < n THEN "rolled_back" ELSE IF i = n THEN "failed" ELSE "skipped"]
    BY <1>1, <2>1 DEF Calling
  <2>3. n \in Nat /\ n # 0 /\ 1 \in DOMAIN executor.ops
    BY <1>1 DEF Envelope
  <2>4. DOMAIN executor'.status = DOMAIN executor.ops
    BY <2>2
  <2>5. CASE n = 1
    <3>1. contents = before
      <4>1. executor.status = <<>>
        BY <1>1, <2>5
      <4> QED
        BY <1>1, <4>1 DEF AtomicInv, OnTheWay
    <3> QED
      BY <1>1, <2>2, <2>3, <2>4, <2>5, <3>1 DEF Nothing, AtomicInv, AtomicForm, OnTheWay, Outcome
  <2>6. CASE n # 1
    <3>1. executor'.status[1] = "rolled_back" /\ executor'.status[n] = "failed"
      BY <1>1, <2>2, <2>3, <2>6
    <3>2. Part'
      BY <1>1, <2>4, <3>1 DEF Part
    <3> QED
      BY <1>1, <2>2, <2>4, <2>6, <3>2 DEF AtomicInv, AtomicForm, OnTheWay, Outcome
  <2> QED
    BY <2>5, <2>6
<1> QED
  BY <1>2, <1>3

LEMMA AtomicRollbackStep ==
  ASSUME AtomicInv, RollbackOp
  PROVE  AtomicInv'
<1>1. /\ DOMAIN executor = Calling /\ executor.at = "rollback" /\ before' = before
      /\ Envelope(executor.ops) /\ DOMAIN executor.status = DOMAIN executor.ops /\ Part
      /\ contents = [p \in AtomicPaths |-> contents[p]]
  BY DEF RollbackOp, AtomicInv, AtomicForm, Outcome
<1>2. /\ executor'.ops = executor.ops /\ executor'.status = executor.status /\ DOMAIN executor' = Calling
      /\ executor'.at \in {"rollback", "end"}
  BY <1>1 DEF RollbackOp, Calling
<1>3. contents' = [p \in AtomicPaths |-> contents'[p]]
  BY <1>1 DEF RollbackOp, RestoreEntry
<1>4. Part'
  BY <1>1, <1>2 DEF Part
<1> QED
  BY <1>1, <1>2, <1>3, <1>4 DEF AtomicInv, AtomicForm, OnTheWay, Outcome

LEMMA AtomicInvNext == EnvelopesParsed /\ AtomicInv /\ [AtomicNext]_avars => AtomicInv'
<1> SUFFICES ASSUME EnvelopesParsed, AtomicInv, [AtomicNext]_avars PROVE AtomicInv'
  OBVIOUS
<1>1. CASE \E ops \in Envelopes, force, skipUndo \in BOOLEAN : BeginEnvelope(ops, force, skipUndo)
  BY <1>1, BeginStep
<1>2. CASE Save \/ Saved
  BY <1>2, SavingSteps
<1>3. CASE ApplyOp
  BY <1>3, ApplyStep
<1>4. CASE ApplyOpFails
  BY <1>4, ApplyFailsStep
<1>5. CASE RollbackOp
  BY <1>5, AtomicRollbackStep
<1>6. CASE UNCHANGED avars
  BY <1>6 DEF avars, AtomicInv, AtomicForm, OnTheWay, Outcome, Whole, Nothing, Part, Follows
<1> QED
  BY <1>1, <1>2, <1>3, <1>4, <1>5, <1>6 DEF AtomicNext

(* What the invariant says of a call that has ended.                       *)
LEMMA WholeAtTheEnd == AtomicInv => SuccessIsWhole
<1> SUFFICES ASSUME AtomicInv, Ended, Straight(executor.ops)
             PROVE  /\ Success => contents = FoldLeft(Meant, before, executor.ops)
                    /\ executor.status[1] = "failed" => contents = before
  BY DEF SuccessIsWhole, Straight
<1>1. Envelope(executor.ops) /\ DOMAIN executor.status = DOMAIN executor.ops /\ (Whole \/ Nothing \/ Part)
  BY DEF AtomicInv, AtomicForm, Outcome, Ended
<1>2. 1 \in DOMAIN executor.ops
  BY <1>1 DEF Envelope
<1>3. CASE Whole
  <2>1. PICK g : Outcomes(g, executor.ops, before) /\ FoldLeft(Meant, before, executor.ops) = g[Len(executor.ops)]
    BY <1>1, EnvelopeFolds DEF Envelope
  <2>2. contents = g[Len(executor.ops)]
    BY <1>3, <2>1 DEF Whole, Follows
  <2>3. executor.status[1] # "failed"
    BY <1>2, <1>3 DEF Whole
  <2> QED
    BY <2>1, <2>2, <2>3
<1>4. CASE Nothing
  BY <1>1, <1>2, <1>4 DEF Nothing, Success
<1>5. CASE Part
  BY <1>1, <1>5 DEF Part, Success
<1> QED
  BY <1>1, <1>3, <1>4, <1>5

(* For any files and envelopes, any number of attempts and of failing      *)
(* filesystem calls, a call that reports success has applied every         *)
(* operation of its envelope once, in the order of the envelope or in the  *)
(* documented one, and one whose first operation or validation failed has  *)
(* changed nothing (SuccessIsWhole).                                       *)
THEOREM EnvelopeWhole ==
  ASSUME EnvelopesParsed
  PROVE  AtomicSpec => []SuccessIsWhole
<1>1. AtomicInit => AtomicInv
  BY InitAtomicInv
<1>2. AtomicInv /\ [AtomicNext]_avars => AtomicInv'
  BY AtomicInvNext
<1>3. AtomicInv => SuccessIsWhole
  BY WholeAtTheEnd
<1> QED
  BY <1>1, <1>2, <1>3, PTL DEF AtomicSpec

-----------------------------------------------------------------------------
(* Induction, with the claim as the set of what satisfies it: the provers  *)
(* cannot take a claim as a parameter, but a set they can.                 *)
LEMMA SeqInduction ==
  ASSUME NEW T, NEW S, <<>> \in S,
         \A s \in Seq(T), e \in T : s \in S => Append(s, e) \in S
  PROVE  Seq(T) \subseteq S
<1> DEFINE D == {Len(s) : s \in Seq(T) \ S}
<1> SUFFICES ASSUME D # {} PROVE FALSE
  OBVIOUS
<1>1. D \in SUBSET Nat
  OBVIOUS
<1>2. PICK d \in D : \A k \in D : d <= k
  <2> HIDE DEF D
  <2> QED
    BY <1>1, Least
<1>3. PICK s \in Seq(T) \ S : d = Len(s)
  OBVIOUS
<1> DEFINE r == SubSeq(s, 1, d - 1)
<1>4. d \in Nat /\ d # 0
  BY <1>3
<1>5. r \in Seq(T) /\ Len(r) = d - 1 /\ s[d] \in T /\ s = Append(r, s[d])
  BY <1>3, <1>4
<1>6. r \in S
  <2>1. CASE r \notin S
    <3>1. d - 1 \in D
      BY <1>5, <2>1
    <3> QED
      BY <1>2, <1>4, <3>1
  <2> QED
    BY <2>1
<1> HIDE DEF r
<1> QED
  BY <1>3, <1>5, <1>6

(* The same for the numbers up to n.                                       *)
LEMMA UpTo ==
  ASSUME NEW n \in Nat, NEW S, 0 \in S, \A i \in 1..n : i - 1 \in S => i \in S
  PROVE  0..n \subseteq S
<1> DEFINE D == (0..n) \ S
<1> SUFFICES ASSUME D # {} PROVE FALSE
  OBVIOUS
<1>1. PICK d \in D : \A k \in D : d <= k
  <2>1. D \in SUBSET Nat
    OBVIOUS
  <2> HIDE DEF D
  <2> QED
    BY <2>1, Least
<1>2. d \in 1..n /\ d - 1 \in 0..n /\ ~(d <= d - 1)
  OBVIOUS
<1> QED
  BY <1>1, <1>2

(* A set of numbers up to n has a greatest one.                            *)
LEMMA GreatestIn ==
  ASSUME NEW n \in Nat, NEW N \in SUBSET (0..n), N # {}
  PROVE  Max(N) \in N /\ \A y \in N : y <= Max(N)
<1> DEFINE D == {n - x : x \in N}
<1>1. D \in SUBSET Nat /\ D # {}
  <2>1. \A x \in N : x \in 0..n
    OBVIOUS
  <2>2. \A x \in 0..n : n - x \in Nat
    OBVIOUS
  <2>3. \A x \in N : n - x \in Nat
    BY <2>1, <2>2
  <2> QED
    BY <2>3
<1>2. PICK d \in D : \A k \in D : d <= k
  <2> HIDE DEF D
  <2> QED
    BY <1>1, Least
<1>3. PICK x \in N : d = n - x
  BY <1>2
<1>4. \A y \in N : n - x <= n - y
  BY <1>2, <1>3
<1>5. \A y \in N : x >= y
  BY <1>4
<1>6. PICK m : m = Max(N)
  OBVIOUS
<1>7. m \in N /\ \A y \in N : m >= y
  BY <1>5, <1>6, Zenon DEF Max
<1> QED
  BY <1>6, <1>7

-----------------------------------------------------------------------------
(* Folds over sequences, of an operation given as a function: the values   *)
(* of the sets of positions, and that of all of them.                      *)
IsFold(f, step, st, s) ==
  f = [N \in SUBSET (1..Len(s)) |-> IF N = {} THEN st ELSE step[<<f[N \ {Max(N)}], s[Max(N)]>>]]
FoldOf(step, st, s) == (CHOOSE f : IsFold(f, step, st, s))[1..Len(s)]

(* The values of the first i positions, one after the other; they are all  *)
(* there is to a fold.                                                     *)
LEMMA FoldChain ==
  ASSUME NEW s, Len(s) \in Nat, NEW step, NEW st, NEW f, IsFold(f, step, st, s)
  PROVE  f[1..0] = st /\ \A i \in 1..Len(s) : f[1..i] = step[<<f[1..(i - 1)], s[i]>>]
<1>1. ASSUME NEW N \in SUBSET (1..Len(s))
      PROVE  f[N] = IF N = {} THEN st ELSE step[<<f[N \ {Max(N)}], s[Max(N)]>>]
  BY DEF IsFold
<1>2. 1..0 = {} /\ 1..0 \in SUBSET (1..Len(s))
  OBVIOUS
<1>3. ASSUME NEW i \in 1..Len(s) PROVE f[1..i] = step[<<f[1..(i - 1)], s[i]>>]
  <2>1. 1..i \in SUBSET (1..Len(s)) /\ i \in 1..i /\ (1..i) \ {i} = 1..(i - 1) /\ i \in Nat
    OBVIOUS
  <2>2. Max(1..i) = i
    BY <2>1, Greatest
  <2> QED
    BY <1>1, <2>1, <2>2
<1> QED
  BY <1>1, <1>2, <1>3

LEMMA FoldUnique ==
  ASSUME NEW s, Len(s) \in Nat, NEW step, NEW st, NEW f, IsFold(f, step, st, s), NEW h, IsFold(h, step, st, s)
  PROVE  f[1..Len(s)] = h[1..Len(s)]
<1> DEFINE S == {i \in 0..Len(s) : f[1..i] = h[1..i]}
<1>1. 0 \in S
  BY FoldChain
<1>2. ASSUME NEW i \in 1..Len(s), i - 1 \in S PROVE i \in S
  <2>1. f[1..i] = step[<<f[1..(i - 1)], s[i]>>] /\ h[1..i] = step[<<h[1..(i - 1)], s[i]>>]
    BY FoldChain
  <2> QED
    BY <1>2, <2>1
<1>3. 0..Len(s) \subseteq S
  <2> HIDE DEF S
  <2> QED
    BY <1>1, <1>2, UpTo
<1> QED
  BY <1>3

(* A fold goes on with one more element.                                   *)
Further(h, n, step, e) == [N \in SUBSET (1..n) |-> IF n \in N THEN step[<<h[N \ {n}], e>>] ELSE h[N]]

LEMMA FoldGoesOn ==
  ASSUME NEW D, NEW s \in Seq(D), NEW e \in D, NEW step, NEW st, NEW h, IsFold(h, step, st, s)
  PROVE  IsFold(Further(h, Len(s) + 1, step, e), step, st, Append(s, e))
<1> DEFINE n == Len(s) + 1
           t == Append(s, e)
           f == [N \in SUBSET (1..n) |-> IF n \in N THEN step[<<h[N \ {n}], e>>] ELSE h[N]]
<1>0. n \in Nat /\ n - 1 = Len(s) /\ Len(t) = n /\ t[n] = e /\ \A i \in 1..(n - 1) : t[i] = s[i]
  OBVIOUS
<1> HIDE DEF n, t
<1>1. ASSUME NEW N \in SUBSET (1..(n - 1))
      PROVE  h[N] = IF N = {} THEN st ELSE step[<<h[N \ {Max(N)}], s[Max(N)]>>]
  BY <1>0 DEF IsFold
<1>2. ASSUME NEW N \in SUBSET (1..n)
      PROVE  f[N] = IF N = {} THEN st ELSE step[<<f[N \ {Max(N)}], t[Max(N)]>>]
  <2>1. PICK m : m = Max(N)
    OBVIOUS
  <2>2. N \ {m} \in SUBSET (1..n)
    OBVIOUS
  <2>3. CASE n \in N
    <3>1. m = n
      BY <1>0, <2>1, <2>3, Greatest
    <3>2. f[N \ {n}] = h[N \ {n}] /\ f[N] = step[<<h[N \ {n}], e>>]
      BY <2>2, <2>3, <3>1
    <3> HIDE DEF f
    <3> QED
      BY <1>0, <2>1, <2>3, <3>1, <3>2
  <2>4. CASE n \notin N
    <3>1. N \in SUBSET (1..(n - 1)) /\ N \in SUBSET (0..n)
      BY <1>0, <2>4
    <3>2. f[N] = h[N] /\ f[N \ {m}] = h[N \ {m}]
      BY <2>2, <2>4
    <3>3. N # {} => m \in 1..(n - 1)
      BY <1>0, <2>1, <3>1, GreatestIn
    <3>4. N # {} => t[m] = s[m]
      BY <1>0, <3>3
    <3> HIDE DEF f
    <3> QED
      BY <1>1, <2>1, <3>1, <3>2, <3>4
  <2> QED
    BY <2>3, <2>4
<1>3. f = [N \in SUBSET (1..n) |-> f[N]]
  OBVIOUS
<1>4. IsFold(f, step, st, t)
  <2> HIDE DEF f
  <2> QED
    BY <1>0, <1>2, <1>3 DEF IsFold
<1>5. f = Further(h, n, step, e)
  BY DEF Further
<1> HIDE DEF f
<1> QED
  BY <1>4, <1>5 DEF n, t

(* Every sequence has its fold.                                            *)
LEMMA FoldTyped ==
  ASSUME NEW A, NEW D, NEW step \in [A \X D -> A], NEW st \in A, NEW s \in Seq(D)
  PROVE  \E f : IsFold(f, step, st, s) /\ \A N \in SUBSET (1..Len(s)) : f[N] \in A
<1> DEFINE Typed(f, r) == IsFold(f, step, st, r) /\ \A N \in SUBSET (1..Len(r)) : f[N] \in A
           S == {r \in Seq(D) : \E f : Typed(f, r)}
<1>1. <<>> \in S
  <2> DEFINE f == [N \in SUBSET (1..0) |-> st]
  <2>1. \A N \in SUBSET (1..0) : N = {} /\ f[N] = st
    OBVIOUS
  <2>2. f = [N \in SUBSET (1..0) |-> f[N]]
    OBVIOUS
  <2>3. Typed(f, <<>>)
    <3>1. Len(<<>>) = 0
      OBVIOUS
    <3> HIDE DEF f
    <3> QED
      BY <2>1, <2>2, <3>1 DEF IsFold
  <2> HIDE DEF Typed
  <2> QED
    BY <2>3
<1>2. ASSUME NEW r \in Seq(D), NEW e \in D, r \in S PROVE Append(r, e) \in S
  <2>1. PICK h : Typed(h, r)
    BY <1>2
  <2> DEFINE n == Len(r) + 1
             f == Further(h, n, step, e)
  <2>2. IsFold(f, step, st, Append(r, e))
    BY <2>1, FoldGoesOn
  <2>3. n \in Nat /\ n - 1 = Len(r) /\ Len(Append(r, e)) = n /\ Append(r, e) \in Seq(D)
    OBVIOUS
  <2> HIDE DEF n
  <2>4. ASSUME NEW N \in SUBSET (1..n) PROVE f[N] \in A
    <3>1. f[N] = IF n \in N THEN step[<<h[N \ {n}], e>>] ELSE h[N]
      BY DEF Further
    <3>2. N \ {n} \in SUBSET (1..Len(r))
      BY <2>3
    <3>3. h[N \ {n}] \in A
      BY <2>1, <3>2
    <3>4. CASE n \in N
      BY <3>1, <3>3, <3>4
    <3>5. CASE n \notin N
      <4>1. N \ {n} = N
        BY <3>5
      <4> QED
        BY <3>1, <3>3, <3>5, <4>1
    <3> QED
      BY <3>4, <3>5
  <2> HIDE DEF f
  <2> QED
    BY <2>2, <2>3, <2>4
<1>3. Seq(D) \subseteq S
  <2> HIDE DEF S
  <2> QED
    BY <1>1, <1>2, SeqInduction
<1> QED
  BY <1>3

(* The operation given as a function; opaque, it tells the provers which   *)
(* sets are meant.                                                         *)
IsStep(step, A, D) == step \in [A \X D -> A]

(* A fold over nothing is where it starts; over one element more it is a   *)
(* step further.                                                           *)
LEMMA FoldOfAppend ==
  ASSUME NEW A, NEW D, NEW step, IsStep(step, A, D), NEW st \in A
  PROVE  /\ FoldOf(step, st, <<>>) = st
         /\ \A s \in Seq(D) : FoldOf(step, st, s) \in A
         /\ \A s \in Seq(D), e \in D : FoldOf(step, st, Append(s, e)) = step[<<FoldOf(step, st, s), e>>]
<1>0. step \in [A \X D -> A]
  BY DEF IsStep
<1>1. ASSUME NEW s \in Seq(D), NEW f, IsFold(f, step, st, s) PROVE FoldOf(step, st, s) = f[1..Len(s)]
  <2>1. PICK h : h = CHOOSE g : IsFold(g, step, st, s)
    OBVIOUS
  <2>2. IsFold(h, step, st, s)
    BY <1>1, <2>1
  <2>3. h[1..Len(s)] = f[1..Len(s)]
    BY <1>1, <2>2, FoldUnique
  <2> QED
    BY <2>1, <2>3 DEF FoldOf
<1>2. FoldOf(step, st, <<>>) = st
  <2>1. <<>> \in Seq(D) /\ Len(<<>>) = 0
    OBVIOUS
  <2>2. PICK f : IsFold(f, step, st, <<>>)
    BY <1>0, <2>1, FoldTyped
  <2>3. f[1..0] = st
    BY <2>1, <2>2, FoldChain
  <2> QED
    BY <1>1, <2>1, <2>2, <2>3
<1>3. ASSUME NEW s \in Seq(D) PROVE FoldOf(step, st, s) \in A
  <2>1. PICK f : IsFold(f, step, st, s) /\ \A N \in SUBSET (1..Len(s)) : f[N] \in A
    BY <1>0, FoldTyped
  <2> QED
    BY <1>1, <2>1
<1>4. ASSUME NEW s \in Seq(D), NEW e \in D
      PROVE  FoldOf(step, st, Append(s, e)) = step[<<FoldOf(step, st, s), e>>]
  <2> DEFINE n == Len(s) + 1
  <2>1. PICK h : IsFold(h, step, st, s)
    BY <1>0, FoldTyped
  <2> DEFINE f == Further(h, n, step, e)
  <2>2. IsFold(f, step, st, Append(s, e))
    BY <2>1, FoldGoesOn
  <2>3. Append(s, e) \in Seq(D) /\ Len(Append(s, e)) = n /\ n \in 1..n /\ (1..n) \ {n} = 1..Len(s)
    OBVIOUS
  <2>4. f[1..n] = step[<<h[1..Len(s)], e>>]
    BY <2>3 DEF Further
  <2> HIDE DEF f
  <2>5. FoldOf(step, st, Append(s, e)) = f[1..n]
    BY <1>1, <2>2, <2>3
  <2>6. FoldOf(step, st, s) = h[1..Len(s)]
    BY <1>1, <2>1
  <2> QED
    BY <2>4, <2>5, <2>6
<1> QED
  BY <1>2, <1>3, <1>4

-----------------------------------------------------------------------------
(* What the library folds is such a fold: once for each of the four        *)
(* operations of the repairs, for an operation is no parameter of a lemma. *)

TokenStep(U, D) == [p \in U \X D |-> WithToken(p[1], p[2])]

LEMMA SolidsFold ==
  ASSUME NEW U, NEW D, \A u \in U, d \in D : WithToken(u, d) \in U, NEW st \in U, NEW s \in Seq(D)
  PROVE  FoldLeft(WithToken, st, s) = FoldOf(TokenStep(U, D), st, s)
<1> DEFINE n == Len(s)
           step == TokenStep(U, D)
           F(f) == [N \in SUBSET (1..n) |-> IF N = {} THEN st
                      ELSE LET x == Max(N) IN WithToken(f[N \ {x}], s[x])]
           a == CHOOSE f : f = F(f)
<1>1. n \in Nat /\ DOMAIN s = 1..n /\ \A i \in 1..n : s[i] \in D
  OBVIOUS
<1>2. FoldLeft(WithToken, st, s) = a[1..n]
  BY <1>1 DEF FoldLeft, MapThenFoldSet
<1>3. step \in [U \X D -> U] /\ st \in U
  BY DEF TokenStep
<1>4. PICK h : IsFold(h, step, st, s) /\ \A N \in SUBSET (1..n) : h[N] \in U
  <2> HIDE DEF step
  <2> QED
    BY <1>3, FoldTyped
<1>5. h = F(h)
  <2>1. ASSUME NEW N \in SUBSET (1..n), N # {}
        PROVE  step[<<h[N \ {Max(N)}], s[Max(N)]>>] = WithToken(h[N \ {Max(N)}], s[Max(N)])
    <3>1. Max(N) \in 1..n
      BY <1>1, <2>1, GreatestIn, N \in SUBSET (0..n)
    <3>2. h[N \ {Max(N)}] \in U /\ s[Max(N)] \in D
      BY <1>1, <1>4, <3>1
    <3> QED
      BY <3>2 DEF TokenStep
  <2> HIDE DEF step
  <2> QED
    BY <1>4, <2>1 DEF IsFold
<1>6. a = F(a)
  <2> HIDE DEF F
  <2> QED
    BY <1>5
<1>7. ASSUME NEW f, f = F(f)
      PROVE  f[1..0] = st /\ \A i \in 1..n : f[1..i] = WithToken(f[1..(i - 1)], s[i])
  <2>1. ASSUME NEW N \in SUBSET (1..n)
        PROVE  f[N] = IF N = {} THEN st ELSE WithToken(f[N \ {Max(N)}], s[Max(N)])
    BY <1>7
  <2>2. 1..0 = {} /\ 1..0 \in SUBSET (1..n)
    OBVIOUS
  <2>3. ASSUME NEW i \in 1..n PROVE f[1..i] = WithToken(f[1..(i - 1)], s[i])
    <3>1. 1..i \in SUBSET (1..n) /\ i \in 1..i /\ (1..i) \ {i} = 1..(i - 1) /\ i \in Nat
      BY <1>1
    <3>2. Max(1..i) = i
      BY <3>1, Greatest
    <3> HIDE DEF n, F
    <3> QED
      BY <2>1, <3>1, <3>2
  <2> HIDE DEF n, F
  <2> QED
    BY <2>1, <2>2, <2>3
<1> HIDE DEF F, a
<1>8. 0..n \subseteq {i \in 0..n : a[1..i] = h[1..i]}
  <2> DEFINE Same == {i \in 0..n : a[1..i] = h[1..i]}
  <2>1. 0 \in Same
    BY <1>1, <1>5, <1>6, <1>7
  <2>2. ASSUME NEW i \in 1..n, i - 1 \in Same PROVE i \in Same
    BY <1>5, <1>6, <1>7, <2>2
  <2> HIDE DEF Same
  <2>3. 0..n \subseteq Same
    BY <1>1, <2>1, <2>2, UpTo
  <2> QED
    BY <2>3 DEF Same
<1>9. FoldOf(step, st, s) = h[1..n]
  <2>1. PICK g : g = CHOOSE f : IsFold(f, step, st, s)
    OBVIOUS
  <2>2. IsFold(g, step, st, s)
    BY <1>4, <2>1
  <2>3. g[1..n] = h[1..n]
    BY <1>1, <1>4, <2>2, FoldUnique
  <2> QED
    BY <2>1, <2>3 DEF FoldOf
<1> QED
  BY <1>1, <1>2, <1>8, <1>9

LineStep(U, D) == [p \in U \X D |-> WithLine(p[1], p[2])]

LEMMA TokensFold ==
  ASSUME NEW U, NEW D, \A u \in U, d \in D : WithLine(u, d) \in U, NEW st \in U, NEW s \in Seq(D)
  PROVE  FoldLeft(WithLine, st, s) = FoldOf(LineStep(U, D), st, s)
<1> DEFINE n == Len(s)
           step == LineStep(U, D)
           F(f) == [N \in SUBSET (1..n) |-> IF N = {} THEN st
                      ELSE LET x == Max(N) IN WithLine(f[N \ {x}], s[x])]
           a == CHOOSE f : f = F(f)
<1>1. n \in Nat /\ DOMAIN s = 1..n /\ \A i \in 1..n : s[i] \in D
  OBVIOUS
<1>2. FoldLeft(WithLine, st, s) = a[1..n]
  BY <1>1 DEF FoldLeft, MapThenFoldSet
<1>3. step \in [U \X D -> U] /\ st \in U
  BY DEF LineStep
<1>4. PICK h : IsFold(h, step, st, s) /\ \A N \in SUBSET (1..n) : h[N] \in U
  <2> HIDE DEF step
  <2> QED
    BY <1>3, FoldTyped
<1>5. h = F(h)
  <2>1. ASSUME NEW N \in SUBSET (1..n), N # {}
        PROVE  step[<<h[N \ {Max(N)}], s[Max(N)]>>] = WithLine(h[N \ {Max(N)}], s[Max(N)])
    <3>1. Max(N) \in 1..n
      BY <1>1, <2>1, GreatestIn, N \in SUBSET (0..n)
    <3>2. h[N \ {Max(N)}] \in U /\ s[Max(N)] \in D
      BY <1>1, <1>4, <3>1
    <3> QED
      BY <3>2 DEF LineStep
  <2> HIDE DEF step
  <2> QED
    BY <1>4, <2>1 DEF IsFold
<1>6. a = F(a)
  <2> HIDE DEF F
  <2> QED
    BY <1>5
<1>7. ASSUME NEW f, f = F(f)
      PROVE  f[1..0] = st /\ \A i \in 1..n : f[1..i] = WithLine(f[1..(i - 1)], s[i])
  <2>1. ASSUME NEW N \in SUBSET (1..n)
        PROVE  f[N] = IF N = {} THEN st ELSE WithLine(f[N \ {Max(N)}], s[Max(N)])
    BY <1>7
  <2>2. 1..0 = {} /\ 1..0 \in SUBSET (1..n)
    OBVIOUS
  <2>3. ASSUME NEW i \in 1..n PROVE f[1..i] = WithLine(f[1..(i - 1)], s[i])
    <3>1. 1..i \in SUBSET (1..n) /\ i \in 1..i /\ (1..i) \ {i} = 1..(i - 1) /\ i \in Nat
      BY <1>1
    <3>2. Max(1..i) = i
      BY <3>1, Greatest
    <3> HIDE DEF n, F
    <3> QED
      BY <2>1, <3>1, <3>2
  <2> HIDE DEF n, F
  <2> QED
    BY <2>1, <2>2, <2>3
<1> HIDE DEF F, a
<1>8. 0..n \subseteq {i \in 0..n : a[1..i] = h[1..i]}
  <2> DEFINE Same == {i \in 0..n : a[1..i] = h[1..i]}
  <2>1. 0 \in Same
    BY <1>1, <1>5, <1>6, <1>7
  <2>2. ASSUME NEW i \in 1..n, i - 1 \in Same PROVE i \in Same
    BY <1>5, <1>6, <1>7, <2>2
  <2> HIDE DEF Same
  <2>3. 0..n \subseteq Same
    BY <1>1, <2>1, <2>2, UpTo
  <2> QED
    BY <2>3 DEF Same
<1>9. FoldOf(step, st, s) = h[1..n]
  <2>1. PICK g : g = CHOOSE f : IsFold(f, step, st, s)
    OBVIOUS
  <2>2. IsFold(g, step, st, s)
    BY <1>4, <2>1
  <2>3. g[1..n] = h[1..n]
    BY <1>1, <1>4, <2>2, FoldUnique
  <2> QED
    BY <2>1, <2>3 DEF FoldOf
<1> QED
  BY <1>1, <1>2, <1>8, <1>9

TidyStep(U, D) == [p \in U \X D |-> Tidied(p[1], p[2])]

LEMMA TidyFold ==
  ASSUME NEW U, NEW D, \A u \in U, d \in D : Tidied(u, d) \in U, NEW st \in U, NEW s \in Seq(D)
  PROVE  FoldLeft(Tidied, st, s) = FoldOf(TidyStep(U, D), st, s)
<1> DEFINE n == Len(s)
           step == TidyStep(U, D)
           F(f) == [N \in SUBSET (1..n) |-> IF N = {} THEN st
                      ELSE LET x == Max(N) IN Tidied(f[N \ {x}], s[x])]
           a == CHOOSE f : f = F(f)
<1>1. n \in Nat /\ DOMAIN s = 1..n /\ \A i \in 1..n : s[i] \in D
  OBVIOUS
<1>2. FoldLeft(Tidied, st, s) = a[1..n]
  BY <1>1 DEF FoldLeft, MapThenFoldSet
<1>3. step \in [U \X D -> U] /\ st \in U
  BY DEF TidyStep
<1>4. PICK h : IsFold(h, step, st, s) /\ \A N \in SUBSET (1..n) : h[N] \in U
  <2> HIDE DEF step
  <2> QED
    BY <1>3, FoldTyped
<1>5. h = F(h)
  <2>1. ASSUME NEW N \in SUBSET (1..n), N # {}
        PROVE  step[<<h[N \ {Max(N)}], s[Max(N)]>>] = Tidied(h[N \ {Max(N)}], s[Max(N)])
    <3>1. Max(N) \in 1..n
      BY <1>1, <2>1, GreatestIn, N \in SUBSET (0..n)
    <3>2. h[N \ {Max(N)}] \in U /\ s[Max(N)] \in D
      BY <1>1, <1>4, <3>1
    <3> QED
      BY <3>2 DEF TidyStep
  <2> HIDE DEF step
  <2> QED
    BY <1>4, <2>1 DEF IsFold
<1>6. a = F(a)
  <2> HIDE DEF F
  <2> QED
    BY <1>5
<1>7. ASSUME NEW f, f = F(f)
      PROVE  f[1..0] = st /\ \A i \in 1..n : f[1..i] = Tidied(f[1..(i - 1)], s[i])
  <2>1. ASSUME NEW N \in SUBSET (1..n)
        PROVE  f[N] = IF N = {} THEN st ELSE Tidied(f[N \ {Max(N)}], s[Max(N)])
    BY <1>7
  <2>2. 1..0 = {} /\ 1..0 \in SUBSET (1..n)
    OBVIOUS
  <2>3. ASSUME NEW i \in 1..n PROVE f[1..i] = Tidied(f[1..(i - 1)], s[i])
    <3>1. 1..i \in SUBSET (1..n) /\ i \in 1..i /\ (1..i) \ {i} = 1..(i - 1) /\ i \in Nat
      BY <1>1
    <3>2. Max(1..i) = i
      BY <3>1, Greatest
    <3> HIDE DEF n, F
    <3> QED
      BY <2>1, <3>1, <3>2
  <2> HIDE DEF n, F
  <2> QED
    BY <2>1, <2>2, <2>3
<1> HIDE DEF F, a
<1>8. 0..n \subseteq {i \in 0..n : a[1..i] = h[1..i]}
  <2> DEFINE Same == {i \in 0..n : a[1..i] = h[1..i]}
  <2>1. 0 \in Same
    BY <1>1, <1>5, <1>6, <1>7
  <2>2. ASSUME NEW i \in 1..n, i - 1 \in Same PROVE i \in Same
    BY <1>5, <1>6, <1>7, <2>2
  <2> HIDE DEF Same
  <2>3. 0..n \subseteq Same
    BY <1>1, <2>1, <2>2, UpTo
  <2> QED
    BY <2>3 DEF Same
<1>9. FoldOf(step, st, s) = h[1..n]
  <2>1. PICK g : g = CHOOSE f : IsFold(f, step, st, s)
    OBVIOUS
  <2>2. IsFold(g, step, st, s)
    BY <1>4, <2>1
  <2>3. g[1..n] = h[1..n]
    BY <1>1, <1>4, <2>2, FoldUnique
  <2> QED
    BY <2>1, <2>3 DEF FoldOf
<1> QED
  BY <1>1, <1>2, <1>8, <1>9

RemoveStep(U, D) == [p \in U \X D |-> Removed(p[1], p[2])]

LEMMA RemovedFold ==
  ASSUME NEW U, NEW D, \A u \in U, d \in D : Removed(u, d) \in U, NEW st \in U, NEW s \in Seq(D)
  PROVE  FoldLeft(Removed, st, s) = FoldOf(RemoveStep(U, D), st, s)
<1> DEFINE n == Len(s)
           step == RemoveStep(U, D)
           F(f) == [N \in SUBSET (1..n) |-> IF N = {} THEN st
                      ELSE LET x == Max(N) IN Removed(f[N \ {x}], s[x])]
           a == CHOOSE f : f = F(f)
<1>1. n \in Nat /\ DOMAIN s = 1..n /\ \A i \in 1..n : s[i] \in D
  OBVIOUS
<1>2. FoldLeft(Removed, st, s) = a[1..n]
  BY <1>1 DEF FoldLeft, MapThenFoldSet
<1>3. step \in [U \X D -> U] /\ st \in U
  BY DEF RemoveStep
<1>4. PICK h : IsFold(h, step, st, s) /\ \A N \in SUBSET (1..n) : h[N] \in U
  <2> HIDE DEF step
  <2> QED
    BY <1>3, FoldTyped
<1>5. h = F(h)
  <2>1. ASSUME NEW N \in SUBSET (1..n), N # {}
        PROVE  step[<<h[N \ {Max(N)}], s[Max(N)]>>] = Removed(h[N \ {Max(N)}], s[Max(N)])
    <3>1. Max(N) \in 1..n
      BY <1>1, <2>1, GreatestIn, N \in SUBSET (0..n)
    <3>2. h[N \ {Max(N)}] \in U /\ s[Max(N)] \in D
      BY <1>1, <1>4, <3>1
    <3> QED
      BY <3>2 DEF RemoveStep
  <2> HIDE DEF step
  <2> QED
    BY <1>4, <2>1 DEF IsFold
<1>6. a = F(a)
  <2> HIDE DEF F
  <2> QED
    BY <1>5
<1>7. ASSUME NEW f, f = F(f)
      PROVE  f[1..0] = st /\ \A i \in 1..n : f[1..i] = Removed(f[1..(i - 1)], s[i])
  <2>1. ASSUME NEW N \in SUBSET (1..n)
        PROVE  f[N] = IF N = {} THEN st ELSE Removed(f[N \ {Max(N)}], s[Max(N)])
    BY <1>7
  <2>2. 1..0 = {} /\ 1..0 \in SUBSET (1..n)
    OBVIOUS
  <2>3. ASSUME NEW i \in 1..n PROVE f[1..i] = Removed(f[1..(i - 1)], s[i])
    <3>1. 1..i \in SUBSET (1..n) /\ i \in 1..i /\ (1..i) \ {i} = 1..(i - 1) /\ i \in Nat
      BY <1>1
    <3>2. Max(1..i) = i
      BY <3>1, Greatest
    <3> HIDE DEF n, F
    <3> QED
      BY <2>1, <3>1, <3>2
  <2> HIDE DEF n, F
  <2> QED
    BY <2>1, <2>2, <2>3
<1> HIDE DEF F, a
<1>8. 0..n \subseteq {i \in 0..n : a[1..i] = h[1..i]}
  <2> DEFINE Same == {i \in 0..n : a[1..i] = h[1..i]}
  <2>1. 0 \in Same
    BY <1>1, <1>5, <1>6, <1>7
  <2>2. ASSUME NEW i \in 1..n, i - 1 \in Same PROVE i \in Same
    BY <1>5, <1>6, <1>7, <2>2
  <2> HIDE DEF Same
  <2>3. 0..n \subseteq Same
    BY <1>1, <2>1, <2>2, UpTo
  <2> QED
    BY <2>3 DEF Same
<1>9. FoldOf(step, st, s) = h[1..n]
  <2>1. PICK g : g = CHOOSE f : IsFold(f, step, st, s)
    OBVIOUS
  <2>2. IsFold(g, step, st, s)
    BY <1>4, <2>1
  <2>3. g[1..n] = h[1..n]
    BY <1>1, <1>4, <2>2, FoldUnique
  <2> QED
    BY <2>1, <2>3 DEF FoldOf
<1> QED
  BY <1>1, <1>2, <1>8, <1>9

-----------------------------------------------------------------------------
(* The tokens of lines and of texts.                                       *)
LEMMA SolidsAre ==
  ASSUME NEW T
  PROVE  /\ Solids(<<>>) = <<>>
         /\ \A l \in Seq(T) : Solids(l) \in Seq(T)
         /\ \A l \in Seq(T), t \in T : Solids(Append(l, t)) = WithToken(Solids(l), t)
<1> DEFINE step == TokenStep(Seq(T), T)
<1>1. step \in [Seq(T) \X T -> Seq(T)] /\ <<>> \in Seq(T) /\ \A u \in Seq(T), t \in T : WithToken(u, t) \in Seq(T)
  BY DEF WithToken, TokenStep
<1>2. ASSUME NEW l \in Seq(T) PROVE Solids(l) = FoldOf(step, <<>>, l)
  <2>1. FoldLeft(WithToken, <<>>, l) = FoldOf(step, <<>>, l)
    BY <1>1, SolidsFold
  <2> QED
    BY <2>1 DEF Solids
<1>3. \A u \in Seq(T), t \in T : step[<<u, t>>] = WithToken(u, t)
  BY DEF TokenStep
<1> HIDE DEF step
<1>4. /\ FoldOf(step, <<>>, <<>>) = <<>>
      /\ \A s \in Seq(T) : FoldOf(step, <<>>, s) \in Seq(T)
      /\ \A s \in Seq(T), e \in T : FoldOf(step, <<>>, Append(s, e)) = step[<<FoldOf(step, <<>>, s), e>>]
  <2>1. IsStep(step, Seq(T), T) /\ <<>> \in Seq(T)
    BY <1>1 DEF IsStep
  <2> QED
    BY <2>1, FoldOfAppend
<1>5. \A l \in Seq(T), t \in T : Append(l, t) \in Seq(T)
  OBVIOUS
<1> QED
  BY <1>1, <1>2, <1>3, <1>4, <1>5

LEMMA SolidsConcat ==
  ASSUME NEW T, NEW l \in Seq(T), NEW m \in Seq(T)
  PROVE  Solids(l \o m) = Solids(l) \o Solids(m)
<1> DEFINE S == {k \in Seq(T) : Solids(l \o k) = Solids(l) \o Solids(k)}
<1>0. Solids(l) \in Seq(T)
  BY SolidsAre
<1>1. <<>> \in S
  BY <1>0, SolidsAre, l \o <<>> = l, Solids(l) \o <<>> = Solids(l)
<1>2. ASSUME NEW k \in Seq(T), NEW t \in T, k \in S PROVE Append(k, t) \in S
  <2>1. l \o Append(k, t) = Append(l \o k, t) /\ l \o k \in Seq(T) /\ Append(k, t) \in Seq(T)
    OBVIOUS
  <2>2. Solids(l \o Append(k, t)) = WithToken(Solids(l) \o Solids(k), t)
    BY <1>2, <2>1, SolidsAre
  <2>3. Solids(Append(k, t)) = WithToken(Solids(k), t) /\ Solids(k) \in Seq(T)
    BY SolidsAre
  <2>4. PICK u \in Seq(T), v \in Seq(T) : u = Solids(l) /\ v = Solids(k)
    BY <1>0, <2>3
  <2>5. WithToken(u \o v, t) = u \o WithToken(v, t)
    <3>1. Append(u \o v, t) = u \o Append(v, t)
      <4>1. u \o v \in Seq(T) /\ <<t>> \in Seq(T)
        OBVIOUS
      <4>2. Append(u \o v, t) = (u \o v) \o <<t>> /\ Append(v, t) = v \o <<t>>
        BY <4>1, AppendIsConcat
      <4>3. (u \o v) \o <<t>> = u \o (v \o <<t>>)
        BY <4>1, ConcatAssociative
      <4> QED
        BY <4>2, <4>3
    <3> QED
      BY <3>1 DEF WithToken
  <2> QED
    BY <2>1, <2>2, <2>3, <2>4, <2>5
<1>3. Seq(T) \subseteq S
  <2> HIDE DEF S
  <2> QED
    BY <1>1, <1>2, SeqInduction
<1> QED
  BY <1>3

LEMMA SolidsOfBlank ==
  ASSUME NEW l \in Seq({Space})
  PROVE  Solids(l) = <<>>
<1> DEFINE S == {k \in Seq({Space}) : Solids(k) = <<>>}
<1>1. <<>> \in S
  BY SolidsAre
<1>2. ASSUME NEW k \in Seq({Space}), NEW t \in {Space}, k \in S PROVE Append(k, t) \in S
  BY <1>2, SolidsAre DEF WithToken
<1>3. Seq({Space}) \subseteq S
  <2> HIDE DEF S
  <2> QED
    BY <1>1, <1>2, SeqInduction
<1> QED
  BY <1>3

(* What a line ends in after its last token is blanks.                     *)
LEMMA TrimmedIs ==
  ASSUME NEW T, NEW l \in Seq(T)
  PROVE  \E n \in 0..Len(l) : /\ Trimmed(l) = SubSeq(l, 1, n)
                              /\ SubSeq(l, n + 1, Len(l)) \in Seq({Space})
                              /\ n # 0 => l[n] # Space
<1> DEFINE N == {0} \cup {i \in DOMAIN l : l[i] # Space}
           n == Max(N)
<1>1. N \in SUBSET (0..Len(l)) /\ N # {} /\ Len(l) \in Nat
  OBVIOUS
<1>2. n \in N /\ \A y \in N : y <= n
  <2> HIDE DEF N
  <2> QED
    BY <1>1, GreatestIn
<1>3. n \in 0..Len(l) /\ (n # 0 => l[n] # Space)
  BY <1>2
<1>4. Trimmed(l) = SubSeq(l, 1, n)
  BY DEF Trimmed
<1>5. \A i \in (n + 1)..Len(l) : l[i] = Space
  BY <1>2
<1> HIDE DEF n
<1>6. SubSeq(l, n + 1, Len(l)) \in Seq({Space})
  BY <1>3, <1>5
<1> QED
  BY <1>3, <1>4, <1>6

LEMMA SplitAt ==
  ASSUME NEW T, NEW l \in Seq(T), NEW n \in 0..Len(l)
  PROVE  /\ SubSeq(l, 1, n) \in Seq(T) /\ SubSeq(l, n + 1, Len(l)) \in Seq(T)
         /\ l = SubSeq(l, 1, n) \o SubSeq(l, n + 1, Len(l))
<1>1. SubSeq(l, 1, n) \in Seq(T) /\ SubSeq(l, n + 1, Len(l)) \in Seq(T)
  OBVIOUS
<1>2. l = SubSeq(l, 1, n) \o SubSeq(l, n + 1, Len(l))
  <2>1. 1 \in 1..(Len(l) + 1) /\ n \in (1 - 1)..Len(l) /\ Len(l) \in n..Len(l)
    OBVIOUS
  <2>2. SubSeq(l, 1, n) \o SubSeq(l, n + 1, Len(l)) = SubSeq(l, 1, Len(l))
    BY <2>1, ConcatAdjacentSubSeq
  <2>3. SubSeq(l, 1, Len(l)) = l
    BY SubSeqFull
  <2> QED
    BY <2>2, <2>3
<1> QED
  BY <1>1, <1>2

LEMMA SolidsOfTrimmed ==
  ASSUME NEW T, NEW l \in Seq(T)
  PROVE  Trimmed(l) \in Seq(T) /\ Solids(Trimmed(l)) = Solids(l)
<1>1. PICK n \in 0..Len(l) : Trimmed(l) = SubSeq(l, 1, n) /\ SubSeq(l, n + 1, Len(l)) \in Seq({Space})
  BY TrimmedIs
<1>2. /\ Trimmed(l) \in Seq(T) /\ SubSeq(l, n + 1, Len(l)) \in Seq(T)
      /\ l = Trimmed(l) \o SubSeq(l, n + 1, Len(l))
  BY <1>1, SplitAt
<1>3. Solids(l) = Solids(Trimmed(l)) \o Solids(SubSeq(l, n + 1, Len(l)))
  BY <1>2, SolidsConcat
<1>4. Solids(SubSeq(l, n + 1, Len(l))) = <<>>
  BY <1>1, SolidsOfBlank
<1>5. Solids(Trimmed(l)) \in Seq(T)
  BY <1>2, SolidsAre
<1> QED
  BY <1>2, <1>3, <1>4, <1>5

LEMMA TokensAre ==
  ASSUME NEW T
  PROVE  /\ SolidTokens(<<>>) = <<>>
         /\ \A s \in Seq(Seq(T)) : SolidTokens(s) \in Seq(T)
         /\ \A s \in Seq(Seq(T)), l \in Seq(T) : SolidTokens(Append(s, l)) = SolidTokens(s) \o Solids(l)
<1> DEFINE step == LineStep(Seq(T), Seq(T))
<1>0. \A l \in Seq(T) : Solids(l) \in Seq(T)
  BY SolidsAre
<1>1. /\ step \in [Seq(T) \X Seq(T) -> Seq(T)] /\ <<>> \in Seq(T)
      /\ \A u \in Seq(T), l \in Seq(T) : WithLine(u, l) \in Seq(T)
  BY <1>0 DEF WithLine, LineStep
<1>2. ASSUME NEW s \in Seq(Seq(T)) PROVE SolidTokens(s) = FoldOf(step, <<>>, s)
  <2>1. FoldLeft(WithLine, <<>>, s) = FoldOf(step, <<>>, s)
    BY <1>1, TokensFold
  <2> QED
    BY <2>1 DEF SolidTokens
<1>3. \A u \in Seq(T), l \in Seq(T) : step[<<u, l>>] = u \o Solids(l)
  BY DEF WithLine, LineStep
<1> HIDE DEF step
<1>4. /\ FoldOf(step, <<>>, <<>>) = <<>>
      /\ \A s \in Seq(Seq(T)) : FoldOf(step, <<>>, s) \in Seq(T)
      /\ \A s \in Seq(Seq(T)), e \in Seq(T) : FoldOf(step, <<>>, Append(s, e)) = step[<<FoldOf(step, <<>>, s), e>>]
  <2>1. IsStep(step, Seq(T), Seq(T)) /\ <<>> \in Seq(T)
    BY <1>1 DEF IsStep
  <2> QED
    BY <2>1, FoldOfAppend
<1>5. \A s \in Seq(Seq(T)), l \in Seq(T) : Append(s, l) \in Seq(Seq(T))
  OBVIOUS
<1>6. <<>> \in Seq(Seq(T))
  OBVIOUS
<1>7. ASSUME NEW s \in Seq(Seq(T)), NEW l \in Seq(T) PROVE SolidTokens(Append(s, l)) = SolidTokens(s) \o Solids(l)
  BY <1>2, <1>3, <1>4, <1>5
<1>8. SolidTokens(<<>>) = <<>>
  BY <1>2, <1>4, <1>6
<1>9. \A s \in Seq(Seq(T)) : SolidTokens(s) \in Seq(T)
  BY <1>2, <1>4
<1> QED
  BY <1>7, <1>8, <1>9

LEMMA TokensConcat ==
  ASSUME NEW T, NEW s \in Seq(Seq(T)), NEW u \in Seq(Seq(T))
  PROVE  SolidTokens(s \o u) = SolidTokens(s) \o SolidTokens(u)
<1> DEFINE S == {k \in Seq(Seq(T)) : SolidTokens(s \o k) = SolidTokens(s) \o SolidTokens(k)}
<1>0. SolidTokens(s) \in Seq(T)
  BY TokensAre
<1>1. <<>> \in S
  BY <1>0, TokensAre, s \o <<>> = s, SolidTokens(s) \o <<>> = SolidTokens(s)
<1>2. ASSUME NEW k \in Seq(Seq(T)), NEW l \in Seq(T), k \in S PROVE Append(k, l) \in S
  <2>1. s \o Append(k, l) = Append(s \o k, l) /\ s \o k \in Seq(Seq(T)) /\ Append(k, l) \in Seq(Seq(T))
    OBVIOUS
  <2>2. SolidTokens(s \o Append(k, l)) = (SolidTokens(s) \o SolidTokens(k)) \o Solids(l)
    BY <1>2, <2>1, TokensAre
  <2>3. SolidTokens(Append(k, l)) = SolidTokens(k) \o Solids(l) /\ SolidTokens(k) \in Seq(T) /\ Solids(l) \in Seq(T)
    BY TokensAre, SolidsAre
  <2>4. PICK u1 \in Seq(T), u2 \in Seq(T), u3 \in Seq(T) :
          u1 = SolidTokens(s) /\ u2 = SolidTokens(k) /\ u3 = Solids(l)
    BY <1>0, <2>3
  <2>5. (u1 \o u2) \o u3 = u1 \o (u2 \o u3)
    OBVIOUS
  <2> QED
    BY <2>1, <2>2, <2>3, <2>4, <2>5
<1>3. Seq(Seq(T)) \subseteq S
  <2> HIDE DEF S
  <2> QED
    BY <1>1, <1>2, SeqInduction
<1> QED
  BY <1>3

LEMMA TokensOfLine ==
  ASSUME NEW T, NEW l \in Seq(T)
  PROVE  SolidTokens(<<l>>) = Solids(l)
<1>1. <<l>> = Append(<<>>, l) /\ <<>> \in Seq(Seq(T))
  OBVIOUS
<1>2. SolidTokens(<<l>>) = <<>> \o Solids(l) /\ Solids(l) \in Seq(T)
  BY <1>1, TokensAre, SolidsAre
<1> QED
  BY <1>2

(* Blank lines have none.                                                  *)
LEMMA TokensOfBlank ==
  ASSUME NEW s \in Seq(Seq({Space}))
  PROVE  SolidTokens(s) = <<>>
<1> DEFINE S == {k \in Seq(Seq({Space})) : SolidTokens(k) = <<>>}
<1>1. <<>> \in S
  BY TokensAre
<1>2. ASSUME NEW k \in Seq(Seq({Space})), NEW l \in Seq({Space}), k \in S PROVE Append(k, l) \in S
  <2>1. SolidTokens(Append(k, l)) = <<>> \o <<>> /\ Append(k, l) \in Seq(Seq({Space}))
    BY <1>2, TokensAre, SolidsOfBlank
  <2> QED
    BY <2>1
<1>3. Seq(Seq({Space})) \subseteq S
  <2> HIDE DEF S
  <2> QED
    BY <1>1, <1>2, SeqInduction
<1> QED
  BY <1>3

LEMMA OfOne ==
  ASSUME NEW T, NEW e \in T
  PROVE  <<e>> \in Seq(T)
  OBVIOUS

(* A sequence around one of its elements.                                  *)
LEMMA SplitOne ==
  ASSUME NEW T, NEW s \in Seq(T), NEW n \in 1..Len(s)
  PROVE  s = (SubSeq(s, 1, n - 1) \o <<s[n]>>) \o SubSeq(s, n + 1, Len(s))
<1>1. n \in Int /\ n - 1 \in 0..Len(s) /\ n \in 0..Len(s) /\ n \in 1..n /\ (n - 1) + 1 = n
  OBVIOUS
<1>2. s = SubSeq(s, 1, n) \o SubSeq(s, n + 1, Len(s))
  BY <1>1, SplitAt
<1>3. SubSeq(s, 1, n) = SubSeq(s, 1, n - 1) \o <<s[n]>>
  <2>1. 1 \in 1..Len(s) /\ n \in 1..Len(s)
    OBVIOUS
  <2> QED
    BY <2>1, SubSeqRecursiveSecond
<1> QED
  BY <1>2, <1>3

-----------------------------------------------------------------------------
(* What the repairs leave of a text.                                       *)

(* Closers at the end are no part of the body.                             *)
LEMMA OpenedConcat ==
  ASSUME NEW T, Closers \subseteq T, NEW t \in Seq(T), NEW c \in Seq(Closers)
  PROVE  Opened(t \o c) = Opened(t)
<1> DEFINE N == {0} \cup {i \in DOMAIN t : t[i] \notin Closers}
           M == {0} \cup {i \in DOMAIN (t \o c) : (t \o c)[i] \notin Closers}
           m == Max(N)
<1>0. c \in Seq(T)
  BY SeqMonotonic
<1>1. M = N
  <2>1. /\ t \o c \in Seq(T) /\ Len(t \o c) = Len(t) + Len(c)
        /\ \A i \in 1..(Len(t) + Len(c)) : (t \o c)[i] = IF i <= Len(t) THEN t[i] ELSE c[i - Len(t)]
    BY <1>0, ConcatProperties
  <2>2. DOMAIN (t \o c) = 1..(Len(t) + Len(c)) /\ DOMAIN t = 1..Len(t) /\ Len(t) \in Nat /\ Len(c) \in Nat
    BY <2>1
  <2>3. \A j \in 1..Len(c) : c[j] \in Closers
    OBVIOUS
  <2>4. ASSUME NEW i \in 1..(Len(t) + Len(c))
        PROVE  (t \o c)[i] \notin Closers <=> i \in 1..Len(t) /\ t[i] \notin Closers
    <3>1. CASE i <= Len(t)
      BY <2>1, <2>2, <3>1
    <3>2. CASE i > Len(t)
      <4>1. i - Len(t) \in 1..Len(c) /\ (t \o c)[i] = c[i - Len(t)]
        BY <2>1, <2>2, <3>2
      <4> QED
        BY <2>2, <2>3, <3>2, <4>1
    <3> QED
      BY <2>2, <3>1, <3>2
  <2> QED
    BY <2>2, <2>4
<1>2. m \in 0..Len(t)
  <2>1. N \in SUBSET (0..Len(t)) /\ N # {} /\ Len(t) \in Nat
    OBVIOUS
  <2> HIDE DEF N
  <2> QED
    BY <2>1, GreatestIn
<1>3. Opened(t \o c) = SubSeq(t \o c, 1, m) /\ Opened(t) = SubSeq(t, 1, m)
  BY <1>1 DEF Opened
<1> HIDE DEF m
<1>4. CASE m = 0
  <2>1. SubSeq(t \o c, 1, 0) = <<>> /\ SubSeq(t, 1, 0) = <<>>
    BY SubSeqEmpty
  <2> QED
    BY <1>3, <1>4, <2>1
<1>5. CASE m # 0
  <2>1. 1 \in 1..Len(t) /\ m \in 1..Len(t)
    BY <1>2, <1>5
  <2>2. SubSeq(t \o c, 1, m) = SubSeq(t, 1, m)
    BY <1>0, <2>1, SubSeqOfConcat1
  <2> QED
    BY <1>3, <2>2
<1> QED
  BY <1>4, <1>5

(* After the last line with a token only blank ones follow.                *)
LEMMA LastLineIs ==
  ASSUME NEW T, NEW text \in Seq(Seq(T))
  PROVE  /\ LastLine(text) \in 0..Len(text)
         /\ SubSeq(text, LastLine(text) + 1, Len(text)) \in Seq(Seq({Space}))
         /\ LastLine(text) # 0 => text[LastLine(text)] \notin Seq({Space})
<1> DEFINE N == {0} \cup {i \in DOMAIN text : ~BlankLine(text[i])}
           n == LastLine(text)
<1>1. N \in SUBSET (0..Len(text)) /\ N # {} /\ Len(text) \in Nat
  OBVIOUS
<1>2. n \in N /\ \A y \in N : y <= n
  <2>1. n = Max(N)
    BY DEF LastLine
  <2> HIDE DEF N, n
  <2> QED
    BY <1>1, <2>1, GreatestIn
<1> HIDE DEF n
<1>3. ASSUME NEW l \in Seq(T) PROVE BlankLine(l) <=> l \in Seq({Space})
  BY DEF BlankLine, ToSet
<1>4. \A i \in 1..Len(text) : text[i] \in Seq(T)
  OBVIOUS
<1>5. n \in 0..Len(text) /\ (n # 0 => text[n] \notin Seq({Space}))
  BY <1>2, <1>3, <1>4
<1>6. \A i \in (n + 1)..Len(text) : text[i] \in Seq({Space})
  BY <1>2, <1>3, <1>4, <1>5
<1>7. n + 1 \in Int /\ Len(text) \in Int
  BY <1>5
<1>8. SubSeq(text, n + 1, Len(text)) \in Seq(Seq({Space}))
  BY <1>6, <1>7, SubSeqProperties
<1> QED
  BY <1>5, <1>8 DEF n

(* The tokens of a text are those of its lines up to the last that has any.*)
LEMMA TokensUpTo ==
  ASSUME NEW T, NEW p \in Seq(Seq(T)), NEW l \in Seq(T), NEW q \in Seq(Seq(T)), q \in Seq(Seq({Space}))
  PROVE  /\ (p \o <<l>>) \o q \in Seq(Seq(T)) /\ SolidTokens((p \o <<l>>) \o q) = SolidTokens(p) \o Solids(l)
         /\ SolidTokens(p \o q) = SolidTokens(p)
<1>1. <<l>> \in Seq(Seq(T)) /\ p \o <<l>> \in Seq(Seq(T)) /\ (p \o <<l>>) \o q \in Seq(Seq(T))
  <2>1. <<l>> \in Seq(Seq(T))
    OBVIOUS
  <2> QED
    BY <2>1, ConcatProperties
<1>2. SolidTokens(q) = <<>>
  BY TokensOfBlank
<1>3. SolidTokens(p \o <<l>>) = SolidTokens(p) \o Solids(l)
  BY <1>1, TokensConcat, TokensOfLine
<1>4. SolidTokens((p \o <<l>>) \o q) = SolidTokens(p \o <<l>>) \o <<>>
  BY <1>1, <1>2, TokensConcat
<1>5. SolidTokens(p \o q) = SolidTokens(p) \o <<>>
  BY <1>2, TokensConcat
<1>6. SolidTokens(p \o <<l>>) \in Seq(T) /\ SolidTokens(p) \in Seq(T)
  BY <1>1, TokensAre
<1>7. \A s \in Seq(T) : s \o <<>> = s
  BY ConcatEmptySeq
<1> QED
  BY <1>1, <1>3, <1>4, <1>5, <1>6, <1>7

(* Closers that are added make no difference.                              *)
LEMMA AddedKeeps ==
  ASSUME NEW T, Closers \subseteq T, NEW text \in Seq(Seq(T)), NEW closer \in Closers, NEW n \in Nat
  PROVE  Added(text, closer, n) \in Seq(Seq(T)) /\ Body(Added(text, closer, n)) = Body(text)
<1> DEFINE at == LastLine(text)
           p == SubSeq(text, 1, at)
           q == SubSeq(text, at + 1, Len(text))
           l == [i \in 1..n |-> closer]
<1>1. at \in 0..Len(text) /\ q \in Seq(Seq({Space}))
  BY LastLineIs
<1>2. Added(text, closer, n) = (p \o <<l>>) \o q
  <2>1. (at + 1) - 1 = at
    BY <1>1
  <2> HIDE DEF at
  <2> QED
    BY <2>1 DEF Added, InsertAt, at
<1> HIDE DEF at
<1>3. p \in Seq(Seq(T)) /\ q \in Seq(Seq(T)) /\ text = p \o q
  BY <1>1, SplitAt
<1>4. l \in Seq(Closers) /\ l \in Seq(T)
  OBVIOUS
<1> HIDE DEF p, q, l
<1>5. /\ Added(text, closer, n) \in Seq(Seq(T)) /\ SolidTokens(Added(text, closer, n)) = SolidTokens(p) \o Solids(l)
      /\ SolidTokens(text) = SolidTokens(p)
  <2>1. /\ (p \o <<l>>) \o q \in Seq(Seq(T)) /\ SolidTokens((p \o <<l>>) \o q) = SolidTokens(p) \o Solids(l)
        /\ SolidTokens(p \o q) = SolidTokens(p)
    BY <1>1, <1>3, <1>4, TokensUpTo DEF q
  <2> QED
    BY <1>2, <1>3, <2>1
<1>6. SolidTokens(p) \in Seq(T) /\ Solids(l) \in Seq(Closers)
  BY <1>3, <1>4, TokensAre, SolidsAre
<1>7. Opened(SolidTokens(p) \o Solids(l)) = Opened(SolidTokens(p))
  BY <1>6, OpenedConcat
<1> QED
  BY <1>5, <1>7 DEF Body

LEMMA ConcatOnce ==
  ASSUME NEW T, NEW a \in Seq(T), NEW c \in Seq(T), NEW d \in Seq(T)
  PROVE  a \o (c \o d) = (a \o c) \o d /\ a \o c \in Seq(T) /\ c \o <<>> = c
<1>1. a \o (c \o d) = (a \o c) \o d
  BY ConcatAssociative
<1>2. a \o c \in Seq(T) /\ c \o <<>> = c
  OBVIOUS
<1> QED
  BY <1>1, <1>2

(* Nor does a brace that is removed: only blanks followed it in its line,  *)
LEMMA BraceAtEnd ==
  ASSUME NEW T, Closers \subseteq T, NEW h \in Seq(T), NEW r \in Seq(T), r \in Seq({Space}),
         NEW b \in Closers
  PROVE  \E c \in Seq(Closers) : Solids((h \o <<b>>) \o r) = Solids(h \o r) \o c
<1>1. <<b>> \in Seq(Closers) /\ <<b>> \in Seq(T)
  BY OfOne
<1>2. h \o <<b>> \in Seq(T)
  BY <1>1, ConcatOnce
<1>3. Solids(r) = <<>> /\ Solids(h) \in Seq(T) /\ Solids(<<b>>) \in Seq(Closers) /\ Solids(<<b>>) \in Seq(T)
  BY <1>1, SolidsOfBlank, SolidsAre
<1>4. Solids((h \o <<b>>) \o r) = Solids(h \o <<b>>) \o <<>> /\ Solids(h \o r) = Solids(h) \o <<>>
  BY <1>2, <1>3, SolidsConcat
<1>5. Solids(h \o <<b>>) = Solids(h) \o Solids(<<b>>)
  BY <1>1, SolidsConcat
<1>6. (Solids(h) \o Solids(<<b>>)) \o <<>> = Solids(h) \o Solids(<<b>>) /\ Solids(h) \o <<>> = Solids(h)
  <2>1. PICK x \in Seq(T), y \in Seq(T) : x = Solids(h) /\ y = Solids(<<b>>)
    BY <1>3
  <2>2. x \o y \in Seq(T)
    BY ConcatOnce
  <2>3. (x \o y) \o <<>> = x \o y /\ x \o <<>> = x
    BY <2>2, ConcatOnce
  <2> QED
    BY <2>1, <2>3
<1> QED
  BY <1>3, <1>4, <1>5, <1>6

(* because a line is cut before them,                                      *)
LEMMA LineWithout ==
  ASSUME NEW T, Closers \subseteq T, NEW l \in Seq(T), l \notin Seq({Space}),
         NEW b \in Closers, Last(Trimmed(l)) = b
  PROVE  /\ RemoveAt(l, Len(Trimmed(l))) \in Seq(T)
         /\ \E c \in Seq(Closers) : Solids(l) = Solids(RemoveAt(l, Len(Trimmed(l)))) \o c
<1>1. PICK n \in 0..Len(l) : Trimmed(l) = SubSeq(l, 1, n) /\ SubSeq(l, n + 1, Len(l)) \in Seq({Space})
  BY TrimmedIs
<1>2. n # 0
  <2>1. SubSeq(l, 1, Len(l)) = l
    BY SubSeqFull
  <2>2. ASSUME n = 0 PROVE FALSE
    <3>1. SubSeq(l, 1, Len(l)) \in Seq({Space})
      BY <1>1, <2>2
    <3> QED
      BY <2>1, <3>1
  <2> QED
    BY <2>2
<1>3. n \in 1..Len(l) /\ Len(SubSeq(l, 1, n)) = n /\ SubSeq(l, 1, n)[n] = l[n]
  BY <1>2
<1>4. Len(Trimmed(l)) = n /\ l[n] = b
  BY <1>1, <1>3 DEF Last
<1> DEFINE h == SubSeq(l, 1, n - 1)
           r == SubSeq(l, n + 1, Len(l))
<1>5. l = (h \o <<b>>) \o r
  BY <1>3, <1>4, SplitOne
<1>6. RemoveAt(l, Len(Trimmed(l))) = h \o r
  BY <1>4 DEF RemoveAt
<1>7. h \in Seq(T) /\ r \in Seq(T) /\ r \in Seq({Space})
  <2>1. n - 1 \in 0..Len(l) /\ n \in 0..Len(l)
    BY <1>3
  <2> QED
    BY <1>1, <2>1, SplitAt
<1> HIDE DEF h, r
<1>8. h \o r \in Seq(T)
  BY <1>7, ConcatOnce
<1>10. ASSUME NEW x \in Seq(T), NEW y \in Seq(T), y \in Seq({Space})
       PROVE  \E c \in Seq(Closers) : Solids((x \o <<b>>) \o y) = Solids(x \o y) \o c
  BY <1>10, BraceAtEnd, ZenonT(60)
<1>9. \E c \in Seq(Closers) : Solids((h \o <<b>>) \o r) = Solids(h \o r) \o c
  BY <1>7, <1>10
<1> QED
  BY <1>5, <1>6, <1>8, <1>9

(* and the body of a text does not have the closers its tokens end in.     *)
LEMMA TokensAtEnd ==
  ASSUME NEW T, Closers \subseteq T, NEW a \in Seq(T), NEW d \in Seq(T), NEW c \in Seq(Closers)
  PROVE  Opened(a \o (d \o c)) = Opened(a \o d)
<1>1. c \in Seq(T)
  BY SeqMonotonic
<1>2. a \o (d \o c) = (a \o d) \o c /\ a \o d \in Seq(T)
  BY <1>1, ConcatOnce
<1> QED
  BY <1>2, OpenedConcat

(* A text whose last line with a token loses closers at its end keeps its  *)
(* body.                                                                   *)
LEMMA LineChanged ==
  ASSUME NEW T, Closers \subseteq T,
         NEW p \in Seq(Seq(T)), NEW q \in Seq(Seq(T)), q \in Seq(Seq({Space})),
         NEW l \in Seq(T), NEW m \in Seq(T), \E c \in Seq(Closers) : Solids(l) = Solids(m) \o c
  PROVE  Opened(SolidTokens((p \o <<l>>) \o q)) = Opened(SolidTokens((p \o <<m>>) \o q))
<1>1. SolidTokens((p \o <<l>>) \o q) = SolidTokens(p) \o Solids(l)
  <2>1. /\ (p \o <<l>>) \o q \in Seq(Seq(T)) /\ SolidTokens((p \o <<l>>) \o q) = SolidTokens(p) \o Solids(l)
        /\ SolidTokens(p \o q) = SolidTokens(p)
    BY TokensUpTo
  <2> QED
    BY <2>1
<1>2. SolidTokens((p \o <<m>>) \o q) = SolidTokens(p) \o Solids(m)
  <2>1. /\ (p \o <<m>>) \o q \in Seq(Seq(T)) /\ SolidTokens((p \o <<m>>) \o q) = SolidTokens(p) \o Solids(m)
        /\ SolidTokens(p \o q) = SolidTokens(p)
    BY TokensUpTo
  <2> QED
    BY <2>1
<1>3. PICK c \in Seq(Closers) : Solids(l) = Solids(m) \o c
  OBVIOUS
<1>4. SolidTokens(p) \in Seq(T) /\ Solids(m) \in Seq(T)
  BY SolidsAre, TokensAre
<1>5. Opened(SolidTokens(p) \o (Solids(m) \o c)) = Opened(SolidTokens(p) \o Solids(m))
  BY <1>4, TokensAtEnd
<1> QED
  BY <1>1, <1>2, <1>3, <1>5

LEMMA RemovedKeeps ==
  ASSUME NEW T, Closers \subseteq T, NEW text \in Seq(Seq(T)), NEW i
  PROVE  Removed(text, i) \in Seq(Seq(T)) /\ Body(Removed(text, i)) = Body(text)
<1> DEFINE at == LastLine(text)
           cut == RemoveAt(text[at], Len(Trimmed(text[at])))
           new == [text EXCEPT ![at] = cut]
           p == SubSeq(text, 1, at - 1)
           q == SubSeq(text, at + 1, Len(text))
<1>1. CASE at = 0 \/ Last(Trimmed(text[at])) # "}"
  BY <1>1 DEF Removed
<1> DEFINE brace == "}"
<1>2. CASE at # 0 /\ Last(Trimmed(text[at])) = brace
  <2>1. Removed(text, i) = new /\ brace \in Closers
    BY <1>2 DEF Removed, Closers
  <2> HIDE DEF brace
  <2>2. at \in 0..Len(text) /\ q \in Seq(Seq({Space})) /\ (at # 0 => text[at] \notin Seq({Space}))
    BY LastLineIs
  <2>3. at # 0 /\ Last(Trimmed(text[at])) = brace
    BY <1>2
  <2> HIDE DEF at
  <2>4. at \in 1..Len(text)
    BY <2>2, <2>3
  <2>5. text[at] \in Seq(T) /\ text[at] \notin Seq({Space})
    BY <2>2, <2>4
  <2>6. cut \in Seq(T) /\ \E c \in Seq(Closers) : Solids(text[at]) = Solids(cut) \o c
    BY <2>1, <2>3, <2>5, LineWithout
  <2> HIDE DEF cut
  <2>7. /\ new \in Seq(Seq(T)) /\ Len(new) = Len(text)
        /\ \A j \in 1..Len(text) : new[j] = IF j = at THEN cut ELSE text[j]
    BY <2>4, <2>6, ExceptSeq
  <2> HIDE DEF new
  <2>8. text = (p \o <<text[at]>>) \o q
    BY <2>4, SplitOne
  <2>9. new = (p \o <<cut>>) \o q
    <3>1. new = (SubSeq(new, 1, at - 1) \o <<new[at]>>) \o SubSeq(new, at + 1, Len(new))
      BY <2>4, <2>7, SplitOne
    <3>2. SubSeq(new, 1, at - 1) = p
      BY <2>4, <2>7
    <3>3. SubSeq(new, at + 1, Len(new)) = q
      BY <2>4, <2>7
    <3> QED
      BY <2>4, <2>7, <3>1, <3>2, <3>3
  <2>10. p \in Seq(Seq(T)) /\ q \in Seq(Seq(T))
    BY <2>4
  <2> HIDE DEF p, q
  <2>11. PICK l \in Seq(T), m \in Seq(T) : l = text[at] /\ m = cut
    BY <2>5, <2>6
  <2>12. q \in Seq(Seq({Space}))
    BY <2>2 DEF q
  <2>13. \E c \in Seq(Closers) : Solids(l) = Solids(m) \o c
    BY <2>6, <2>11
  <2>14. Opened(SolidTokens((p \o <<l>>) \o q)) = Opened(SolidTokens((p \o <<m>>) \o q))
    BY <2>10, <2>12, <2>13, LineChanged
  <2>15. Opened(SolidTokens(text)) = Opened(SolidTokens(new))
    BY <2>8, <2>9, <2>11, <2>14
  <2> QED
    BY <2>1, <2>7, <2>15 DEF Body
<1> QED
  BY <1>1, <1>2

-----------------------------------------------------------------------------
(* Each repair leaves the body as it is.  How many brackets it adds or     *)
(* removes is a number,                                                    *)
LEMMA FiniteColumns ==
  ASSUME NEW T, NEW text \in Seq(Seq(T))
  PROVE  IsFiniteSet(Columns(text))
<1> DEFINE F == [i \in 1..Len(text) |-> {i} \X DOMAIN text[i]]
           R == {F[i] : i \in 1..Len(text)}
<1>1. IsFiniteSet(1..Len(text)) /\ DOMAIN text = 1..Len(text)
  <2>1. Len(text) \in Nat /\ 1 \in Int /\ Len(text) \in Int /\ DOMAIN text = 1..Len(text)
    OBVIOUS
  <2> QED
    BY <2>1, FS_Interval
<1>2. \A i \in 1..Len(text) : IsFiniteSet(F[i])
  <2> SUFFICES ASSUME NEW i \in 1..Len(text) PROVE IsFiniteSet({i} \X DOMAIN text[i])
    OBVIOUS
  <2>1. Len(text[i]) \in Int /\ 1 \in Int /\ DOMAIN text[i] = 1..Len(text[i])
    <3>1. text[i] \in Seq(T)
      OBVIOUS
    <3>2. \A s \in Seq(T) : Len(s) \in Int /\ DOMAIN s = 1..Len(s)
      OBVIOUS
    <3> QED
      BY <3>1, <3>2
  <2>2. IsFiniteSet(1..Len(text[i]))
    BY <2>1, FS_Interval
  <2>3. IsFiniteSet({i})
    BY FS_Singleton
  <2> QED
    BY <2>1, <2>2, <2>3, FS_Product
<1>3. IsFiniteSet(R)
  <2>1. F \in Surjection(1..Len(text), R)
    BY DEF Surjection
  <2> HIDE DEF F, R
  <2> QED
    BY <1>1, <2>1, FS_Surjection
<1>4. \A A \in R : IsFiniteSet(A)
  BY <1>2
<1>5. Columns(text) = UNION R
  BY <1>1 DEF Columns
<1> HIDE DEF R
<1> QED
  BY <1>3, <1>4, <1>5, FS_UNION

LEMMA ExcessIs ==
  ASSUME NEW T, NEW text \in Seq(Seq(T)), NEW x, NEW y
  PROVE  Excess(text, x, y) \in Int
<1>1. ASSUME NEW tok PROVE Amount(text, tok) \in Nat
  <2>1. IsFiniteSet({p \in Columns(text) : text[p[1]][p[2]] = tok})
    BY FiniteColumns, FS_Subset
  <2> QED
    BY <2>1, FS_CardinalityType DEF Amount
<1> QED
  BY <1>1 DEF Excess

(* and none of them is of the body.                                        *)
LEMMA BracesKeep ==
  ASSUME NEW T, Closers \subseteq T, NEW text \in Seq(Seq(T))
  PROVE  Braces(text) \in Seq(Seq(T)) /\ Body(Braces(text)) = Body(text)
<1> DEFINE open == "{"
           brace == "}"
           n == Excess(text, open, brace)
<1>1. n \in Int
  BY ExcessIs
<1>2. brace \in Closers
  BY DEF Closers
<1>3. Braces(text) = IF n > 0 THEN Added(text, brace, n) ELSE FoldLeft(Removed, text, [i \in 1..(-n) |-> i])
  BY DEF Braces
<1> HIDE DEF open, brace, n
<1>4. CASE n > 0
  BY <1>1, <1>2, <1>3, <1>4, AddedKeeps
<1>5. CASE ~(n > 0)
  <2> DEFINE U == {u \in Seq(Seq(T)) : Body(u) = Body(text)}
             s == [i \in 1..(-n) |-> i]
             step == RemoveStep(U, Nat)
  <2>1. \A u \in U, i \in Nat : Removed(u, i) \in U
    BY RemovedKeeps
  <2>2. text \in U /\ s \in Seq(Nat)
    BY <1>1, <1>5
  <2> HIDE DEF U, s
  <2>3. FoldLeft(Removed, text, s) = FoldOf(step, text, s)
    BY <2>1, <2>2, RemovedFold
  <2>4. IsStep(step, U, Nat)
    BY <2>1 DEF RemoveStep, IsStep
  <2> HIDE DEF step
  <2>5. FoldOf(step, text, s) \in U
    BY <2>2, <2>4, FoldOfAppend
  <2>6. Braces(text) \in U
    BY <1>3, <1>5, <2>3, <2>5 DEF s
  <2> QED
    BY <2>6 DEF U
<1> QED
  BY <1>4, <1>5

LEMMA BracketsKeep ==
  ASSUME NEW T, Closers \subseteq T, NEW text \in Seq(Seq(T))
  PROVE  Brackets(text) \in Seq(Seq(T)) /\ Body(Brackets(text)) = Body(text)
<1> DEFINE open == "["
           bracket == "]"
           n == Excess(text, open, bracket)
<1>1. n \in Int
  BY ExcessIs
<1>2. bracket \in Closers
  BY DEF Closers
<1>3. Brackets(text) = IF n > 0 THEN Added(text, bracket, n) ELSE text
  BY DEF Brackets
<1> HIDE DEF open, bracket, n
<1>4. CASE n > 0
  BY <1>1, <1>2, <1>3, <1>4, AddedKeeps
<1>5. CASE ~(n > 0)
  BY <1>3, <1>5
<1> QED
  BY <1>4, <1>5

(* Lines without the blanks they end in have the same tokens,              *)
LEMMA TrimmedLines ==
  ASSUME NEW T, NEW text \in Seq(Seq(T))
  PROVE  /\ [i \in DOMAIN text |-> Trimmed(text[i])] \in Seq(Seq(T))
         /\ SolidTokens([i \in DOMAIN text |-> Trimmed(text[i])]) = SolidTokens(text)
<1> DEFINE M(s) == [i \in DOMAIN s |-> Trimmed(s[i])]
           S == {s \in Seq(Seq(T)) : M(s) \in Seq(Seq(T)) /\ SolidTokens(M(s)) = SolidTokens(s)}
<1>1. <<>> \in S
  <2>1. M(<<>>) = <<>> /\ <<>> \in Seq(Seq(T))
    OBVIOUS
  <2> HIDE DEF M
  <2> QED
    BY <2>1
<1>2. ASSUME NEW s \in Seq(Seq(T)), NEW l \in Seq(T), s \in S PROVE Append(s, l) \in S
  <2>1. Trimmed(l) \in Seq(T) /\ Solids(Trimmed(l)) = Solids(l)
    BY SolidsOfTrimmed
  <2>2. M(s) \in Seq(Seq(T)) /\ SolidTokens(M(s)) = SolidTokens(s)
    BY <1>2
  <2>3. M(Append(s, l)) = Append(M(s), Trimmed(l))
    <3>1. /\ Append(s, l) \in Seq(Seq(T)) /\ Len(Append(s, l)) = Len(s) + 1
          /\ \A i \in 1..Len(s) : Append(s, l)[i] = s[i]
          /\ Append(s, l)[Len(s) + 1] = l
      BY AppendProperties
    <3>2. DOMAIN s = 1..Len(s) /\ Len(s) \in Nat /\ DOMAIN Append(s, l) = 1..(Len(s) + 1)
      BY <3>1
    <3>3. Len(M(s)) = Len(s)
      BY <2>2, <3>2
    <3>4. /\ Append(M(s), Trimmed(l)) \in Seq(Seq(T)) /\ Len(Append(M(s), Trimmed(l))) = Len(s) + 1
          /\ \A i \in 1..Len(s) : Append(M(s), Trimmed(l))[i] = M(s)[i]
          /\ Append(M(s), Trimmed(l))[Len(s) + 1] = Trimmed(l)
      <4> HIDE DEF M
      <4> QED
        BY <2>1, <2>2, <3>3, AppendProperties
    <3>5. \A i \in 1..Len(s) : M(s)[i] = Trimmed(s[i])
      BY <3>2
    <3>6. ASSUME NEW i \in 1..(Len(s) + 1) PROVE Trimmed(Append(s, l)[i]) = Append(M(s), Trimmed(l))[i]
      <4> HIDE DEF M
      <4>1. CASE i = Len(s) + 1
        BY <3>1, <3>4, <4>1
      <4>2. CASE i # Len(s) + 1
        <5>1. i \in 1..Len(s)
          BY <3>2, <4>2
        <5> QED
          BY <3>1, <3>4, <3>5, <5>1
      <4> QED
        BY <4>1, <4>2
    <3>7. Append(M(s), Trimmed(l)) = [i \in 1..(Len(s) + 1) |-> Append(M(s), Trimmed(l))[i]]
      <4> HIDE DEF M
      <4>1. PICK t \in Seq(Seq(T)) : t = Append(M(s), Trimmed(l)) /\ Len(t) = Len(s) + 1
        BY <3>4
      <4>2. t = [i \in 1..Len(t) |-> t[i]]
        OBVIOUS
      <4> QED
        BY <4>1, <4>2
    <3> QED
      BY <3>2, <3>6, <3>7
  <2> HIDE DEF M
  <2>4. SolidTokens(Append(M(s), Trimmed(l))) = SolidTokens(M(s)) \o Solids(Trimmed(l))
    BY <2>1, <2>2, TokensAre
  <2>5. SolidTokens(Append(s, l)) = SolidTokens(s) \o Solids(l)
    BY TokensAre
  <2>6. Append(M(s), Trimmed(l)) \in Seq(Seq(T)) /\ Append(s, l) \in Seq(Seq(T))
    BY <2>1, <2>2
  <2> QED
    BY <2>1, <2>2, <2>3, <2>4, <2>5, <2>6
<1>3. Seq(Seq(T)) \subseteq S
  <2> HIDE DEF S
  <2> QED
    BY <1>1, <1>2, SeqInduction
<1> QED
  BY <1>3

(* and so has a text without its repeated empty lines.                     *)
LEMMA TidyKeeps ==
  ASSUME NEW T, NEW text \in Seq(Seq(T))
  PROVE  Tidy(text) \in Seq(Seq(T)) /\ SolidTokens(Tidy(text)) = SolidTokens(text)
<1> DEFINE X == Seq(Seq(T))
           step == TidyStep(X, Seq(T))
           S == {s \in X : SolidTokens(FoldOf(step, <<>>, s)) = SolidTokens(s)}
           lines == [i \in DOMAIN text |-> Trimmed(text[i])]
<1>1. \A u \in X, l \in Seq(T) : Tidied(u, l) \in X
  BY DEF Tidied
<1>2. step \in [X \X Seq(T) -> X] /\ <<>> \in X
  BY <1>1 DEF TidyStep
<1>3. \A u \in X, l \in Seq(T) : step[<<u, l>>] = Tidied(u, l)
  BY DEF TidyStep
<1>4. ASSUME NEW u \in X, NEW l \in Seq(T) PROVE SolidTokens(Tidied(u, l)) = SolidTokens(u) \o Solids(l)
  <2>1. CASE Tidied(u, l) = Append(u, l)
    BY <2>1, TokensAre
  <2>2. CASE Tidied(u, l) = u /\ l = <<>>
    <3>1. Solids(l) = <<>> /\ SolidTokens(u) \in Seq(T)
      BY <2>2, SolidsAre, TokensAre
    <3>2. SolidTokens(u) \o <<>> = SolidTokens(u)
      BY <3>1, ConcatOnce
    <3> QED
      BY <2>2, <3>1, <3>2
  <2> QED
    BY <2>1, <2>2 DEF Tidied
<1> HIDE DEF step
<1>5. /\ FoldOf(step, <<>>, <<>>) = <<>>
      /\ \A s \in Seq(Seq(T)) : FoldOf(step, <<>>, s) \in X
      /\ \A s \in Seq(Seq(T)), l \in Seq(T) : FoldOf(step, <<>>, Append(s, l)) = step[<<FoldOf(step, <<>>, s), l>>]
  <2>1. IsStep(step, Seq(Seq(T)), Seq(T)) /\ <<>> \in Seq(Seq(T))
    BY <1>2 DEF IsStep
  <2> QED
    BY <2>1, FoldOfAppend
<1>6. <<>> \in S
  BY <1>2, <1>5
<1>7. ASSUME NEW s \in X, NEW l \in Seq(T), s \in S PROVE Append(s, l) \in S
  <2>1. FoldOf(step, <<>>, Append(s, l)) = Tidied(FoldOf(step, <<>>, s), l)
    BY <1>3, <1>5
  <2>2. SolidTokens(FoldOf(step, <<>>, Append(s, l))) = SolidTokens(s) \o Solids(l)
    BY <1>4, <1>5, <1>7, <2>1
  <2>3. SolidTokens(Append(s, l)) = SolidTokens(s) \o Solids(l) /\ Append(s, l) \in X
    BY TokensAre
  <2> QED
    BY <2>2, <2>3
<1>8. X \subseteq S
  <2> HIDE DEF S
  <2> QED
    BY <1>6, <1>7, SeqInduction
<1>9. lines \in X /\ SolidTokens(lines) = SolidTokens(text)
  BY TrimmedLines
<1>10. Tidy(text) = FoldOf(step, <<>>, lines)
  <2> HIDE DEF lines, X
  <2>1. FoldLeft(Tidied, <<>>, lines) = FoldOf(TidyStep(X, Seq(T)), <<>>, lines)
    BY <1>1, <1>2, <1>9, TidyFold DEF X
  <2> QED
    BY <2>1 DEF Tidy, lines, step
<1> QED
  BY <1>5, <1>8, <1>9, <1>10

(* What a repair makes of a text differs from it in layout and in the      *)
(* closers at its end only.                                                *)
LEMMA RepairedKeeps ==
  ASSUME NEW T, Closers \subseteq T, NEW text \in Seq(Seq(T))
  PROVE  Repaired(text) \in Seq(Seq(T)) /\ Body(Repaired(text)) = Body(text)
<1>1. PICK u : u = IF Amount(text, Template) > 0 THEN text ELSE Brackets(Braces(text))
  OBVIOUS
<1>2. u \in Seq(Seq(T)) /\ Body(u) = Body(text)
  <2>1. Braces(text) \in Seq(Seq(T)) /\ Body(Braces(text)) = Body(text)
    BY BracesKeep
  <2>2. Brackets(Braces(text)) \in Seq(Seq(T)) /\ Body(Brackets(Braces(text))) = Body(Braces(text))
    BY <2>1, BracketsKeep
  <2> QED
    BY <1>1, <2>1, <2>2
<1>3. Tidy(u) \in Seq(Seq(T)) /\ SolidTokens(Tidy(u)) = SolidTokens(u)
  BY <1>2, TidyKeeps
<1>4. Repaired(text) = Tidy(u)
  BY <1>1 DEF Repaired
<1> QED
  BY <1>2, <1>3, <1>4 DEF Body

-----------------------------------------------------------------------------
(* The repair loop of an edit.  An attempt after the first is made of a    *)
(* text that fails and that no repair mends, as long as the disk stays as  *)
(* it is.                                                                  *)
Hopeless == ~Passes(loop.text) /\ (Repaired(loop.text) = loop.text \/ ~Passes(Repaired(loop.text)))

LoopFields == {"at", "file", "text", "attempt", "passed", "repaired", "decompose"}
RepairInv ==
  /\ DOMAIN loop = LoopFields
  /\ DOMAIN changes = {"all", "here"} /\ changes.here \in Nat /\ loop.attempt \in Nat \ {0}
  /\ loop.at \in {"idle", "validate", "repair", "repaired", "end"}
  /\ loop.at # "end" => loop.repaired = NoText
  /\ loop.at \in {"repair", "repaired"} => ~loop.passed /\ (changes.here = 0 => ~Passes(loop.text))
  /\ loop.at \in {"validate", "repair", "repaired"} /\ loop.attempt # 1 /\ changes.here = 0 => Hopeless
  /\ HandedBackPassed /\ FirstAttemptOrNone

LEMMA AtRest ==
  DOMAIN IdleLoop = LoopFields /\ IdleLoop.at = "idle" /\ IdleLoop.attempt = 1 /\ IdleLoop.repaired = NoText
  BY DEF IdleLoop, LoopFields

LEMMA InitRepairInv == RepairInit => RepairInv
<1> SUFFICES ASSUME RepairInit PROVE RepairInv
  OBVIOUS
<1>1. loop = IdleLoop /\ DOMAIN changes = {"all", "here"} /\ changes.here = 0
  BY DEF RepairInit
<1> QED
  BY <1>1, AtRest DEF RepairInv, HandedBackPassed, FirstAttemptOrNone

(* What a failed attempt leads to.                                         *)
LEMMA AgainStep ==
  ASSUME RepairInv, loop.at \in {"repair", "repaired"}, loop' = Again(loop), UNCHANGED <<compiles, changes>>,
         changes.here = 0 => Hopeless
  PROVE  RepairInv'
<1>1. DOMAIN loop = LoopFields /\ loop.repaired = NoText /\ ~loop.passed /\ loop.attempt \in Nat \ {0}
  BY DEF RepairInv
<1>2. CASE loop.attempt < MaxRetries
  <2>1. loop' = [loop EXCEPT !.at = "validate", !.attempt = loop.attempt + 1]
    BY <1>2 DEF Again
  <2>2. /\ DOMAIN loop' = LoopFields /\ loop'.repaired = NoText /\ loop'.at = "validate"
        /\ loop'.text = loop.text /\ loop'.attempt = loop.attempt + 1
    BY <1>1, <2>1 DEF LoopFields
  <2> QED
    BY <1>1, <2>2 DEF RepairInv, HandedBackPassed, FirstAttemptOrNone, Hopeless, Passes
<1>3. CASE ~(loop.attempt < MaxRetries)
  <2>1. loop' = [loop EXCEPT !.at = "end"]
    BY <1>3 DEF Again
  <2>2. /\ DOMAIN loop' = LoopFields /\ loop'.repaired = NoText /\ loop'.at = "end" /\ ~loop'.passed
        /\ loop'.attempt = loop.attempt
    BY <1>1, <2>1 DEF LoopFields
  <2> QED
    BY <1>1, <2>2 DEF RepairInv, HandedBackPassed, FirstAttemptOrNone
<1> QED
  BY <1>2, <1>3

LEMMA BeginRepairStep ==
  ASSUME RepairInv, NEW f, NEW text, BeginRepair(f, text)
  PROVE  RepairInv'
<1>1. /\ loop' = [IdleLoop EXCEPT !.at = "validate", !.file = f, !.text = text]
      /\ changes' = [changes EXCEPT !.here = 0]
  BY DEF BeginRepair
<1>2. /\ DOMAIN loop' = LoopFields /\ loop'.at = "validate" /\ loop'.attempt = 1 /\ loop'.repaired = NoText
      /\ DOMAIN changes' = {"all", "here"} /\ changes'.here = 0
  BY <1>1 DEF IdleLoop, LoopFields, RepairInv
<1> QED
  BY <1>2 DEF RepairInv, HandedBackPassed, FirstAttemptOrNone

LEMMA ValidateStep == RepairInv /\ Validate => RepairInv'
<1> SUFFICES ASSUME RepairInv, Validate PROVE RepairInv'
  OBVIOUS
<1>1. PICK suggest :
        /\ loop' = [loop EXCEPT !.at = IF Passes(loop.text) THEN "end" ELSE "repair",
                                !.passed = Passes(loop.text), !.decompose = suggest]
        /\ UNCHANGED <<compiles, changes>> /\ loop.at = "validate"
  BY DEF Validate
<1>2. DOMAIN loop = LoopFields /\ loop.repaired = NoText
  BY <1>1 DEF RepairInv
<1>3. PICK ok \in BOOLEAN : ok = Passes(loop.text)
  BY DEF Passes
<1>4. /\ DOMAIN loop' = LoopFields /\ loop'.at = (IF ok THEN "end" ELSE "repair") /\ loop'.passed = ok
      /\ loop'.text = loop.text /\ loop'.attempt = loop.attempt /\ loop'.repaired = NoText
  BY <1>1, <1>2, <1>3 DEF LoopFields
<1>5. Passes(loop.text)' = Passes(loop.text) /\ Hopeless' = Hopeless
  BY <1>1, <1>4 DEF Passes, Hopeless
<1>6. ok /\ changes.here = 0 => loop.attempt = 1
  BY <1>1, <1>3 DEF RepairInv, Hopeless
<1> QED
  BY <1>1, <1>3, <1>4, <1>5, <1>6 DEF RepairInv, HandedBackPassed, FirstAttemptOrNone

LEMMA RevalidateStep == RepairInv /\ Revalidate => RepairInv'
<1> SUFFICES ASSUME RepairInv, Revalidate PROVE RepairInv'
  OBVIOUS
<1>1. /\ loop' = (IF Passes(loop.text) THEN Again(loop) ELSE [loop EXCEPT !.at = "repaired"])
      /\ UNCHANGED <<compiles, changes>> /\ loop.at = "repair"
  BY DEF Revalidate
<1>2. CASE Passes(loop.text)
  BY <1>1, <1>2, AgainStep DEF RepairInv
<1>3. CASE ~Passes(loop.text)
  <2>1. /\ DOMAIN loop' = LoopFields /\ loop'.at = "repaired" /\ loop'.passed = loop.passed
        /\ loop'.text = loop.text /\ loop'.attempt = loop.attempt /\ loop'.repaired = loop.repaired
    BY <1>1, <1>3 DEF RepairInv, LoopFields
  <2> QED
    BY <1>1, <2>1 DEF RepairInv, HandedBackPassed, FirstAttemptOrNone, Hopeless, Passes
<1> QED
  BY <1>2, <1>3

LEMMA RepairStep == RepairInv /\ AutoRepair => RepairInv'
<1> SUFFICES ASSUME RepairInv, AutoRepair PROVE RepairInv'
  OBVIOUS
<1>1. PICK text : text = Repaired(loop.text)
  OBVIOUS
<1>2. /\ loop' = (IF text # loop.text /\ Passes(text)
                  THEN [loop EXCEPT !.at = "end", !.passed = TRUE, !.repaired = text] ELSE Again(loop))
      /\ UNCHANGED <<compiles, changes>> /\ loop.at = "repaired"
  BY <1>1 DEF AutoRepair
<1>3. CASE text # loop.text /\ Passes(text)
  <2>1. /\ DOMAIN loop' = LoopFields /\ loop'.at = "end" /\ loop'.passed /\ loop'.repaired = text
        /\ loop'.attempt = loop.attempt
    BY <1>2, <1>3 DEF RepairInv, LoopFields
  <2>2. changes.here = 0 => loop.attempt = 1
    BY <1>1, <1>2, <1>3 DEF RepairInv, Hopeless
  <2>3. Sound(text)
    BY <1>3 DEF Passes
  <2> QED
    BY <1>2, <2>1, <2>2, <2>3 DEF RepairInv, HandedBackPassed, FirstAttemptOrNone
<1>4. CASE ~(text # loop.text /\ Passes(text))
  BY <1>1, <1>2, <1>4, AgainStep DEF RepairInv, Hopeless
<1> QED
  BY <1>3, <1>4

LEMMA RepairInvNext == RepairInv /\ [RepairNext]_rvars => RepairInv'
<1> SUFFICES ASSUME RepairInv, [RepairNext]_rvars PROVE RepairInv'
  OBVIOUS
<1>1. CASE \E f \in LoopFiles : NativeWriteFails(f)
  BY <1>1 DEF NativeWriteFails, RepairInv, HandedBackPassed, FirstAttemptOrNone, Hopeless, Passes
<1>2. CASE \E f \in LoopFiles : \E text \in Candidates : BeginRepair(f, text)
  BY <1>2, BeginRepairStep
<1>3. CASE Validate
  BY <1>3, ValidateStep
<1>4. CASE Revalidate
  BY <1>4, RevalidateStep
<1>5. CASE AutoRepair
  BY <1>5, RepairStep
<1>6. CASE Return
  BY <1>6, AtRest DEF Return, RepairInv, HandedBackPassed, FirstAttemptOrNone
<1>7. CASE ResetCounts
  BY <1>7 DEF ResetCounts, RepairInv, HandedBackPassed, FirstAttemptOrNone, Hopeless, Passes
<1>8. CASE DiskChanges
  <2>1. changes'.here = changes.here + 1 /\ DOMAIN changes' = {"all", "here"} /\ UNCHANGED loop
    BY <1>8 DEF DiskChanges
  <2>2. changes'.here \in Nat /\ changes'.here # 0
    BY <2>1 DEF RepairInv
  <2> QED
    BY <2>1, <2>2 DEF RepairInv, HandedBackPassed, FirstAttemptOrNone
<1>9. CASE UNCHANGED rvars
  BY <1>9 DEF rvars, RepairInv, HandedBackPassed, FirstAttemptOrNone, Hopeless, Passes
<1> QED
  BY <1>1, <1>2, <1>3, <1>4, <1>5, <1>6, <1>7, <1>8, <1>9 DEF RepairNext

(* A loop keeps the body of the text it was given.                         *)
KeptInv(T) == RepairInv /\ loop.text \in Seq(Seq(T)) /\ BodyIsKept

(* A step that sets no repaired text needs only that its text has lines.   *)
LEMMA KeptStep ==
  ASSUME NEW T, KeptInv(T), RepairInv', loop'.text \in Seq(Seq(T)),
         loop'.repaired = NoText \/ loop' = loop
  PROVE  KeptInv(T)'
  BY DEF KeptInv, BodyIsKept

LEMMA AgainKeeps ==
  ASSUME RepairInv, loop' = Again(loop)
  PROVE  loop'.text = loop.text /\ loop'.repaired = loop.repaired
<1>1. DOMAIN loop = LoopFields
  BY DEF RepairInv
<1> QED
  BY <1>1 DEF Again, LoopFields

LEMMA RepairKeeps ==
  ASSUME NEW T, Closers \subseteq T, KeptInv(T), AutoRepair, RepairInv'
  PROVE  KeptInv(T)'
<1>1. RepairInv /\ DOMAIN loop = LoopFields /\ loop.text \in Seq(Seq(T))
  BY DEF KeptInv, RepairInv
<1>2. PICK text : text = Repaired(loop.text)
  OBVIOUS
<1>3. text \in Seq(Seq(T)) /\ Body(text) = Body(loop.text)
  BY <1>1, <1>2, RepairedKeeps
<1>4. /\ loop' = (IF text # loop.text /\ Passes(text)
                  THEN [loop EXCEPT !.at = "end", !.passed = TRUE, !.repaired = text] ELSE Again(loop))
      /\ loop.at = "repaired"
  BY <1>2 DEF AutoRepair
<1>5. CASE text # loop.text /\ Passes(text)
  <2>1. loop'.text = loop.text /\ loop'.repaired = text
    BY <1>1, <1>4, <1>5 DEF LoopFields
  <2> QED
    BY <1>1, <1>3, <2>1 DEF KeptInv, BodyIsKept
<1>6. CASE ~(text # loop.text /\ Passes(text))
  <2>1. loop'.text = loop.text /\ loop'.repaired = loop.repaired
    BY <1>1, <1>4, <1>6, AgainKeeps
  <2>2. loop.repaired = NoText
    BY <1>1, <1>4 DEF RepairInv
  <2> QED
    BY <1>1, <2>1, <2>2, KeptStep
<1> QED
  BY <1>5, <1>6

LEMMA KeptInvNext ==
  ASSUME NEW T, Closers \subseteq T, Candidates \subseteq Seq(Seq(T)), KeptInv(T), [RepairNext]_rvars
  PROVE  KeptInv(T)'
<1>1. RepairInv /\ DOMAIN loop = LoopFields /\ loop.text \in Seq(Seq(T)) /\ (loop.at # "end" => loop.repaired = NoText)
  BY DEF KeptInv, RepairInv
<1>2. RepairInv'
  BY <1>1, RepairInvNext
<1>3. CASE UNCHANGED loop
  BY <1>1, <1>2, <1>3, KeptStep
<1>4. CASE \E f \in LoopFiles : \E text \in Candidates : BeginRepair(f, text)
  <2>1. PICK f \in LoopFiles, text \in Candidates : BeginRepair(f, text)
    BY <1>4
  <2>2. loop'.text = text /\ loop'.repaired = NoText
    BY <2>1 DEF BeginRepair, IdleLoop
  <2> QED
    BY <1>2, <2>2, KeptStep
<1>5. CASE Validate
  <2>1. loop'.text = loop.text /\ loop'.repaired = loop.repaired /\ loop.at = "validate"
    BY <1>1, <1>5 DEF Validate, LoopFields
  <2> QED
    BY <1>1, <1>2, <2>1, KeptStep
<1>6. CASE Revalidate
  <2>1. loop.at = "repair" /\ loop' = (IF Passes(loop.text) THEN Again(loop) ELSE [loop EXCEPT !.at = "repaired"])
    BY <1>6 DEF Revalidate
  <2>2. loop'.text = loop.text /\ loop'.repaired = loop.repaired
    <3>1. CASE Passes(loop.text)
      BY <1>1, <2>1, <3>1, AgainKeeps
    <3>2. CASE ~Passes(loop.text)
      BY <1>1, <2>1, <3>2 DEF LoopFields
    <3> QED
      BY <3>1, <3>2
  <2> QED
    BY <1>1, <1>2, <2>1, <2>2, KeptStep
<1>7. CASE AutoRepair
  BY <1>2, <1>7, RepairKeeps
<1>8. CASE Return
  <2>1. loop'.text = <<>> /\ loop'.repaired = NoText
    BY <1>8 DEF Return, IdleLoop, NoText
  <2>2. <<>> \in Seq(Seq(T))
    OBVIOUS
  <2> QED
    BY <1>2, <2>1, <2>2, KeptStep
<1> QED
  BY <1>3, <1>4, <1>5, <1>6, <1>7, <1>8 DEF RepairNext, NativeWriteFails, ResetCounts, DiskChanges, rvars

LEMMA InitKeptInv ==
  ASSUME NEW T, RepairInit
  PROVE  KeptInv(T)
<1>1. loop.text = <<>> /\ loop.repaired = NoText
  BY DEF RepairInit, IdleLoop, NoText
<1>2. <<>> \in Seq(Seq(T))
  OBVIOUS
<1> QED
  BY <1>1, <1>2, InitRepairInv DEF KeptInv, BodyIsKept

(* For any texts that are lines of tokens, whatever the tokens, and any    *)
(* limits and changes of the disk: what a loop hands back has passed every *)
(* check of a text and differs from the text it was given only in layout   *)
(* and in the closers at its end, and while the disk stays as it is a loop *)
(* passes in its first attempt or not at all.                              *)
THEOREM OnceOrNever ==
  ASSUME NEW Tokens, Candidates \subseteq Seq(Seq(Tokens))
  PROVE  RepairInit /\ [][RepairNext]_rvars => []RepairIsSafe
<1> DEFINE T == Tokens \cup Closers
<1>1. Closers \subseteq T /\ Candidates \subseteq Seq(Seq(T))
  <2>1. Seq(Tokens) \subseteq Seq(T)
    BY SeqMonotonic
  <2>2. Seq(Seq(Tokens)) \subseteq Seq(Seq(T))
    BY <2>1, SeqMonotonic
  <2> QED
    BY <2>2
<1> HIDE DEF T
<1>2. RepairInit => KeptInv(T)
  BY InitKeptInv
<1>3. KeptInv(T) /\ [RepairNext]_rvars => KeptInv(T)'
  BY <1>1, KeptInvNext
<1>4. KeptInv(T) => RepairIsSafe
  BY DEF KeptInv, RepairInv, RepairIsSafe
<1> QED
  BY <1>2, <1>3, <1>4, PTL
=============================================================================
