-------------------------- MODULE AuthorityProofs --------------------------
(* What the agent may replace, it was shown: for texts of any length and    *)
(* any number of reads, edits, repairs, sessions and foreign writes.        *)
(* First the operators of the model (sums over blocks, the shared lines of  *)
(* two contents, narrowing, applying hunks), then the invariant SeenInv of  *)
(* the grants, then the invariant Taken of an edit on its way; last, the    *)
(* edits that name lines by their hashes, and where they land.              *)
EXTENDS EditAuthority, Hashline, SequenceTheorems, FiniteSetTheorems, WellFoundedInduction, TLAPS

(* A set of numbers has a least one.                                       *)
LEMMA LeastOf ==
  ASSUME NEW S \in SUBSET Nat, S # {}
  PROVE  \E x \in S : \A y \in S : ~(y < x)
<1> DEFINE R == OpToRel(<, Nat)
<1>1. PICK x \in S : \A y \in S : ~(<<y, x>> \in R)
  <2>1. IsWellFoundedOn(R, Nat)
    BY NatLessThanWellFounded
  <2> HIDE DEF R
  <2> QED
    BY <2>1, WFMin
<1>2. \A y \in S : ~(y < x)
  BY <1>1, Zenon DEF OpToRel
<1> QED
  BY <1>2

-----------------------------------------------------------------------------
(* Sums over finite sets: g adds up the weights w.                         *)
Adds(g, w, T) ==
    /\ g \in [SUBSET T -> Int] /\ g[{}] = 0
    /\ \A s \in SUBSET T : \A x \in s : g[s] = w[x] + g[s \ {x}]

Addable(w, T) == \E g : Adds(g, w, T)

LEMMA OneMore ==
  ASSUME NEW T, NEW x \in T, NEW w, \A y \in T : w[y] \in Int, Addable(w, T \ {x})
  PROVE  Addable(w, T)
<1> DEFINE U == T \ {x}
<1>1. PICK h : Adds(h, w, U)
  BY DEF Addable
<1> DEFINE g == [s \in SUBSET T |-> h[s \ {x}] + (IF x \in s THEN w[x] ELSE 0)]
<1>2. \A s \in SUBSET T : s \ {x} \in SUBSET U
  OBVIOUS
<1>3. \A u \in SUBSET U : h[u] \in Int
  BY <1>1 DEF Adds
<1>4. g \in [SUBSET T -> Int]
  BY <1>2, <1>3
<1>5. g[{}] = 0
  <2>1. {} \in SUBSET T /\ {} \ {x} = {} /\ x \notin {}
    OBVIOUS
  <2>2. h[{}] = 0
    BY <1>1 DEF Adds
  <2> QED
    BY <2>1, <2>2
<1>6. ASSUME NEW s \in SUBSET T, NEW y \in s PROVE g[s] = w[y] + g[s \ {y}]
  <2>1. s \ {y} \in SUBSET T /\ s \ {x} \in SUBSET U /\ w[y] \in Int /\ w[x] \in Int
    OBVIOUS
  <2>2. /\ g[s] = h[s \ {x}] + (IF x \in s THEN w[x] ELSE 0)
        /\ g[s \ {y}] = h[(s \ {y}) \ {x}] + (IF x \in s \ {y} THEN w[x] ELSE 0)
    BY <2>1
  <2>3. CASE y = x
    <3>1. (s \ {y}) \ {x} = s \ {x}
      BY <2>3
    <3>2. h[s \ {x}] \in Int
      BY <1>3, <2>1
    <3>3. x \in s /\ x \notin s \ {y}
      BY <2>3
    <3>4. g[s] = h[s \ {x}] + w[x] /\ g[s \ {y}] = h[s \ {x}] + 0
      BY <2>2, <3>1, <3>3
    <3> HIDE DEF g
    <3> QED
      BY <2>1, <2>3, <3>2, <3>4
  <2>4. CASE y # x
    <3>1. y \in s \ {x} /\ (s \ {y}) \ {x} = (s \ {x}) \ {y}
      BY <2>4
    <3>2. h[s \ {x}] = w[y] + h[(s \ {x}) \ {y}]
      BY <1>1, <2>1, <3>1 DEF Adds
    <3>3. h[(s \ {x}) \ {y}] \in Int
      BY <1>3, <2>1
    <3>4. PICK v \in Int : /\ v = (IF x \in s THEN w[x] ELSE 0)
                           /\ v = (IF x \in s \ {y} THEN w[x] ELSE 0)
      BY <2>1, <2>4
    <3>5. g[s] = h[s \ {x}] + v /\ g[s \ {y}] = h[(s \ {x}) \ {y}] + v
      BY <2>2, <3>1, <3>4
    <3> HIDE DEF g
    <3> QED
      BY <2>1, <3>2, <3>3, <3>4, <3>5
  <2> QED
    BY <2>3, <2>4
<1> HIDE DEF g
<1> QED
  BY <1>4, <1>5, <1>6 DEF Adds, Addable

(* Any weights of the members of a finite set can be added up.             *)
LEMMA AddsUp ==
  ASSUME NEW T, IsFiniteSet(T), NEW w, \A y \in T : w[y] \in Int
  PROVE  Addable(w, T)
<1> DEFINE N == {n \in Nat : \E U \in SUBSET T : IsFiniteSet(U) /\ Cardinality(U) = n /\ ~Addable(w, U)}
<1> SUFFICES ASSUME ~Addable(w, T) PROVE FALSE
  OBVIOUS
<1>1. Cardinality(T) \in Nat
  BY FS_CardinalityType
<1>2. N # {}
  BY <1>1
<1>3. PICK n \in N : \A k \in N : ~(k < n)
  <2> HIDE DEF N
  <2> QED
    BY <1>2, LeastOf DEF N
<1>4. PICK U \in SUBSET T : IsFiniteSet(U) /\ Cardinality(U) = n /\ ~Addable(w, U)
  OBVIOUS
<1>5. CASE U = {}
  <2> DEFINE g == [s \in SUBSET U |-> 0]
  <2>1. Adds(g, w, U)
    BY <1>5 DEF Adds
  <2> QED
    BY <1>4, <2>1 DEF Addable
<1>6. CASE U # {}
  <2>1. PICK x \in U : TRUE
    BY <1>6
  <2>2. IsFiniteSet(U \ {x}) /\ Cardinality(U \ {x}) = n - 1
    BY <1>4, <2>1, FS_RemoveElement
  <2>3. n - 1 \in Nat /\ n - 1 < n
    BY <2>2, FS_CardinalityType
  <2>4. Addable(w, U \ {x})
    BY <1>3, <2>2, <2>3
  <2> QED
    BY <1>4, <2>1, <2>4, OneMore
<1> QED
  BY <1>5, <1>6

(* MapThenSumSet adds up: for weights w and a sum g of theirs it is g.     *)
Iterated(f, w, S) ==
    f = [s \in SUBSET S |-> IF s = {} THEN 0
                            ELSE w[CHOOSE x \in s : TRUE] + f[s \ {CHOOSE x \in s : TRUE}]]

LEMMA IteratedIs ==
  ASSUME NEW S, IsFiniteSet(S), NEW w, NEW g, Adds(g, w, S), NEW f, Iterated(f, w, S)
  PROVE  f[S] = g[S]
<1> DEFINE N == {n \in Nat : \E U \in SUBSET S : IsFiniteSet(U) /\ Cardinality(U) = n /\ f[U] # g[U]}
<1> SUFFICES ASSUME f[S] # g[S] PROVE FALSE
  OBVIOUS
<1>1. Cardinality(S) \in Nat
  BY FS_CardinalityType
<1>2. N # {}
  BY <1>1
<1>3. PICK n \in N : \A k \in N : ~(k < n)
  <2> HIDE DEF N
  <2> QED
    BY <1>2, LeastOf DEF N
<1>4. PICK U \in SUBSET S : IsFiniteSet(U) /\ Cardinality(U) = n /\ f[U] # g[U]
  OBVIOUS
<1>5. PICK c : c = CHOOSE x \in U : TRUE
  OBVIOUS
<1>6. f[U] = IF U = {} THEN 0 ELSE w[c] + f[U \ {c}]
  BY <1>5 DEF Iterated
<1>7. U # {}
  BY <1>4, <1>6 DEF Adds
<1>8. c \in U
  BY <1>5, <1>7
<1>9. IsFiniteSet(U \ {c}) /\ Cardinality(U \ {c}) = n - 1
  BY <1>4, <1>8, FS_RemoveElement
<1>10. n - 1 \in Nat /\ n - 1 < n
  BY <1>9, FS_CardinalityType
<1>11. f[U \ {c}] = g[U \ {c}]
  BY <1>3, <1>9, <1>10
<1>12. g[U] = w[c] + g[U \ {c}]
  BY <1>8 DEF Adds
<1> QED
  BY <1>4, <1>6, <1>7, <1>11, <1>12

LEMMA Restricted ==
  ASSUME NEW T, NEW S \in SUBSET T, NEW w, NEW g, Adds(g, w, T)
  PROVE  Adds([s \in SUBSET S |-> g[s]], w, S)
  BY DEF Adds

(* So the growth of a set of blocks is a sum of theirs.                    *)
Growth(T) == [b \in T |-> b.newLen - b.oldLen]

LEMMA GrowthIs ==
  ASSUME NEW T, NEW S \in SUBSET T, IsFiniteSet(S), NEW g, Adds(g, Growth(T), T)
  PROVE  MapThenSumSet(LAMBDA b : b.newLen - b.oldLen, S) = g[S]
<1> DEFINE w == Growth(T)
           h == [s \in SUBSET S |-> g[s]]
           G(f) == [s \in SUBSET S |-> IF s = {} THEN 0
                        ELSE LET x == CHOOSE x \in s : TRUE IN (x.newLen - x.oldLen) + f[s \ {x}]]
           a == CHOOSE f : f = G(f)
<1>1. MapThenSumSet(LAMBDA b : b.newLen - b.oldLen, S) = a[S]
  BY DEF MapThenSumSet, MapThenFoldSet
<1>2. ASSUME NEW f PROVE f = G(f) <=> Iterated(f, w, S)
  <2>1. ASSUME NEW s \in SUBSET S, s # {}
        PROVE  w[CHOOSE x \in s : TRUE] = (CHOOSE x \in s : TRUE).newLen - (CHOOSE x \in s : TRUE).oldLen
    BY <2>1 DEF Growth
  <2> HIDE DEF w
  <2>2. G(f) = [s \in SUBSET S |-> IF s = {} THEN 0
                            ELSE w[CHOOSE x \in s : TRUE] + f[s \ {CHOOSE x \in s : TRUE}]]
    BY <2>1
  <2> HIDE DEF G
  <2> QED
    BY <2>2 DEF Iterated
<1>3. Adds(h, w, S)
  BY Restricted
<1>4. Iterated(h, w, S)
  <2>1. ASSUME NEW s \in SUBSET S
        PROVE  h[s] = IF s = {} THEN 0 ELSE w[CHOOSE x \in s : TRUE] + h[s \ {CHOOSE x \in s : TRUE}]
    <3>1. PICK c : c = CHOOSE x \in s : TRUE
      OBVIOUS
    <3>2. s # {} => c \in s
      BY <3>1
    <3> HIDE DEF h, w
    <3> QED
      BY <1>3, <3>1, <3>2 DEF Adds
  <2>2. h = [s \in SUBSET S |-> h[s]]
    OBVIOUS
  <2> HIDE DEF h, w
  <2> QED
    BY <2>1, <2>2 DEF Iterated
<1>5. Iterated(a, w, S)
  <2> HIDE DEF G, h, w
  <2>1. h = G(h)
    BY <1>2, <1>4
  <2>2. a = G(a)
    BY <2>1
  <2> HIDE DEF a
  <2> QED
    BY <1>2, <2>2
<1>6. a[S] = h[S]
  <2> HIDE DEF a, h, w, G
  <2> QED
    BY <1>3, <1>5, IteratedIs
<1> QED
  BY <1>1, <1>6

-----------------------------------------------------------------------------
(* The lines two texts share, in pairs of their numbers, and the block     *)
(* behind each pair.                                                       *)
Distinct(s) == \A i, k \in DOMAIN s : s[i] = s[k] => i = k

Ordered(old, new) ==
    \A i, j \in DOMAIN old, k, l \in DOMAIN new :
        old[i] = new[k] /\ old[j] = new[l] /\ i < j => k < l

At(s, l) == CHOOSE i \in DOMAIN s : s[i] = l
Pairs(old, new) ==
    {<<0, 0>>, <<Len(old) + 1, Len(new) + 1>>}
    \cup {<<At(old, l), At(new, l)>> : l \in ToSet(old) \cap ToSet(new)}
Following(P, p) == CHOOSE q \in P : q[1] > p[1] /\ \A r \in P : r[1] > p[1] => q[1] <= r[1]
Block(P, p) ==
    [old |-> p[1] + 1, oldLen |-> Following(P, p)[1] - p[1] - 1,
     new |-> p[2] + 1, newLen |-> Following(P, p)[2] - p[2] - 1]
Between(P, m) == {b \in {Block(P, p) : p \in {q \in P : q[1] <= m}} : b.oldLen + b.newLen > 0}

LEMMA BlocksAre ==
  ASSUME NEW old, NEW new
  PROVE  Blocks(old, new) = Between(Pairs(old, new), Len(old))
  BY DEF Blocks, Between, Block, Following, Pairs, At

(* The pairs of two texts that keep their order go up in both numbers.     *)
Chain(P, m, n) ==
    /\ m \in Nat /\ n \in Nat /\ P \subseteq (0..(m + 1)) \X (0..(n + 1))
    /\ <<0, 0>> \in P /\ <<m + 1, n + 1>> \in P
    /\ \A p, q \in P : p[1] < q[1] <=> p[2] < q[2]

LEMMA PairsChain ==
  ASSUME NEW old \in Seq(Nat), NEW new \in Seq(Nat), Distinct(old), Distinct(new),
         Ordered(old, new)
  PROVE  /\ Chain(Pairs(old, new), Len(old), Len(new))
         /\ \A j \in DOMAIN old, l \in DOMAIN new :
               old[j] = new[l] => <<j, l>> \in Pairs(old, new)
<1> DEFINE m == Len(old)
           n == Len(new)
           P == Pairs(old, new)
           Z == {z \in (1..m) \X (1..n) : old[z[1]] = new[z[2]]}
<1>0. m \in Nat /\ n \in Nat /\ DOMAIN old = 1..m /\ DOMAIN new = 1..n
  OBVIOUS
<1>1. ASSUME NEW j \in 1..m PROVE At(old, old[j]) = j /\ old[j] \in ToSet(old)
  BY <1>0, <1>1 DEF Distinct, At, ToSet
<1>2. ASSUME NEW l \in 1..n PROVE At(new, new[l]) = l /\ new[l] \in ToSet(new)
  BY <1>0, <1>2 DEF Distinct, At, ToSet
<1>3. {<<At(old, l), At(new, l)>> : l \in ToSet(old) \cap ToSet(new)} = Z
  <2>1. ASSUME NEW x \in ToSet(old) \cap ToSet(new) PROVE <<At(old, x), At(new, x)>> \in Z
    <3>1. PICK j \in 1..m, l \in 1..n : x = old[j] /\ x = new[l]
      BY <1>0 DEF ToSet
    <3> QED
      BY <1>1, <1>2, <3>1
  <2>2. ASSUME NEW j \in 1..m, NEW l \in 1..n, old[j] = new[l]
        PROVE  \E x \in ToSet(old) \cap ToSet(new) : <<j, l>> = <<At(old, x), At(new, x)>>
    BY <1>1, <1>2, <2>2
  <2>3. ASSUME NEW z \in Z
        PROVE  z \in {<<At(old, l), At(new, l)>> : l \in ToSet(old) \cap ToSet(new)}
    <3>1. PICK j \in 1..m, l \in 1..n : z = <<j, l>> /\ old[j] = new[l]
      OBVIOUS
    <3> QED
      BY <2>2, <3>1
  <2> HIDE DEF Z
  <2> QED
    BY <2>1, <2>3
<1>4. P = {<<0, 0>>, <<m + 1, n + 1>>} \cup Z
  BY <1>3 DEF Pairs
<1>5. ASSUME NEW p \in Z, NEW q \in Z PROVE p[1] < q[1] => p[2] < q[2]
  BY <1>0 DEF Ordered
<1>6. ASSUME NEW p \in Z, NEW q \in Z, p[2] < q[2] PROVE p[1] < q[1]
  <2>1. p[1] \in Nat /\ q[1] \in Nat /\ p[2] \in Nat /\ q[2] \in Nat
    OBVIOUS
  <2>2. ~(q[1] < p[1])
    <3>1. q[1] < p[1] => q[2] < p[2]
      BY <1>5
    <3> QED
      BY <1>6, <2>1, <3>1
  <2>3. p[1] # q[1]
    <3>1. ASSUME p[1] = q[1] PROVE FALSE
      <4>1. new[p[2]] = new[q[2]] /\ p[2] \in DOMAIN new /\ q[2] \in DOMAIN new
        BY <1>0, <3>1
      <4> QED
        BY <1>6, <2>1, <4>1 DEF Distinct
    <3> QED
      BY <3>1
  <2> QED
    BY <2>1, <2>2, <2>3
<1>7. \A p \in Z : p[1] \in 1..m /\ p[2] \in 1..n
  OBVIOUS
<1>8. ASSUME NEW p \in P, NEW q \in P PROVE p[1] < q[1] <=> p[2] < q[2]
  <2> HIDE DEF Z, P
  <2>1. CASE p \in Z /\ q \in Z
    BY <1>5, <1>6, <2>1
  <2>2. CASE p \notin Z \/ q \notin Z
    BY <1>0, <1>4, <1>7, <2>2
  <2> QED
    BY <2>1, <2>2
<1>9. P \subseteq (0..(m + 1)) \X (0..(n + 1))
  <2>1. Z \subseteq (0..(m + 1)) \X (0..(n + 1))
    BY <1>0
  <2> HIDE DEF Z, P
  <2> QED
    BY <1>0, <1>4, <2>1
<1>10. Chain(P, m, n)
  BY <1>0, <1>4, <1>8, <1>9 DEF Chain
<1> QED
  BY <1>0, <1>4, <1>10

(* Each pair but the last has a next one, each number one before it.       *)
LEMMA NextOne ==
  ASSUME NEW P, NEW m, NEW n, Chain(P, m, n), NEW p \in P, p[1] <= m
  PROVE  LET q == Following(P, p) IN
         /\ q \in P /\ q[1] > p[1] /\ q[2] > p[2]
         /\ \A r \in P : r[1] > p[1] => q[1] <= r[1]
<1> DEFINE N == {k \in Nat : \E r \in P : r[1] = k /\ k > p[1]}
<1>1. \A r \in P : r[1] \in Nat /\ r[2] \in Nat
  BY DEF Chain
<1>2. m + 1 \in N
  <2>1. <<m + 1, n + 1>> \in P /\ m + 1 \in Nat /\ m \in Nat
    BY DEF Chain
  <2> QED
    BY <1>1, <2>1
<1>3. PICK k \in N : \A j \in N : ~(j < k)
  <2> HIDE DEF N
  <2> QED
    BY <1>2, LeastOf DEF N
<1>4. PICK q \in P : q[1] = k /\ k > p[1]
  OBVIOUS
<1>5. \A r \in P : r[1] > p[1] => q[1] <= r[1]
  BY <1>1, <1>3, <1>4
<1>6. /\ Following(P, p) \in P /\ Following(P, p)[1] > p[1]
      /\ \A r \in P : r[1] > p[1] => Following(P, p)[1] <= r[1]
  BY <1>4, <1>5 DEF Following
<1>7. Following(P, p)[2] > p[2]
  BY <1>1, <1>6 DEF Chain
<1> QED
  BY <1>6, <1>7

LEMMA OneBefore ==
  ASSUME NEW P, NEW m, NEW n, Chain(P, m, n), NEW x \in 1..(m + 1)
  PROVE  \E p \in P : /\ p[1] < x /\ p[1] <= m /\ Following(P, p)[1] >= x
                      /\ \A r \in P : r[1] < x => r[1] <= p[1]
<1> DEFINE N == {k \in Nat : \E r \in P : r[1] < x /\ k = x - r[1]}
<1>1. (\A r \in P : r[1] \in Nat) /\ m \in Nat /\ x \in Nat
  BY DEF Chain
<1>2. x \in N
  <2>1. <<0, 0>> \in P
    BY DEF Chain
  <2> QED
    BY <1>1, <2>1
<1>3. PICK k \in N : \A j \in N : ~(j < k)
  <2> HIDE DEF N
  <2> QED
    BY <1>2, LeastOf DEF N
<1>4. PICK p \in P : p[1] < x /\ k = x - p[1]
  OBVIOUS
<1>5. ASSUME NEW r \in P, r[1] < x PROVE r[1] <= p[1]
  <2>1. x - r[1] \in N
    BY <1>1, <1>5
  <2>2. ~(x - r[1] < x - p[1])
    BY <1>3, <1>4, <2>1
  <2> QED
    BY <1>1, <2>2
<1>6. p[1] <= m
  BY <1>1, <1>4
<1>7. Following(P, p) \in P /\ Following(P, p)[1] > p[1]
  BY <1>6, NextOne
<1>8. Following(P, p)[1] >= x
  BY <1>1, <1>4, <1>5, <1>7
<1> QED
  BY <1>4, <1>5, <1>6, <1>8

(* A block and its numbers; the pair it follows tells it.                  *)
LEMMA BlockIs ==
  ASSUME NEW P, NEW m, NEW n, Chain(P, m, n), NEW p \in P, p[1] <= m
  PROVE  LET b == Block(P, p)
             q == Following(P, p) IN
         /\ b.old = p[1] + 1 /\ b.new = p[2] + 1
         /\ b.oldLen = q[1] - p[1] - 1 /\ b.newLen = q[2] - p[2] - 1
         /\ b.old \in Nat /\ b.new \in Nat /\ b.oldLen \in Nat /\ b.newLen \in Nat
         /\ b \in Between(P, m) <=> b.oldLen + b.newLen > 0
<1> DEFINE q == Following(P, p)
<1>1. q \in P /\ q[1] > p[1] /\ q[2] > p[2]
  BY NextOne
<1>2. p[1] \in Nat /\ p[2] \in Nat /\ q[1] \in Nat /\ q[2] \in Nat
  BY <1>1 DEF Chain
<1> HIDE DEF q
<1>3. Block(P, p) = [old |-> p[1] + 1, oldLen |-> q[1] - p[1] - 1,
                     new |-> p[2] + 1, newLen |-> q[2] - p[2] - 1]
  BY DEF Block, q
<1>4. Block(P, p) \in Between(P, m) <=> Block(P, p).oldLen + Block(P, p).newLen > 0
  BY DEF Between
<1> QED
  BY <1>1, <1>2, <1>3, <1>4 DEF q

LEMMA SomeBlock ==
  ASSUME NEW P, NEW m, NEW b \in Between(P, m)
  PROVE  \E p \in P : p[1] <= m /\ b = Block(P, p)
  BY DEF Between

LEMMA SamePair ==
  ASSUME NEW P, NEW m, NEW n, Chain(P, m, n), NEW p \in P, NEW q \in P,
         p[1] = q[1] \/ p[2] = q[2]
  PROVE  p = q
<1>1. p[1] \in Nat /\ q[1] \in Nat /\ p[2] \in Nat /\ q[2] \in Nat
  BY DEF Chain
<1>2. p[1] = q[1] /\ p[2] = q[2]
  BY <1>1 DEF Chain
<1>3. p = <<p[1], p[2]>> /\ q = <<q[1], q[2]>>
  BY DEF Chain
<1> QED
  BY <1>2, <1>3

LEMMA FiniteBlocks ==
  ASSUME NEW P, NEW m, NEW n, Chain(P, m, n)
  PROVE  /\ IsFiniteSet(Between(P, m))
         /\ \A b \in Between(P, m) : Growth(Between(P, m))[b] \in Int
<1> DEFINE B == Between(P, m)
           f == [b \in B |-> b.old]
<1>1. ASSUME NEW b \in B
      PROVE  b.old \in 1..(m + 1) /\ b.newLen \in Nat /\ b.oldLen \in Nat
  <2>1. PICK p \in P : p[1] <= m /\ b = Block(P, p)
    BY SomeBlock
  <2>2. p[1] \in Nat /\ m \in Nat
    BY DEF Chain
  <2> QED
    BY <2>1, <2>2, BlockIs
<1>2. ASSUME NEW b \in B, NEW c \in B, b.old = c.old PROVE b = c
  <2>1. PICK p \in P, q \in P : /\ p[1] <= m /\ b = Block(P, p)
                                /\ q[1] <= m /\ c = Block(P, q)
    BY SomeBlock
  <2>2. p[1] = q[1]
    <3>1. p[1] \in Nat /\ q[1] \in Nat
      BY DEF Chain
    <3> QED
      BY <1>2, <2>1, <3>1, BlockIs
  <2> QED
    BY <2>1, <2>2, SamePair
<1>3. f \in Injection(B, 1..(m + 1))
  <2> HIDE DEF B
  <2> QED
    BY <1>1, <1>2 DEF Injection, IsInjective
<1>4. IsFiniteSet(1..(m + 1))
  BY FS_Interval DEF Chain
<1>5. IsFiniteSet(B)
  BY <1>3, <1>4, FS_Injection
<1>6. \A b \in B : Growth(B)[b] \in Int
  BY <1>1 DEF Growth
<1> QED
  BY <1>5, <1>6

(* The blocks before a shared line shift it to where it is now.            *)
LEMMA Telescope ==
  ASSUME NEW P, NEW m, NEW n, Chain(P, m, n), NEW g,
         Adds(g, Growth(Between(P, m)), Between(P, m)), NEW p \in P
  PROVE  g[{b \in Between(P, m) : b.old <= p[1]}] = p[2] - p[1]
<1> DEFINE B == Between(P, m)
           S(x) == {b \in B : b.old <= x}
           N == {k \in Nat : \E r \in P : r[1] = k /\ g[S(k)] # r[2] - r[1]}
<1>0. \A r \in P : r[1] \in 0..(m + 1) /\ r[2] \in Nat /\ r[1] \in Nat
  BY DEF Chain
<1>1. SUFFICES ASSUME g[S(p[1])] # p[2] - p[1] PROVE FALSE
  OBVIOUS
<1>2. p[1] \in N
  BY <1>0, <1>1
<1>3. PICK k \in N : \A j \in N : ~(j < k)
  <2> HIDE DEF N
  <2> QED
    BY <1>2, LeastOf DEF N
<1>4. PICK q \in P : q[1] = k /\ g[S(q[1])] # q[2] - q[1]
  OBVIOUS
<1>5. ASSUME NEW b \in B PROVE \E s \in P : s[1] <= m /\ b = Block(P, s) /\ b.old = s[1] + 1
  BY SomeBlock, BlockIs
<1>6. CASE q[1] = 0
  <2>1. q = <<0, 0>>
    <3>1. <<0, 0>> \in P
      BY DEF Chain
    <3> QED
      BY <1>6, <3>1, SamePair
  <2>2. S(0) = {}
    BY <1>0, <1>5
  <2>3. g[{}] = 0
    BY DEF Adds
  <2> HIDE DEF S
  <2> QED
    BY <1>4, <2>1, <2>2, <2>3
<1>7. CASE q[1] # 0
  <2>1. q[1] \in 1..(m + 1)
    BY <1>0, <1>7
  <2>2. PICK r \in P : /\ r[1] < q[1] /\ r[1] <= m /\ Following(P, r)[1] >= q[1]
                       /\ \A s \in P : s[1] < q[1] => s[1] <= r[1]
    BY <2>1, OneBefore
  <2>3. Following(P, r) = q
    <3>1. Following(P, r) \in P /\ Following(P, r)[1] <= q[1]
      BY <2>2, NextOne
    <3>2. Following(P, r)[1] = q[1]
      BY <1>0, <2>2, <3>1
    <3> QED
      BY <3>1, <3>2, SamePair
  <2>4. PICK c : c = Block(P, r)
    OBVIOUS
  <2>5. /\ c.old = r[1] + 1 /\ c.oldLen = q[1] - r[1] - 1 /\ c.newLen = q[2] - r[2] - 1
        /\ c.oldLen \in Nat /\ c.newLen \in Nat
        /\ c \in B <=> c.oldLen + c.newLen > 0
    BY <2>2, <2>3, <2>4, BlockIs
  <2>6. g[S(r[1])] = r[2] - r[1]
    BY <1>0, <1>3, <1>4, <2>2
  <2>7. ASSUME NEW b \in B PROVE b.old <= q[1] <=> b.old <= r[1] \/ b = c
    <3>1. PICK s \in P : s[1] <= m /\ b = Block(P, s) /\ b.old = s[1] + 1
      BY <1>5
    <3>2. s[1] = r[1] => b = c
      <4>1. s[1] = r[1] => s = r
        BY SamePair
      <4> QED
        BY <2>4, <3>1, <4>1
    <3>3. s[1] < q[1] => s[1] <= r[1]
      BY <2>2
    <3> QED
      BY <1>0, <2>2, <2>5, <3>1, <3>2, <3>3
  <2>8. c \notin S(r[1])
    BY <1>0, <2>5
  <2>9. CASE c \in B
    <3>1. S(q[1]) \in SUBSET B /\ c \in S(q[1]) /\ S(q[1]) \ {c} = S(r[1])
      BY <2>7, <2>8, <2>9
    <3>2. Growth(B)[c] = c.newLen - c.oldLen
      BY <2>9 DEF Growth
    <3> HIDE DEF S, B
    <3>3. g[S(q[1])] = Growth(B)[c] + g[S(r[1])]
      BY <3>1 DEF Adds, B
    <3> QED
      BY <1>0, <1>4, <2>5, <2>6, <3>2, <3>3
  <2>10. CASE c \notin B
    <3>1. S(q[1]) = S(r[1])
      BY <2>7, <2>10
    <3>2. c.oldLen = 0 /\ c.newLen = 0
      <4>1. PICK i \in Nat, j \in Nat : i = c.oldLen /\ j = c.newLen /\ ~(i + j > 0)
        BY <2>5, <2>10
      <4> QED
        BY <4>1
    <3>3. q[1] - r[1] - 1 = 0 /\ q[2] - r[2] - 1 = 0
      BY <2>5, <3>2
    <3> HIDE DEF S, B
    <3>4. q[2] - q[1] = r[2] - r[1]
      BY <1>0, <3>3
    <3> QED
      BY <1>4, <2>6, <3>1, <3>4
  <2> QED
    BY <2>9, <2>10
<1> QED
  BY <1>6, <1>7

(* Where a line the texts share went; and one that was replaced.           *)
LEMMA MovedLine ==
  ASSUME NEW P, NEW m, NEW n, Chain(P, m, n), NEW p \in P, p[1] \in 1..m, NEW e \in BOOLEAN
  PROVE  MapPoint(Between(P, m), p[1], e) = p[2]
<1> DEFINE B == Between(P, m)
           x == p[1]
           passed == {b \in B : IF b.oldLen > 0 THEN x >= b.old + b.oldLen ELSE x >= b.old}
           hit == {b \in B : x \in b.old..(b.old + b.oldLen - 1)}
<1>0. \A r \in P : r[1] \in Nat /\ r[2] \in Nat
  BY DEF Chain
<1>1. ASSUME NEW b \in B
      PROVE  /\ x \notin b.old..(b.old + b.oldLen - 1)
             /\ (IF b.oldLen > 0 THEN x >= b.old + b.oldLen ELSE x >= b.old) <=> b.old <= x
  <2>1. PICK s \in P : s[1] <= m /\ b = Block(P, s)
    BY SomeBlock
  <2>2. PICK q \in P : q = Following(P, s) /\ q[1] > s[1] /\ \A r \in P : r[1] > s[1] => q[1] <= r[1]
    BY <2>1, NextOne
  <2>3. b.old = s[1] + 1 /\ b.oldLen = q[1] - s[1] - 1
    BY <2>1, <2>2, BlockIs
  <2>4. x > s[1] => q[1] <= x
    BY <2>2
  <2> QED
    BY <1>0, <2>2, <2>3, <2>4
<1>2. hit = {} /\ passed = {b \in B : b.old <= x}
  BY <1>1
<1>3. PICK g : Adds(g, Growth(B), B)
  BY FiniteBlocks, AddsUp DEF Addable
<1>4. passed \in SUBSET B /\ IsFiniteSet(passed)
  BY FiniteBlocks, FS_Subset
<1>5. MapThenSumSet(LAMBDA b : b.newLen - b.oldLen, passed) = g[passed]
  <2> HIDE DEF passed, B
  <2> QED
    BY <1>3, <1>4, GrowthIs
<1>6. g[passed] = p[2] - x
  BY <1>2, <1>3, Telescope
<1>7. MapPoint(B, x, e) = x + MapThenSumSet(LAMBDA b : b.newLen - b.oldLen, passed)
  BY <1>2 DEF MapPoint
<1>8. MapPoint(B, x, e) = x + (p[2] - x)
  <2> HIDE DEF passed, B
  <2> QED
    BY <1>5, <1>6, <1>7
<1>9. x + (p[2] - x) = p[2]
  BY <1>0
<1> QED
  BY <1>8, <1>9

LEMMA ReplacedLine ==
  ASSUME NEW P, NEW m, NEW n, Chain(P, m, n), NEW x \in 1..m, \A p \in P : p[1] # x
  PROVE  \E p \in P : /\ p[1] < x /\ p[1] <= m /\ Following(P, p)[1] > x
                      /\ MapPoint(Between(P, m), x, FALSE) = p[2] + 1
                      /\ MapPoint(Between(P, m), x, TRUE) = Following(P, p)[2] - 1
<1> DEFINE B == Between(P, m)
           hit == {b \in B : x \in b.old..(b.old + b.oldLen - 1)}
<1>0. (\A r \in P : r[1] \in Nat /\ r[2] \in Nat) /\ x \in 1..(m + 1)
  BY DEF Chain
<1>1. PICK p \in P : /\ p[1] < x /\ p[1] <= m /\ Following(P, p)[1] >= x
                     /\ \A r \in P : r[1] < x => r[1] <= p[1]
  BY <1>0, OneBefore
<1>2. PICK q \in P : q = Following(P, p) /\ q[1] > x /\ q[2] > p[2]
  BY <1>0, <1>1, NextOne
<1>3. PICK c : c = Block(P, p)
  OBVIOUS
<1>4. /\ c.old = p[1] + 1 /\ c.oldLen = q[1] - p[1] - 1 /\ c.new = p[2] + 1
      /\ c.newLen = q[2] - p[2] - 1 /\ c.oldLen \in Nat /\ c.newLen \in Nat
      /\ c \in B <=> c.oldLen + c.newLen > 0
  BY <1>1, <1>2, <1>3, BlockIs
<1>5. c \in hit
  <2>1. c.oldLen > 0
    BY <1>0, <1>1, <1>2, <1>4
  <2>2. c \in B
    BY <1>4, <2>1
  <2>3. x \in c.old..(c.old + c.oldLen - 1)
    BY <1>0, <1>1, <1>2, <1>4
  <2> QED
    BY <2>2, <2>3
<1>6. ASSUME NEW b \in hit PROVE b = c
  <2>1. PICK s \in P : s[1] <= m /\ b = Block(P, s)
    BY SomeBlock
  <2>2. PICK r \in P : r = Following(P, s) /\ r[1] > s[1] /\ \A y \in P : y[1] > s[1] => r[1] <= y[1]
    BY <2>1, NextOne
  <2>3. b.old = s[1] + 1 /\ b.oldLen = r[1] - s[1] - 1
    BY <2>1, <2>2, BlockIs
  <2>4. s[1] < x /\ x < r[1]
    BY <1>0, <2>2, <2>3
  <2>5. s[1] <= p[1]
    BY <1>1, <2>4
  <2>6. ~(s[1] < p[1])
    BY <1>0, <1>1, <2>2, <2>4
  <2>7. s[1] = p[1]
    BY <1>0, <2>5, <2>6
  <2>8. s = p
    BY <2>7, SamePair
  <2> QED
    BY <1>3, <2>1, <2>8
<1>7. hit = {c}
  BY <1>5, <1>6
<1>8. ASSUME NEW e \in BOOLEAN
      PROVE  MapPoint(B, x, e) = IF e THEN c.new + c.newLen - 1 ELSE c.new
  <2>1. hit # {} /\ (CHOOSE b \in hit : TRUE) = c
    BY <1>7
  <2>2. MapPoint(B, x, e) = LET b == CHOOSE b \in hit : TRUE
                            IN IF e THEN b.new + b.newLen - 1 ELSE b.new
    BY <2>1, Zenon DEF MapPoint
  <2> HIDE DEF hit, B
  <2> QED
    BY <2>1, <2>2
<1>9. c.new + c.newLen - 1 = q[2] - 1
  BY <1>0, <1>4
<1> QED
  BY <1>1, <1>2, <1>4, <1>8, <1>9

(* So what stood before a line stands before its image, and what stood     *)
(* behind it behind.                                                       *)
LEMMA KeepsSides ==
  ASSUME NEW P, NEW m, NEW n, Chain(P, m, n), NEW x \in 1..m, NEW p \in P
  PROVE  /\ MapPoint(Between(P, m), x, FALSE) \in Int /\ MapPoint(Between(P, m), x, TRUE) \in Int
         /\ p[1] < x => p[2] < MapPoint(Between(P, m), x, FALSE)
         /\ p[1] > x => p[2] > MapPoint(Between(P, m), x, TRUE)
<1>0. \A r \in P : r[1] \in Nat /\ r[2] \in Nat
  BY DEF Chain
<1>a. PICK a, z : /\ a = MapPoint(Between(P, m), x, FALSE)
                  /\ z = MapPoint(Between(P, m), x, TRUE)
  OBVIOUS
<1> SUFFICES /\ a \in Int /\ z \in Int
             /\ p[1] < x => p[2] < a
             /\ p[1] > x => p[2] > z
  BY <1>a
<1>1. CASE \E q \in P : q[1] = x
  <2>1. PICK q \in P : q[1] = x
    BY <1>1
  <2>2. a = q[2] /\ z = q[2]
    BY <1>a, <2>1, MovedLine
  <2>3. (p[1] < q[1] <=> p[2] < q[2]) /\ (q[1] < p[1] <=> q[2] < p[2])
    BY DEF Chain
  <2> QED
    BY <1>0, <2>1, <2>2, <2>3
<1>2. CASE \A q \in P : q[1] # x
  <2>1. PICK r \in P : /\ r[1] < x /\ r[1] <= m /\ Following(P, r)[1] > x
                       /\ a = r[2] + 1 /\ z = Following(P, r)[2] - 1
    BY <1>a, <1>2, ReplacedLine
  <2>2. PICK q \in P : /\ q = Following(P, r) /\ \A y \in P : y[1] > r[1] => q[1] <= y[1]
    BY <2>1, NextOne
  <2>3. p[1] < x => p[1] <= r[1]
    <3>1. p[1] > r[1] => q[1] <= p[1]
      BY <2>2
    <3> QED
      BY <1>0, <2>1, <2>2, <3>1
  <2>4. p[1] > x => p[1] >= q[1]
    BY <1>0, <2>1, <2>2
  <2>5. /\ p[1] < r[1] <=> p[2] < r[2]
        /\ r[1] < p[1] <=> r[2] < p[2]
        /\ p[1] < q[1] <=> p[2] < q[2]
    BY DEF Chain
  <2> QED
    BY <1>0, <2>1, <2>2, <2>3, <2>4, <2>5
<1> QED
  BY <1>1, <1>2

(* What is in a block of the new text is in no pair.                       *)
LEMMA NewInBlock ==
  ASSUME NEW P, NEW m, NEW n, Chain(P, m, n), NEW b \in Between(P, m),
         NEW p \in P
  PROVE  p[2] \notin b.new..(b.new + b.newLen - 1)
<1>0. \A r \in P : r[1] \in Nat /\ r[2] \in Nat
  BY DEF Chain
<1>1. PICK s \in P : s[1] <= m /\ b = Block(P, s)
  BY SomeBlock
<1>2. PICK q \in P : q = Following(P, s) /\ q[1] > s[1] /\ \A y \in P : y[1] > s[1] => q[1] <= y[1]
  BY <1>1, NextOne
<1>3. b.new = s[2] + 1 /\ b.newLen = q[2] - s[2] - 1
  BY <1>1, <1>2, BlockIs
<1>4. (s[1] < p[1] <=> s[2] < p[2]) /\ (p[1] < q[1] <=> p[2] < q[2])
  BY DEF Chain
<1> QED
  BY <1>0, <1>2, <1>3, <1>4

-----------------------------------------------------------------------------
(* Ranges: the greater and the lesser of two numbers, and what a merge     *)
(* covers.                                                                 *)
LEMMA TwoNumbers ==
  ASSUME NEW a \in Int, NEW b \in Int
  PROVE  /\ Max({a, b}) \in {a, b} /\ Max({a, b}) >= a /\ Max({a, b}) >= b
         /\ Min({a, b}) \in {a, b} /\ Min({a, b}) <= a /\ Min({a, b}) <= b
<1>1. \E x \in {a, b} : \A y \in {a, b} : x >= y
  OBVIOUS
<1>2. \E x \in {a, b} : \A y \in {a, b} : x <= y
  OBVIOUS
<1> QED
  BY <1>1, <1>2 DEF Max, Min

LEMMA MergeCovers ==
  ASSUME NEW R, NEW r \in Merge(R)
  PROVE  /\ r[1] \in Spans(R) /\ r[2] \in Spans(R) /\ r = <<r[1], r[2]>>
         /\ \A l \in Span(r) : l \in Spans(R)
  BY DEF Merge

(* What narrowing leaves is in the new text, and stands for nothing but    *)
(* lines of the prior ranges and lines that are new.                       *)
LEMMA NarrowedIs ==
  ASSUME NEW P, NEW m, NEW n, Chain(P, m, n), NEW R, R \subseteq (1..m) \X (1..m), NEW k \in Nat
  PROVE  /\ Narrowed(R, Between(P, m), k) \subseteq (1..k) \X (1..k)
         /\ \A l \in Spans(Narrowed(R, Between(P, m), k)) : \A p \in P :
               p[2] = l => \E r \in R : p[1] \in Span(r)
<1> DEFINE B == Between(P, m)
           moved == {<<MapPoint(B, r[1], FALSE), MapPoint(B, r[2], TRUE)>> : r \in R}
           changed == {<<b.new, b.new + b.newLen - 1>> : b \in {c \in B : c.newLen > 0}}
           inside == {r \in moved \cup changed : r[1] <= r[2] /\ r[2] >= 1 /\ r[1] <= k}
           W == {<<Max({1, r[1]}), Min({k, r[2]})>> : r \in inside}
<1>0. \A p \in P : p[1] \in Nat /\ p[2] \in Nat
  BY DEF Chain
<1>1. Narrowed(R, B, k) = Merge(W)
  BY DEF Narrowed
<1>2. ASSUME NEW r \in R
      PROVE  /\ r[1] \in 1..m /\ r[2] \in 1..m /\ r[1] \in Nat /\ r[2] \in Nat
             /\ MapPoint(B, r[1], FALSE) \in Int /\ MapPoint(B, r[2], TRUE) \in Int
  <2>1. r[1] \in 1..m /\ r[2] \in 1..m /\ r[1] \in Nat /\ r[2] \in Nat
    OBVIOUS
  <2>2. <<0, 0>> \in P
    BY DEF Chain
  <2> HIDE DEF B
  <2> QED
    BY <2>1, <2>2, KeepsSides DEF B
<1>3. ASSUME NEW b \in B PROVE b.new \in Nat /\ b.newLen \in Nat
  BY SomeBlock, BlockIs
<1> HIDE DEF B
<1>4. ASSUME NEW s \in moved \cup changed PROVE s[1] \in Int /\ s[2] \in Int
  <2>1. CASE s \in moved
    <3>1. PICK r \in R : s = <<MapPoint(B, r[1], FALSE), MapPoint(B, r[2], TRUE)>>
      BY <2>1
    <3> QED
      BY <1>2, <3>1
  <2>2. CASE s \in changed
    <3>1. PICK b \in B : s = <<b.new, b.new + b.newLen - 1>>
      BY <2>2
    <3>2. PICK i \in Nat, j \in Nat : b.new = i /\ b.newLen = j
      BY <1>3
    <3> QED
      BY <3>1, <3>2
  <2> QED
    BY <2>1, <2>2
<1>5. ASSUME NEW l \in Spans(W)
      PROVE  \E s \in moved \cup changed : /\ l \in Int /\ 1 <= l /\ l <= k
                                           /\ s[1] <= l /\ l <= s[2]
  <2>1. PICK w \in W : l \in Span(w)
    BY DEF Spans
  <2>2. PICK s \in inside : w = <<Max({1, s[1]}), Min({k, s[2]})>>
    BY <2>1
  <2>3. PICK a \in Int, b \in Int : a = s[1] /\ b = s[2]
    BY <1>4, <2>2
  <2>4. /\ Max({1, a}) \in Int /\ Max({1, a}) >= 1 /\ Max({1, a}) >= a
        /\ Min({k, b}) \in Int /\ Min({k, b}) <= k /\ Min({k, b}) <= b
    <3>1. 1 \in Int /\ k \in Int
      BY <1>0
    <3>2. /\ Max({1, a}) \in {1, a} /\ Max({1, a}) >= 1 /\ Max({1, a}) >= a
          /\ Min({k, b}) \in {k, b} /\ Min({k, b}) <= k /\ Min({k, b}) <= b
      BY <3>1, TwoNumbers
    <3> QED
      BY <3>1, <3>2
  <2>5. l \in Max({1, a})..Min({k, b})
    BY <2>1, <2>2, <2>3 DEF Span
  <2>6. l \in Int /\ 1 <= l /\ l <= k /\ a <= l /\ l <= b
    BY <1>0, <2>4, <2>5
  <2> QED
    BY <2>2, <2>3, <2>6
<1>6. ASSUME NEW l \in Spans(W), NEW p \in P, p[2] = l
      PROVE  \E r \in R : p[1] \in Span(r)
  <2>1. PICK s \in moved \cup changed : l \in Int /\ s[1] <= l /\ l <= s[2]
    BY <1>5
  <2>2. CASE s \in moved
    <3>1. PICK r \in R : s = <<MapPoint(B, r[1], FALSE), MapPoint(B, r[2], TRUE)>>
      BY <2>2
    <3>2. /\ p[1] < r[1] => p[2] < s[1]
          /\ p[1] > r[2] => p[2] > s[2]
      BY <1>2, <3>1, KeepsSides DEF B
    <3>3. p[1] \in r[1]..r[2]
      <4>1. PICK i \in Nat, j \in Nat, u \in Int, v \in Int, x \in Nat, y \in Nat :
               i = r[1] /\ j = r[2] /\ u = s[1] /\ v = s[2] /\ x = p[1] /\ y = p[2]
        BY <1>0, <1>2, <1>4, <2>2
      <4>2. (x < i => y < u) /\ (x > j => y > v) /\ u <= y /\ y <= v
        BY <1>6, <2>1, <3>2, <4>1
      <4>3. x \in i..j
        BY <4>2
      <4> QED
        BY <4>1, <4>3
    <3> QED
      BY <3>3 DEF Span
  <2>3. CASE s \in changed
    <3>1. PICK b \in B : s = <<b.new, b.new + b.newLen - 1>>
      BY <2>3
    <3>2. l \in b.new..(b.new + b.newLen - 1)
      BY <1>3, <2>1, <3>1
    <3> QED
      BY <1>6, <3>2, NewInBlock DEF B
  <2> QED
    BY <2>1, <2>2, <2>3
<1>7. ASSUME NEW q \in Merge(W) PROVE q \in (1..k) \X (1..k)
  <2>1. q[1] \in Spans(W) /\ q[2] \in Spans(W) /\ q = <<q[1], q[2]>>
    BY MergeCovers
  <2>2. \A l \in Spans(W) : l \in 1..k
    <3> HIDE DEF W, moved, changed
    <3>1. ASSUME NEW l \in Spans(W) PROVE l \in 1..k
      <4>1. l \in Int /\ 1 <= l /\ l <= k
        BY <1>5
      <4> QED
        BY <1>0, <4>1
    <3> QED
      BY <3>1
  <2> QED
    BY <2>1, <2>2
<1>8. ASSUME NEW l \in Spans(Merge(W)) PROVE l \in Spans(W)
  <2>1. PICK q \in Merge(W) : l \in Span(q)
    BY DEF Spans
  <2> QED
    BY <2>1, MergeCovers
<1> HIDE DEF W
<1> QED
  BY <1>1, <1>6, <1>7, <1>8 DEF B

-----------------------------------------------------------------------------
(* Texts: no line twice, and no number above those given out.              *)
Fits(s, k) == s \in Seq(Nat) /\ Distinct(s) /\ \A i \in DOMAIN s : s[i] <= k

(* `len` lines of t from line `a` on replaced by `new`.                    *)
Put(t, a, len, new) == SubSeq(t, 1, a - 1) \o new \o SubSeq(t, a + len, Len(t))

Placed(u, t, a, len, new, n, m, c) ==
    /\ n \in Nat /\ c \in Nat /\ m \in Nat /\ m = n - len + c
    /\ a \in Nat /\ a >= 1 /\ len \in Nat /\ a + len - 1 <= n
    /\ u \in Seq(Nat) /\ DOMAIN u = 1..m /\ DOMAIN t = 1..n /\ DOMAIN new = 1..c
    /\ Len(u) = m /\ Len(t) = n /\ Len(new) = c
    /\ \A x \in 1..m :
          /\ x < a => x \in 1..n /\ u[x] = t[x]
          /\ a <= x /\ x < a + c => x - a + 1 \in 1..c /\ u[x] = new[x - a + 1]
          /\ x >= a + c => x - c + len \in 1..n /\ u[x] = t[x - c + len]

LEMMA PutIs ==
  ASSUME NEW t \in Seq(Nat), NEW new \in Seq(Nat), NEW a \in 1..Len(t), NEW len \in Nat,
         a + len - 1 <= Len(t)
  PROVE  \E n, m, c : Placed(Put(t, a, len, new), t, a, len, new, n, m, c)
<1>1. PICK n \in Nat, c \in Nat : n = Len(t) /\ c = Len(new)
  OBVIOUS
<1>u. PICK u : u = Put(t, a, len, new)
  OBVIOUS
<1>2. a \in Nat /\ a >= 1 /\ a <= n /\ len \in Nat /\ a + len - 1 <= n
  BY <1>1
<1>3. \A x \in 1..n : t[x] \in Nat
  BY <1>1
<1>4. PICK left : left = SubSeq(t, 1, a - 1)
  OBVIOUS
<1>5. left \in Seq(Nat) /\ Len(left) = a - 1 /\ \A x \in 1..(a - 1) : left[x] = t[x]
  <2>1. 1 \in Int /\ a - 1 \in Int /\ \A x \in 1..(a - 1) : t[x] \in Nat
    BY <1>2, <1>3
  <2>2. /\ left \in Seq(Nat) /\ Len(left) = IF 1 <= a - 1 THEN a - 1 - 1 + 1 ELSE 0
        /\ \A x \in 1..(a - 1 - 1 + 1) : left[x] = t[1 + x - 1]
    BY <1>4, <2>1, SubSeqProperties
  <2>3. a - 1 - 1 + 1 = a - 1 /\ \A x \in 1..(a - 1) : 1 + x - 1 = x
    BY <1>2
  <2> QED
    BY <1>2, <2>2, <2>3
<1>6. PICK right : right = SubSeq(t, a + len, n)
  OBVIOUS
<1>7. /\ right \in Seq(Nat) /\ Len(right) = n - (a + len) + 1
      /\ \A x \in 1..(n - (a + len) + 1) : right[x] = t[a + len + x - 1]
  <2>1. a + len \in Int /\ n \in Int /\ \A x \in (a + len)..n : t[x] \in Nat
    BY <1>2, <1>3
  <2>2. /\ right \in Seq(Nat) /\ Len(right) = IF a + len <= n THEN n - (a + len) + 1 ELSE 0
        /\ \A x \in 1..(n - (a + len) + 1) : right[x] = t[a + len + x - 1]
    BY <1>6, <2>1, SubSeqProperties
  <2> QED
    BY <1>2, <2>2
<1>8. PICK both : both = left \o new
  OBVIOUS
<1>9. /\ both \in Seq(Nat) /\ Len(both) = a - 1 + c
      /\ \A x \in 1..(a - 1 + c) : both[x] = IF x <= a - 1 THEN left[x] ELSE new[x - (a - 1)]
  BY <1>1, <1>5, <1>8, ConcatProperties
<1>11. u = both \o right
  BY <1>1, <1>4, <1>6, <1>8, <1>u DEF Put
<1>12. /\ u \in Seq(Nat) /\ Len(u) = a - 1 + c + (n - (a + len) + 1)
       /\ \A x \in 1..(a - 1 + c + (n - (a + len) + 1)) :
             u[x] = IF x <= a - 1 + c THEN both[x] ELSE right[x - (a - 1 + c)]
  <2>1. both \in Seq(Nat) /\ right \in Seq(Nat)
    BY <1>7, <1>9
  <2>2. PICK i, j : i = Len(both) /\ j = Len(right)
    OBVIOUS
  <2>3. /\ u \in Seq(Nat) /\ Len(u) = i + j
        /\ \A x \in 1..(i + j) : u[x] = IF x <= i THEN both[x] ELSE right[x - i]
    BY <1>11, <2>1, <2>2, ConcatProperties
  <2>4. i = a - 1 + c /\ j = n - (a + len) + 1
    BY <1>7, <1>9, <2>2
  <2> QED
    BY <2>3, <2>4, Zenon
<1>13. a - 1 + c + (n - (a + len) + 1) = n - len + c
  BY <1>1, <1>2
<1>14. ASSUME NEW x \in 1..(n - len + c), x < a PROVE x \in 1..n /\ u[x] = t[x]
  <2>1. x \in 1..(a - 1) /\ x \in 1..(a - 1 + c) /\ x <= a - 1 /\ x <= a - 1 + c /\ x \in 1..n
    BY <1>1, <1>2, <1>14
  <2>2. u[x] = both[x] /\ both[x] = left[x] /\ left[x] = t[x]
    BY <1>5, <1>9, <1>12, <1>13, <2>1
  <2> QED
    BY <2>1, <2>2
<1>15. ASSUME NEW x \in 1..(n - len + c), a <= x, x < a + c
       PROVE  x - a + 1 \in 1..c /\ u[x] = new[x - a + 1]
  <2>1. /\ x \in 1..(a - 1 + c) /\ ~(x <= a - 1) /\ x <= a - 1 + c
        /\ x - a + 1 \in 1..c /\ x - (a - 1) = x - a + 1
    BY <1>1, <1>2, <1>15
  <2>2. u[x] = both[x] /\ both[x] = new[x - (a - 1)]
    BY <1>9, <1>12, <1>13, <2>1
  <2> QED
    BY <2>1, <2>2
<1>16. ASSUME NEW x \in 1..(n - len + c), x >= a + c
       PROVE  x - c + len \in 1..n /\ u[x] = t[x - c + len]
  <2>1. /\ x - c + len \in 1..n /\ x - (a - 1 + c) \in 1..(n - (a + len) + 1)
        /\ ~(x <= a - 1 + c) /\ a + len + (x - (a - 1 + c)) - 1 = x - c + len
    BY <1>1, <1>2, <1>16
  <2>2. u[x] = right[x - (a - 1 + c)]
    BY <1>12, <1>13, <2>1
  <2>3. right[x - (a - 1 + c)] = t[a + len + (x - (a - 1 + c)) - 1]
    BY <1>7, <2>1
  <2> QED
    BY <2>1, <2>2, <2>3
<1>17. u \in Seq(Nat) /\ Len(u) = n - len + c
  BY <1>12, <1>13
<1>18. DOMAIN u = 1..(n - len + c) /\ DOMAIN t = 1..n /\ DOMAIN new = 1..c
  BY <1>1, <1>17
<1>m. PICK m \in Nat : m = n - len + c
  <2>1. n - len + c \in Nat
    BY <1>1, <1>2
  <2> QED
    BY <2>1
<1>19. Placed(u, t, a, len, new, n, m, c)
  BY <1>1, <1>2, <1>m, <1>14, <1>15, <1>16, <1>17, <1>18 DEF Placed
<1> QED
  BY <1>u, <1>19

(* Where the lines of the result come from.                                *)
From(x, u, t, a, len, new, n, c) ==
    \/ \E z \in 1..c : u[x] = new[z] /\ z = x - a + 1
    \/ \E p \in 1..n : /\ u[x] = t[p]
                       /\ (x < a /\ p = x) \/ (x >= a + c /\ p = x - c + len)

LEMMA PutFrom ==
  ASSUME NEW u, NEW t, NEW a, NEW len, NEW new, NEW n, NEW m, NEW c,
         Placed(u, t, a, len, new, n, m, c), NEW x \in 1..m
  PROVE  From(x, u, t, a, len, new, n, c)
<1>1. n \in Nat /\ c \in Nat /\ a \in Nat /\ m \in Nat /\ x \in Nat
  BY DEF Placed
<1>3. /\ x < a => x \in 1..n /\ u[x] = t[x]
      /\ a <= x /\ x < a + c => x - a + 1 \in 1..c /\ u[x] = new[x - a + 1]
      /\ x >= a + c => x - c + len \in 1..n /\ u[x] = t[x - c + len]
  BY DEF Placed
<1>4. x < a \/ (a <= x /\ x < a + c) \/ x >= a + c
  BY <1>1
<1> QED
  BY <1>3, <1>4, Zenon DEF From

LEMMA Shifted ==
  ASSUME NEW a \in Nat, NEW len \in Nat, NEW c \in Nat, NEW x \in Nat, NEW y \in Nat,
         NEW p \in Nat, NEW q \in Nat,
         (x < a /\ p = x) \/ (x >= a + c /\ p = x - c + len),
         (y < a /\ q = y) \/ (y >= a + c /\ q = y - c + len)
  PROVE  (p < q => x < y) /\ (p = q => x = y)
  OBVIOUS

(* Replacing lines by new ones keeps what the texts shared in order.       *)
LEMMA PutKeeps ==
  ASSUME NEW k \in Nat, NEW K \in Nat, k <= K, NEW t, Fits(t, k), NEW base \in Seq(Nat),
         Ordered(base, t), NEW a \in 1..Len(t), NEW len \in Nat, a + len - 1 <= Len(t),
         NEW new, Fits(new, K),
         \A z \in DOMAIN new : new[z] \notin ToSet(t) /\ new[z] \notin ToSet(base)
  PROVE  Fits(Put(t, a, len, new), K) /\ Ordered(base, Put(t, a, len, new))
<1>1. PICK u : u = Put(t, a, len, new)
  OBVIOUS
<1>3. t \in Seq(Nat) /\ new \in Seq(Nat)
  BY DEF Fits
<1>2. PICK n, m, c : Placed(u, t, a, len, new, n, m, c)
  BY <1>1, <1>3, PutIs
<1>4. /\ n \in Nat /\ c \in Nat /\ a \in Nat /\ a >= 1 /\ a + len - 1 <= n
      /\ u \in Seq(Nat) /\ m \in Nat /\ m = n - len + c
  BY <1>2 DEF Placed
<1>5. DOMAIN u = 1..m /\ DOMAIN t = 1..n /\ DOMAIN new = 1..c
  BY <1>2 DEF Placed
<1>6. ASSUME NEW x \in 1..m
      PROVE  \/ \E z \in 1..c : u[x] = new[z] /\ z = x - a + 1
             \/ \E p \in 1..n : /\ u[x] = t[p]
                                /\ (x < a /\ p = x) \/ (x >= a + c /\ p = x - c + len)
  <2>1. From(x, u, t, a, len, new, n, c)
    BY <1>2, PutFrom, Zenon
  <2> QED
    BY <2>1 DEF From
<1>7. ASSUME NEW z \in 1..c, NEW p \in 1..n PROVE new[z] # t[p]
  BY <1>5 DEF ToSet
<1>8. ASSUME NEW z \in 1..c, NEW i \in DOMAIN base PROVE new[z] # base[i]
  BY <1>5 DEF ToSet
<1>9. ASSUME NEW x \in 1..m, NEW y \in 1..m, u[x] = u[y] PROVE x = y
  <2>1. CASE \E z \in 1..c : u[x] = new[z] /\ z = x - a + 1
    <3>1. PICK z \in 1..c : u[x] = new[z] /\ z = x - a + 1
      BY <2>1
    <3>2. PICK w \in 1..c : u[y] = new[w] /\ w = y - a + 1
      BY <1>6, <1>7, <1>9, <3>1
    <3>3. z = w
      BY <1>5, <1>9, <3>1, <3>2 DEF Fits, Distinct
    <3>4. x \in Nat /\ y \in Nat /\ a \in Nat
      BY <1>4
    <3>5. x - a + 1 = y - a + 1
      BY <3>1, <3>2, <3>3, Zenon
    <3> QED
      BY <3>4, <3>5
  <2>2. CASE ~ \E z \in 1..c : u[x] = new[z] /\ z = x - a + 1
    <3>1. PICK p \in 1..n : /\ u[x] = t[p]
                            /\ (x < a /\ p = x) \/ (x >= a + c /\ p = x - c + len)
      BY <1>6, <2>2
    <3>2. PICK q \in 1..n : /\ u[y] = t[q]
                            /\ (y < a /\ q = y) \/ (y >= a + c /\ q = y - c + len)
      BY <1>6, <1>7, <1>9, <3>1
    <3>3. p = q
      BY <1>5, <1>9, <3>1, <3>2 DEF Fits, Distinct
    <3>4. x \in Nat /\ y \in Nat /\ p \in Nat /\ q \in Nat
      BY <1>4
    <3> QED
      BY <1>4, <3>1, <3>2, <3>3, <3>4, Shifted
  <2> QED
    BY <2>1, <2>2
<1>10. ASSUME NEW x \in 1..m PROVE u[x] <= K
  <2>1. CASE \E z \in 1..c : u[x] = new[z]
    BY <1>5, <2>1 DEF Fits
  <2>2. CASE \E p \in 1..n : u[x] = t[p]
    <3>1. PICK p \in 1..n : u[x] = t[p]
      BY <2>2
    <3>2. p \in DOMAIN t
      BY <1>5, <3>1
    <3>3. t[p] \in Nat
      BY <1>3, <3>2
    <3>4. t[p] <= k
      BY <3>2 DEF Fits
    <3> QED
      BY <3>1, <3>3, <3>4
  <2> QED
    BY <1>6, <2>1, <2>2
<1>11. Fits(u, K)
  BY <1>4, <1>5, <1>9, <1>10 DEF Fits, Distinct
<1>12. ASSUME NEW i \in DOMAIN base, NEW j \in DOMAIN base, NEW x \in 1..m, NEW y \in 1..m,
              base[i] = u[x], base[j] = u[y], i < j
       PROVE  x < y
  <2>1. PICK p \in 1..n : /\ u[x] = t[p]
                          /\ (x < a /\ p = x) \/ (x >= a + c /\ p = x - c + len)
    BY <1>6, <1>8, <1>12
  <2>2. PICK q \in 1..n : /\ u[y] = t[q]
                          /\ (y < a /\ q = y) \/ (y >= a + c /\ q = y - c + len)
    BY <1>6, <1>8, <1>12
  <2>3. p < q
    BY <1>5, <1>12, <2>1, <2>2 DEF Ordered
  <2>4. x \in Nat /\ y \in Nat /\ p \in Nat /\ q \in Nat
    BY <1>4
  <2>5. a \in Nat /\ c \in Nat
    BY <1>4
  <2>7. /\ (x < a /\ p = x) \/ (x >= a + c /\ p = x - c + len)
        /\ (y < a /\ q = y) \/ (y >= a + c /\ q = y - c + len)
    BY <2>1, <2>2, Zenon
  <2>6. p < q => x < y
    BY <2>4, <2>5, <2>7, Shifted
  <2> QED
    BY <2>3, <2>6, Zenon
<1>13. Ordered(base, u)
  BY <1>5, <1>12 DEF Ordered
<1> QED
  BY <1>1, <1>11, <1>13

(* What is lost, what is there, and where.                                 *)
Has(u, t, a, len, new) ==
    /\ DOMAIN u = 1..Len(u) /\ Len(u) = Len(t) - len + Len(new)
    /\ \A i \in DOMAIN t : i \notin a..(a + len - 1) => t[i] \in ToSet(u)
    /\ \A x \in DOMAIN u : x < a => u[x] = t[x]
    /\ \A x \in DOMAIN u : u[x] \in ToSet(t) \/ u[x] \in ToSet(new)
    /\ \A z \in DOMAIN new : u[a + z - 1] = new[z]
    /\ \A i \in DOMAIN t : i >= a + len => u[i - len + Len(new)] = t[i]

LEMMA PutHas ==
  ASSUME NEW t \in Seq(Nat), NEW new \in Seq(Nat), NEW a \in 1..Len(t), NEW len \in Nat,
         a + len - 1 <= Len(t), NEW u, u = Put(t, a, len, new)
  PROVE  Has(u, t, a, len, new)
<1>1. PICK n, m, c : Placed(u, t, a, len, new, n, m, c)
  BY PutIs
<1>2. /\ n \in Nat /\ c \in Nat /\ a \in Nat /\ a >= 1 /\ a + len - 1 <= n
      /\ m \in Nat /\ m = n - len + c /\ len \in Nat /\ n = Len(t) /\ c = Len(new) /\ Len(u) = m
      /\ DOMAIN u = 1..m /\ DOMAIN t = 1..n /\ DOMAIN new = 1..c
  BY <1>1 DEF Placed
<1>3. ASSUME NEW x \in 1..m
      PROVE  \/ \E z \in 1..c : u[x] = new[z] /\ z = x - a + 1
             \/ \E p \in 1..n : /\ u[x] = t[p]
                                /\ (x < a /\ p = x) \/ (x >= a + c /\ p = x - c + len)
  <2>1. From(x, u, t, a, len, new, n, c)
    BY <1>1, PutFrom, Zenon
  <2> QED
    BY <2>1 DEF From
<1>4. ASSUME NEW x \in 1..m
      PROVE  /\ x < a => u[x] = t[x]
             /\ x >= a + c => u[x] = t[x - c + len]
  BY <1>1 DEF Placed
<1>5. ASSUME NEW i \in 1..n, i \notin a..(a + len - 1) PROVE t[i] \in ToSet(u)
  <2>1. CASE i < a
    <3>1. i \in 1..m
      BY <1>2, <2>1
    <3> QED
      BY <1>2, <1>4, <2>1, <3>1 DEF ToSet
  <2>2. CASE i >= a + len
    <3>1. PICK x : x = i + c - len
      OBVIOUS
    <3>2. x \in 1..m /\ x >= a + c /\ x - c + len = i
      BY <1>2, <2>2, <3>1
    <3>3. u[x] = t[i]
      BY <1>4, <3>2
    <3> QED
      BY <1>2, <3>2, <3>3 DEF ToSet
  <2> QED
    BY <1>2, <1>5, <2>1, <2>2
<1>6. ASSUME NEW x \in 1..m PROVE u[x] \in ToSet(t) \/ u[x] \in ToSet(new)
  BY <1>2, <1>3 DEF ToSet
<1>7. ASSUME NEW z \in 1..c PROVE u[a + z - 1] = new[z]
  <2>1. PICK x : x = a + z - 1
    OBVIOUS
  <2>2. x \in 1..m /\ a <= x /\ x < a + c /\ x - a + 1 = z
    BY <1>2, <2>1
  <2>3. u[x] = new[x - a + 1]
    BY <1>1, <2>2 DEF Placed
  <2> QED
    BY <2>1, <2>2, <2>3
<1>8. ASSUME NEW i \in 1..n, i >= a + len PROVE u[i - len + c] = t[i]
  <2>1. PICK x : x = i - len + c
    OBVIOUS
  <2>2. x \in 1..m /\ x >= a + c /\ x - c + len = i
    BY <1>2, <1>8, <2>1
  <2> QED
    BY <1>4, <2>1, <2>2
<1> QED
  BY <1>2, <1>4, <1>5, <1>6, <1>7, <1>8 DEF Has

-----------------------------------------------------------------------------
(* The hunks of an edit, one or two of them.                               *)
LEMMA HunksAre ==
  ASSUME NEW n \in Nat, NEW H \in Hunks(n), Disjoint(H)
  PROVE  /\ H = <<H[1]>> \/ H = <<H[1], H[2]>>
         /\ Len(H) \in {1, 2} /\ DOMAIN H = 1..Len(H)
         /\ \A i \in DOMAIN H : /\ H[i].at \in 1..n /\ H[i].len \in 0..2 /\ H[i].new \in 0..1
                                /\ H[i].at + H[i].len - 1 <= n /\ H[i].len + H[i].new > 0
         /\ Len(H) = 2 => H[1].at + H[1].len < H[2].at
<1>1. ASSUME NEW h \in HunkSet(n)
      PROVE  /\ h.at \in 1..n /\ h.len \in 0..2 /\ h.new \in 0..1
             /\ h.at + h.len - 1 <= n /\ h.len + h.new > 0
  BY DEF HunkSet
<1>2. \/ \E h \in HunkSet(n) : H = <<h>>
      \/ \E h \in HunkSet(n), k \in HunkSet(n) : H = <<h, k>>
  BY DEF Hunks
<1>3. CASE \E h \in HunkSet(n) : H = <<h>>
  <2>1. PICK h \in HunkSet(n) : H = <<h>>
    BY <1>3
  <2>2. H = <<H[1]>> /\ Len(H) = 1 /\ DOMAIN H = 1..1 /\ H[1] = h
    BY <2>1
  <2>3. \A i \in DOMAIN H : H[i] = h
    BY <2>2
  <2> QED
    BY <1>1, <2>2, <2>3
<1>4. CASE \E h \in HunkSet(n), k \in HunkSet(n) : H = <<h, k>>
  <2>1. PICK h \in HunkSet(n), k \in HunkSet(n) : H = <<h, k>>
    BY <1>4
  <2>2. H = <<H[1], H[2]>> /\ Len(H) = 2 /\ DOMAIN H = 1..2 /\ H[1] = h /\ H[2] = k
    BY <2>1
  <2>3. \A i \in DOMAIN H : H[i] = h \/ H[i] = k
    BY <2>2
  <2>4. H[1].at + H[1].len < H[1 + 1].at
    BY <2>2 DEF Disjoint
  <2> QED
    BY <1>1, <2>2, <2>3, <2>4
<1> QED
  BY <1>2, <1>3, <1>4

LEMMA ApplyIs ==
  ASSUME NEW text, NEW H
  PROVE  /\ Len(H) = 1 => Apply(text, H) = Put(text, H[1].at, H[1].len, Fresh(H[1].new))
         /\ Len(H) = 2 =>
              LET total == H[2].new + H[1].new
                  later == SubSeq(Fresh(total), H[1].new + 1, total)
              IN  Apply(text, H) = Put(Put(text, H[2].at, H[2].len, later),
                                       H[1].at, H[1].len, Fresh(H[1].new))
<1>1. ASSUME Len(H) = 1
      PROVE  Apply(text, H) = Put(text, H[1].at, H[1].len, Fresh(H[1].new))
  BY <1>1 DEF Apply, Put
<1>2. ASSUME Len(H) = 2
      PROVE  LET total == H[2].new + H[1].new
                 later == SubSeq(Fresh(total), H[1].new + 1, total)
             IN  Apply(text, H) = Put(Put(text, H[2].at, H[2].len, later),
                                      H[1].at, H[1].len, Fresh(H[1].new))
  <2> DEFINE total == H[Len(H)].new + IF Len(H) = 1 THEN 0 ELSE H[1].new
             later == SubSeq(Fresh(total), H[1].new + 1, total)
  <2>1. ~(Len(H) = 1)
    BY <1>2
  <2>2. Apply(text, H) = Put(Put(text, H[2].at, H[2].len, later), H[1].at, H[1].len, Fresh(H[1].new))
    BY <2>1, Zenon DEF Apply, Put
  <2>3. total = H[2].new + H[1].new
    BY <1>2, <2>1
  <2> HIDE DEF total
  <2> QED
    BY <2>2, <2>3
<1> QED
  BY <1>1, <1>2

(* The numbers of new lines have not been given out.                       *)
LEMMA FreshIs ==
  ASSUME used.lines \in Nat, NEW k \in Nat, NEW j \in 0..k
  PROVE  LET s == SubSeq(Fresh(k), j + 1, k) IN
         /\ Fits(s, used.lines + k) /\ Len(s) = k - j
         /\ \A z \in DOMAIN s : s[z] = used.lines + j + z
<1>1. PICK n \in Nat : n = used.lines
  OBVIOUS
<1>2. PICK f : f = Fresh(k)
  OBVIOUS
<1>3. \A i \in 1..k : f[i] = n + i /\ f[i] \in Nat
  BY <1>1, <1>2 DEF Fresh
<1>4. PICK s : s = SubSeq(f, j + 1, k)
  OBVIOUS
<1>5. /\ s \in Seq(Nat) /\ Len(s) = k - j
      /\ \A z \in 1..(k - j) : s[z] = f[j + z]
  <2>1. j + 1 \in Int /\ k \in Int /\ j \in Int /\ \A i \in (j + 1)..k : f[i] \in Nat
    BY <1>3
  <2>2. /\ s \in Seq(Nat) /\ Len(s) = IF j + 1 <= k THEN k - (j + 1) + 1 ELSE 0
        /\ \A z \in 1..(k - (j + 1) + 1) : s[z] = f[j + 1 + z - 1]
    BY <1>4, <2>1, SubSeqProperties
  <2>3. k - (j + 1) + 1 = k - j /\ \A z \in 1..(k - j) : j + 1 + z - 1 = j + z
    BY <2>1
  <2>4. (IF j + 1 <= k THEN k - j ELSE 0) = k - j
    BY <2>1
  <2> QED
    BY <2>2, <2>3, <2>4
<1>6. DOMAIN s = 1..(k - j)
  BY <1>5
<1>7. ASSUME NEW z \in 1..(k - j) PROVE s[z] = n + j + z /\ s[z] <= n + k
  <2>1. j + z \in 1..k /\ n + (j + z) = n + j + z /\ n + j + z <= n + k
    OBVIOUS
  <2> QED
    BY <1>3, <1>5, <2>1
<1>8. Distinct(s)
  <2>1. \A y, z \in 1..(k - j) : n + j + y = n + j + z => y = z
    OBVIOUS
  <2> QED
    BY <1>6, <1>7, <2>1 DEF Distinct
<1>9. Fits(s, n + k)
  BY <1>5, <1>6, <1>7, <1>8 DEF Fits
<1> QED
  BY <1>1, <1>2, <1>4, <1>5, <1>6, <1>7, <1>9

LEMMA FreshAll ==
  ASSUME used.lines \in Nat, NEW k \in Nat
  PROVE  /\ Fits(Fresh(k), used.lines + k) /\ Len(Fresh(k)) = k
         /\ \A z \in DOMAIN Fresh(k) : Fresh(k)[z] = used.lines + z
<1>1. PICK n \in Nat : n = used.lines
  OBVIOUS
<1>2. PICK s : s = Fresh(k)
  OBVIOUS
<1>3. s = [i \in 1..k |-> n + i]
  BY <1>1, <1>2 DEF Fresh
<1>4. s \in Seq(Nat) /\ Len(s) = k /\ DOMAIN s = 1..k /\ \A z \in 1..k : s[z] = n + z
  BY <1>3
<1>5. Distinct(s) /\ \A z \in 1..k : s[z] <= n + k
  BY <1>4 DEF Distinct
<1>6. Fits(s, n + k)
  BY <1>4, <1>5 DEF Fits
<1> QED
  BY <1>1, <1>2, <1>4, <1>6

(* What an edit makes of a text, when the lines it takes away are in S.    *)
Edited(text, u, K, S, H) ==
    /\ Fits(u, K) /\ Ordered(text, u)
    /\ ToSet(text) \ ToSet(u) \subseteq S
    /\ (\A i \in DOMAIN H : H[i].new = 1) =>
         \A i \in DOMAIN H : u[Postimage(H)[i][1]] \notin ToSet(text)

Replaced(h) == h.at..(h.at + h.len - 1)

LEMMA OneHunk ==
  ASSUME used.lines \in Nat, NEW text, Fits(text, used.lines), NEW S,
         NEW H \in Hunks(Len(text)), Disjoint(H), Len(H) = 1,
         \A j \in Replaced(H[1]) \cap DOMAIN text : text[j] \in S
  PROVE  Edited(text, Apply(text, H), used.lines + NewLines(H), S, H)
<1>1. PICK L \in Nat : L = used.lines
  OBVIOUS
<1>2. text \in Seq(Nat) /\ Len(text) \in Nat /\ DOMAIN text = 1..Len(text)
  BY DEF Fits
<1>3. PICK a, len, c : a = H[1].at /\ len = H[1].len /\ c = H[1].new
  OBVIOUS
<1>4. /\ a \in 1..Len(text) /\ len \in Nat /\ c \in Nat /\ a + len - 1 <= Len(text)
      /\ DOMAIN H = 1..1
  <2>1. 1 \in DOMAIN H
    BY <1>2, HunksAre
  <2>2. /\ H[1].at \in 1..Len(text) /\ H[1].len \in 0..2 /\ H[1].new \in 0..1
        /\ H[1].at + H[1].len - 1 <= Len(text) /\ DOMAIN H = 1..Len(H)
    BY <1>2, <2>1, HunksAre
  <2> QED
    BY <1>3, <2>2
<1>5. NewLines(H) = c
  BY <1>3, <1>4 DEF NewLines
<1>6. PICK new : new = Fresh(c)
  OBVIOUS
<1>7. Fits(new, L + c) /\ Len(new) = c /\ \A z \in DOMAIN new : new[z] = L + z
  BY <1>1, <1>4, <1>6, FreshAll
<1>8. new \in Seq(Nat) /\ DOMAIN new = 1..c
  BY <1>7 DEF Fits
<1>9. PICK u : u = Put(text, a, len, new)
  OBVIOUS
<1>10. Apply(text, H) = u
  BY <1>3, <1>6, <1>9, ApplyIs
<1>11. ASSUME NEW z \in DOMAIN new PROVE new[z] \notin ToSet(text)
  <2>1. \A i \in DOMAIN text : text[i] <= L /\ text[i] \in Nat
    BY <1>1, <1>2 DEF Fits
  <2>2. new[z] = L + z /\ z \in 1..c
    BY <1>7, <1>8
  <2>3. L + z > L
    BY <1>4, <2>2
  <2> QED
    BY <2>1, <2>2, <2>3 DEF ToSet
<1>12. Ordered(text, text)
  <2>1. \A i, j \in DOMAIN text : text[i] = text[j] => i = j
    BY DEF Fits, Distinct
  <2> QED
    BY <2>1 DEF Ordered
<1>13. Fits(u, L + c) /\ Ordered(text, u)
  <2>1. L + c \in Nat /\ L <= L + c
    BY <1>4
  <2>2. Fits(text, L)
    BY <1>1
  <2> QED
    BY <1>2, <1>4, <1>7, <1>9, <1>11, <1>12, <2>1, <2>2, PutKeeps
<1>14. /\ Len(u) = Len(text) - len + c
       /\ \A i \in DOMAIN text : i \notin a..(a + len - 1) => text[i] \in ToSet(u)
       /\ \A z \in DOMAIN new : u[a + z - 1] = new[z]
  <2>1. /\ Len(u) = Len(text) - len + Len(new)
        /\ \A i \in DOMAIN text : i \notin a..(a + len - 1) => text[i] \in ToSet(u)
        /\ \A z \in DOMAIN new : u[a + z - 1] = new[z]
    <3>1. Has(u, text, a, len, new)
      BY <1>2, <1>4, <1>8, <1>9, PutHas
    <3> QED
      BY <3>1, Zenon DEF Has
  <2> QED
    BY <1>7, <2>1
<1>15. ToSet(text) \ ToSet(u) \subseteq S
  BY <1>3, <1>14 DEF ToSet, Replaced
<1>16. ASSUME \A i \in DOMAIN H : H[i].new = 1, NEW i \in DOMAIN H
       PROVE  u[Postimage(H)[i][1]] \notin ToSet(text)
  <2>1. c = 1 /\ i = 1
    BY <1>3, <1>4, <1>16
  <2>2. Postimage(H)[i][1] = a
    BY <1>3, <1>4, <2>1 DEF Postimage, LineSpan
  <2>3. 1 \in DOMAIN new /\ a + 1 - 1 = a
    BY <1>4, <1>8, <2>1
  <2>4. u[a] = new[1]
    BY <1>14, <2>3
  <2> QED
    BY <1>11, <2>2, <2>3, <2>4
<1> QED
  BY <1>1, <1>5, <1>10, <1>13, <1>15, <1>16 DEF Edited

LEMMA TwoHunks ==
  ASSUME used.lines \in Nat, NEW text, Fits(text, used.lines), NEW S,
         NEW H \in Hunks(Len(text)), Disjoint(H), Len(H) = 2,
         \A i \in DOMAIN H : \A j \in Replaced(H[i]) \cap DOMAIN text : text[j] \in S
  PROVE  Edited(text, Apply(text, H), used.lines + NewLines(H), S, H)
<1>1. PICK L \in Nat : L = used.lines
  OBVIOUS
<1>2. text \in Seq(Nat) /\ Len(text) \in Nat /\ DOMAIN text = 1..Len(text)
  BY DEF Fits
<1>3. PICK a, len, c, b, more, d :
         /\ a = H[1].at /\ len = H[1].len /\ c = H[1].new
         /\ b = H[2].at /\ more = H[2].len /\ d = H[2].new
  OBVIOUS
<1>4. /\ a \in 1..Len(text) /\ len \in Nat /\ c \in Nat
      /\ b \in 1..Len(text) /\ more \in Nat /\ d \in Nat /\ b + more - 1 <= Len(text)
      /\ a + len < b /\ DOMAIN H = 1..2
  <2>1. DOMAIN H = 1..2
    BY <1>2, HunksAre
  <2>2. /\ H[1].at \in 1..Len(text) /\ H[1].len \in 0..2 /\ H[1].new \in 0..1
        /\ H[2].at \in 1..Len(text) /\ H[2].len \in 0..2 /\ H[2].new \in 0..1
        /\ H[2].at + H[2].len - 1 <= Len(text)
    BY <1>2, <2>1, HunksAre
  <2>3. H[1].at + H[1].len < H[2].at
    BY <1>2, HunksAre
  <2> QED
    BY <1>3, <2>1, <2>2, <2>3
<1>5. NewLines(H) = c + d
  BY <1>3 DEF NewLines
<1>6. PICK new : new = Fresh(c)
  OBVIOUS
<1>7. Fits(new, L + c) /\ Len(new) = c /\ \A z \in DOMAIN new : new[z] = L + z
  BY <1>1, <1>4, <1>6, FreshAll
<1>8. PICK later : later = SubSeq(Fresh(d + c), c + 1, d + c)
  OBVIOUS
<1>9. Fits(later, L + (d + c)) /\ Len(later) = d /\ \A z \in DOMAIN later : later[z] = L + c + z
  <2>1. d + c \in Nat /\ c \in 0..(d + c) /\ (d + c) - c = d
    BY <1>4
  <2>2. Fits(later, L + (d + c)) /\ Len(later) = (d + c) - c /\ \A z \in DOMAIN later : later[z] = L + c + z
    BY <1>1, <1>8, <2>1, FreshIs
  <2> QED
    BY <2>1, <2>2
<1>10. /\ new \in Seq(Nat) /\ DOMAIN new = 1..c
       /\ later \in Seq(Nat) /\ DOMAIN later = 1..d
  BY <1>7, <1>9 DEF Fits
<1>11. PICK t, u : t = Put(text, b, more, later) /\ u = Put(t, a, len, new)
  OBVIOUS
<1>12. Apply(text, H) = u
  BY <1>3, <1>6, <1>8, <1>11, ApplyIs
<1>13. \A l \in ToSet(text) : l \in Nat /\ l <= L
  BY <1>1, <1>2 DEF Fits, ToSet
<1>14. \A l \in ToSet(later) : l \in Nat /\ l > L + c
  <2>1. \A z \in 1..d : L + c + z > L + c /\ L + c + z \in Nat
    BY <1>4
  <2> QED
    BY <1>9, <1>10, <2>1 DEF ToSet
<1>15. \A l \in ToSet(new) : l \in Nat /\ l > L /\ l <= L + c
  <2>1. \A z \in 1..c : L + z > L /\ L + z <= L + c /\ L + z \in Nat
    BY <1>4
  <2> QED
    BY <1>7, <1>10, <2>1 DEF ToSet
<1>16. Ordered(text, text)
  <2>1. \A i, j \in DOMAIN text : text[i] = text[j] => i = j
    BY DEF Fits, Distinct
  <2> QED
    BY <2>1 DEF Ordered
<1>17. Fits(t, L + (d + c)) /\ Ordered(text, t)
  <2>1. L + (d + c) \in Nat /\ L <= L + (d + c)
    BY <1>4
  <2>2. \A z \in DOMAIN later : later[z] \notin ToSet(text)
    <3>1. \A l \in ToSet(later) : l \notin ToSet(text)
      BY <1>4, <1>13, <1>14
    <3> QED
      BY <3>1 DEF ToSet
  <2>3. Fits(text, L)
    BY <1>1
  <2> QED
    BY <1>2, <1>4, <1>9, <1>11, <1>16, <2>1, <2>2, <2>3, PutKeeps
<1>18. Has(t, text, b, more, later)
  BY <1>2, <1>4, <1>10, <1>11, PutHas
<1>19. t \in Seq(Nat) /\ Len(t) = Len(text) - more + d
  BY <1>9, <1>17, <1>18 DEF Fits, Has
<1>20. a \in 1..Len(t) /\ a + len - 1 <= Len(t)
  BY <1>2, <1>4, <1>19
<1>21. Has(u, t, a, len, new)
  BY <1>4, <1>10, <1>11, <1>19, <1>20, PutHas
<1>22. \A l \in ToSet(new) : l \notin ToSet(text) /\ l \notin ToSet(t)
  <2>1. \A l \in ToSet(t) : l \in ToSet(text) \/ l \in ToSet(later)
    BY <1>18 DEF Has, ToSet
  <2>2. \A l \in ToSet(new) : l \notin ToSet(text) /\ l \notin ToSet(later)
    BY <1>4, <1>13, <1>14, <1>15
  <2> QED
    BY <2>1, <2>2
<1>23. Fits(u, L + (d + c)) /\ Ordered(text, u)
  <2>1. L + (d + c) \in Nat /\ L + (d + c) <= L + (d + c)
    BY <1>4
  <2>2. \A z \in DOMAIN new : new[z] \notin ToSet(t) /\ new[z] \notin ToSet(text)
    BY <1>22 DEF ToSet
  <2>3. Fits(new, L + (d + c))
    <3>1. \A z \in DOMAIN new : new[z] \in Nat /\ new[z] <= L + c
      BY <1>15 DEF ToSet
    <3>2. \A z \in DOMAIN new : new[z] <= L + (d + c)
      BY <1>4, <3>1
    <3> QED
      BY <1>7, <3>2 DEF Fits
  <2> QED
    BY <1>2, <1>4, <1>11, <1>17, <1>20, <2>1, <2>2, <2>3, PutKeeps
<1>24. ASSUME NEW j \in DOMAIN text, text[j] \notin ToSet(u) PROVE text[j] \in S
  <2>1. CASE j \in b..(b + more - 1)
    BY <1>3, <1>4, <1>24, <2>1 DEF Replaced
  <2>2. CASE j \notin b..(b + more - 1)
    <3>1. text[j] \in ToSet(t)
      BY <1>18, <2>2 DEF Has
    <3>2. PICK x \in DOMAIN t : t[x] = text[j]
      BY <3>1 DEF ToSet
    <3>3. x \in a..(a + len - 1)
      BY <1>21, <1>24, <3>2 DEF Has
    <3>4. x \in 1..Len(text) /\ x < b
      BY <1>2, <1>4, <3>3
    <3>5. t[x] = text[x]
      BY <1>18, <3>2, <3>4 DEF Has
    <3> QED
      BY <1>2, <1>3, <1>4, <3>2, <3>3, <3>4, <3>5 DEF Replaced
  <2> QED
    BY <2>1, <2>2
<1>25. ToSet(text) \ ToSet(u) \subseteq S
  BY <1>24 DEF ToSet
<1>26. ASSUME \A i \in DOMAIN H : H[i].new = 1, NEW i \in DOMAIN H
       PROVE  u[Postimage(H)[i][1]] \notin ToSet(text)
  <2>1. c = 1 /\ d = 1
    BY <1>3, <1>4, <1>26
  <2>2. CASE i = 1
    <3>1. Postimage(H)[i][1] = a
      BY <1>3, <1>4, <2>2 DEF Postimage, LineSpan
    <3>2. 1 \in DOMAIN new /\ a + 1 - 1 = a
      BY <1>4, <1>10, <2>1
    <3>3. u[a] = new[1]
      BY <1>21, <3>2 DEF Has
    <3>4. new[1] \in ToSet(new)
      BY <3>2 DEF ToSet
    <3> QED
      BY <1>22, <3>1, <3>3, <3>4
  <2>3. CASE i = 2
    <3>1. Postimage(H)[i][1] = b + (c - len)
      BY <1>3, <1>4, <2>3 DEF Postimage, LineSpan
    <3>2. 1 \in DOMAIN later /\ b + 1 - 1 = b
      BY <1>4, <1>10, <2>1
    <3>3. t[b] = later[1]
      BY <1>18, <3>2 DEF Has
    <3>4. b \in DOMAIN t /\ b >= a + len /\ b - len + Len(new) = b + (c - len)
      <4>1. Len(t) = Len(text) - more + d /\ DOMAIN t = 1..Len(t)
        BY <1>18, <1>9 DEF Has
      <4> QED
        BY <1>2, <1>4, <1>7, <2>1, <4>1
    <3>5. u[b + (c - len)] = t[b]
      BY <1>21, <3>4 DEF Has
    <3>6. later[1] \in ToSet(later)
      BY <3>2 DEF ToSet
    <3>7. \A l \in ToSet(later) : l \notin ToSet(text)
      BY <1>4, <1>13, <1>14
    <3> QED
      BY <3>1, <3>3, <3>5, <3>6, <3>7
  <2> QED
    BY <1>4, <2>2, <2>3
<1>27. L + (d + c) = L + (c + d)
  BY <1>4
<1> QED
  BY <1>1, <1>5, <1>12, <1>23, <1>25, <1>26, <1>27 DEF Edited

LEMMA ApplyKeeps ==
  ASSUME used.lines \in Nat, NEW text, Fits(text, used.lines), NEW S,
         NEW H \in Hunks(Len(text)), Disjoint(H),
         \A i \in DOMAIN H : \A j \in Replaced(H[i]) \cap DOMAIN text : text[j] \in S
  PROVE  /\ Edited(text, Apply(text, H), used.lines + NewLines(H), S, H)
         /\ NewLines(H) \in Nat
<1>1. Len(text) \in Nat
  BY DEF Fits
<1>2. /\ Len(H) \in {1, 2} /\ DOMAIN H = 1..Len(H)
      /\ \A i \in DOMAIN H : H[i].new \in 0..1
  BY <1>1, HunksAre
<1>3. NewLines(H) \in Nat
  <2>1. H[1].new \in 0..1 /\ (Len(H) = 2 => H[2].new \in 0..1)
    BY <1>2
  <2> QED
    BY <1>2, <2>1 DEF NewLines
<1>4. Edited(text, Apply(text, H), used.lines + NewLines(H), S, H)
  <2>1. CASE Len(H) = 1
    <3>1. \A j \in Replaced(H[1]) \cap DOMAIN text : text[j] \in S
      BY <1>2, <2>1
    <3> QED
      BY <2>1, <3>1, OneHunk
  <2>2. CASE Len(H) = 2
    BY <2>2, TwoHunks
  <2> QED
    BY <1>2, <2>1, <2>2
<1> QED
  BY <1>3, <1>4

-----------------------------------------------------------------------------
(* One new line in the place of a line, or in between.                     *)
LEMMA MoreFit ==
  ASSUME NEW k \in Nat, NEW K \in Nat, k <= K, NEW s, Fits(s, k)
  PROVE  Fits(s, K)
<1>1. \A i \in DOMAIN s : s[i] \in Nat
  BY DEF Fits
<1>2. \A i \in DOMAIN s : s[i] <= K
  BY <1>1 DEF Fits
<1> QED
  BY <1>2 DEF Fits

LEMMA NoLines ==
  ASSUME NEW k
  PROVE  Fits(<<>>, k) /\ ToSet(<<>>) = {} /\ DOMAIN <<>> = {}
<1>1. <<>> \in Seq(Nat) /\ DOMAIN <<>> = {}
  OBVIOUS
<1> QED
  BY <1>1 DEF Fits, Distinct, ToSet

LEMMA ReplaceOne ==
  ASSUME NEW K \in Nat, NEW t, Fits(t, K), NEW k \in DOMAIN t, NEW u, u = [t EXCEPT ![k] = K + 1]
  PROVE  /\ Fits(u, K + 1) /\ DOMAIN u = DOMAIN t
         /\ \A i \in DOMAIN t : u[i] = IF i = k THEN K + 1 ELSE t[i]
<1>1. t \in Seq(Nat) /\ \A i \in DOMAIN t : t[i] \in Nat /\ t[i] <= K
  BY DEF Fits
<1>2. u \in Seq(Nat) /\ DOMAIN u = DOMAIN t
  BY <1>1
<1>3. \A i \in DOMAIN t : u[i] = IF i = k THEN K + 1 ELSE t[i]
  BY <1>1
<1>4. \A i \in DOMAIN t : t[i] # K + 1
  BY <1>1
<1>5. ASSUME NEW i \in DOMAIN t, NEW j \in DOMAIN t, u[i] = u[j] PROVE i = j
  <2>1. \A x, y \in DOMAIN t : t[x] = t[y] => x = y
    BY DEF Fits, Distinct
  <2> QED
    BY <1>3, <1>4, <1>5, <2>1
<1>6. \A i \in DOMAIN t : u[i] <= K + 1
  BY <1>1, <1>3
<1> QED
  BY <1>2, <1>3, <1>5, <1>6 DEF Fits, Distinct

LEMMA ReplaceKeeps ==
  ASSUME NEW K \in Nat, NEW t, Fits(t, K), NEW k \in DOMAIN t, NEW u, u = [t EXCEPT ![k] = K + 1],
         NEW base, Fits(base, K), Ordered(base, t)
  PROVE  /\ Ordered(base, u)
         /\ \A l \in ToSet(base) : l \notin ToSet(u) => l \notin ToSet(t) \/ l = t[k]
<1>1. /\ DOMAIN u = DOMAIN t
      /\ \A i \in DOMAIN t : u[i] = IF i = k THEN K + 1 ELSE t[i]
  BY ReplaceOne
<1>2. \A i \in DOMAIN base : base[i] # K + 1
  <2>1. \A i \in DOMAIN base : base[i] \in Nat /\ base[i] <= K
    BY DEF Fits
  <2> QED
    BY <2>1
<1>3. \A i \in DOMAIN base, x \in DOMAIN u : base[i] = u[x] => base[i] = t[x]
  BY <1>1, <1>2
<1>4. Ordered(base, u)
  BY <1>1, <1>3 DEF Ordered
<1>5. ASSUME NEW l \in ToSet(base), l \notin ToSet(u), l \in ToSet(t) PROVE l = t[k]
  <2>1. PICK x \in DOMAIN t : l = t[x]
    BY <1>5 DEF ToSet
  <2>2. x # k => l = u[x]
    BY <1>1, <2>1
  <2>3. x = k
    BY <1>1, <1>5, <2>2 DEF ToSet
  <2> QED
    BY <2>1, <2>3
<1> QED
  BY <1>4, <1>5

LEMMA InsertFits ==
  ASSUME NEW K \in Nat, NEW t, Fits(t, K), NEW k \in DOMAIN t
  PROVE  Fits(InsertAt(t, k, K + 1), K + 1)
<1>1. t \in Seq(Nat) /\ Len(t) \in Nat /\ DOMAIN t = 1..Len(t)
  BY DEF Fits
<1>2. \A i \in DOMAIN t : t[i] \in Nat /\ t[i] <= K
  BY <1>1 DEF Fits
<1>3. PICK new : new = <<K + 1>>
  OBVIOUS
<1>4. new \in Seq(Nat) /\ DOMAIN new = 1..1 /\ new[1] = K + 1 /\ K + 1 \in Nat
  BY <1>3
<1>5. Fits(new, K + 1)
  BY <1>4 DEF Fits, Distinct
<1>6. \A z \in DOMAIN new : new[z] \notin ToSet(t) /\ new[z] \notin ToSet(<<>>)
  <2>1. \A i \in DOMAIN t : t[i] # K + 1
    BY <1>2
  <2>2. ToSet(<<>>) = {}
    BY NoLines
  <2> QED
    BY <1>4, <2>1, <2>2 DEF ToSet
<1>7. InsertAt(t, k, K + 1) = Put(t, k, 0, new)
  <2>1. k + 0 = k
    BY <1>1
  <2> QED
    BY <1>3, <2>1 DEF InsertAt, Put
<1>8. <<>> \in Seq(Nat) /\ Ordered(<<>>, t)
  <2>1. <<>> \in Seq(Nat) /\ DOMAIN <<>> = {}
    OBVIOUS
  <2> QED
    BY <2>1 DEF Ordered
<1>9. k \in 1..Len(t) /\ 0 \in Nat /\ k + 0 - 1 <= Len(t) /\ K <= K + 1
  BY <1>1
<1>10. Fits(Put(t, k, 0, new), K + 1) /\ Ordered(<<>>, Put(t, k, 0, new))
  BY <1>4, <1>5, <1>6, <1>8, <1>9, PutKeeps
<1> QED
  BY <1>7, <1>10

-----------------------------------------------------------------------------
(* Evidence: a record for a text, whose ranges lie in it and whose lines   *)
(* are in S.                                                               *)
Strong(g) == g.coverage \in {"full-file", "line-range"}

Shown(g, k, S) ==
    /\ g = [coverage |-> g.coverage, ranges |-> g.ranges, sha |-> g.sha]
    /\ g.coverage \in {"none", "metadata-only", "full-file", "line-range"}
    /\ Fits(g.sha, k)
    /\ ~Strong(g) => g.sha = <<>> /\ g.ranges = {}
    /\ g.coverage = "line-range" => g.ranges \subseteq (DOMAIN g.sha) \X (DOMAIN g.sha)
    /\ Granted(g) \subseteq S

LEMMA ShownLater ==
  ASSUME NEW k \in Nat, NEW K \in Nat, k <= K, NEW S, NEW T, S \subseteq T, NEW g, Shown(g, k, S)
  PROVE  Shown(g, K, T)
<1>1. Fits(g.sha, K)
  BY MoreFit DEF Shown
<1> QED
  BY <1>1 DEF Shown

LEMMA WeakShown ==
  ASSUME NEW k, NEW S, NEW c \in {"none", "metadata-only"}
  PROVE  Shown([None EXCEPT !.coverage = c], k, S) /\ ~Strong([None EXCEPT !.coverage = c])
<1>a. PICK n : n = None
  OBVIOUS
<1>b. n = [coverage |-> "none", ranges |-> {}, sha |-> <<>>]
  BY <1>a DEF None
<1>c. PICK g : g = [n EXCEPT !.coverage = c]
  OBVIOUS
<1>1. g = [coverage |-> c, ranges |-> {}, sha |-> <<>>]
  <2>2. n = [coverage |-> n.coverage, ranges |-> n.ranges, sha |-> n.sha]
    BY <1>b
  <2>3. [n EXCEPT !.coverage = c] = [coverage |-> c, ranges |-> n.ranges, sha |-> n.sha]
    BY ONLY <2>2
  <2>4. n.ranges = {} /\ n.sha = <<>>
    BY <1>b
  <2> QED
    BY <1>c, <2>3, <2>4, Zenon
<1>2. Granted(g) = {}
  <2>1. DOMAIN g.sha = {}
    BY <1>1
  <2> QED
    BY <2>1 DEF Granted
<1>3. Fits(<<>>, k)
  BY NoLines
<1>4. Shown(g, k, S) /\ ~Strong(g)
  BY <1>1, <1>2, <1>3 DEF Shown, Strong
<1> QED
  BY <1>a, <1>c, <1>4

LEMMA NoneShown ==
  ASSUME NEW k, NEW S
  PROVE  Shown(None, k, S) /\ ~Strong(None)
<1>1. None = [None EXCEPT !.coverage = "none"]
  BY DEF None
<1> QED
  BY <1>1, WeakShown

LEMMA FullShown ==
  ASSUME NEW k, NEW S, NEW s, Fits(s, k), ToSet(s) \subseteq S
  PROVE  Shown(FullFile(s), k, S)
<1> DEFINE g == FullFile(s)
<1>1. g = [coverage |-> "full-file", ranges |-> {<<1, Len(s)>>}, sha |-> s]
  BY DEF FullFile
<1>2. Granted(g) \subseteq S
  BY <1>1 DEF Granted, ToSet
<1> HIDE DEF g
<1>3. Shown(g, k, S)
  BY <1>1, <1>2 DEF Shown, Strong
<1> QED
  BY <1>3 DEF g

LEMMA RangeShown ==
  ASSUME NEW k, NEW S, NEW s, Fits(s, k), NEW R, R \subseteq (DOMAIN s) \X (DOMAIN s),
         \A i \in Spans(R) \cap DOMAIN s : s[i] \in S
  PROVE  Shown(LineRange(R, s), k, S)
<1> DEFINE g == LineRange(R, s)
<1>1. g = [coverage |-> "line-range", ranges |-> R, sha |-> s]
  BY DEF LineRange
<1>2. Granted(g) \subseteq S
  BY <1>1 DEF Granted
<1> HIDE DEF g
<1>3. Shown(g, k, S)
  BY <1>1, <1>2 DEF Shown, Strong
<1> QED
  BY <1>3 DEF g

(* What a record grants. *)
LEMMA FullGrants ==
  ASSUME NEW k, NEW S, NEW g, Shown(g, k, S), g.coverage = "full-file"
  PROVE  ToSet(g.sha) \subseteq S
  BY DEF Shown, Granted, ToSet

LEMMA RangeGrants ==
  ASSUME NEW k, NEW S, NEW g, Shown(g, k, S), g.coverage # "full-file"
  PROVE  \A i \in Spans(g.ranges) \cap DOMAIN g.sha : g.sha[i] \in S
  BY DEF Shown, Granted

(* The store keeps to what the records grant.                              *)
LEMMA RecordedShown ==
  ASSUME NEW k, NEW S, NEW g, Shown(g, k, S), NEW r, Shown(r, k, S)
  PROVE  /\ Shown(Recorded(g, r), k, S)
         /\ Strong(g) \/ Strong(r) => Strong(Recorded(g, r))
         /\ ~Strong(r) => Recorded(g, r) = g
<1> DEFINE R == Merge(g.ranges \cup r.ranges)
           w == [r EXCEPT !.ranges = R]
<1>1. \/ ~Strong(r) /\ Recorded(g, r) = g
      \/ Strong(r) /\ Recorded(g, r) = r
      \/ g.coverage = "full-file" /\ Recorded(g, r) = g
      \/ /\ Recorded(g, r) = w /\ g.coverage # "full-file" /\ r.coverage = "line-range"
         /\ g.sha = r.sha
  BY DEF Recorded, Strong
<1>2. CASE ~Strong(r) /\ Recorded(g, r) = g
  BY <1>2
<1>3. CASE Strong(r) /\ Recorded(g, r) = r
  BY <1>3
<1>4. CASE g.coverage = "full-file" /\ Recorded(g, r) = g
  <2>1. Strong(g)
    BY <1>4 DEF Strong
  <2> QED
    BY <1>4, <2>1
<1>5. CASE /\ Recorded(g, r) = w /\ g.coverage # "full-file" /\ r.coverage = "line-range"
           /\ g.sha = r.sha
  <2>1. r = [coverage |-> r.coverage, ranges |-> r.ranges, sha |-> r.sha]
    BY DEF Shown
  <2>2. w = LineRange(R, r.sha)
    BY <1>5, <2>1 DEF LineRange
  <2>3. ASSUME NEW i \in Spans(R), i \in DOMAIN r.sha PROVE r.sha[i] \in S
    <3>1. PICK q \in R : i \in Span(q)
      BY <2>3 DEF Spans
    <3>2. i \in Spans(g.ranges \cup r.ranges)
      BY <3>1, MergeCovers
    <3>3. i \in Spans(g.ranges) \/ i \in Spans(r.ranges)
      BY <3>2 DEF Spans
    <3>4. /\ \A y \in Spans(g.ranges) \cap DOMAIN g.sha : g.sha[y] \in S
          /\ \A y \in Spans(r.ranges) \cap DOMAIN r.sha : r.sha[y] \in S
      BY <1>5, RangeGrants
    <3> QED
      BY <1>5, <2>3, <3>3, <3>4
  <2>4. R \subseteq (DOMAIN r.sha) \X (DOMAIN r.sha)
    <3>1. \A q \in g.ranges \cup r.ranges : q[1] \in DOMAIN r.sha /\ q[2] \in DOMAIN r.sha
      <4>1. r.ranges \subseteq (DOMAIN r.sha) \X (DOMAIN r.sha)
        BY <1>5 DEF Shown
      <4>2. g.ranges \subseteq (DOMAIN r.sha) \X (DOMAIN r.sha)
        <5>1. CASE Strong(g)
          BY <1>5, <5>1 DEF Shown, Strong
        <5>2. CASE ~Strong(g)
          BY <5>2 DEF Shown
        <5> QED
          BY <5>1, <5>2
      <4> QED
        BY <4>1, <4>2
    <3>2. DOMAIN r.sha = 1..Len(r.sha) /\ Len(r.sha) \in Nat
      BY DEF Shown, Fits
    <3>3. ASSUME NEW i \in Spans(g.ranges \cup r.ranges) PROVE i \in DOMAIN r.sha
      <4>1. PICK q \in g.ranges \cup r.ranges : i \in q[1]..q[2]
        BY DEF Spans, Span
      <4>2. q[1] \in 1..Len(r.sha) /\ q[2] \in 1..Len(r.sha)
        BY <3>1, <3>2
      <4>3. i \in 1..Len(r.sha)
        BY <3>2, <4>1, <4>2
      <4> QED
        BY <3>2, <4>3
    <3>4. ASSUME NEW q \in R PROVE q \in (DOMAIN r.sha) \X (DOMAIN r.sha)
      <4>1. /\ q[1] \in Spans(g.ranges \cup r.ranges) /\ q[2] \in Spans(g.ranges \cup r.ranges)
            /\ q = <<q[1], q[2]>>
        BY MergeCovers
      <4> QED
        BY <3>3, <4>1
    <3> QED
      BY <3>4
  <2>5. Fits(r.sha, k)
    BY DEF Shown
  <2> HIDE DEF R, w
  <2>6. Shown(w, k, S)
    BY <2>2, <2>3, <2>4, <2>5, RangeShown
  <2>7. Strong(w) /\ Strong(r)
    BY <1>5, <2>2 DEF Strong, LineRange
  <2> QED
    BY <1>5, <2>6, <2>7
<1> QED
  BY <1>1, <1>2, <1>3, <1>4, <1>5

-----------------------------------------------------------------------------
(* The invariant.                                                          *)

(* The lines accounted for: seen, or passed by the code for seen.          *)
Accounted == seen \cup lapsed

(* The texts of the model and the numbers given out.                       *)
Texts ==
    /\ used.lines \in Nat
    /\ DOMAIN used = {"lines", "reads", "edits", "foreign"}
    /\ DOMAIN call = {"stage", "base", "text", "full", "hunks", "hint", "windows"}
    /\ call.stage \in Stages
    /\ Fits(disk, used.lines) /\ Fits(call.base, used.lines) /\ Fits(call.text, used.lines)
    /\ call.windows \subseteq (DOMAIN call.base) \X (DOMAIN call.base)

(* All evidence there is names lines that were seen, and an edit works     *)
(* with the grant of the store.                                            *)
Known ==
    /\ Shown(grant, used.lines, Accounted)
    /\ Shown(lastRead, used.lines, Accounted)
    /\ Shown(event, used.lines, Accounted)
    /\ event # None => event = lastRead
    /\ grant = None /\ event = None => ~Strong(lastRead)
    /\ call.stage # "idle" => event = None

(* While an edit is on its way the grant is the one it was planned with,   *)
(* and the lines that stay keep their order.                               *)
Editing ==
    call.stage \in {"planned", "repaired"} \/ (call.stage = "written" /\ call.hint) =>
       Strong(grant) /\ grant.sha = call.base /\ Ordered(call.base, call.text)

(* What was written is accounted for until the grant has been renewed.     *)
Landed ==
    /\ call.stage = "written" => ToSet(call.text) \ ToSet(call.base) \subseteq Accounted
    /\ call.stage = "written" /\ ~call.hint => call.base = <<>>
    /\ call.stage = "deleted" => call.text = <<>> /\ grant.coverage = "full-file"

SeenInv == Texts /\ Known /\ Editing /\ Landed

LEMMA Onward ==
  ASSUME SeenInv, used'.lines \in Nat, used.lines <= used'.lines, Accounted \subseteq Accounted'
  PROVE  /\ Fits(disk, used'.lines) /\ Fits(call.base, used'.lines) /\ Fits(call.text, used'.lines)
         /\ Shown(grant, used'.lines, Accounted') /\ Shown(lastRead, used'.lines, Accounted')
         /\ Shown(event, used'.lines, Accounted')
<1>1. PICK k \in Nat, K \in Nat, S \in {Accounted}, T \in {Accounted'} :
         k = used.lines /\ K = used'.lines /\ k <= K /\ S \subseteq T
  BY DEF SeenInv, Texts
<1>2. /\ Fits(disk, k) /\ Fits(call.base, k) /\ Fits(call.text, k)
      /\ Shown(grant, k, S) /\ Shown(lastRead, k, S) /\ Shown(event, k, S)
  BY <1>1 DEF SeenInv, Texts, Known
<1>3. /\ Fits(disk, K) /\ Fits(call.base, K) /\ Fits(call.text, K)
      /\ Shown(grant, K, T) /\ Shown(lastRead, K, T) /\ Shown(event, K, T)
  BY <1>1, <1>2, MoreFit, ShownLater
<1> QED
  BY <1>1, <1>3

LEMMA SeenInit == Init => SeenInv
<1> SUFFICES ASSUME Init PROVE SeenInv
  OBVIOUS
<1>1. InitLines \in Nat
  BY AuthorityAssumption
<1>2. PICK d : d = disk
  OBVIOUS
<1>3. d \in Seq(Nat) /\ DOMAIN d = 1..InitLines /\ \A i \in 1..InitLines : d[i] = i
  BY <1>1, <1>2 DEF Init
<1>4. Distinct(d) /\ \A i \in DOMAIN d : d[i] <= InitLines
  BY <1>1, <1>3 DEF Distinct
<1>5. Fits(disk, InitLines)
  BY <1>2, <1>3, <1>4 DEF Fits
<1>6. Texts
  <2>1. Fits(<<>>, InitLines)
    BY NoLines
  <2>2. /\ call.stage = "idle" /\ call.base = <<>> /\ call.text = <<>> /\ call.windows = {}
        /\ DOMAIN call = {"stage", "base", "text", "full", "hunks", "hint", "windows"}
    BY DEF Init, Idle
  <2>3. used.lines = InitLines /\ DOMAIN used = {"lines", "reads", "edits", "foreign"}
    BY DEF Init
  <2> QED
    BY <1>1, <1>5, <2>1, <2>2, <2>3 DEF Texts, Stages
<1>7. Known
  BY NoneShown DEF Known, Init, Idle
<1>8. Editing /\ Landed
  BY DEF Editing, Landed, Init, Idle
<1> QED
  BY <1>6, <1>7, <1>8 DEF SeenInv

(* A read shows what it grants.                                            *)
LEMMA ReadShown ==
  ASSUME NEW k, NEW s, Fits(s, k),
         NEW r \in {FullFile(s), [None EXCEPT !.coverage = "metadata-only"]}
                   \cup {LineRange({<<a, b>>}, s) : a \in DOMAIN s, b \in DOMAIN s}
  PROVE  Shown(r, k, Granted(r))
<1>1. CASE r = FullFile(s)
  <2>1. ToSet(s) \subseteq Granted(r)
    BY <1>1 DEF FullFile, Granted, ToSet
  <2> QED
    BY <1>1, <2>1, FullShown
<1>2. CASE r = [None EXCEPT !.coverage = "metadata-only"]
  BY <1>2, WeakShown
<1>3. CASE r \in {LineRange({<<a, b>>}, s) : a \in DOMAIN s, b \in DOMAIN s}
  <2>1. PICK a \in DOMAIN s, b \in DOMAIN s : r = LineRange({<<a, b>>}, s)
    BY <1>3
  <2> DEFINE R == {<<a, b>>}
  <2>3. R \subseteq (DOMAIN s) \X (DOMAIN s)
    OBVIOUS
  <2>2. r = LineRange(R, s)
    BY <2>1
  <2> HIDE DEF R
  <2>4. \A i \in Spans(R) \cap DOMAIN s : s[i] \in Granted(r)
    BY <2>2 DEF LineRange, Granted
  <2> QED
    BY <2>2, <2>3, <2>4, RangeShown
<1> QED
  BY <1>1, <1>2, <1>3

LEMMA ReadKeeps == ASSUME SeenInv, Read PROVE SeenInv'
<1>1. PICK r \in {FullFile(disk), [None EXCEPT !.coverage = "metadata-only"]}
                 \cup {LineRange({<<a, b>>}, disk) : a \in DOMAIN disk, b \in DOMAIN disk} :
         event' = r /\ lastRead' = r /\ Granted(r) \subseteq Accounted' /\ Accounted \subseteq Accounted'
  BY DEF Read, Accounted
<1>2. used.lines \in Nat /\ used'.lines = used.lines /\ DOMAIN used' = DOMAIN used
  BY DEF Read, SeenInv, Texts
<1>3. disk' = disk /\ grant' = grant /\ call' = call /\ call.stage = "idle"
  BY DEF Read
<1>4. Shown(r, used.lines, Accounted')
  <2>1. PICK k \in Nat : k = used.lines
    BY <1>2
  <2>2. Fits(disk, k)
    BY <2>1 DEF SeenInv, Texts
  <2>3. Shown(r, k, Granted(r))
    BY <2>2, ReadShown
  <2>4. Granted(r) \subseteq Accounted' /\ k <= k
    BY <1>1, <2>1
  <2> QED
    BY <2>1, <2>3, <2>4, ShownLater
<1>5. Shown(grant, used.lines, Accounted')
  BY <1>1, <1>2, Onward
<1>6. Texts'
  BY <1>2, <1>3 DEF SeenInv, Texts
<1>7. Known'
  <2>1. event' = None => ~Strong(lastRead')
    BY <1>1, NoneShown
  <2> QED
    BY <1>1, <1>2, <1>3, <1>4, <1>5, <2>1 DEF Known
<1>8. Editing' /\ Landed'
  BY <1>3 DEF Editing, Landed
<1> QED
  BY <1>6, <1>7, <1>8 DEF SeenInv

LEMMA ArrivalKeeps == ASSUME SeenInv, ResultArrives PROVE SeenInv'
<1>1. /\ call.stage = "idle" /\ event # None /\ grant' = Recorded(grant, event) /\ event' = None
      /\ disk' = disk /\ Accounted' = Accounted /\ lastRead' = lastRead /\ call' = call /\ used' = used
  BY DEF ResultArrives, Accounted
<1>2. /\ Shown(grant, used.lines, Accounted) /\ Shown(event, used.lines, Accounted)
      /\ Shown(lastRead, used.lines, Accounted) /\ event = lastRead
  BY <1>1 DEF SeenInv, Known
<1>3. /\ Shown(Recorded(grant, event), used.lines, Accounted)
      /\ Strong(event) => Strong(Recorded(grant, event))
  BY <1>2, RecordedShown
<1>4. Known'
  <2>1. grant' = None => ~Strong(lastRead)
    BY <1>1, <1>2, <1>3, NoneShown
  <2>2. Shown(None, used.lines, Accounted)
    BY NoneShown
  <2> QED
    BY <1>1, <1>2, <1>3, <2>1, <2>2 DEF Known
<1>5. Texts' /\ Editing' /\ Landed'
  BY <1>1 DEF SeenInv, Texts, Editing, Landed
<1> QED
  BY <1>4, <1>5 DEF SeenInv

LEMMA SessionKeeps == ASSUME SeenInv, NewSession PROVE SeenInv'
<1>1. /\ call.stage = "idle" /\ event = None /\ grant' = None /\ lastRead' = None /\ event' = event
      /\ disk' = disk /\ Accounted' = Accounted /\ call' = call /\ used' = used
  BY DEF NewSession, Accounted
<1>2. Shown(None, used.lines, Accounted) /\ ~Strong(None)
  BY NoneShown
<1>3. Known'
  BY <1>1, <1>2 DEF Known
<1>4. Texts' /\ Editing' /\ Landed'
  BY <1>1 DEF SeenInv, Texts, Editing, Landed
<1> QED
  BY <1>3, <1>4 DEF SeenInv

(* An edit is planned with the grant of the store, made for the text.      *)
LEMMA PlannedWith ==
  ASSUME SeenInv, event = None, disk # <<>>, Authority.sha = disk
  PROVE  Authority = grant /\ Strong(grant)
<1>1. CASE grant # None
  <2>1. Authority = grant
    BY <1>1 DEF Authority
  <2>2. ~Strong(grant) => grant.sha = <<>>
    BY DEF SeenInv, Known, Shown
  <2> QED
    BY <2>1, <2>2
<1>2. CASE grant = None
  <2>1. Authority = lastRead /\ ~Strong(lastRead)
    BY <1>2 DEF Authority, SeenInv, Known
  <2>2. lastRead.sha = <<>>
    BY <2>1 DEF SeenInv, Known, Shown
  <2> QED
    BY <2>1, <2>2
<1> QED
  BY <1>1, <1>2

(* What a hunk replaces is in a range of the grant.                        *)
LEMMA CoveredSeen ==
  ASSUME NEW k, NEW S, NEW g, Shown(g, k, S), NEW H, Authorizes(g, ToSet(Preimage(H)), FALSE),
         NEW i \in DOMAIN H, H[i].at \in Nat, H[i].len \in Nat,
         NEW j \in Span(Preimage(H)[i]) \cap DOMAIN g.sha
  PROVE  g.sha[j] \in S
<1>1. Preimage(H)[i] \in ToSet(Preimage(H))
  BY DEF Preimage, ToSet
<1>2. CASE g.coverage = "full-file"
  BY <1>2, FullGrants DEF ToSet
<1>3. CASE g.coverage # "full-file"
  <2>1. g.coverage = "line-range" /\ \A r \in ToSet(Preimage(H)) : \E a \in g.ranges : Within(r, a)
    BY <1>3 DEF Authorizes, Covers
  <2>2. PICK a \in g.ranges : Within(Preimage(H)[i], a)
    BY <1>1, <2>1
  <2>3. j \in a[1]..a[2]
    <3>1. DOMAIN g.sha = 1..Len(g.sha) /\ Len(g.sha) \in Nat
      BY DEF Shown, Fits
    <3>2. a[1] \in DOMAIN g.sha /\ a[2] \in DOMAIN g.sha
      BY <2>1, <2>2 DEF Shown
    <3>3. PICK x, y : x = Preimage(H)[i][1] /\ y = Preimage(H)[i][2]
      OBVIOUS
    <3>4. j \in x..y /\ a[1] <= x /\ y <= a[2]
      BY <2>2, <3>3 DEF Span, Within
    <3>5. x \in Int /\ y \in Int
      <4>1. Preimage(H)[i] = LineSpan(H[i].at, H[i].len)
        BY DEF Preimage
      <4> QED
        BY <3>3, <4>1 DEF LineSpan
    <3> QED
      BY <3>1, <3>2, <3>4, <3>5
  <2>4. j \in Spans(g.ranges)
    BY <2>2, <2>3 DEF Spans, Span
  <2> QED
    BY <1>3, <2>4, RangeGrants
<1> QED
  BY <1>2, <1>3

(* What is planned.                                                        *)
Planned(c, b, t, f, H) ==
    /\ c.stage = "planned" /\ c.base = b /\ c.text = t /\ c.full = f /\ c.hunks = H
    /\ c.windows = {} /\ c.hint = FALSE
    /\ DOMAIN c = {"stage", "base", "text", "full", "hunks", "hint", "windows"}

LEMMA CallIs ==
  ASSUME NEW b, NEW t, NEW f, NEW H
  PROVE  Planned([Idle EXCEPT !.stage = "planned", !.base = b, !.text = t, !.full = f, !.hunks = H],
                 b, t, f, H)
  BY DEF Idle, Planned

LEMMA PlanIs ==
  ASSUME SeenInv, Plan
  PROVE  /\ call.stage = "idle" /\ event = None /\ Strong(grant) /\ grant.sha = disk
         /\ used'.lines \in Nat /\ used.lines <= used'.lines /\ DOMAIN used' = DOMAIN used
         /\ \E H \in Hunks(Len(disk)) :
              /\ Disjoint(H)
              /\ Planned(call', disk, Apply(disk, H), grant.coverage = "full-file", H)
              /\ Edited(disk, Apply(disk, H), used'.lines, Accounted, H)
              /\ \A i \in DOMAIN H : \A j \in Span(Preimage(H)[i]) \cap DOMAIN disk : disk[j] \in Accounted
<1>1. call.stage = "idle" /\ event = None /\ disk # <<>> /\ Authority.sha = disk
  BY DEF Plan
<1>2. Authority = grant /\ Strong(grant) /\ grant.sha = disk
  BY <1>1, PlannedWith
<1>3. PICK H \in Hunks(Len(disk)) :
         /\ Disjoint(H) /\ Authorizes(grant, ToSet(Preimage(H)), FALSE)
         /\ call' = [Idle EXCEPT !.stage = "planned", !.base = disk, !.text = Apply(disk, H),
                                 !.full = (grant.coverage = "full-file"), !.hunks = H]
         /\ used' = [used EXCEPT !.edits = @ + 1, !.lines = @ + NewLines(H)]
  BY <1>2, Zenon DEF Plan
<1>4. used.lines \in Nat /\ Fits(disk, used.lines) /\ Len(disk) \in Nat
      /\ DOMAIN used = {"lines", "reads", "edits", "foreign"}
      /\ Shown(grant, used.lines, Accounted)
  BY DEF SeenInv, Texts, Known, Fits
<1>5. \A i \in DOMAIN H : H[i].at \in 1..Len(disk) /\ H[i].len \in 0..2
  BY <1>3, <1>4, HunksAre
<1>6. ASSUME NEW i \in DOMAIN H, NEW j \in Span(Preimage(H)[i]) \cap DOMAIN disk
      PROVE  disk[j] \in Accounted
  <2>1. H[i].at \in Nat /\ H[i].len \in Nat
    BY <1>5
  <2> QED
    BY <1>2, <1>3, <1>4, <2>1, CoveredSeen
<1>7. ASSUME NEW i \in DOMAIN H, NEW j \in Replaced(H[i]) \cap DOMAIN disk
      PROVE  disk[j] \in Accounted
  <2>1. PICK a \in Nat, len \in Nat : a = H[i].at /\ len = H[i].len
    BY <1>5
  <2>2. Preimage(H)[i] = <<a, IF len = 0 THEN a ELSE a + len - 1>>
    BY <2>1 DEF Preimage, LineSpan
  <2>3. j \in a..(a + len - 1)
    BY <2>1 DEF Replaced
  <2>4. j \in a..(IF len = 0 THEN a ELSE a + len - 1)
    BY <2>3
  <2>5. j \in Span(Preimage(H)[i])
    BY <2>2, <2>4 DEF Span
  <2> QED
    BY <1>6, <2>5
<1>8. PICK K : K = used.lines + NewLines(H)
  OBVIOUS
<1>9. Edited(disk, Apply(disk, H), K, Accounted, H) /\ NewLines(H) \in Nat
  BY <1>3, <1>4, <1>7, <1>8, ApplyKeeps
<1>10. used'.lines = K /\ DOMAIN used' = DOMAIN used
  BY <1>3, <1>4, <1>8
<1>11. K \in Nat /\ used.lines <= K
  BY <1>4, <1>8, <1>9
<1>12. Planned(call', disk, Apply(disk, H), grant.coverage = "full-file", H)
  BY <1>3, CallIs
<1> QED
  BY <1>1, <1>2, <1>3, <1>6, <1>9, <1>10, <1>11, <1>12

LEMMA PlanKeeps == ASSUME SeenInv, Plan PROVE SeenInv'
<1>1. /\ call.stage = "idle" /\ event = None /\ Strong(grant) /\ grant.sha = disk
      /\ used'.lines \in Nat /\ used.lines <= used'.lines /\ DOMAIN used' = DOMAIN used
  BY PlanIs
<1>2. PICK H \in Hunks(Len(disk)) :
         /\ Planned(call', disk, Apply(disk, H), grant.coverage = "full-file", H)
         /\ Edited(disk, Apply(disk, H), used'.lines, Accounted, H)
  BY PlanIs
<1>3. disk' = disk /\ Accounted' = Accounted /\ grant' = grant /\ event' = event /\ lastRead' = lastRead
  BY DEF Plan, Accounted
<1>4. /\ call'.stage = "planned" /\ call'.base = disk /\ call'.text = Apply(disk, H)
      /\ call'.windows = {} /\ call'.hint = FALSE
      /\ DOMAIN call' = {"stage", "base", "text", "full", "hunks", "hint", "windows"}
  BY <1>2 DEF Planned
<1>5. /\ Fits(disk, used'.lines) /\ Shown(grant, used'.lines, Accounted)
      /\ Shown(lastRead, used'.lines, Accounted) /\ Shown(event, used'.lines, Accounted)
  BY <1>1, <1>3, Onward
<1>6. Fits(call'.text, used'.lines) /\ Ordered(disk, call'.text)
  BY <1>2, <1>4 DEF Edited
<1>7. Texts'
  BY <1>1, <1>3, <1>4, <1>5, <1>6 DEF SeenInv, Texts, Stages
<1>8. Known'
  BY <1>1, <1>3, <1>5 DEF SeenInv, Known
<1>9. Editing' /\ Landed'
  BY <1>1, <1>3, <1>4, <1>6 DEF Editing, Landed
<1> QED
  BY <1>7, <1>8, <1>9 DEF SeenInv

(* What a repair makes of the call.                                        *)
LEMMA RepairIs ==
  ASSUME SeenInv, Repair
  PROVE  /\ call.stage = "planned" /\ used'.lines = used.lines + 1 /\ DOMAIN used' = DOMAIN used
         /\ call'.stage = "repaired" /\ call'.base = call.base /\ call'.windows = call.windows
         /\ call'.hint = call.hint /\ call'.full = call.full /\ DOMAIN call' = DOMAIN call
         /\ \E k \in DOMAIN call.text :
              /\ call.full \/ Confined(call.hunks, <<k, k>>)
              /\ call'.text = [call.text EXCEPT ![k] = used.lines + 1]
              /\ ~call.full /\ EmptySpan(call.hunks) => call.text[k] \in lapsed'
         /\ lapsed \subseteq lapsed'
<1>1. /\ DOMAIN used = {"lines", "reads", "edits", "foreign"}
      /\ DOMAIN call = {"stage", "base", "text", "full", "hunks", "hint", "windows"}
  BY DEF SeenInv, Texts
<1>2. PICK k \in DOMAIN call.text :
         /\ call.full \/ Confined(call.hunks, <<k, k>>)
         /\ call' = [call EXCEPT !.stage = "repaired", !.text = [call.text EXCEPT ![k] = used.lines + 1]]
         /\ used' = [used EXCEPT !.lines = used.lines + 1]
         /\ lapsed' = lapsed \cup IF ~call.full /\ EmptySpan(call.hunks) THEN {call.text[k]} ELSE {}
  BY DEF Repair
<1>3. /\ call'.stage = "repaired" /\ call'.base = call.base /\ call'.windows = call.windows
      /\ call'.hint = call.hint /\ call'.full = call.full /\ DOMAIN call' = DOMAIN call
      /\ call'.text = [call.text EXCEPT ![k] = used.lines + 1]
  BY <1>1, <1>2
<1>4. used'.lines = used.lines + 1 /\ DOMAIN used' = DOMAIN used
  BY <1>1, <1>2
<1>5. call.stage = "planned"
  BY DEF Repair
<1>6. /\ lapsed \subseteq lapsed'
      /\ ~call.full /\ EmptySpan(call.hunks) => call.text[k] \in lapsed'
  <2>1. CASE ~call.full /\ EmptySpan(call.hunks)
    BY <1>2, <2>1
  <2>2. CASE ~(~call.full /\ EmptySpan(call.hunks))
    BY <1>2, <2>2
  <2> QED
    BY <2>1, <2>2
<1> QED
  BY <1>2, <1>3, <1>4, <1>5, <1>6

LEMMA RepairKeeps == ASSUME SeenInv, Repair PROVE SeenInv'
<1>1. /\ call.stage = "planned" /\ used'.lines = used.lines + 1 /\ DOMAIN used' = DOMAIN used
      /\ call'.stage = "repaired" /\ call'.base = call.base /\ call'.windows = call.windows
      /\ call'.hint = call.hint /\ DOMAIN call' = DOMAIN call
  BY RepairIs
<1>2. PICK k \in DOMAIN call.text : call'.text = [call.text EXCEPT ![k] = used.lines + 1]
  BY RepairIs
<1>3. /\ disk' = disk /\ grant' = grant /\ event' = event /\ lastRead' = lastRead
      /\ Accounted \subseteq Accounted'
  <2>1. lapsed \subseteq lapsed'
    BY RepairIs
  <2> QED
    BY <2>1 DEF Repair, Accounted
<1>4. used.lines \in Nat /\ used'.lines \in Nat /\ used.lines <= used'.lines
  BY <1>1 DEF SeenInv, Texts
<1>5. /\ Fits(disk, used'.lines) /\ Fits(call.base, used'.lines)
      /\ Shown(grant, used'.lines, Accounted') /\ Shown(lastRead, used'.lines, Accounted')
      /\ Shown(event, used'.lines, Accounted')
  BY <1>3, <1>4, Onward
<1>6. Fits(call'.text, used'.lines) /\ Ordered(call.base, call'.text)
  <2>1. PICK K \in Nat : K = used.lines
    BY <1>4
  <2>2. Fits(call.text, K) /\ Fits(call.base, K) /\ Ordered(call.base, call.text)
    BY <1>1, <2>1 DEF SeenInv, Texts, Editing
  <2>3. call'.text = [call.text EXCEPT ![k] = K + 1]
    BY <1>2, <2>1
  <2>4. Fits(call'.text, K + 1)
    BY <2>2, <2>3, ReplaceOne
  <2>5. Ordered(call.base, call'.text)
    BY <2>2, <2>3, ReplaceKeeps
  <2> QED
    BY <1>1, <2>1, <2>4, <2>5
<1>7. Texts'
  BY <1>1, <1>3, <1>4, <1>5, <1>6 DEF SeenInv, Texts, Stages
<1>8. Known'
  BY <1>1, <1>3, <1>5 DEF SeenInv, Known
<1>9. Editing' /\ Landed'
  BY <1>1, <1>3, <1>6 DEF SeenInv, Editing, Landed
<1> QED
  BY <1>7, <1>8, <1>9 DEF SeenInv

LEMMA IdleIs ==
  /\ Idle.stage = "idle" /\ Idle.base = <<>> /\ Idle.text = <<>> /\ Idle.windows = {}
  /\ Idle.hint = FALSE
  /\ DOMAIN Idle = {"stage", "base", "text", "full", "hunks", "hint", "windows"}
  BY DEF Idle

(* With nothing on its way only the texts and the evidence count.          *)
LEMMA IdleKeeps ==
  ASSUME call' = Idle, Known', used'.lines \in Nat,
         DOMAIN used' = {"lines", "reads", "edits", "foreign"}, Fits(disk', used'.lines)
  PROVE  SeenInv'
<1>1. Fits(<<>>, used'.lines)
  BY NoLines
<1>2. Texts'
  BY <1>1, IdleIs DEF Texts, Stages
<1>3. Editing' /\ Landed'
  BY IdleIs DEF Editing, Landed
<1> QED
  BY <1>2, <1>3 DEF SeenInv

LEMMA WriteKeeps == ASSUME SeenInv, Write PROVE SeenInv'
<1>1. /\ call.stage \in {"planned", "repaired"} /\ used' = used
      /\ grant' = grant /\ event' = event /\ lastRead' = lastRead
  BY DEF Write
<1>2. used'.lines \in Nat /\ used.lines <= used'.lines
  BY <1>1 DEF SeenInv, Texts
<1>3. event = None
  BY <1>1 DEF SeenInv, Known
<1>4. CASE disk = call.base
  <2>1. /\ disk' = call.text /\ call' = [call EXCEPT !.stage = "written", !.hint = TRUE]
        /\ seen' = seen \cup (ToSet(call.text) \ ToSet(call.base)) /\ lapsed' = lapsed
    BY <1>4 DEF Write
  <2>2. /\ call'.stage = "written" /\ call'.hint = TRUE /\ call'.base = call.base
        /\ call'.text = call.text /\ call'.windows = call.windows /\ DOMAIN call' = DOMAIN call
    BY <2>1 DEF SeenInv, Texts
  <2>3. Accounted \subseteq Accounted' /\ ToSet(call.text) \ ToSet(call.base) \subseteq Accounted'
    BY <2>1 DEF Accounted
  <2>4. Texts'
    BY <1>1, <2>1, <2>2 DEF SeenInv, Texts, Stages
  <2>5. Known'
    <3>1. /\ Shown(grant, used'.lines, Accounted') /\ Shown(lastRead, used'.lines, Accounted')
          /\ Shown(event, used'.lines, Accounted')
      BY <1>2, <2>3, Onward
    <3> QED
      BY <1>1, <1>3, <3>1 DEF SeenInv, Known
  <2>6. Editing'
    BY <1>1, <2>2 DEF SeenInv, Editing
  <2>7. Landed'
    BY <2>2, <2>3 DEF Landed
  <2> QED
    BY <2>4, <2>5, <2>6, <2>7 DEF SeenInv
<1>5. CASE disk # call.base
  <2>1. call' = Idle /\ disk' = disk /\ Accounted' = Accounted
    BY <1>5 DEF Write, Accounted
  <2>2. Known'
    BY <1>1, <1>3, <2>1 DEF SeenInv, Known
  <2>3. /\ used'.lines \in Nat /\ DOMAIN used' = {"lines", "reads", "edits", "foreign"}
        /\ Fits(disk', used'.lines)
    BY <1>1, <2>1 DEF SeenInv, Texts
  <2> QED
    BY <2>1, <2>2, <2>3, IdleKeeps
<1> QED
  BY <1>4, <1>5

LEMMA DeleteKeeps == ASSUME SeenInv, Delete PROVE SeenInv'
<1>1. /\ event = None /\ disk' = <<>> /\ Accounted' = Accounted /\ grant' = grant /\ event' = event
      /\ lastRead' = lastRead /\ call' = [Idle EXCEPT !.stage = "deleted", !.hint = TRUE]
      /\ used' = [used EXCEPT !.edits = @ + 1]
  BY DEF Delete, Accounted
<1>2. /\ call'.stage = "deleted" /\ call'.base = <<>> /\ call'.text = <<>> /\ call'.windows = {}
      /\ DOMAIN call' = {"stage", "base", "text", "full", "hunks", "hint", "windows"}
  BY <1>1 DEF Idle
<1>3. used'.lines = used.lines /\ DOMAIN used' = DOMAIN used
  BY <1>1 DEF SeenInv, Texts
<1>4. Fits(<<>>, used.lines)
  BY NoLines
<1>5. Texts'
  BY <1>1, <1>2, <1>3, <1>4 DEF SeenInv, Texts, Stages
<1>6. Known'
  BY <1>1, <1>3 DEF SeenInv, Known
<1>7. Editing' /\ Landed'
  <2>1. disk # <<>> /\ Authority.sha = disk /\ Authority.coverage = "full-file"
    BY DEF Delete, Authorizes
  <2>2. grant.coverage = "full-file"
    BY <1>1, <2>1, PlannedWith
  <2> QED
    BY <1>1, <1>2, <2>2 DEF Editing, Landed
<1> QED
  BY <1>5, <1>6, <1>7 DEF SeenInv

LEMMA NativeKeeps == ASSUME SeenInv, NativeWrite PROVE SeenInv'
<1>1. /\ event = None /\ disk' = Fresh(2) /\ seen' = seen \cup ToSet(disk') /\ lapsed' = lapsed
      /\ grant' = grant /\ event' = event /\ lastRead' = lastRead
      /\ call' = [Idle EXCEPT !.stage = "written", !.text = disk']
      /\ used' = [used EXCEPT !.edits = @ + 1, !.lines = @ + 2]
  BY DEF NativeWrite
<1>2. /\ call'.stage = "written" /\ call'.base = <<>> /\ call'.text = disk' /\ call'.windows = {}
      /\ call'.hint = FALSE
      /\ DOMAIN call' = {"stage", "base", "text", "full", "hunks", "hint", "windows"}
  BY <1>1 DEF Idle
<1>3. used.lines \in Nat /\ used'.lines = used.lines + 2 /\ DOMAIN used' = DOMAIN used
  BY <1>1 DEF SeenInv, Texts
<1>4. used'.lines \in Nat /\ used.lines <= used'.lines
  BY <1>3
<1>5. Fits(disk', used'.lines)
  BY <1>1, <1>3, FreshAll
<1>6. Fits(<<>>, used'.lines)
  BY NoLines
<1>7. Texts'
  BY <1>2, <1>3, <1>4, <1>5, <1>6 DEF SeenInv, Texts, Stages
<1>8. Known'
  <2>1. Accounted \subseteq Accounted'
    BY <1>1 DEF Accounted
  <2>2. /\ Shown(grant, used'.lines, Accounted') /\ Shown(lastRead, used'.lines, Accounted')
        /\ Shown(event, used'.lines, Accounted')
    BY <1>4, <2>1, Onward
  <2> QED
    BY <1>1, <2>2 DEF SeenInv, Known
<1>9. Editing' /\ Landed'
  <2>1. ToSet(disk') \subseteq Accounted'
    BY <1>1 DEF Accounted
  <2> QED
    BY <1>2, <2>1 DEF Editing, Landed
<1> QED
  BY <1>7, <1>8, <1>9 DEF SeenInv

(* What the store records after a mutation has been seen.                  *)
LEMMA WholeSeen ==
  ASSUME SeenInv, call.stage = "written", disk = call.text,
         ~(call.hint /\ grant.coverage = "line-range")
  PROVE  Shown(FullFile(disk), used.lines, Accounted)
<1>1. ToSet(disk) \subseteq Accounted
  <2>1. CASE ~call.hint
    <3>1. ToSet(disk) \ ToSet(<<>>) \subseteq Accounted
      BY <2>1 DEF SeenInv, Landed
    <3>2. ToSet(<<>>) = {}
      BY DEF ToSet
    <3> QED
      BY <3>1, <3>2
  <2>2. CASE call.hint
    <3>1. /\ ToSet(call.text) \ ToSet(call.base) \subseteq Accounted
          /\ Strong(grant) /\ grant.sha = call.base /\ Shown(grant, used.lines, Accounted)
      BY <2>2 DEF SeenInv, Landed, Editing, Known
    <3>2. grant.coverage = "full-file"
      BY <2>2, <3>1 DEF Strong
    <3>3. ToSet(call.base) \subseteq Accounted
      BY <3>1, <3>2, FullGrants
    <3> QED
      BY <3>1, <3>3
  <2> QED
    BY <2>1, <2>2
<1>2. Fits(disk, used.lines)
  BY DEF SeenInv, Texts
<1> QED
  BY <1>1, <1>2, FullShown

(* What a grant is narrowed to lies in the text, and in an edit's own text *)
(* it names nothing unseen.                                                *)
LEMMA NarrowedFits ==
  ASSUME SeenInv, call.stage = "written", call.hint, grant.coverage = "line-range", NEW k \in Nat
  PROVE  \E P, m, n :
           LET N == Narrowed(grant.ranges, Blocks(call.base, call.text), k) IN
           /\ P = Pairs(call.base, call.text) /\ m = Len(call.base) /\ n = Len(call.text)
           /\ Chain(P, m, n) /\ N \subseteq (1..k) \X (1..k)
           /\ \A j \in DOMAIN call.base, l \in DOMAIN call.text :
                 call.base[j] = call.text[l] => <<j, l>> \in P
           /\ \A l \in Spans(N) : \A p \in P : p[2] = l => \E r \in grant.ranges : p[1] \in Span(r)
<1>1. PICK old, new, R : old = call.base /\ new = call.text /\ R = grant.ranges
  OBVIOUS
<1>2. /\ grant.sha = old /\ Shown(grant, used.lines, Accounted) /\ Ordered(old, new)
      /\ Fits(old, used.lines) /\ Fits(new, used.lines)
  BY <1>1 DEF SeenInv, Editing, Known, Texts
<1>3. /\ old \in Seq(Nat) /\ new \in Seq(Nat) /\ Distinct(old) /\ Distinct(new)
      /\ DOMAIN old = 1..Len(old) /\ DOMAIN new = 1..Len(new)
  BY <1>2 DEF Fits
<1>4. PICK P, m, n : P = Pairs(old, new) /\ m = Len(old) /\ n = Len(new)
  OBVIOUS
<1>5. /\ Chain(P, m, n)
      /\ \A j \in DOMAIN old, l \in DOMAIN new : old[j] = new[l] => <<j, l>> \in P
  BY <1>2, <1>3, <1>4, PairsChain
<1>6. R \subseteq (1..m) \X (1..m)
  BY <1>1, <1>2, <1>3, <1>4 DEF Shown
<1>7. PICK N : N = Narrowed(R, Between(P, m), k)
  OBVIOUS
<1>8. /\ N \subseteq (1..k) \X (1..k)
      /\ \A l \in Spans(N) : \A p \in P : p[2] = l => \E r \in R : p[1] \in Span(r)
  BY <1>5, <1>6, <1>7, NarrowedIs
<1>9. N = Narrowed(R, Blocks(old, new), k)
  BY <1>4, <1>7, BlocksAre
<1> QED
  BY <1>1, <1>4, <1>5, <1>8, <1>9

LEMMA NarrowedSeen ==
  ASSUME SeenInv, call.stage = "written", call.hint, grant.coverage = "line-range", disk = call.text
  PROVE  Shown(LineRange(Narrowed(grant.ranges, Blocks(call.base, call.text), Len(disk)), disk),
               used.lines, Accounted)
<1>1. PICK old, new, R : old = call.base /\ new = call.text /\ R = grant.ranges
  OBVIOUS
<1>2. /\ disk = new /\ ToSet(new) \ ToSet(old) \subseteq Accounted /\ grant.sha = old
      /\ Shown(grant, used.lines, Accounted) /\ Fits(new, used.lines)
  BY <1>1 DEF SeenInv, Landed, Editing, Known, Texts
<1>3. DOMAIN new = 1..Len(new) /\ Len(new) \in Nat
  BY <1>2 DEF Fits
<1>4. PICK N : N = Narrowed(R, Blocks(old, new), Len(new))
  OBVIOUS
<1>5. PICK P :
        /\ N \subseteq (1..Len(new)) \X (1..Len(new))
        /\ \A j \in DOMAIN old, l \in DOMAIN new : old[j] = new[l] => <<j, l>> \in P
        /\ \A l \in Spans(N) : \A p \in P : p[2] = l => \E r \in R : p[1] \in Span(r)
  BY <1>1, <1>3, <1>4, NarrowedFits
<1>9. ASSUME NEW l \in Spans(N) \cap DOMAIN new PROVE new[l] \in Accounted
  <2>1. CASE new[l] \in ToSet(old)
    <3>1. PICK j \in DOMAIN old : old[j] = new[l]
      BY <2>1 DEF ToSet
    <3>2. <<j, l>> \in P
      BY <1>5, <3>1
    <3>3. \E r \in R : j \in Span(r)
      BY <1>5, <3>2
    <3>4. j \in Spans(R)
      BY <3>3 DEF Spans
    <3>5. \A i \in Spans(R) \cap DOMAIN old : old[i] \in Accounted
      <4>1. grant.coverage # "full-file"
        OBVIOUS
      <4> QED
        BY <1>1, <1>2, <4>1, RangeGrants
    <3> QED
      BY <3>1, <3>4, <3>5
  <2>2. CASE new[l] \notin ToSet(old)
    BY <1>2, <2>2 DEF ToSet
  <2> QED
    BY <2>1, <2>2
<1>10. Shown(LineRange(N, new), used.lines, Accounted)
  <2>1. N \subseteq (DOMAIN new) \X (DOMAIN new)
    BY <1>3, <1>5
  <2> QED
    BY <1>2, <1>9, <2>1, RangeShown
<1> QED
  BY <1>1, <1>2, <1>4, <1>10

(* The rest of the invariant when a record was added to the store.         *)
LEMMA StoredKnown ==
  ASSUME NEW k, SeenInv, k = used.lines, NEW r, Shown(r, k, Accounted'), Accounted \subseteq Accounted', event = None,
         grant' = Recorded(grant, r), event' = event, lastRead' = lastRead, used' = used
  PROVE  Known'
<1>1. /\ used'.lines \in Nat /\ used.lines <= used'.lines /\ k = used'.lines
  BY DEF SeenInv, Texts
<1>2. /\ Shown(grant, k, Accounted') /\ Shown(lastRead, k, Accounted') /\ Shown(event, k, Accounted')
  BY <1>1, Onward
<1>3. /\ Shown(Recorded(grant, r), k, Accounted')
      /\ Strong(grant) \/ Strong(r) => Strong(Recorded(grant, r))
      /\ ~Strong(r) => Recorded(grant, r) = grant
  BY <1>2, RecordedShown
<1>4. grant' = None => grant = None
  BY <1>3, NoneShown
<1>5. grant = None /\ event = None => ~Strong(lastRead)
  BY DEF SeenInv, Known
<1> QED
  BY <1>1, <1>2, <1>3, <1>4, <1>5 DEF Known

(* What is recorded when the file is no longer what the edit left has the  *)
(* form of evidence; the lines it names are accounted for as lapsed.       *)
LEMMA StrangeKnown ==
  ASSUME SeenInv, event = None, NEW r, NEW S, Shown(r, used.lines, S), grant' = Recorded(grant, r),
         lapsed' = lapsed \cup Granted(grant'), seen' = seen,
         event' = event, lastRead' = lastRead, used' = used
  PROVE  Known'
<1>1. PICK k : k = used.lines
  OBVIOUS
<1>2. k \in Nat /\ Accounted \subseteq Accounted' /\ Granted(grant') \subseteq Accounted'
  BY <1>1 DEF SeenInv, Texts, Accounted
<1>3. /\ Shown(grant, k, Accounted') /\ Shown(lastRead, k, Accounted') /\ Shown(event, k, Accounted')
  BY <1>1, <1>2, Onward
<1>4. PICK T : T = Accounted' \cup S
  OBVIOUS
<1>5. Shown(grant, k, T) /\ Shown(r, k, T)
  <2>1. k <= k /\ Accounted' \subseteq T /\ S \subseteq T
    BY <1>2, <1>4
  <2>2. Shown(r, k, S)
    BY <1>1
  <2>3. Shown(grant, k, T)
    BY <1>2, <1>3, <2>1, ShownLater
  <2>4. Shown(r, k, T)
    BY <1>2, <2>1, <2>2, ShownLater
  <2> QED
    BY <2>3, <2>4
<1>6. /\ Shown(grant', k, T)
      /\ Strong(grant) \/ Strong(r) => Strong(grant')
      /\ ~Strong(r) => grant' = grant
  BY <1>5, RecordedShown
<1>7. Shown(grant', k, Accounted')
  BY <1>2, <1>6 DEF Shown
<1>8. grant' = None => grant = None
  BY <1>6, NoneShown
<1>9. grant = None /\ event = None => ~Strong(lastRead)
  BY DEF SeenInv, Known
<1> QED
  BY <1>1, <1>3, <1>7, <1>8, <1>9 DEF Known

LEMMA MintKeeps == ASSUME SeenInv, Mint PROVE SeenInv'
<1>1. /\ call.stage \in {"written", "deleted"} /\ call' = Idle /\ disk' = disk /\ seen' = seen
      /\ event' = event /\ lastRead' = lastRead /\ used' = used
      /\ lapsed' = lapsed \cup IF disk # call.text THEN Granted(grant') ELSE {}
  BY DEF Mint
<1>2. event = None
  BY <1>1 DEF SeenInv, Known
<1>3. PICK N : N = Narrowed(grant.ranges, Blocks(call.base, call.text), Len(disk))
  OBVIOUS
<1>4. grant' = IF disk = <<>> THEN grant
               ELSE IF ~(call.hint /\ grant.coverage = "line-range") THEN Recorded(grant, FullFile(disk))
               ELSE IF N = {} THEN grant
               ELSE Recorded(grant, LineRange(N, disk))
  BY <1>3 DEF Mint
<1>5. Accounted \subseteq Accounted' /\ used'.lines \in Nat /\ used.lines <= used'.lines
  <2>1. lapsed \subseteq lapsed'
    BY <1>1
  <2> QED
    BY <1>1, <2>1 DEF Accounted, SeenInv, Texts
<1>6. ASSUME grant' = grant PROVE Known'
  <2>1. /\ Shown(grant, used'.lines, Accounted') /\ Shown(lastRead, used'.lines, Accounted')
        /\ Shown(event, used'.lines, Accounted')
    BY <1>5, Onward
  <2> QED
    BY <1>1, <1>2, <1>6, <2>1 DEF SeenInv, Known
<1>7. ASSUME NEW r, NEW S, Shown(r, used.lines, S), disk = call.text => S = Accounted,
             grant' = Recorded(grant, r)
      PROVE  Known'
  <2>1. CASE disk = call.text
    <3>1. Shown(r, used.lines, Accounted')
      <4>1. lapsed' = lapsed
        BY <1>1, <2>1
      <4> QED
        BY <1>1, <1>7, <2>1, <4>1 DEF Accounted
    <3>2. PICK k : k = used.lines
      OBVIOUS
    <3> QED
      BY <1>1, <1>2, <1>5, <1>7, <3>1, <3>2, StoredKnown
  <2>2. CASE disk # call.text
    <3>1. lapsed' = lapsed \cup Granted(grant')
      BY <1>1, <2>2
    <3> QED
      BY <1>1, <1>2, <1>7, <3>1, StrangeKnown
  <2> QED
    BY <2>1, <2>2
<1>8. disk # <<>> /\ disk = call.text => call.stage = "written"
  BY <1>1 DEF SeenInv, Landed
<1>9. Fits(disk, used.lines) /\ DOMAIN disk = 1..Len(disk) /\ Len(disk) \in Nat
  BY DEF SeenInv, Texts, Fits
<1>10. ASSUME /\ disk # <<>> /\ ~(call.hint /\ grant.coverage = "line-range")
              /\ grant' = Recorded(grant, FullFile(disk))
       PROVE  Known'
  <2>1. CASE disk = call.text
    <3>1. Shown(FullFile(disk), used.lines, Accounted)
      BY <1>8, <1>10, <2>1, WholeSeen
    <3> QED
      BY <1>7, <1>10, <3>1
  <2>2. CASE disk # call.text
    <3>1. Shown(FullFile(disk), used.lines, ToSet(disk))
      BY <1>9, FullShown
    <3> QED
      BY <1>7, <1>10, <2>2, <3>1
  <2> QED
    BY <2>1, <2>2
<1>11. ASSUME /\ disk # <<>> /\ call.hint /\ grant.coverage = "line-range"
              /\ grant' = Recorded(grant, LineRange(N, disk))
       PROVE  Known'
  <2>1. CASE disk = call.text
    <3>1. Shown(LineRange(N, disk), used.lines, Accounted)
      BY <1>3, <1>8, <1>11, <2>1, NarrowedSeen
    <3> QED
      BY <1>7, <1>11, <3>1
  <2>2. CASE disk # call.text
    <3>1. N \subseteq (1..Len(disk)) \X (1..Len(disk))
      <4>1. call.stage = "written"
        BY <1>1, <1>11 DEF SeenInv, Landed
      <4> QED
        BY <1>3, <1>9, <1>11, <4>1, NarrowedFits
    <3>2. Shown(LineRange(N, disk), used.lines, ToSet(disk))
      <4>1. N \subseteq (DOMAIN disk) \X (DOMAIN disk)
        BY <1>9, <3>1
      <4>2. \A i \in Spans(N) \cap DOMAIN disk : disk[i] \in ToSet(disk)
        BY DEF ToSet
      <4> QED
        BY <1>9, <4>1, <4>2, RangeShown
    <3> QED
      BY <1>7, <1>11, <2>2, <3>2
  <2> QED
    BY <2>1, <2>2
<1>12. Known'
  BY <1>4, <1>6, <1>10, <1>11, Zenon
<1>13. /\ used'.lines \in Nat /\ DOMAIN used' = {"lines", "reads", "edits", "foreign"}
       /\ Fits(disk', used'.lines)
  BY <1>1 DEF SeenInv, Texts
<1> QED
  BY <1>1, <1>12, <1>13, IdleKeeps

(* Windows of a retry lie in the text.                                     *)
LEMMA WindowIn ==
  ASSUME NEW n \in Nat, NEW at \in 1..n
  PROVE  Max({1, at - 2}) \in 1..n /\ Min({n, at + 2}) \in 1..n
<1>1. /\ Max({1, at - 2}) \in {1, at - 2} /\ Max({1, at - 2}) >= 1
      /\ Min({n, at + 2}) \in {n, at + 2} /\ Min({n, at + 2}) <= n
  <2>1. 1 \in Int /\ at - 2 \in Int /\ n \in Int /\ at + 2 \in Int
    OBVIOUS
  <2> QED
    BY <2>1, TwoNumbers
<1> QED
  BY <1>1

LEMMA RetryBeginsKeeps == ASSUME SeenInv, RetryBegins PROVE SeenInv'
<1>1. /\ event = None /\ grant.coverage \in {"full-file", "line-range"} /\ grant.sha = disk
      /\ disk' = disk /\ Accounted' = Accounted /\ grant' = grant /\ event' = event /\ lastRead' = lastRead
      /\ used' = [used EXCEPT !.reads = @ + 1]
  BY DEF RetryBegins, Accounted
<1>2. PICK n \in Nat : n = Len(disk) /\ DOMAIN disk = 1..n
  BY DEF SeenInv, Texts, Fits
<1>a. PICK at \in DOMAIN disk :
         LET window == <<Max({1, at - 2}), Min({Len(disk), at + 2})>>
             cut == IF grant.coverage = "full-file" THEN {window}
                    ELSE {r \in {<<Max({window[1], a[1]}), Min({window[2], a[2]})>> : a \in grant.ranges} :
                            r[1] <= r[2]}
         IN  call' = [Idle EXCEPT !.stage = "retrying", !.base = disk, !.windows = cut]
  BY DEF RetryBegins
<1>b. at \in 1..n /\ n = Len(disk)
  BY <1>2
<1>4. PICK x, y : x = Max({1, at - 2}) /\ y = Min({n, at + 2})
  OBVIOUS
<1>5. x \in 1..n /\ y \in 1..n
  BY <1>b, <1>4, WindowIn
<1>3. PICK cut :
         /\ cut = IF grant.coverage = "full-file" THEN {<<x, y>>}
                  ELSE {r \in {<<Max({x, a[1]}), Min({y, a[2]})>> : a \in grant.ranges} : r[1] <= r[2]}
         /\ call' = [Idle EXCEPT !.stage = "retrying", !.base = disk, !.windows = cut]
  BY <1>a, <1>b, <1>4
<1>6. cut \subseteq (1..n) \X (1..n)
  <2>1. CASE grant.coverage = "full-file"
    BY <1>3, <1>5, <2>1
  <2>2. CASE grant.coverage = "line-range"
    <3>1. \A a \in grant.ranges : a[1] \in 1..n /\ a[2] \in 1..n
      BY <1>1, <1>2, <2>2 DEF SeenInv, Known, Shown
    <3>2. ASSUME NEW a \in grant.ranges
          PROVE  Max({x, a[1]}) \in 1..n /\ Min({y, a[2]}) \in 1..n
      <4>1. x \in Int /\ y \in Int /\ a[1] \in Int /\ a[2] \in Int
        BY <1>5, <3>1
      <4>2. Max({x, a[1]}) \in {x, a[1]} /\ Min({y, a[2]}) \in {y, a[2]}
        BY <4>1, TwoNumbers
      <4> QED
        BY <1>5, <3>1, <4>2
    <3>3. cut = {r \in {<<Max({x, a[1]}), Min({y, a[2]})>> : a \in grant.ranges} : r[1] <= r[2]}
      BY <1>3, <2>2
    <3>4. ASSUME NEW r \in cut PROVE r \in (1..n) \X (1..n)
      <4>1. PICK a \in grant.ranges : r = <<Max({x, a[1]}), Min({y, a[2]})>>
        BY <3>3
      <4> QED
        BY <3>2, <4>1
    <3> QED
      BY <3>4
  <2> QED
    BY <1>1, <2>1, <2>2
<1>7. /\ call'.stage = "retrying" /\ call'.base = disk /\ call'.text = <<>> /\ call'.windows = cut
      /\ DOMAIN call' = {"stage", "base", "text", "full", "hunks", "hint", "windows"}
  BY <1>3 DEF Idle
<1>8. used'.lines = used.lines /\ DOMAIN used' = DOMAIN used
  BY <1>1 DEF SeenInv, Texts
<1>9. Fits(<<>>, used.lines)
  BY NoLines
<1>10. Texts'
  BY <1>1, <1>2, <1>6, <1>7, <1>8, <1>9 DEF SeenInv, Texts, Stages
<1>11. Known'
  BY <1>1, <1>8 DEF SeenInv, Known
<1>12. Editing' /\ Landed'
  BY <1>7 DEF Editing, Landed
<1> QED
  BY <1>10, <1>11, <1>12 DEF SeenInv

LEMMA RetryEndsKeeps == ASSUME SeenInv, RetryEnds PROVE SeenInv'
<1>1. /\ call.stage = "retrying" /\ call' = Idle /\ disk' = disk /\ event' = event
      /\ lastRead' = lastRead /\ used' = used
  BY DEF RetryEnds
<1>2. event = None
  BY <1>1 DEF SeenInv, Known
<1>3. /\ used'.lines \in Nat /\ DOMAIN used' = {"lines", "reads", "edits", "foreign"}
      /\ Fits(disk', used'.lines)
  BY <1>1 DEF SeenInv, Texts
<1>4. CASE disk = call.base
  <2>1. PICK r : r = LineRange(call.windows, disk)
    OBVIOUS
  <2>2. /\ grant' = Recorded(grant, r) /\ Granted(r) \subseteq Accounted'
        /\ Accounted \subseteq Accounted'
    BY <1>4, <2>1 DEF RetryEnds, Accounted
  <2>3. Shown(r, used.lines, Accounted')
    <3>1. Fits(disk, used.lines) /\ call.windows \subseteq (DOMAIN disk) \X (DOMAIN disk)
      BY <1>4 DEF SeenInv, Texts
    <3>2. \A i \in Spans(call.windows) \cap DOMAIN disk : disk[i] \in Accounted'
      BY <2>1, <2>2 DEF LineRange, Granted
    <3> QED
      BY <2>1, <3>1, <3>2, RangeShown
  <2>4. Accounted \subseteq Accounted'
    BY <2>2
  <2>5. Known'
    BY <1>1, <1>2, <2>2, <2>3, <2>4, StoredKnown
  <2> QED
    BY <1>1, <1>3, <2>5, IdleKeeps
<1>5. CASE disk # call.base
  <2>1. grant' = grant /\ Accounted' = Accounted
    BY <1>5 DEF RetryEnds, Accounted
  <2>2. Known'
    BY <1>1, <1>2, <2>1 DEF SeenInv, Known
  <2> QED
    BY <1>1, <1>3, <2>2, IdleKeeps
<1> QED
  BY <1>4, <1>5

LEMMA ForeignKeeps == ASSUME SeenInv, Foreign PROVE SeenInv'
<1>1. /\ call' = call /\ Accounted' = Accounted /\ grant' = grant
      /\ event' = event /\ lastRead' = lastRead
      /\ used' = [used EXCEPT !.foreign = @ + 1, !.lines = used.lines + 1]
  BY DEF Foreign, Accounted
<1>2. \/ \E k \in DOMAIN disk : disk' = [disk EXCEPT ![k] = used.lines + 1]
      \/ \E k \in DOMAIN disk : disk' = InsertAt(disk, k, used.lines + 1)
      \/ disk' = <<used.lines + 1>>
  BY DEF Foreign
<1>3. used.lines \in Nat /\ used'.lines = used.lines + 1 /\ DOMAIN used' = DOMAIN used
  BY <1>1 DEF SeenInv, Texts
<1>4. used'.lines \in Nat /\ used.lines <= used'.lines /\ Accounted \subseteq Accounted'
  BY <1>1, <1>3
<1>5. /\ Fits(disk, used'.lines) /\ Fits(call.base, used'.lines) /\ Fits(call.text, used'.lines)
      /\ Shown(grant, used'.lines, Accounted') /\ Shown(lastRead, used'.lines, Accounted')
      /\ Shown(event, used'.lines, Accounted')
  BY <1>4, Onward
<1>6. Fits(disk', used'.lines)
  <2>1. PICK K \in Nat : K = used.lines
    BY <1>3
  <2>2. Fits(disk, K)
    BY <2>1 DEF SeenInv, Texts
  <2>3. CASE \E k \in DOMAIN disk : disk' = [disk EXCEPT ![k] = K + 1]
    <3>1. PICK k \in DOMAIN disk : disk' = [disk EXCEPT ![k] = K + 1]
      BY <2>3
    <3>2. Fits(disk', K + 1)
      BY <2>2, <3>1, ReplaceOne
    <3> QED
      BY <1>3, <2>1, <3>2
  <2>4. CASE \E k \in DOMAIN disk : disk' = InsertAt(disk, k, K + 1)
    BY <1>3, <2>1, <2>2, <2>4, InsertFits
  <2>5. CASE disk' = <<K + 1>>
    <3>1. PICK s : s = <<K + 1>>
      OBVIOUS
    <3>2. s \in Seq(Nat) /\ DOMAIN s = 1..1 /\ s[1] = K + 1
      BY <2>1, <3>1
    <3>3. Fits(s, K + 1)
      BY <2>1, <3>2 DEF Fits, Distinct
    <3> QED
      BY <1>3, <2>1, <2>5, <3>1, <3>3
  <2> QED
    BY <1>2, <2>1, <2>3, <2>4, <2>5
<1>7. Texts'
  BY <1>1, <1>3, <1>4, <1>5, <1>6 DEF SeenInv, Texts
<1>8. Known'
  BY <1>1, <1>5 DEF SeenInv, Known
<1>9. Editing'
  BY <1>1 DEF SeenInv, Editing
<1>10. Landed'
  BY <1>1 DEF SeenInv, Landed
<1> QED
  BY <1>7, <1>8, <1>9, <1>10 DEF SeenInv

LEMMA SeenStep == SeenInv /\ [Next]_vars => SeenInv'
<1> SUFFICES ASSUME SeenInv, [Next]_vars PROVE SeenInv'
  OBVIOUS
<1>1. CASE Read
  BY <1>1, ReadKeeps
<1>2. CASE ResultArrives
  BY <1>2, ArrivalKeeps
<1>3. CASE NewSession
  BY <1>3, SessionKeeps
<1>4. CASE Plan
  BY <1>4, PlanKeeps
<1>5. CASE Repair
  BY <1>5, RepairKeeps
<1>6. CASE Write
  BY <1>6, WriteKeeps
<1>7. CASE Delete
  BY <1>7, DeleteKeeps
<1>8. CASE NativeWrite
  BY <1>8, NativeKeeps
<1>9. CASE Mint
  BY <1>9, MintKeeps
<1>10. CASE RetryBegins
  BY <1>10, RetryBeginsKeeps
<1>11. CASE RetryEnds
  BY <1>11, RetryEndsKeeps
<1>12. CASE Foreign
  BY <1>12, ForeignKeeps
<1>13. CASE UNCHANGED vars
  <2>1. /\ disk' = disk /\ Accounted' = Accounted /\ grant' = grant /\ event' = event
        /\ lastRead' = lastRead /\ call' = call /\ used' = used
    BY <1>13 DEF vars, Accounted
  <2>2. Texts' /\ Known'
    BY <2>1 DEF SeenInv, Texts, Known
  <2>3. Editing' /\ Landed'
    BY <2>1 DEF SeenInv, Editing, Landed
  <2> QED
    BY <2>2, <2>3 DEF SeenInv
<1> QED
  BY <1>1, <1>2, <1>3, <1>4, <1>5, <1>6, <1>7, <1>8, <1>9, <1>10, <1>11, <1>12, <1>13 DEF Next

(* However reads, edits, repairs, deletions, retries, sessions and the     *)
(* writes of others alternate: while the file is the one the grant of the  *)
(* store was recorded for, the grant names only lines the agent was shown  *)
(* or wrote (narrowPostEditRanges, store.record, buildMutationEvidence),   *)
(* but for the lines that lapsed: those the evidence for an edit named     *)
(* when it was read from a file somebody else had written since, and those *)
(* a repair replaced after a pure insertion or deletion.                   *)
THEOREM OnlySeenIsGranted == Spec => []AuthorityObserved
<1>1. Init => SeenInv
  BY SeenInit
<1>2. SeenInv /\ [Next]_vars => SeenInv'
  BY SeenStep
<1>3. SeenInv => AuthorityObserved
  BY DEF SeenInv, Known, Shown, AuthorityObserved, Accounted
<1> QED
  BY <1>1, <1>2, <1>3, PTL DEF Spec

-----------------------------------------------------------------------------
(* How far a repair's line is moved: the sum over the hunks before it.     *)
Shift(H, S) ==
    CHOOSE f : f = [s \in SUBSET S |-> IF s = {} THEN 0
                        ELSE LET x == CHOOSE x \in s : TRUE
                             IN ((Preimage(H)[x][2] - Preimage(H)[x][1])
                                   - (Postimage(H)[x][2] - Postimage(H)[x][1])) + f[s \ {x}]]

Grown(H, S) == [i \in S |-> (Preimage(H)[i][2] - Preimage(H)[i][1])
                              - (Postimage(H)[i][2] - Postimage(H)[i][1])]

LEMMA ShiftIs ==
  ASSUME NEW H, NEW S, IsFiniteSet(S), NEW g, Adds(g, Grown(H, S), S)
  PROVE  Shift(H, S)[S] = g[S]
<1> DEFINE w == Grown(H, S)
           h == [s \in SUBSET S |-> g[s]]
           G(f) == [s \in SUBSET S |-> IF s = {} THEN 0
                        ELSE LET x == CHOOSE x \in s : TRUE
                             IN ((Preimage(H)[x][2] - Preimage(H)[x][1])
                                   - (Postimage(H)[x][2] - Postimage(H)[x][1])) + f[s \ {x}]]
           a == CHOOSE f : f = G(f)
<1>1. Shift(H, S) = a
  BY DEF Shift
<1>2. ASSUME NEW f PROVE f = G(f) <=> Iterated(f, w, S)
  <2>1. ASSUME NEW s \in SUBSET S, s # {}
        PROVE  w[CHOOSE x \in s : TRUE] =
                 LET x == CHOOSE x \in s : TRUE
                 IN (Preimage(H)[x][2] - Preimage(H)[x][1]) - (Postimage(H)[x][2] - Postimage(H)[x][1])
    BY <2>1 DEF Grown
  <2> HIDE DEF w
  <2>2. G(f) = [s \in SUBSET S |-> IF s = {} THEN 0
                            ELSE w[CHOOSE x \in s : TRUE] + f[s \ {CHOOSE x \in s : TRUE}]]
    BY <2>1
  <2> HIDE DEF G
  <2> QED
    BY <2>2 DEF Iterated
<1>3. Adds(h, w, S)
  BY Restricted
<1> HIDE DEF G
<1>4. Iterated(h, w, S)
  <2>1. ASSUME NEW s \in SUBSET S
        PROVE  h[s] = IF s = {} THEN 0 ELSE w[CHOOSE x \in s : TRUE] + h[s \ {CHOOSE x \in s : TRUE}]
    <3>1. PICK c : c = CHOOSE x \in s : TRUE
      OBVIOUS
    <3>2. s # {} => c \in s
      BY <3>1
    <3> HIDE DEF h, w
    <3> QED
      BY <1>3, <3>1, <3>2 DEF Adds
  <2>2. h = [s \in SUBSET S |-> h[s]]
    OBVIOUS
  <2> HIDE DEF h, w
  <2> QED
    BY <2>1, <2>2 DEF Iterated
<1>5. Iterated(a, w, S)
  <2> HIDE DEF h, w
  <2>1. h = G(h)
    BY <1>2, <1>4
  <2>2. a = G(a)
    BY <2>1
  <2> HIDE DEF a
  <2> QED
    BY <1>2, <2>2
<1>6. a[S] = h[S]
  <2> HIDE DEF a, h, w
  <2> QED
    BY <1>3, <1>5, IteratedIs
<1>7. h[S] = g[S]
  OBVIOUS
<1> HIDE DEF a, h
<1> QED
  BY <1>1, <1>6, <1>7

(* One hunk or two to add up.                                              *)
LEMMA SumIs ==
  ASSUME NEW S, NEW w, NEW g, Adds(g, w, S), \A i \in S : w[i] \in Int
  PROVE  /\ S = {} => g[S] = 0
         /\ S = {1} => g[S] = w[1]
         /\ S = {1, 2} => g[S] = w[1] + w[2]
<1>1. g[{}] = 0
  BY DEF Adds
<1>2. ASSUME 1 \in S PROVE g[{1}] = w[1]
  <2>1. {1} \in SUBSET S /\ 1 \in {1} /\ {1} \ {1} = {} /\ w[1] \in Int
    BY <1>2
  <2>2. g[{1}] = w[1] + g[{1} \ {1}]
    BY <2>1 DEF Adds
  <2> QED
    BY <1>1, <2>1, <2>2
<1>3. ASSUME S = {1, 2} PROVE g[S] = w[1] + w[2]
  <2>1. S \in SUBSET S /\ 2 \in S /\ S \ {2} = {1} /\ 1 \in S /\ w[1] \in Int /\ w[2] \in Int
    BY <1>3
  <2>2. g[S] = w[2] + g[S \ {2}]
    BY <2>1 DEF Adds
  <2>3. g[S \ {2}] = w[1]
    BY <1>2, <2>1
  <2> QED
    BY <2>1, <2>2, <2>3
<1> QED
  BY <1>1, <1>2, <1>3

\* A line past both spans stays past both of them once their growth is added.
LEMMA PastBoth ==
  ASSUME NEW k \in Int, NEW b \in Int, NEW l \in Int, NEW m \in Int, NEW x,
         k > b + (1 - l), x = k + ((l - 1) + (m - 1))
  PROVE  x \in Int /\ x > b + m - 1
  OBVIOUS

(* When an edit replaces lines by lines in all its places, a line that     *)
(* maps into what it replaced is one it wrote.                             *)
LEMMA MapsInside ==
  ASSUME NEW n \in Nat, NEW H \in Hunks(n), Disjoint(H), ~EmptySpan(H), NEW k \in Nat,
         Confined(H, <<k, k>>)
  PROVE  /\ \A i \in DOMAIN H : H[i].new = 1
         /\ \E i \in DOMAIN H : k = Postimage(H)[i][1]
<1>1. /\ Len(H) \in {1, 2} /\ DOMAIN H = 1..Len(H)
      /\ \A i \in DOMAIN H : H[i].at \in 1..n /\ H[i].len \in 0..2 /\ H[i].new \in 0..1
      /\ Len(H) = 2 => H[1].at + H[1].len < H[2].at
  BY HunksAre
<1>2. ASSUME NEW i \in DOMAIN H
      PROVE  H[i].len \in 1..2 /\ H[i].new = 1 /\ H[i].at \in Nat
  <2>1. H[i].len # 0 /\ H[i].new # 0
    BY DEF EmptySpan
  <2> QED
    BY <1>1, <2>1
<1> DEFINE pre(i) == H[i].at
           last(i) == H[i].at + H[i].len - 1
           post(i) == H[i].at + IF i = 1 THEN 0 ELSE 1 - H[1].len
<1>3. ASSUME NEW i \in DOMAIN H
      PROVE  /\ Preimage(H)[i] = <<pre(i), last(i)>> /\ Postimage(H)[i] = <<post(i), post(i)>>
             /\ pre(i) \in Nat /\ last(i) \in Int /\ post(i) \in Int
  <2>1. 1 \in DOMAIN H
    BY <1>1
  <2>2. PICK x \in Nat, y \in 1..2 : x = H[i].at /\ y = H[i].len
    BY <1>2
  <2>3. Preimage(H)[i] = LineSpan(x, y)
    BY <2>2 DEF Preimage
  <2>4. LineSpan(x, y) = <<x, x + y - 1>>
    BY <2>2 DEF LineSpan
  <2>5. PICK z \in Int : z = post(i)
    BY <1>2, <2>1
  <2>6. Postimage(H)[i] = LineSpan(z, 1)
    BY <1>2, <2>1, <2>5 DEF Postimage
  <2>7. LineSpan(z, 1) = <<z, z>>
    BY <2>5 DEF LineSpan
  <2> QED
    BY <2>2, <2>3, <2>4, <2>5, <2>6, <2>7
<1> DEFINE in == {i \in DOMAIN H : k \in Span(Postimage(H)[i])}
           before == {i \in DOMAIN H : k > Postimage(H)[i][2]}
<1>4. ASSUME NEW i \in in PROVE k = Postimage(H)[i][1]
  <2>1. k \in post(i)..post(i)
    BY <1>3 DEF Span
  <2> QED
    BY <1>3, <2>1
<1>5. CASE in = {}
  <2>1. PICK i \in DOMAIN H : Within(<<MapLine(H, k), MapLine(H, k)>>, Preimage(H)[i])
    BY DEF Confined
  <2>2. pre(i) <= MapLine(H, k) /\ MapLine(H, k) <= last(i)
    BY <1>3, <2>1 DEF Within
  <2>3. MapLine(H, k) = k + Shift(H, before)[before]
    BY <1>5 DEF MapLine, MapThenSumSet, MapThenFoldSet, Shift
  <2>4. IsFiniteSet(before) /\ before \subseteq DOMAIN H
    <3>1. IsFiniteSet(DOMAIN H)
      BY <1>1, FS_Interval
    <3> QED
      BY <3>1, FS_Subset
  <2>5. ASSUME NEW j \in before PROVE Grown(H, before)[j] = H[j].len - 1
    <3>1. j \in DOMAIN H
      OBVIOUS
    <3>2. Grown(H, before)[j] = (last(j) - pre(j)) - (post(j) - post(j))
      BY <1>3, <3>1 DEF Grown
    <3> QED
      BY <1>2, <1>3, <3>1, <3>2
  <2>6. \A j \in before : Grown(H, before)[j] \in Int
    BY <1>2, <2>5
  <2>7. PICK g : Adds(g, Grown(H, before), before)
    <3> HIDE DEF before
    <3> QED
      BY <2>4, <2>6, AddsUp DEF Addable
  <2>8. MapLine(H, k) = k + g[before]
    <3> HIDE DEF before
    <3> QED
      BY <2>3, <2>4, <2>7, ShiftIs
  <2>9. /\ before = {} => g[before] = 0
        /\ before = {1} => g[before] = Grown(H, before)[1]
        /\ before = {1, 2} => g[before] = Grown(H, before)[1] + Grown(H, before)[2]
    <3> HIDE DEF before
    <3> QED
      BY <2>6, <2>7, SumIs
  <2>10. \A j \in DOMAIN H : j \in before <=> k > post(j)
    BY <1>3
  <2>11. \A j \in DOMAIN H : k # post(j)
    BY <1>3, <1>5 DEF Span
  <2>12. PICK a \in Nat, l \in 1..2 : a = H[1].at /\ l = H[1].len
    BY <1>1, <1>2
  <2>13. CASE Len(H) = 1
    <3>1. i = 1 /\ DOMAIN H = {1}
      BY <1>1, <2>13
    <3>2. k # a /\ (1 \in before <=> k > a)
      BY <2>10, <2>11, <2>12, <3>1
    <3>3. a <= MapLine(H, k) /\ MapLine(H, k) <= a + l - 1
      BY <2>2, <2>12, <3>1
    <3>4. CASE k > a
      <4>1. before = {1}
        BY <3>1, <3>2, <3>4
      <4>2. Grown(H, before)[1] = l - 1
        BY <2>5, <2>12, <4>1
      <4>3. MapLine(H, k) = k + (l - 1)
        BY <2>8, <2>9, <4>1, <4>2
      <4> QED
        BY <2>12, <3>3, <3>4, <4>3
    <3>5. CASE ~(k > a)
      <4>1. before = {}
        BY <3>1, <3>2, <3>5
      <4>2. MapLine(H, k) = k
        BY <2>8, <2>9, <4>1
      <4> QED
        BY <2>12, <3>2, <3>3, <3>5, <4>2
    <3> QED
      BY <3>4, <3>5
  <2>14. CASE Len(H) = 2
    <3>0. DOMAIN H = {1, 2}
      BY <1>1, <2>14
    <3>1. PICK b \in Nat, m \in 1..2 : b = H[2].at /\ m = H[2].len
      BY <1>2, <3>0
    <3>2. a + l < b
      BY <1>1, <2>12, <2>14, <3>1
    <3>3. /\ k # a /\ (1 \in before <=> k > a)
          /\ k # b + (1 - l) /\ (2 \in before <=> k > b + (1 - l))
      BY <2>10, <2>11, <2>12, <3>0, <3>1
    <3>4. \/ a <= MapLine(H, k) /\ MapLine(H, k) <= a + l - 1
          \/ b <= MapLine(H, k) /\ MapLine(H, k) <= b + m - 1
      BY <2>2, <2>12, <3>0, <3>1
    <3>5. CASE k < a
      <4>1. before = {}
        BY <2>12, <3>0, <3>1, <3>2, <3>3, <3>5
      <4>2. MapLine(H, k) = k
        BY <2>8, <2>9, <4>1
      <4> QED
        BY <2>12, <3>1, <3>2, <3>4, <3>5, <4>2
    <3>6. CASE k > a /\ k < b + (1 - l)
      <4>1. before = {1}
        BY <2>12, <3>0, <3>1, <3>3, <3>6
      <4>2. Grown(H, before)[1] = l - 1
        BY <2>5, <2>12, <4>1
      <4>3. MapLine(H, k) = k + (l - 1)
        BY <2>8, <2>9, <4>1, <4>2
      <4> QED
        BY <2>12, <3>1, <3>2, <3>4, <3>6, <4>3
    <3>7. CASE k > b + (1 - l)
      <4>1. before = {1, 2}
        BY <2>12, <3>0, <3>1, <3>2, <3>3, <3>7
      <4>2. Grown(H, before)[1] = l - 1 /\ Grown(H, before)[2] = m - 1
        BY <2>5, <2>12, <3>1, <4>1
      <4>3. MapLine(H, k) = k + ((l - 1) + (m - 1))
        BY <2>8, <2>9, <4>1, <4>2
      <4>4. PICK x : x = MapLine(H, k)
        OBVIOUS
      <4>5. k \in Int /\ b \in Int /\ l \in Int /\ m \in Int
        BY <2>12, <3>1
      <4>6. x = k + ((l - 1) + (m - 1))
        BY <4>3, <4>4
      <4>7. x \in Int /\ x > b + m - 1
        BY <3>7, <4>5, <4>6, PastBoth
      <4>8. x <= a + l - 1 \/ x <= b + m - 1
        BY <3>4, <4>4
      <4>9. FALSE
        BY <2>12, <3>1, <3>2, <4>7, <4>8
      <4> QED
        BY <4>9
    <3> QED
      BY <2>12, <3>1, <3>3, <3>5, <3>6, <3>7
  <2> QED
    BY <1>1, <2>13, <2>14
<1>6. CASE in # {}
  <2>1. PICK i \in in : TRUE
    BY <1>6
  <2>2. i \in DOMAIN H
    OBVIOUS
  <2>3. k = Postimage(H)[i][1]
    BY <1>4
  <2> QED
    BY <1>2, <2>2, <2>3
<1> QED
  BY <1>2, <1>5, <1>6

-----------------------------------------------------------------------------
(* What an edit on its way takes away has been seen; so has every line in  *)
(* reach of a repair.                                                      *)
Taken ==
    /\ call.stage \in {"planned", "repaired"} =>
         /\ ToSet(call.base) \ ToSet(call.text) \subseteq Accounted
         /\ call.full => grant.coverage = "full-file"
    /\ call.stage = "planned" =>
         /\ call.hunks \in Hunks(Len(call.base)) /\ Disjoint(call.hunks)
         /\ (\A i \in DOMAIN call.hunks : call.hunks[i].new = 1) =>
              \A i \in DOMAIN call.hunks :
                 call.text[Postimage(call.hunks)[i][1]] \notin ToSet(call.base)

LEMMA PlanTakes == ASSUME SeenInv, Plan PROVE Taken'
<1>1. PICK H \in Hunks(Len(disk)) :
         /\ Disjoint(H)
         /\ Planned(call', disk, Apply(disk, H), grant.coverage = "full-file", H)
         /\ Edited(disk, Apply(disk, H), used'.lines, Accounted, H)
  BY PlanIs
<1>2. Accounted' = Accounted /\ grant' = grant
  BY DEF Plan, Accounted
<1>3. PICK t : t = Apply(disk, H)
  OBVIOUS
<1>4. /\ call'.base = disk /\ call'.text = t /\ call'.hunks = H
      /\ call'.full = (grant.coverage = "full-file")
  BY <1>1, <1>3 DEF Planned
<1>5. /\ ToSet(disk) \ ToSet(t) \subseteq Accounted
      /\ (\A i \in DOMAIN H : H[i].new = 1) =>
           \A i \in DOMAIN H : t[Postimage(H)[i][1]] \notin ToSet(disk)
  BY <1>1, <1>3 DEF Edited
<1>6. call'.full => grant'.coverage = "full-file"
  BY <1>2, <1>4
<1> QED
  BY <1>1, <1>2, <1>4, <1>5, <1>6 DEF Taken

LEMMA RepairTakes == ASSUME SeenInv, Taken, Repair PROVE Taken'
<1>1. /\ call.stage = "planned" /\ call'.stage = "repaired" /\ call'.base = call.base
      /\ call'.full = call.full
  BY RepairIs
<1>2. PICK k \in DOMAIN call.text :
         /\ call.full \/ Confined(call.hunks, <<k, k>>)
         /\ call'.text = [call.text EXCEPT ![k] = used.lines + 1]
         /\ ~call.full /\ EmptySpan(call.hunks) => call.text[k] \in lapsed'
  BY RepairIs
<1>3. grant' = grant /\ Accounted \subseteq Accounted' /\ lapsed' \subseteq Accounted'
  <2>1. lapsed \subseteq lapsed'
    BY RepairIs
  <2> QED
    BY <2>1 DEF Repair, Accounted
<1>4. PICK base, t, H : base = call.base /\ t = call.text /\ H = call.hunks
  OBVIOUS
<1>5. PICK K \in Nat : K = used.lines
  BY DEF SeenInv, Texts
<1>6. Fits(base, K) /\ Fits(t, K) /\ Ordered(base, t) /\ grant.sha = base
  BY <1>1, <1>4, <1>5 DEF SeenInv, Texts, Editing
<1>7. /\ ToSet(base) \ ToSet(t) \subseteq Accounted
      /\ call.full => grant.coverage = "full-file"
      /\ H \in Hunks(Len(base)) /\ Disjoint(H)
      /\ (\A i \in DOMAIN H : H[i].new = 1) =>
           \A i \in DOMAIN H : t[Postimage(H)[i][1]] \notin ToSet(base)
  BY <1>1, <1>4 DEF Taken
<1>8. k \in Nat /\ Len(base) \in Nat
  BY <1>2, <1>4, <1>6 DEF Fits
<1>9. t[k] \in Accounted' \/ t[k] \notin ToSet(base)
  <2>1. CASE call.full
    <3>1. Shown(grant, used.lines, Accounted)
      BY DEF SeenInv, Known
    <3>2. ToSet(base) \subseteq Accounted
      BY <1>6, <1>7, <2>1, <3>1, FullGrants
    <3> QED
      BY <1>3, <3>2
  <2>2. CASE ~call.full /\ EmptySpan(H)
    BY <1>2, <1>3, <1>4, <2>2
  <2>3. CASE ~call.full /\ ~EmptySpan(H)
    <3>1. Confined(H, <<k, k>>)
      BY <1>2, <1>4, <2>3
    <3>2. /\ \A i \in DOMAIN H : H[i].new = 1
          /\ \E i \in DOMAIN H : k = Postimage(H)[i][1]
      BY <1>7, <1>8, <2>3, <3>1, MapsInside
    <3> QED
      BY <1>7, <3>2
  <2> QED
    BY <2>1, <2>2, <2>3
<1>10. PICK u : u = [t EXCEPT ![k] = K + 1]
  OBVIOUS
<1>11. \A l \in ToSet(base) : l \notin ToSet(u) => l \notin ToSet(t) \/ l = t[k]
  BY <1>2, <1>4, <1>6, <1>10, ReplaceKeeps
<1>12. ASSUME NEW l \in ToSet(base), l \notin ToSet(u) PROVE l \in Accounted'
  <2>1. CASE l \notin ToSet(t)
    BY <1>3, <1>7, <2>1
  <2>2. CASE l = t[k]
    BY <1>9, <2>2
  <2> QED
    BY <1>11, <1>12, <2>1, <2>2
<1>13. call'.base = base /\ call'.text = u
  BY <1>1, <1>2, <1>4, <1>5, <1>10
<1> QED
  BY <1>1, <1>3, <1>7, <1>12, <1>13 DEF Taken

LEMMA TakenStep ==
  SeenInv /\ Taken /\ [Next]_vars => Taken'
<1> SUFFICES ASSUME SeenInv, Taken, [Next]_vars PROVE Taken'
  OBVIOUS
<1>1. CASE Plan
  BY <1>1, PlanTakes
<1>2. CASE Repair
  BY <1>2, RepairTakes
<1>3. CASE call'.stage \notin {"planned", "repaired"}
  BY <1>3 DEF Taken
<1>4. CASE call' = call /\ Accounted \subseteq Accounted' /\ grant' = grant
  BY <1>4 DEF Taken
<1>5. CASE Read \/ ResultArrives \/ NewSession
  <2>1. call.stage = "idle" /\ call' = call
    BY <1>5 DEF Read, ResultArrives, NewSession
  <2> QED
    BY <1>3, <2>1
<1>6. CASE Write
  <2>1. DOMAIN call = {"stage", "base", "text", "full", "hunks", "hint", "windows"}
    BY DEF SeenInv, Texts
  <2>2. call' = Idle \/ call' = [call EXCEPT !.stage = "written", !.hint = TRUE]
    BY <1>6 DEF Write
  <2>3. call'.stage \in {"idle", "written"}
    BY <2>1, <2>2, IdleIs
  <2> QED
    BY <1>3, <2>3
<1>7. CASE Delete \/ NativeWrite
  <2>1. \/ call' = [Idle EXCEPT !.stage = "deleted", !.hint = TRUE]
        \/ call' = [Idle EXCEPT !.stage = "written", !.text = disk']
    BY <1>7 DEF Delete, NativeWrite
  <2>2. call'.stage \in {"deleted", "written"}
    BY <2>1 DEF Idle
  <2> QED
    BY <1>3, <2>2
<1>8. CASE Mint \/ RetryEnds
  <2>1. call' = Idle
    BY <1>8 DEF Mint, RetryEnds
  <2> QED
    BY <1>3, <2>1, IdleIs
<1>9. CASE RetryBegins
  <2>1. \E W : call' = [Idle EXCEPT !.stage = "retrying", !.base = disk, !.windows = W]
    BY <1>9 DEF RetryBegins
  <2>2. call'.stage = "retrying"
    BY <2>1 DEF Idle
  <2> QED
    BY <1>3, <2>2
<1>10. CASE Foreign
  BY <1>4, <1>10 DEF Foreign, Accounted
<1>11. CASE UNCHANGED vars
  BY <1>4, <1>11 DEF vars, Accounted
<1> QED
  BY <1>1, <1>2, <1>5, <1>6, <1>7, <1>8, <1>9, <1>10, <1>11 DEF Next

(* What a call takes away when it begins to announce a change.             *)
TakesAway == (call'.hint /\ ~call.hint) => ToSet(disk) \ ToSet(disk') \subseteq Accounted

LEMMA TakesSeen ==
  ASSUME SeenInv, Taken, [Next]_vars
  PROVE  TakesAway
<1>1. CASE Plan
  <2>1. call'.hint = FALSE
    BY <1>1, PlanIs DEF Planned
  <2> QED
    BY <2>1 DEF TakesAway
<1>2. CASE Repair
  <2>1. call'.hint = call.hint
    BY <1>2, RepairIs
  <2> QED
    BY <2>1 DEF TakesAway
<1>3. CASE call' = call
  BY <1>3 DEF TakesAway
<1>4. CASE Write
  <2>1. CASE disk = call.base
    <3>1. disk' = call.text /\ call.stage \in {"planned", "repaired"}
      BY <1>4, <2>1 DEF Write
    <3>2. ToSet(call.base) \ ToSet(call.text) \subseteq Accounted
      BY <3>1 DEF Taken
    <3>3. ToSet(disk) \ ToSet(disk') \subseteq Accounted
      BY <2>1, <3>1, <3>2
    <3> QED
      BY <3>3 DEF TakesAway
  <2>2. CASE disk # call.base
    <3>1. call'.hint = FALSE
      BY <1>4, <2>2, IdleIs DEF Write
    <3> QED
      BY <3>1 DEF TakesAway
  <2> QED
    BY <2>1, <2>2
<1>5. CASE Delete
  <2>1. /\ event = None /\ disk # <<>> /\ Authority.sha = disk
        /\ Authorizes(Authority, {}, TRUE)
    BY <1>5 DEF Delete
  <2>2. Authority = grant
    BY <2>1, PlannedWith
  <2>3. grant.coverage = "full-file" /\ grant.sha = disk
    BY <2>1, <2>2 DEF Authorizes
  <2>4. Shown(grant, used.lines, Accounted)
    BY DEF SeenInv, Known
  <2>5. ToSet(disk) \subseteq Accounted
    BY <2>3, <2>4, FullGrants
  <2> QED
    BY <2>5 DEF TakesAway
<1>6. CASE NativeWrite \/ RetryBegins
  <2>1. \/ call' = [Idle EXCEPT !.stage = "written", !.text = disk']
        \/ \E W : call' = [Idle EXCEPT !.stage = "retrying", !.base = disk, !.windows = W]
    BY <1>6 DEF NativeWrite, RetryBegins
  <2>2. call'.hint = FALSE
    BY <2>1 DEF Idle
  <2> QED
    BY <2>2 DEF TakesAway
<1>7. CASE Mint \/ RetryEnds
  <2>1. call'.hint = FALSE
    BY <1>7, IdleIs DEF Mint, RetryEnds
  <2> QED
    BY <2>1 DEF TakesAway
<1>8. CASE Read \/ ResultArrives \/ NewSession \/ Foreign \/ UNCHANGED vars
  BY <1>3, <1>8 DEF Read, ResultArrives, NewSession, Foreign, vars
<1> QED
  BY <1>1, <1>2, <1>4, <1>5, <1>6, <1>7, <1>8 DEF Next

(* An edit or a deletion, with the repair it took along, takes away only   *)
(* lines the agent was shown or wrote, whatever others did to the file     *)
(* between planning and writing: the content is compared twice, every span *)
(* replaced lies in the grant, and a repair maps back into what the edit   *)
(* replaced (planGroupMutation, recheckPrewriteFreshness,                  *)
(* decideRepairConfinement).  Excepted are the lines that lapsed: those    *)
(* named by evidence read from a file somebody else had written since the  *)
(* edit, and the line a repair took after a pure insertion or deletion.    *)
(* After any other edit, one that changes the number of lines included, a  *)
(* repair can only replace what the edit itself wrote.                     *)
THEOREM OnlySeenIsReplaced == Spec => OnlyObservedReplaced
<1>1. Init => SeenInv /\ Taken
  <2>1. Init => Taken
    BY IdleIs DEF Init, Taken
  <2> QED
    BY <2>1, SeenInit
<1>2. SeenInv /\ Taken /\ [Next]_vars => (SeenInv /\ Taken)'
  BY SeenStep, TakenStep
<1>3. SeenInv /\ Taken /\ [Next]_vars => [TakesAway]_vars
  BY TakesSeen
<1>4. Spec => [][TakesAway]_vars
  BY <1>1, <1>2, <1>3, PTL DEF Spec
<1> QED
  BY <1>4, PTL DEF OnlyObservedReplaced, TakesAway, Accounted

-----------------------------------------------------------------------------
(* Hashline edits.  Assumed of the constants: files are sequences, and the *)
(* window is a number of lines.                                            *)
AllTexts == InsertedTexts \cup UNION {Range(t) : t \in FileTexts}
FilesAreLines == Window \in Nat /\ \A t \in FileTexts : t \in Seq(AllTexts)

(* What may stand in a file some rows of which have been shown: the lines  *)
(* they show, with the text they show, and lines that came later.          *)
LinesBeside(rows) == {l \in [id : Nat, text : AllTexts] : \A r \in rows : l.id = r.id => l.text = r.text}

RowsFormed(s) == \A r \in s.rows : r.line \in Int /\ r.id # 0

(* Before the read every line has its own number; an edit is the last step.*)
LinesInv ==
  /\ RowsFormed(shown)
  /\ done = NoEdit => lines \in Seq(LinesBeside(shown.rows))
  /\ shown = NoSnapshot => done = NoEdit /\ \A i \in DOMAIN lines : lines[i].id = i
  /\ RelocationFollowsTheLines

LEMMA InitLinesInv == FilesAreLines /\ HashInit => LinesInv
<1> SUFFICES ASSUME FilesAreLines, HashInit PROVE LinesInv
  OBVIOUS
<1>1. PICK t \in FileTexts : lines = [i \in DOMAIN t |-> [id |-> i, text |-> t[i]]]
  BY DEF HashInit
<1>2. t \in Seq(AllTexts)
  BY DEF FilesAreLines
<1>3. shown.rows = {} /\ shown = NoSnapshot /\ done = NoEdit /\ done.tier = "none"
  BY DEF HashInit, NoSnapshot, NoEdit
<1>4. LinesBeside({}) = [id : Nat, text : AllTexts]
  BY DEF LinesBeside
<1>5. lines \in Seq(LinesBeside({}))
  <2>1. DOMAIN t = 1..Len(t) /\ Len(t) \in Nat /\ \A i \in DOMAIN t : t[i] \in AllTexts
    BY <1>2
  <2>2. \A i \in 1..Len(t) : lines[i] \in [id : Nat, text : AllTexts]
    BY <1>1, <2>1
  <2>3. lines = [i \in 1..Len(t) |-> lines[i]]
    BY <1>1, <2>1
  <2>4. PICK n \in Nat : n = Len(t)
    BY <2>1
  <2>5. PICK S : S = [id : Nat, text : AllTexts]
    OBVIOUS
  <2>6. lines \in [1..n -> S]
    BY <2>2, <2>3, <2>4, <2>5
  <2>7. lines \in Seq(S)
    BY <2>6
  <2> QED
    BY <1>4, <2>5, <2>7
<1>6. \A i \in DOMAIN lines : lines[i].id = i
  BY <1>1, <1>2
<1>7. RelocationFollowsTheLines
  BY <1>3 DEF RelocationFollowsTheLines
<1> QED
  BY <1>3, <1>5, <1>6, <1>7 DEF LinesInv, RowsFormed

-----------------------------------------------------------------------------
(* A line that stands where a row was shown, so many lines further, and is *)
(* that line, has its text.                                                *)
Together(e, s, c, k) == \A r \in Landmarks(e, s) : r.line + k \in DOMAIN c /\ c[r.line + k].id = r.id

LEMMA SameText ==
  ASSUME NEW s, NEW c \in Seq(LinesBeside(s.rows)), NEW e, NEW k, Together(e, s, c, k), NEW r \in Landmarks(e, s)
  PROVE  r.line + k \in DOMAIN c /\ c[r.line + k].text = r.text
<1>1. r \in s.rows /\ r.line + k \in DOMAIN c /\ c[r.line + k].id = r.id
  BY DEF Landmarks, Together
<1>2. c[r.line + k] \in LinesBeside(s.rows)
  BY <1>1
<1> QED
  BY <1>1, <1>2 DEF LinesBeside

(* The lines a relocation compares are the landmarks of the edit.          *)
FirstLine(e) == e.pos.line
FinalLine(e) == IF e.op = "replace_range" THEN e.end.line ELSE e.pos.line

LEMMA ComparedAreLandmarks ==
  ASSUME NEW e, NEW s, FirstLine(e) \in Int, FinalLine(e) \in Int, FirstLine(e) <= FinalLine(e),
         NEW n \in (FirstLine(e)..FinalLine(e)) \cup {FirstLine(e) - 1, FinalLine(e) + 1}, NEW r \in RowAt(s, n)
  PROVE  r \in Landmarks(e, s) /\ r.line = n
<1>1. r \in s.rows /\ r.line = n
  BY DEF RowAt
<1>2. Target(e) = FirstLine(e)..FinalLine(e)
  <2>1. CASE e.op = "replace_range"
    BY <2>1 DEF Target, FirstLine, FinalLine
  <2>2. CASE e.op # "replace_range"
    BY <2>2 DEF Target, FirstLine, FinalLine
  <2> QED
    BY <2>1, <2>2
<1>3. \E m \in Target(e) : n \in {m - 1, m, m + 1}
  <2>1. FirstLine(e) \in Target(e) /\ FinalLine(e) \in Target(e)
    BY <1>2
  <2>2. CASE n \in FirstLine(e)..FinalLine(e)
    BY <1>2, <2>2
  <2>3. CASE n = FirstLine(e) - 1
    BY <2>1, <2>3
  <2>4. CASE n = FinalLine(e) + 1
    BY <2>1, <2>4
  <2> QED
    BY <2>2, <2>3, <2>4
<1> QED
  BY <1>1, <1>3 DEF Landmarks

(* A relocation of an edit whose tokens were shown: what it presupposes.   *)
EditFields == {"op", "pos", "end", "sym", "new"}

LEMMA RebasedMeans ==
  ASSUME FilesAreLines, NEW e, DOMAIN e = EditFields, NEW s, NEW c, Path(e, s, c).tier = "rebased"
  PROVE  /\ Authored(e) # {} /\ Authored(e) \subseteq Emitted(s)
         /\ ~Valid(e, c)
         /\ \E j : Shifts(e, s, c) = {j} /\ Path(e, s, c).at[1] = Moved(e, j).pos.line
<1>1. PICK r : r = CHOOSE x \in Recovered(e, s, c) : TRUE
  OBVIOUS
<1>2. Searched(e, s, c).tier # "rebased"
  BY DEF Searched, Rejected, Outcome
<1>3. Rejected(c).tier # "rebased" /\ Direct("direct", e, c).tier # "rebased"
  BY DEF Rejected, Direct, Outcome
<1>4. /\ Provenance(e, s) /\ ~Valid(e, c) /\ Recovered(e, s, c) # {}
      /\ Path(e, s, c) = Direct("rebased", r, c)
  BY <1>1, <1>2, <1>3 DEF Path
<1>5. s.anchors /\ Authored(e) # {} /\ Cardinality(Shifts(e, s, c)) = 1
      /\ Recovered(e, s, c) = {Moved(e, k) : k \in Shifts(e, s, c)}
  BY <1>4 DEF Recovered
<1>6. IsFiniteSet(Shifts(e, s, c))
  <2>1. IsFiniteSet((0 - Window)..Window)
    BY FS_Interval DEF FilesAreLines
  <2> QED
    BY <2>1, FS_Subset DEF Shifts
<1>7. PICK j : Shifts(e, s, c) = {j}
  BY <1>5, <1>6, FS_Singleton
<1>8. r = Moved(e, j)
  BY <1>1, <1>5, <1>7
<1>9. Authored(r) # {}
  <2>1. r.op = e.op
    BY <1>8 DEF Moved, EditFields
  <2>2. e.op \in {"replace_range", "append_at", "prepend_at"}
    BY <1>5 DEF Authored
  <2>3. CASE e.op = "replace_range"
    BY <2>1, <2>3 DEF Authored
  <2>4. CASE e.op \in {"append_at", "prepend_at"}
    BY <2>1, <2>4 DEF Authored
  <2> QED
    BY <2>2, <2>3, <2>4
<1>10. Path(e, s, c).at[1] = r.pos.line
  BY <1>4, <1>9 DEF Direct, Outcome
<1> QED
  BY <1>4, <1>5, <1>7, <1>8, <1>10 DEF Provenance

(* If all landmarks of the edit are together k lines further, and there is *)
(* but one place that looks like it, that is the place.                    *)
LEMMA LandsThere ==
  ASSUME FilesAreLines,
         NEW s, RowsFormed(s), NEW c \in Seq(LinesBeside(s.rows)),
         NEW e, DOMAIN e = EditFields, "line" \in DOMAIN e.pos, "line" \in DOMAIN e.end,
         e.op = "replace_range" => e.pos.line <= e.end.line,
         Path(e, s, c).tier = "rebased",
         NEW k \in (0 - Window)..Window, Together(e, s, c, k)
  PROVE  Path(e, s, c).at[1] = e.pos.line + k
<1>1. /\ Authored(e) # {} /\ Authored(e) \subseteq Emitted(s) /\ ~Valid(e, c)
  BY RebasedMeans
<1>2. PICK j : Shifts(e, s, c) = {j} /\ Path(e, s, c).at[1] = Moved(e, j).pos.line
  BY RebasedMeans
<1>3. \A t \in Authored(e) : \E r \in s.rows : t = Token(r.line, Hash(r.line, r.text))
  BY <1>1 DEF Emitted
<1>4. e.op \in {"replace_range", "append_at", "prepend_at"}
  BY <1>1 DEF Authored
<1>5. e.pos \in Authored(e) /\ (e.op = "replace_range" /\ e.end.line # e.pos.line => e.end \in Authored(e))
  <2>1. CASE e.op = "replace_range"
    BY <2>1 DEF Authored
  <2>2. CASE e.op \in {"append_at", "prepend_at"}
    BY <2>2 DEF Authored
  <2> QED
    BY <1>4, <2>1, <2>2
<1>6. FirstLine(e) \in Int /\ FinalLine(e) \in Int /\ FirstLine(e) <= FinalLine(e)
  <2>1. \A t \in Authored(e) : t.line \in Int
    BY <1>3 DEF RowsFormed, Token
  <2> QED
    BY <1>5, <2>1 DEF FirstLine, FinalLine
<1>7. \A t \in Authored(e) : t.line \in FirstLine(e)..FinalLine(e)
  <2>1. CASE e.op = "replace_range"
    BY <1>6, <2>1 DEF Authored, FirstLine, FinalLine
  <2>2. CASE e.op \in {"append_at", "prepend_at"}
    BY <1>6, <2>2 DEF Authored, FirstLine, FinalLine
  <2> QED
    BY <1>4, <2>1, <2>2
<1>8. Moved(e, j).pos.line = e.pos.line + j
  BY DEF Moved, EditFields
<1> DEFINE near == {n \in {FirstLine(e) - 1, FinalLine(e) + 1} : RowAt(s, n) # {}}
<1>9. Shifts(e, s, c) = {x \in (0 - Window)..Window :
        /\ x # 0 /\ near # {}
        /\ \A n \in FirstLine(e)..FinalLine(e) : RowAt(s, n) # {}
        /\ \A n \in (FirstLine(e)..FinalLine(e)) \cup near : SameThere(s, c, n, x)}
  BY DEF Shifts, FirstLine, FinalLine
<1>10. near # {} /\ \A n \in FirstLine(e)..FinalLine(e) : RowAt(s, n) # {}
  BY <1>2, <1>9
<1>11. \A n \in (FirstLine(e)..FinalLine(e)) \cup near : SameThere(s, c, n, k)
  <2> SUFFICES ASSUME NEW n \in (FirstLine(e)..FinalLine(e)) \cup near, NEW r \in RowAt(s, n)
               PROVE  n + k \in DOMAIN c /\ c[n + k].text = r.text
    BY DEF SameThere
  <2>1. n \in (FirstLine(e)..FinalLine(e)) \cup {FirstLine(e) - 1, FinalLine(e) + 1}
    OBVIOUS
  <2> HIDE DEF near
  <2>2. r \in Landmarks(e, s) /\ r.line = n
    BY ONLY <1>6, <2>1, r \in RowAt(s, n), ComparedAreLandmarks
  <2> QED
    BY <2>2, SameText
<1>12. CASE k # 0
  <2>1. k \in Shifts(e, s, c)
    BY <1>9, <1>10, <1>11, <1>12
  <2> QED
    BY <1>2, <1>8, <2>1
<1>13. CASE k = 0
  <2>1. \A n \in FirstLine(e)..FinalLine(e) : n \in DOMAIN c
    <3> SUFFICES ASSUME NEW n \in FirstLine(e)..FinalLine(e) PROVE n \in DOMAIN c
      OBVIOUS
    <3>1. PICK r : r \in RowAt(s, n)
      BY <1>10
    <3>2. r \in Landmarks(e, s) /\ r.line = n
      BY <1>6, <3>1, ComparedAreLandmarks
    <3>3. n + k = n
      BY <1>6, <1>13
    <3> QED
      BY <3>2, <3>3, SameText
  <2>2. Target(e) = FirstLine(e)..FinalLine(e)
    <3>1. CASE e.op = "replace_range"
      BY <3>1 DEF Target, FirstLine, FinalLine
    <3>2. CASE e.op # "replace_range"
      BY <1>6, <3>2 DEF Target, FirstLine, FinalLine
    <3> QED
      BY <3>1, <3>2
  <2>3. \A t \in Authored(e) : t.hash = Hash(t.line, c[t.line].text)
    <3> SUFFICES ASSUME NEW t \in Authored(e) PROVE t.hash = Hash(t.line, c[t.line].text)
      OBVIOUS
    <3>1. PICK r \in s.rows : t = Token(r.line, Hash(r.line, r.text))
      BY <1>3
    <3>2. t.line = r.line /\ t.hash = Hash(r.line, r.text)
      BY <3>1 DEF Token
    <3>3. r \in RowAt(s, t.line) /\ t.line \in FirstLine(e)..FinalLine(e)
      BY <1>7, <3>2 DEF RowAt
    <3>4. r \in Landmarks(e, s)
      BY <1>6, <3>3, ComparedAreLandmarks
    <3>5. c[r.line + k].text = r.text
      BY <3>4, SameText
    <3>6. r.line + k = t.line
      BY <1>13, <3>2, <3>3, <1>6
    <3> QED
      BY <3>2, <3>5, <3>6
  <2> QED
    BY <1>1, <2>1, <2>2, <2>3 DEF Valid
<1> QED
  BY <1>12, <1>13

-----------------------------------------------------------------------------
LEMMA ShowStep ==
  ASSUME LinesInv, NEW from \in DOMAIN lines \cup {1}, NEW to \in Int, NEW kind, ShowRows(from, to, kind),
         kind = "tokens" => to \in DOMAIN lines
  PROVE  LinesInv'
<1>1. shown = NoSnapshot /\ UNCHANGED <<lines, drift, done>> /\ done = NoEdit
      /\ lines \in Seq(LinesBeside(shown.rows)) /\ \A i \in DOMAIN lines : lines[i].id = i
  BY DEF ShowRows, LinesInv
<1>2. DOMAIN lines = 1..Len(lines) /\ Len(lines) \in Nat
        /\ \A i \in DOMAIN lines : lines[i] \in [id : Nat, text : AllTexts]
  BY <1>1 DEF LinesBeside
<1>3. \A r \in shown'.rows : \E n \in from..to : kind = "tokens" /\ r = [line |-> n, id |-> lines[n].id, text |-> lines[n].text]
  BY DEF ShowRows
<1>4. \A r \in shown'.rows : \E n \in DOMAIN lines : r.line = n /\ r.id = n /\ r.text = lines[n].text
  <2> SUFFICES ASSUME NEW r \in shown'.rows
               PROVE  \E n \in DOMAIN lines : r.line = n /\ r.id = n /\ r.text = lines[n].text
    OBVIOUS
  <2>1. PICK n \in from..to : kind = "tokens" /\ r = [line |-> n, id |-> lines[n].id, text |-> lines[n].text]
    BY <1>3
  <2>2. n \in DOMAIN lines
    BY <1>2, <2>1
  <2> QED
    BY <1>1, <2>1, <2>2
<1>5. RowsFormed(shown)'
  BY <1>2, <1>4 DEF RowsFormed
<1>6. lines \in Seq(LinesBeside(shown'.rows))
  <2>1. \A i \in DOMAIN lines : lines[i] \in LinesBeside(shown'.rows)
    BY <1>1, <1>2, <1>4 DEF LinesBeside
  <2> QED
    BY <1>2, <1>1, <2>1
<1>7. RelocationFollowsTheLines'
  BY <1>1 DEF RelocationFollowsTheLines, NoEdit
<1> QED
  BY <1>1, <1>5, <1>6, <1>7 DEF LinesInv

(* A change by another program keeps the lines it leaves as they are.      *)
LEMMA Spliced ==
  ASSUME NEW S, NEW c \in Seq(S), NEW new \in Seq(S), NEW from \in Nat \ {0}, NEW to \in Nat, from <= to + 1, from <= Len(c) + 1
  PROVE  Splice(c, from, to, new) \in Seq(S)
<1>1. SubSeq(c, 1, from - 1) \in Seq(S)
  BY SubSeqProperties
<1>2. SubSeq(c, to + 1, Len(c)) \in Seq(S)
  BY SubSeqProperties
<1> QED
  BY <1>1, <1>2, ConcatProperties DEF Splice

LEMMA DriftStep ==
  ASSUME LinesInv, NEW c \in Seq(LinesBeside(shown.rows)), Drift(c)
  PROVE  LinesInv'
<1>1. shown # NoSnapshot /\ lines' = c /\ UNCHANGED <<shown, done>>
  BY DEF Drift
<1> QED
  BY <1>1 DEF LinesInv, RowsFormed, RelocationFollowsTheLines

LEMMA InsertStep ==
  ASSUME LinesInv, NEW n \in DOMAIN lines, NEW t \in InsertedTexts, Insert(n, t)
  PROVE  LinesInv'
<1> DEFINE S == LinesBeside(shown.rows)
           new == <<[id |-> 0, text |-> t]>>
<1>1. lines \in Seq(S) /\ RowsFormed(shown)
  BY DEF LinesInv, Insert, Drift
<1>2. [id |-> 0, text |-> t] \in S
  BY <1>1 DEF LinesBeside, AllTexts, RowsFormed
<1>3. new \in Seq(S)
  BY <1>2
<1>4. n \in Nat \ {0} /\ n - 1 \in Nat /\ n <= (n - 1) + 1 /\ n <= Len(lines) + 1
  BY <1>1
<1> HIDE DEF S, new
<1>5. Splice(lines, n, n - 1, new) \in Seq(S)
  BY <1>1, <1>3, <1>4, Spliced
<1>6. Drift(Splice(lines, n, n - 1, new))
  BY DEF Insert, new
<1> QED
  BY <1>5, <1>6, DriftStep DEF S

LEMMA VanishStep ==
  ASSUME LinesInv, NEW n \in DOMAIN lines, Vanish(n)
  PROVE  LinesInv'
<1> DEFINE S == LinesBeside(shown.rows)
<1>1. lines \in Seq(S)
  BY DEF LinesInv, Vanish, Drift
<1>2. n \in Nat \ {0} /\ n <= n + 1 /\ n <= Len(lines) + 1 /\ n \in Nat
  BY <1>1
<1> HIDE DEF S
<1>3. Splice(lines, n, n, <<>>) \in Seq(S)
  BY <1>1, <1>2, Spliced, EmptySeq
<1> QED
  BY <1>3, DriftStep DEF S, Vanish

LEMMA HashEditStep ==
  ASSUME FilesAreLines, LinesInv, NEW op, NEW pos, NEW end, NEW sym, NEW content, HashEdit(op, pos, end, sym, content),
         "line" \in DOMAIN pos, "line" \in DOMAIN end
  PROVE  LinesInv'
<1> DEFINE e == [op |-> op, pos |-> pos, end |-> end, sym |-> sym, new |-> Stripped(content)]
<1>1. PICK o : o = Path(e, shown, lines)
  OBVIOUS
<1>2. /\ done = NoEdit /\ shown # NoSnapshot /\ UNCHANGED shown
      /\ op = "replace_range" => pos.line <= end.line
      /\ done' = [tier |-> o.tier, at |-> o.at, edit |-> e, found |-> lines]
  BY <1>1 DEF HashEdit
<1>3. lines \in Seq(LinesBeside(shown.rows)) /\ RowsFormed(shown)
  BY <1>2 DEF LinesInv
<1>4. done' # NoEdit
  <2>1. done'.edit = e /\ DOMAIN e # {}
    BY <1>2
  <2>2. NoEdit.edit = <<>> /\ DOMAIN NoEdit.edit = {}
    BY DEF NoEdit
  <2> HIDE DEF e
  <2> QED
    BY <2>1, <2>2
<1>5. DOMAIN e = EditFields /\ e.op = op /\ e.pos = pos /\ e.end = end
  BY DEF EditFields
<1>6. done'.tier = o.tier /\ done'.at = o.at /\ done'.edit = e /\ done'.found = lines
  BY <1>2
<1> HIDE DEF e
<1>7. ASSUME o.tier = "rebased", NEW k \in (0 - Window)..Window, Together(e, shown, lines, k)
      PROVE  o.at[1] = e.pos.line + k
  BY <1>1, <1>2, <1>3, <1>5, <1>7, LandsThere
<1>8. RelocationFollowsTheLines'
  BY <1>2, <1>6, <1>7 DEF RelocationFollowsTheLines, Together
<1> QED
  BY <1>2, <1>3, <1>4, <1>8 DEF LinesInv, RowsFormed

LEMMA LinesInvNext == FilesAreLines /\ LinesInv /\ [HashNext]_hvars => LinesInv'
<1> SUFFICES ASSUME FilesAreLines, LinesInv, [HashNext]_hvars PROVE LinesInv'
  OBVIOUS
<1>1. CASE \E from, to \in DOMAIN lines : from <= to /\ ShowRows(from, to, "tokens")
  <2>1. PICK from, to \in DOMAIN lines : ShowRows(from, to, "tokens")
    BY <1>1
  <2>2. to \in Int
    BY <2>1 DEF LinesInv, ShowRows
  <2> QED
    BY <2>1, <2>2, ShowStep
<1>2. CASE \E kind \in {"numbers", "native"} : ShowRows(1, Len(lines), kind)
  <2>1. PICK kind \in {"numbers", "native"} : ShowRows(1, Len(lines), kind)
    BY <1>2
  <2>2. Len(lines) \in Int
    BY <2>1 DEF LinesInv, ShowRows
  <2> QED
    BY <2>1, <2>2, ShowStep
<1>3. CASE \E n \in DOMAIN lines, t \in InsertedTexts : Insert(n, t)
  BY <1>3, InsertStep
<1>4. CASE \E n \in DOMAIN lines : Vanish(n)
  BY <1>4, VanishStep
<1>5. \A t \in Tokens : "line" \in DOMAIN t
  BY DEF Tokens, Emitted, Token
<1>6. CASE \E pos \in Tokens, end \in Tokens, sym \in Heads \cup {Blank}, w \in Replacements :
             HashEdit("replace_range", pos, end, sym, w)
  BY <1>5, <1>6, HashEditStep
<1>7. CASE \E op \in {"append_at", "prepend_at"}, pos \in Tokens, w \in Replacements : HashEdit(op, pos, pos, Blank, w)
  BY <1>5, <1>7, HashEditStep
<1>8. CASE \E op \in {"append_file", "prepend_file"}, w \in Replacements :
             HashEdit(op, Token(0, NoHash), Token(0, NoHash), Blank, w)
  <2>1. "line" \in DOMAIN Token(0, NoHash)
    BY DEF Token
  <2> QED
    BY <1>8, <2>1, HashEditStep
<1>9. CASE UNCHANGED hvars
  BY <1>9 DEF hvars, LinesInv, RowsFormed, RelocationFollowsTheLines
<1> QED
  BY <1>1, <1>2, <1>3, <1>4, <1>6, <1>7, <1>8, <1>9 DEF HashNext

(* For any files, foreign changes, hashes and contents and any window:     *)
(* while the lines an edit was shown for are together, no further away than*)
(* the window, an edit that is relocated lands on them                     *)
(* (RelocationFollowsTheLines).                                            *)
THEOREM RelocatedToItsLines ==
  ASSUME FilesAreLines
  PROVE  HashInit /\ [][HashNext]_hvars => []RelocationFollowsTheLines
<1>1. HashInit => LinesInv
  BY InitLinesInv
<1>2. LinesInv /\ [HashNext]_hvars => LinesInv'
  BY LinesInvNext
<1>3. LinesInv => RelocationFollowsTheLines
  BY DEF LinesInv
<1> QED
  BY <1>1, <1>2, <1>3, PTL
=============================================================================
