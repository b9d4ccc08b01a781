---------------------------- MODULE MemoryPoolProofs ----------------------------
(***************************************************************************)
(* The blocks of MemoryPool: each is in one place, and the numbers that    *)
(* are written down are right, so that a cache stays in its bounds:        *)
(* proofs, for any number of threads and blocks and any size of a chunk.   *)
(***************************************************************************)
EXTENDS MemoryPool, FiniteSetTheorems, WellFoundedInduction, TLAPS

----------------------------------------------------------------------------
(***************************************************************************)
(* Induction.                                                              *)
(***************************************************************************)

\* Every non-empty set of naturals has a least element.
LEMMA LeastOf == \A T \in SUBSET Nat : T # {} => \E x \in T : \A y \in T : x <= y
<1> DEFINE R == {p \in Nat \X Nat : p[1] < p[2]}
<1>1. IsWellFoundedOn(R, Nat)
  BY NatLessThanWellFounded DEF OpToRel
<1>2. ASSUME NEW T \in SUBSET Nat, T # {}
      PROVE  \E x \in T : \A y \in T : x <= y
  <2>1. PICK x \in T : \A y \in T : ~ (<<y, x>> \in R)
    <3>1. T \subseteq Nat /\ T # {}
      BY <1>2
    <3> HIDE DEF R
    <3> QED
      BY <1>1, <3>1, WFMin, Zenon
  <2>2. \A y \in T : ~(y < x)
    BY <2>1
  <2> HIDE DEF R
  <2>3. \A y \in T : x <= y
    BY <1>2, <2>2
  <2> QED
    BY <2>3
<1> QED
  BY <1>2

\* A set that holds 0 and with every n its successor is Nat.
LEMMA Induction ==
  ASSUME NEW S \in SUBSET Nat, 0 \in S, \A n \in S : n + 1 \in S
  PROVE  S = Nat
<1> DEFINE T == Nat \ S
<1>1. SUFFICES ASSUME T # {}
               PROVE  FALSE
  OBVIOUS
<1>2. PICK x \in T : \A y \in T : x <= y
  BY <1>1, LeastOf
<1>3. x # 0 /\ x - 1 \in Nat
  BY <1>2
<1>4. x - 1 \in S
  BY <1>2, <1>3
<1> QED
  BY <1>2, <1>4


----------------------------------------------------------------------------
(***************************************************************************)
(* Lists of blocks: blocks of one chunk, or chunks of one stack.           *)
(***************************************************************************)

\* The blocks L are strung by f to lists: e is the last block of a block's list,
\* d the number of blocks from there to the end.
Strung(f, L, e, d) ==
  /\ e \in [L -> L] /\ d \in [L -> Nat \ {0}]
  /\ \A b \in L : IF f[b] = NoBlock THEN e[b] = b /\ d[b] = 1
                  ELSE f[b] \in L /\ e[f[b]] = e[b] /\ d[b] = d[f[b]] + 1
  /\ \A a, b \in L : e[a] = e[b] /\ d[a] = d[b] => a = b

\* The lists are those that begin at S.
From(S, L, e, d) ==
  /\ S \subseteq L
  /\ \A a, b \in S : e[a] = e[b] => a = b
  /\ \A b \in L : \E a \in S : e[a] = e[b] /\ d[b] <= d[a]

AreLists(f, L, S) == L \subseteq Blocks /\ \E e, d : Strung(f, L, e, d) /\ From(S, L, e, d)

\* A block and those after it.
Below(L, e, d, b) == {x \in L : e[x] = e[b] /\ d[x] <= d[b]}

\* The number of blocks that are reached.
Size(f, b) == Cardinality(Reach(f, b))

LEMMA BelowIs ==
  ASSUME NEW L, NEW f, NEW e, NEW d, L \subseteq Blocks, Strung(f, L, e, d), NEW b \in L
  PROVE  Below(L, e, d, b) = IF f[b] = NoBlock THEN {b} ELSE {b} \cup Below(L, e, d, f[b])
<1>1. NoBlock \notin L
  BY PoolAssumption
<1>2. /\ \A x \in L : d[x] \in Nat \ {0}
      /\ \A a, c \in L : e[a] = e[c] /\ d[a] = d[c] => a = c
  BY DEF Strung
<1>3. CASE f[b] = NoBlock
  <2>1. d[b] = 1
    BY <1>3 DEF Strung
  <2>2. \A x \in L : d[x] <= 1 => d[x] = 1
    BY <1>2
  <2> QED
    BY <1>2, <1>3, <2>1, <2>2 DEF Below
<1>4. CASE f[b] # NoBlock
  <2>1. PICK c \in L : c = f[b] /\ e[c] = e[b] /\ d[b] = d[c] + 1
    BY <1>4 DEF Strung
  <2>2. ASSUME NEW x \in L, e[x] = e[b]
        PROVE  d[x] <= d[b] <=> x = b \/ d[x] <= d[c]
    <3>1. d[x] \in Nat /\ d[c] \in Nat /\ d[b] \in Nat
      BY <1>2
    <3>2. d[x] <= d[b] <=> d[x] = d[b] \/ d[x] <= d[c]
      BY <2>1, <3>1
    <3>3. d[x] = d[b] <=> x = b
      BY <1>2, <2>2
    <3> QED
      BY <3>2, <3>3
  <2>3. b \in Below(L, e, d, b)
    BY <1>2 DEF Below
  <2>4. Below(L, e, d, b) = {b} \cup Below(L, e, d, c)
    BY <2>1, <2>2, <2>3 DEF Below
  <2> QED
    BY <1>4, <2>1, <2>4
<1> QED
  BY <1>3, <1>4

\* There are as many of them as d says.
LEMMA BelowCount ==
  ASSUME NEW L, NEW f, NEW e, NEW d, L \subseteq Blocks, Strung(f, L, e, d)
  PROVE  \A b \in L : IsFiniteSet(Below(L, e, d, b)) /\ Cardinality(Below(L, e, d, b)) = d[b]
<1> DEFINE N == {n \in Nat : \A b \in L : d[b] = n =>
                   IsFiniteSet(Below(L, e, d, b)) /\ Cardinality(Below(L, e, d, b)) = d[b]}
<1>1. \A x \in L : d[x] \in Nat \ {0}
  BY DEF Strung
<1>2. 0 \in N
  BY <1>1
<1>3. ASSUME NEW n \in N
      PROVE  n + 1 \in N
  <2>1. ASSUME NEW b \in L, d[b] = n + 1
        PROVE  IsFiniteSet(Below(L, e, d, b)) /\ Cardinality(Below(L, e, d, b)) = d[b]
    <3>1. CASE f[b] = NoBlock
      <4>1. Below(L, e, d, b) = {b} /\ d[b] = 1
        BY <3>1, BelowIs DEF Strung
      <4>2. IsFiniteSet({b}) /\ Cardinality({b}) = 1
        BY FS_Singleton
      <4> QED
        BY <4>1, <4>2
    <3>2. CASE f[b] # NoBlock
      <4>1. PICK c \in L : c = f[b] /\ e[c] = e[b] /\ d[b] = d[c] + 1
        BY <3>2 DEF Strung
      <4>2. d[c] = n
        <5>1. d[c] \in Nat /\ n \in Nat
          BY <1>1
        <5> QED
          BY <2>1, <4>1, <5>1
      <4>3. IsFiniteSet(Below(L, e, d, c)) /\ Cardinality(Below(L, e, d, c)) = n
        BY <4>2
      <4>4. b \notin Below(L, e, d, c)
        <5>1. ~(d[b] <= d[c])
          BY <1>1, <4>1
        <5> QED
          BY <5>1 DEF Below
      <4>5. Below(L, e, d, b) = Below(L, e, d, c) \cup {b}
        <5>1. Below(L, e, d, b) = {b} \cup Below(L, e, d, f[b])
          BY <3>2, BelowIs
        <5> QED
          BY <4>1, <5>1
      <4>6. PICK B : B = Below(L, e, d, c)
        OBVIOUS
      <4>7. IsFiniteSet(B \cup {b}) /\ Cardinality(B \cup {b}) = n + 1
        <5>1. IsFiniteSet(B) /\ Cardinality(B) = n /\ b \notin B
          BY <4>3, <4>4, <4>6
        <5> QED
          BY <5>1, FS_AddElement
      <4> QED
        BY <2>1, <4>5, <4>6, <4>7
    <3> QED
      BY <3>1, <3>2
  <2> QED
    BY <2>1
<1>4. N = Nat
  <2>1. N \in SUBSET Nat
    OBVIOUS
  <2> HIDE DEF N
  <2> QED
    BY <1>2, <1>3, <2>1, Induction
<1> QED
  BY <1>1, <1>4

\* The walk that Reach takes.
Walk(m, f, b, g) ==
  g = [i \in 0 .. m |-> IF i = 0 THEN b ELSE IF g[i - 1] = NoBlock THEN NoBlock ELSE f[g[i - 1]]]

LEMMA WalkExists ==
  ASSUME NEW f, NEW b
  PROVE  \A m \in Nat : \E g : Walk(m, f, b, g)
<1> DEFINE N == {m \in Nat : \E g : Walk(m, f, b, g)}
<1>1. 0 \in N
  <2>1. PICK g : g = [i \in 0 .. 0 |-> b]
    OBVIOUS
  <2>2. Walk(0, f, b, g)
    BY <2>1 DEF Walk
  <2> QED
    BY <2>2
<1>2. ASSUME NEW m \in N
      PROVE  m + 1 \in N
  <2>1. PICK g : Walk(m, f, b, g)
    OBVIOUS
  <2>2. PICK x : x = IF g[m] = NoBlock THEN NoBlock ELSE f[g[m]]
    OBVIOUS
  <2>3. PICK h : h = [i \in 0 .. m + 1 |-> IF i <= m THEN g[i] ELSE x]
    OBVIOUS
  <2>4. ASSUME NEW i \in 0 .. m + 1
        PROVE  h[i] = IF i = 0 THEN b ELSE IF h[i - 1] = NoBlock THEN NoBlock ELSE f[h[i - 1]]
    <3>1. CASE i = 0
      <4>1. h[0] = g[0] /\ g[0] = b
        BY <2>1, <2>3 DEF Walk
      <4> QED
        BY <3>1, <4>1
    <3>2. CASE i # 0 /\ i <= m
      <4>1. h[i] = g[i] /\ h[i - 1] = g[i - 1] /\ i \in 0 .. m
        BY <2>3, <3>2
      <4>2. g[i] = IF g[i - 1] = NoBlock THEN NoBlock ELSE f[g[i - 1]]
        BY <2>1, <3>2, <4>1 DEF Walk
      <4> QED
        BY <3>2, <4>1, <4>2
    <3>3. CASE i = m + 1
      <4>1. h[i] = x /\ h[m] = g[m] /\ i # 0 /\ i - 1 = m
        BY <2>3, <3>3
      <4> QED
        BY <2>2, <4>1
    <3> QED
      BY <3>1, <3>2, <3>3
  <2>5. Walk(m + 1, f, b, h)
    BY <2>3, <2>4, Zenon DEF Walk
  <2> QED
    BY <2>5
<1>3. N = Nat
  <2>1. N \in SUBSET Nat
    OBVIOUS
  <2> HIDE DEF N
  <2> QED
    BY <1>1, <1>2, <2>1, Induction
<1> QED
  BY <1>3

\* Reach finds a block and those after it, and no others.
LEMMA ReachIs ==
  ASSUME NEW L, NEW f, NEW e, NEW d, L \subseteq Blocks, Strung(f, L, e, d), NEW b \in L
  PROVE  /\ Reach(f, b) = Below(L, e, d, b)
         /\ IsFiniteSet(Reach(f, b)) /\ Size(f, b) = d[b]
<1>1. NoBlock \notin L /\ b # NoBlock /\ d[b] \in Nat \ {0}
  BY PoolAssumption DEF Strung
<1>2. PICK k \in Nat \ {0} : k = d[b]
  BY <1>1
<1>3. PICK n \in Nat : n = Cardinality(Blocks)
  BY PoolAssumption, FS_CardinalityType
<1>4. k <= n
  <2>1. Below(L, e, d, b) \subseteq Blocks
    BY DEF Below
  <2>2. Cardinality(Below(L, e, d, b)) = k
    BY <1>2, BelowCount
  <2> QED
    BY <1>3, <2>1, <2>2, PoolAssumption, FS_Subset
<1>5. PICK g : g = CHOOSE h : Walk(n - 1, f, b, h)
  OBVIOUS
<1>6. Walk(n - 1, f, b, g)
  <2>1. n - 1 \in Nat
    BY <1>4
  <2> QED
    BY <1>5, <2>1, WalkExists
<1>7. Reach(f, b) = {g[i] : i \in 0 .. n - 1} \ {NoBlock}
  BY <1>1, <1>3, <1>5 DEF Reach, Walk
<1> DEFINE T == {i \in Nat : i <= n - 1 =>
                   IF i < k THEN g[i] \in L /\ e[g[i]] = e[b] /\ d[g[i]] = k - i
                   ELSE g[i] = NoBlock}
<1>8. 0 \in T
  <2>1. 0 \in 0 .. n - 1 /\ 0 < k
    BY <1>4
  <2>2. g[0] = b
    BY <1>6, <2>1 DEF Walk
  <2> QED
    BY <1>2, <2>1, <2>2
<1>9. ASSUME NEW i \in T
      PROVE  i + 1 \in T
  <2>1. SUFFICES ASSUME i + 1 <= n - 1
                 PROVE  IF i + 1 < k THEN g[i + 1] \in L /\ e[g[i + 1]] = e[b] /\ d[g[i + 1]] = k - (i + 1)
                        ELSE g[i + 1] = NoBlock
    OBVIOUS
  <2>2. i \in Nat /\ i <= n - 1 /\ i + 1 \in 0 .. n - 1 /\ i + 1 # 0 /\ (i + 1) - 1 = i
    BY <2>1
  <2>3. PICK x : x = g[i]
    OBVIOUS
  <2>4. g[i + 1] = IF x = NoBlock THEN NoBlock ELSE f[x]
    BY <1>6, <2>2, <2>3 DEF Walk
  <2>5. IF i < k THEN x \in L /\ e[x] = e[b] /\ d[x] = k - i ELSE x = NoBlock
    BY <2>2, <2>3
  <2>6. CASE i < k
    <3>1. x \in L /\ e[x] = e[b] /\ d[x] = k - i /\ x # NoBlock
      BY <1>1, <2>5, <2>6
    <3>2. CASE f[x] = NoBlock
      <4>1. k - i = 1
        BY <3>1, <3>2 DEF Strung
      <4>2. ~(i + 1 < k)
        BY <2>2, <4>1
      <4> QED
        BY <2>4, <3>1, <3>2, <4>2
    <3>3. CASE f[x] # NoBlock
      <4>1. PICK c \in L : c = f[x] /\ e[c] = e[x] /\ k - i = d[c] + 1 /\ d[c] \in Nat \ {0}
        BY <3>1, <3>3 DEF Strung
      <4>2. i + 1 < k /\ d[c] = k - (i + 1)
        BY <2>2, <4>1
      <4> QED
        BY <2>4, <3>1, <4>1, <4>2
    <3> QED
      BY <3>2, <3>3
  <2>7. CASE ~(i < k)
    BY <2>2, <2>4, <2>5, <2>7
  <2> QED
    BY <2>6, <2>7
<1>10. T = Nat
  <2>1. T \in SUBSET Nat
    OBVIOUS
  <2> HIDE DEF T
  <2> QED
    BY <1>8, <1>9, <2>1, Induction
<1>11. \A i \in 0 .. n - 1 : IF i < k THEN g[i] \in L /\ e[g[i]] = e[b] /\ d[g[i]] = k - i
                             ELSE g[i] = NoBlock
  BY <1>10
<1>12. ASSUME NEW x \in Reach(f, b)
       PROVE  x \in Below(L, e, d, b)
  <2>1. PICK i \in 0 .. n - 1 : x = g[i] /\ x # NoBlock
    BY <1>7
  <2>2. x \in L /\ e[x] = e[b] /\ d[x] = k - i
    BY <1>11, <2>1
  <2>3. k - i <= k
    OBVIOUS
  <2> QED
    BY <1>2, <2>2, <2>3 DEF Below
<1>13. ASSUME NEW x \in Below(L, e, d, b)
       PROVE  x \in Reach(f, b)
  <2>1. x \in L /\ e[x] = e[b] /\ d[x] <= k /\ d[x] \in Nat \ {0}
    BY <1>2 DEF Below, Strung
  <2>2. PICK i \in 0 .. n - 1 : i = k - d[x]
    BY <1>4, <2>1
  <2>3. i < k /\ d[x] = k - i
    BY <2>1, <2>2
  <2>4. g[i] \in L /\ e[g[i]] = e[x] /\ d[g[i]] = d[x]
    BY <1>11, <2>1, <2>3
  <2>5. g[i] = x
    BY <2>1, <2>4 DEF Strung
  <2> QED
    BY <1>1, <1>7, <2>1, <2>5
<1>14. Reach(f, b) = Below(L, e, d, b)
  BY <1>12, <1>13
<1> QED
  BY <1>14, BelowCount DEF Size

\* Of lists, with what strings them out of sight.
LEMMA ListFacts ==
  ASSUME NEW L, NEW f, NEW S, AreLists(f, L, S)
  PROVE  /\ L \subseteq Blocks /\ S \subseteq L /\ NoBlock \notin L /\ NoBlock \notin S
         /\ \A b \in L :
              /\ b \in Reach(f, b) /\ Reach(f, b) \subseteq L
              /\ IsFiniteSet(Reach(f, b)) /\ Size(f, b) \in Nat \ {0}
              /\ f[b] \in L \cup {NoBlock}
              /\ b \notin Reach(f, f[b]) /\ Reach(f, b) = {b} \cup Reach(f, f[b])
              /\ Size(f, b) = Size(f, f[b]) + 1
              /\ \E a \in S : b \in Reach(f, a)
         /\ \A a, b \in S : a # b => Reach(f, a) \cap Reach(f, b) = {}
         /\ \A a \in S : f[a] \notin S
<1>1. PICK e, d : Strung(f, L, e, d) /\ From(S, L, e, d)
  BY DEF AreLists
<1>2. L \subseteq Blocks /\ S \subseteq L /\ NoBlock \notin L /\ NoBlock \notin S
  BY <1>1, PoolAssumption DEF AreLists, From
<1>3. Reach(f, NoBlock) = {} /\ Size(f, NoBlock) = 0
  BY FS_EmptySet DEF Reach, Size
<1>4. \A b \in L : Reach(f, b) = Below(L, e, d, b) /\ IsFiniteSet(Reach(f, b)) /\ Size(f, b) = d[b]
  BY <1>1, <1>2, ReachIs
<1>5. \A b \in L : d[b] \in Nat \ {0} /\ f[b] \in L \cup {NoBlock}
  BY <1>1 DEF Strung
<1>6. ASSUME NEW b \in L
      PROVE  /\ b \in Reach(f, b) /\ Reach(f, b) \subseteq L
             /\ IsFiniteSet(Reach(f, b)) /\ Size(f, b) \in Nat \ {0}
             /\ f[b] \in L \cup {NoBlock}
             /\ b \notin Reach(f, f[b]) /\ Reach(f, b) = {b} \cup Reach(f, f[b])
             /\ Size(f, b) = Size(f, f[b]) + 1
             /\ \E a \in S : b \in Reach(f, a)
  <2>1. b \in Reach(f, b) /\ Reach(f, b) \subseteq L
    BY <1>4, <1>5 DEF Below
  <2>2. IsFiniteSet(Reach(f, b)) /\ Size(f, b) \in Nat \ {0} /\ f[b] \in L \cup {NoBlock}
    BY <1>4, <1>5
  <2>3. \E a \in S : b \in Reach(f, a)
    BY <1>1, <1>2, <1>4 DEF From, Below
  <2>4. CASE f[b] = NoBlock
    <3>1. d[b] = 1 /\ Below(L, e, d, b) = {b}
      BY <1>1, <1>2, <2>4, BelowIs DEF Strung
    <3> QED
      BY <1>3, <1>4, <2>1, <2>2, <2>3, <2>4, <3>1
  <2>5. CASE f[b] # NoBlock
    <3>1. PICK c \in L : c = f[b] /\ e[c] = e[b] /\ d[b] = d[c] + 1
      BY <1>1, <2>5 DEF Strung
    <3>2. Below(L, e, d, b) = {b} \cup Below(L, e, d, c)
      BY <1>1, <1>2, <2>5, <3>1, BelowIs
    <3>3. b \notin Below(L, e, d, c)
      <4>1. ~(d[b] <= d[c])
        BY <1>5, <3>1
      <4> QED
        BY <4>1 DEF Below
    <3>4. Reach(f, c) = Below(L, e, d, c) /\ Size(f, c) = d[c] /\ Reach(f, b) = Below(L, e, d, b)
          /\ Size(f, b) = d[b]
      BY <1>4
    <3> QED
      BY <2>1, <2>2, <2>3, <3>1, <3>2, <3>3, <3>4
  <2> QED
    BY <2>4, <2>5
<1>7. ASSUME NEW a \in S, NEW b \in S, a # b
      PROVE  Reach(f, a) \cap Reach(f, b) = {}
  <2>1. e[a] # e[b]
    BY <1>1, <1>7 DEF From
  <2> QED
    BY <1>2, <1>4, <2>1 DEF Below
<1>8. ASSUME NEW a \in S
      PROVE  f[a] \notin S
  <2>1. SUFFICES ASSUME f[a] \in S
                 PROVE  FALSE
    OBVIOUS
  <2>2. PICK c \in L : c = f[a] /\ e[c] = e[a] /\ d[a] = d[c] + 1
    BY <1>1, <1>2, <2>1 DEF Strung
  <2>3. c = a
    BY <1>1, <2>1, <2>2 DEF From
  <2> QED
    BY <1>5, <2>2, <2>3
<1> QED
  BY <1>2, <1>6, <1>7, <1>8

LEMMA None == ASSUME NEW f PROVE Reach(f, NoBlock) = {} /\ Size(f, NoBlock) = 0
BY FS_EmptySet DEF Reach, Size

\* The blocks L have the same links.
Same(f, g, L) == \A b \in L : g[b] = f[b]

\* Lists are what their own links say.
LEMMA ListsKept ==
  ASSUME NEW L, NEW f, NEW g, NEW S, AreLists(f, L, S), Same(f, g, L)
  PROVE  /\ AreLists(g, L, S)
         /\ \A b \in L \cup {NoBlock} : Reach(g, b) = Reach(f, b) /\ Size(g, b) = Size(f, b)
<1>1. PICK e, d : Strung(f, L, e, d) /\ From(S, L, e, d)
  BY DEF AreLists
<1>2. L \subseteq Blocks
  BY DEF AreLists
<1>3. Strung(g, L, e, d)
  BY <1>1 DEF Strung, Same
<1>4. \A b \in L : Reach(g, b) = Reach(f, b)
  BY <1>1, <1>2, <1>3, ReachIs
<1>5. Reach(g, NoBlock) = Reach(f, NoBlock)
  BY None
<1> QED
  BY <1>1, <1>2, <1>3, <1>4, <1>5 DEF AreLists, Size

\* A block comes before the first of a list, or is a list of its own.
LEMMA ListsPushed ==
  ASSUME NEW L, NEW f, NEW g, NEW S, AreLists(f, L, S), NEW b \in Blocks \ L, NEW s \in S \cup {NoBlock},
         g[b] = s, Same(f, g, L)
  PROVE  /\ AreLists(g, L \cup {b}, (S \ {s}) \cup {b})
         /\ Size(g, b) = Size(f, s) + 1
         /\ \A x \in L \cup {NoBlock} : Size(g, x) = Size(f, x)
<1>1. PICK e, d : Strung(f, L, e, d) /\ From(S, L, e, d)
  BY DEF AreLists
<1>2. L \subseteq Blocks /\ S \subseteq L /\ NoBlock \notin L
  BY ListFacts
<1>3. PICK M : M = L \cup {b}
  OBVIOUS
<1>4. PICK x, k : x = (IF s = NoBlock THEN b ELSE e[s]) /\ k = (IF s = NoBlock THEN 1 ELSE d[s] + 1)
  OBVIOUS
<1>5. PICK u, v : u = [y \in M |-> IF y = b THEN x ELSE e[y]] /\ v = [y \in M |-> IF y = b THEN k ELSE d[y]]
  OBVIOUS
<1>6. /\ \A y \in L : e[y] \in L /\ d[y] \in Nat \ {0}
      /\ \A y \in L : IF f[y] = NoBlock THEN e[y] = y /\ d[y] = 1
                      ELSE f[y] \in L /\ e[f[y]] = e[y] /\ d[y] = d[f[y]] + 1
      /\ \A y, z \in L : e[y] = e[z] /\ d[y] = d[z] => y = z
  BY <1>1 DEF Strung
<1>7. /\ \A y \in L : u[y] = e[y] /\ v[y] = d[y] /\ y # b
      /\ u[b] = x /\ v[b] = k /\ x \in M /\ k \in Nat \ {0}
  BY <1>2, <1>3, <1>4, <1>5, <1>6
<1>8. ASSUME NEW y \in L, e[y] = x
      PROVE  d[y] < k
  <2>1. s # NoBlock /\ s \in S /\ e[y] = e[s] /\ k = d[s] + 1
    BY <1>4, <1>6, <1>8
  <2>2. PICK a \in S : e[a] = e[y] /\ d[y] <= d[a]
    BY <1>1 DEF From
  <2>3. a = s
    BY <1>1, <2>1, <2>2 DEF From
  <2> QED
    BY <1>2, <1>6, <2>1, <2>2, <2>3
<1>9. Strung(g, M, u, v)
  <2>1. u \in [M -> M] /\ v \in [M -> Nat \ {0}]
    BY <1>3, <1>5, <1>6, <1>7
  <2>2. ASSUME NEW y \in M
        PROVE  IF g[y] = NoBlock THEN u[y] = y /\ v[y] = 1
               ELSE g[y] \in M /\ u[g[y]] = u[y] /\ v[y] = v[g[y]] + 1
    <3>1. CASE y \in L
      <4>1. g[y] = f[y]
        BY <3>1 DEF Same
      <4> QED
        BY <1>3, <1>6, <1>7, <3>1, <4>1
    <3>2. CASE y = b
      BY <1>2, <1>3, <1>4, <1>7, <3>2
    <3> QED
      BY <1>3, <3>1, <3>2
  <2>3. ASSUME NEW y \in M, NEW z \in M, u[y] = u[z] /\ v[y] = v[z]
        PROVE  y = z
    <3>1. CASE y \in L /\ z \in L
      BY <1>6, <1>7, <2>3, <3>1
    <3>2. CASE y \in L /\ z = b
      <4>1. e[y] = x /\ d[y] = k
        BY <1>7, <2>3, <3>2
      <4> QED
        BY <1>6, <1>7, <1>8, <3>2, <4>1
    <3>3. CASE y = b /\ z \in L
      <4>1. e[z] = x /\ d[z] = k
        BY <1>7, <2>3, <3>3
      <4> QED
        BY <1>6, <1>7, <1>8, <3>3, <4>1
    <3> QED
      BY <1>3, <3>1, <3>2, <3>3
  <2> QED
    BY <2>1, <2>2, <2>3, Zenon DEF Strung
<1>10. PICK R : R = (S \ {s}) \cup {b}
  OBVIOUS
<1>11. From(R, M, u, v)
  <2>1. R \subseteq M
    BY <1>2, <1>3, <1>10
  <2>2. \A y \in S \ {s} : u[y] = e[y] /\ u[y] # x
    BY <1>1, <1>2, <1>4, <1>6, <1>7 DEF From
  <2>3. \A y, z \in R : u[y] = u[z] => y = z
    BY <1>1, <1>7, <1>10, <2>2 DEF From
  <2>4. ASSUME NEW y \in M
        PROVE  \E a \in R : u[a] = u[y] /\ v[y] <= v[a]
    <3>1. CASE y = b
      BY <1>7, <1>10, <3>1
    <3>2. CASE y \in L /\ e[y] = x
      <4>1. u[b] = u[y] /\ v[y] <= v[b] /\ b \in R
        BY <1>6, <1>7, <1>8, <1>10, <3>2
      <4> QED
        BY <4>1
    <3>3. CASE y \in L /\ e[y] # x
      <4>1. PICK a \in S : e[a] = e[y] /\ d[y] <= d[a]
        BY <1>1, <3>3 DEF From
      <4>2. a # s
        BY <1>2, <1>4, <3>3, <4>1
      <4> QED
        BY <1>2, <1>7, <1>10, <3>3, <4>1, <4>2
    <3> QED
      BY <1>3, <3>1, <3>2, <3>3
  <2> QED
    BY <2>1, <2>3, <2>4 DEF From
<1>12. AreLists(g, M, R)
  BY <1>2, <1>3, <1>9, <1>11 DEF AreLists
<1>13. \A y \in L \cup {NoBlock} : Size(g, y) = Size(f, y)
  BY ListsKept
<1>14. Size(g, b) = Size(g, s) + 1
  BY <1>3, <1>12, ListFacts
<1> QED
  BY <1>2, <1>3, <1>10, <1>12, <1>13, <1>14

\* The first of a list goes.
LEMMA ListsPopped ==
  ASSUME NEW L, NEW f, NEW S, AreLists(f, L, S), NEW s \in S
  PROVE  AreLists(f, L \ {s}, (S \ {s}) \cup ({f[s]} \ {NoBlock}))
<1>1. PICK e, d : Strung(f, L, e, d) /\ From(S, L, e, d)
  BY DEF AreLists
<1>2. L \subseteq Blocks /\ S \subseteq L /\ NoBlock \notin L /\ f[s] \in L \cup {NoBlock} /\ f[s] \notin S
  BY ListFacts
<1>3. PICK M, R : M = L \ {s} /\ R = (S \ {s}) \cup ({f[s]} \ {NoBlock})
  OBVIOUS
<1>4. /\ \A y \in L : e[y] \in L /\ d[y] \in Nat \ {0}
      /\ \A y \in L : IF f[y] = NoBlock THEN e[y] = y /\ d[y] = 1
                      ELSE f[y] \in L /\ e[f[y]] = e[y] /\ d[y] = d[f[y]] + 1
      /\ \A y, z \in L : e[y] = e[z] /\ d[y] = d[z] => y = z
  BY <1>1 DEF Strung
<1>5. ASSUME NEW y \in L, e[y] = e[s], y # s
      PROVE  d[y] < d[s]
  <2>1. PICK a \in S : e[a] = e[y] /\ d[y] <= d[a]
    BY <1>1 DEF From
  <2>2. a = s
    BY <1>1, <1>5, <2>1 DEF From
  <2>3. d[y] # d[s] /\ d[y] \in Nat /\ d[s] \in Nat
    BY <1>2, <1>4, <1>5
  <2> QED
    BY <2>1, <2>2, <2>3
<1>6. \A y \in L : f[y] # s
  <2>1. SUFFICES ASSUME NEW y \in L, f[y] = s
                 PROVE  FALSE
    OBVIOUS
  <2>2. e[y] = e[s] /\ d[y] = d[s] + 1 /\ d[s] \in Nat
    BY <1>2, <1>4, <2>1
  <2>3. y = s \/ d[y] < d[s]
    BY <1>5, <2>2
  <2> QED
    BY <2>2, <2>3
<1>7. \A y \in M : e[y] \in M
  <2>1. SUFFICES ASSUME NEW y \in M, e[y] = s
                 PROVE  FALSE
    BY <1>3, <1>4
  <2>2. y \in L /\ y # s
    BY <1>3, <2>1
  <2>3. PICK N : N = {n \in Nat : \A x \in L : d[x] = n => f[e[x]] = NoBlock /\ e[e[x]] = e[x] /\ d[e[x]] = 1}
    OBVIOUS
  <2>4. 0 \in N
    BY <1>4, <2>3
  <2>5. ASSUME NEW n \in N
        PROVE  n + 1 \in N
    <3>1. ASSUME NEW x \in L, d[x] = n + 1
          PROVE  f[e[x]] = NoBlock /\ e[e[x]] = e[x] /\ d[e[x]] = 1
      <4>1. CASE f[x] = NoBlock
        BY <1>4, <4>1
      <4>2. CASE f[x] # NoBlock
        <5>1. PICK z \in L : z = f[x] /\ e[z] = e[x] /\ d[x] = d[z] + 1 /\ d[z] \in Nat
          BY <1>4, <4>2
        <5>2. d[z] = n
          BY <2>3, <3>1, <5>1
        <5> QED
          BY <2>3, <5>1, <5>2
      <4> QED
        BY <4>1, <4>2
    <3> QED
      BY <2>3, <3>1
  <2>6. N = Nat
    BY <2>3, <2>4, <2>5, Induction
  <2>7. e[s] = s /\ d[s] = 1
    BY <1>4, <2>1, <2>2, <2>3, <2>6
  <2>8. d[y] < 1 /\ d[y] \in Nat \ {0}
    BY <1>4, <1>5, <2>1, <2>2, <2>7
  <2> QED
    BY <2>8
<1>8. PICK u, v : u = [y \in M |-> e[y]] /\ v = [y \in M |-> d[y]]
  OBVIOUS
<1>9. \A y \in M : u[y] = e[y] /\ v[y] = d[y] /\ y \in L /\ y # s
  BY <1>3, <1>8
<1>10. Strung(f, M, u, v)
  <2>1. u \in [M -> M] /\ v \in [M -> Nat \ {0}]
    BY <1>3, <1>4, <1>7, <1>8
  <2>2. ASSUME NEW y \in M
        PROVE  IF f[y] = NoBlock THEN u[y] = y /\ v[y] = 1
               ELSE f[y] \in M /\ u[f[y]] = u[y] /\ v[y] = v[f[y]] + 1
    BY <1>3, <1>4, <1>6, <1>9
  <2>3. \A y, z \in M : u[y] = u[z] /\ v[y] = v[z] => y = z
    BY <1>4, <1>9
  <2> QED
    BY <2>1, <2>2, <2>3, Zenon DEF Strung
<1>11. From(R, M, u, v)
  <2>1. R \subseteq M
    <3>1. f[s] # s
      BY <1>2, <1>6
    <3> QED
      BY <1>2, <1>3, <3>1
  <2>2. f[s] # NoBlock => e[f[s]] = e[s] /\ f[s] \in L /\ d[s] = d[f[s]] + 1
    BY <1>2, <1>4
  <2>3. \A y \in S \ {s} : e[y] # e[s]
    BY <1>1 DEF From
  <2>4. \A y, z \in R : u[y] = u[z] => y = z
    BY <1>1, <1>3, <1>9, <2>1, <2>2, <2>3 DEF From
  <2>5. ASSUME NEW y \in M
        PROVE  \E a \in R : u[a] = u[y] /\ v[y] <= v[a]
    <3>1. CASE e[y] = e[s]
      <4>1. d[y] < d[s] /\ d[y] \in Nat \ {0} /\ d[s] \in Nat
        BY <1>2, <1>4, <1>5, <1>9, <3>1
      <4>2. f[s] # NoBlock
        BY <1>2, <1>4, <4>1
      <4>3. f[s] \in R /\ d[f[s]] \in Nat /\ d[y] <= d[f[s]] /\ e[f[s]] = e[y]
        BY <1>3, <1>4, <2>2, <3>1, <4>1, <4>2
      <4> QED
        BY <1>9, <2>1, <4>3
    <3>2. CASE e[y] # e[s]
      <4>1. PICK a \in S : e[a] = e[y] /\ d[y] <= d[a]
        BY <1>1, <1>9 DEF From
      <4>2. a \in R
        BY <1>3, <3>2, <4>1
      <4> QED
        BY <1>9, <2>1, <4>1, <4>2
    <3> QED
      BY <3>1, <3>2
  <2> QED
    BY <2>1, <2>4, <2>5 DEF From
<1> QED
  BY <1>2, <1>3, <1>10, <1>11 DEF AreLists
\* The links g string the n blocks l in their order.
Strand(g, l, n) ==
  /\ \A i, j \in 1 .. n : l[i] = l[j] => i = j
  /\ \A i \in 1 .. n : g[l[i]] = IF i = n THEN NoBlock ELSE l[i + 1]

\* A new list.
LEMMA ListsMade ==
  ASSUME NEW L, NEW f, NEW g, NEW S, AreLists(f, L, S),
         NEW n \in Nat \ {0}, NEW l \in [1 .. n -> Blocks \ L],
         Strand(g, l, n), Same(f, g, L)
  PROVE  /\ AreLists(g, L \cup {l[i] : i \in 1 .. n}, S \cup {l[1]})
         /\ \A x \in L \cup {NoBlock} : Size(g, x) = Size(f, x)
         /\ Size(g, l[1]) = n
<1>1. PICK e, d : Strung(f, L, e, d) /\ From(S, L, e, d)
  BY DEF AreLists
<1>2. L \subseteq Blocks /\ S \subseteq L /\ NoBlock \notin L /\ NoBlock \notin Blocks
  BY ListFacts, PoolAssumption
<1>3. PICK M : M = {l[i] : i \in 1 .. n}
  BY Zenon
<1>4. PICK r : r = [y \in M |-> CHOOSE i \in 1 .. n : l[i] = y]
  BY Zenon
<1>0. /\ \A i, j \in 1 .. n : l[i] = l[j] => i = j
      /\ \A i \in 1 .. n : g[l[i]] = IF i = n THEN NoBlock ELSE l[i + 1]
  BY DEF Strand
<1>5. \A y \in M : r[y] \in 1 .. n /\ l[r[y]] = y
  BY <1>3, <1>4
<1>6. \A i \in 1 .. n : l[i] \in M /\ l[i] \notin L /\ l[i] \in Blocks /\ r[l[i]] = i
  BY <1>0, <1>3, <1>5
<1>7. M \cap L = {}
  BY <1>3, <1>6
<1>8. PICK u : u = [y \in L \cup M |-> IF y \in L THEN e[y] ELSE l[n]]
  BY Zenon
<1>9. PICK v : v = [y \in L \cup M |-> IF y \in L THEN d[y] ELSE n - r[y] + 1]
  BY Zenon
<1>10. 1 \in 1 .. n /\ n \in 1 .. n
  OBVIOUS
<1>11. /\ \A y \in L : u[y] = e[y] /\ v[y] = d[y] /\ e[y] \in L /\ d[y] \in Nat \ {0}
       /\ \A y \in M : u[y] = l[n] /\ v[y] = n - r[y] + 1 /\ v[y] \in Nat \ {0} /\ y \notin L
  <2>1. \A y \in L : u[y] = e[y] /\ v[y] = d[y] /\ e[y] \in L /\ d[y] \in Nat \ {0}
    BY <1>1, <1>8, <1>9 DEF Strung
  <2>2. ASSUME NEW y \in M
        PROVE  u[y] = l[n] /\ v[y] = n - r[y] + 1 /\ v[y] \in Nat \ {0} /\ y \notin L
    <3>1. y \notin L /\ y \in L \cup M
      BY <1>7
    <3>2. u[y] = l[n] /\ v[y] = n - r[y] + 1
      BY <1>8, <1>9, <3>1
    <3>3. n - r[y] + 1 \in Nat \ {0}
      BY <1>5
    <3> QED
      BY <3>1, <3>2, <3>3
  <2> QED
    BY <2>1, <2>2
<1>12. Strung(g, L \cup M, u, v)
  <2>1. u \in [L \cup M -> L \cup M] /\ v \in [L \cup M -> Nat \ {0}]
    <3>1. \A y \in L \cup M : u[y] \in L \cup M /\ v[y] \in Nat \ {0}
      BY <1>6, <1>10, <1>11
    <3> QED
      BY <1>8, <1>9, <3>1
  <2>2. ASSUME NEW y \in L \cup M
        PROVE  IF g[y] = NoBlock THEN u[y] = y /\ v[y] = 1
               ELSE g[y] \in L \cup M /\ u[g[y]] = u[y] /\ v[y] = v[g[y]] + 1
    <3>1. CASE y \in L
      <4>1. g[y] = f[y]
        BY <3>1 DEF Same
      <4>2. IF f[y] = NoBlock THEN e[y] = y /\ d[y] = 1
            ELSE f[y] \in L /\ e[f[y]] = e[y] /\ d[y] = d[f[y]] + 1
        BY <1>1, <3>1 DEF Strung
      <4> QED
        BY <1>11, <3>1, <4>1, <4>2
    <3>2. CASE y \in M
      <4>1. PICK i \in 1 .. n : i = r[y] /\ y = l[i]
        BY <1>5, <3>2
      <4>2. u[y] = l[n] /\ v[y] = n - i + 1
        BY <1>11, <3>2, <4>1
      <4>3. CASE i = n
        <5>1. g[y] = NoBlock /\ v[y] = 1 /\ u[y] = y
          BY <1>0, <4>1, <4>2, <4>3
        <5> QED
          BY <5>1
      <4>4. CASE i # n
        <5>1. i + 1 \in 1 .. n
          BY <4>4
        <5>2. g[y] = l[i + 1] /\ l[i + 1] \in M /\ r[l[i + 1]] = i + 1
          BY <1>0, <1>6, <4>1, <4>4, <5>1
        <5>3. u[g[y]] = l[n] /\ v[g[y]] = n - (i + 1) + 1
          BY <1>11, <5>2
        <5>4. g[y] # NoBlock
          BY <1>2, <1>6, <5>1, <5>2
        <5>5. n - i + 1 = n - (i + 1) + 1 + 1
          BY <5>1
        <5> QED
          BY <4>2, <5>2, <5>3, <5>4, <5>5, Zenon
      <4> QED
        BY <4>3, <4>4
    <3> QED
      BY <3>1, <3>2
  <2>3. ASSUME NEW y \in L \cup M, NEW z \in L \cup M, u[y] = u[z], v[y] = v[z]
        PROVE  y = z
    <3>1. CASE y \in L /\ z \in L
      BY <1>1, <1>11, <2>3, <3>1 DEF Strung
    <3>2. CASE y \in M /\ z \in M
      <4>1. r[y] = r[z]
        BY <1>5, <1>11, <2>3, <3>2
      <4> QED
        BY <1>5, <3>2, <4>1
    <3>3. CASE y \in L /\ z \in M
      BY <1>6, <1>10, <1>11, <2>3, <3>3
    <3>4. CASE y \in M /\ z \in L
      BY <1>6, <1>10, <1>11, <2>3, <3>4
    <3> QED
      BY <3>1, <3>2, <3>3, <3>4
  <2> QED
    BY <2>1, <2>2, <2>3, Zenon DEF Strung
<1>13. From(S \cup {l[1]}, L \cup M, u, v)
  <2>1. S \cup {l[1]} \subseteq L \cup M
    BY <1>2, <1>6, <1>10
  <2>2. ASSUME NEW y \in S \cup {l[1]}, NEW z \in S \cup {l[1]}, u[y] = u[z]
        PROVE  y = z
    <3>1. u[l[1]] = l[n] /\ l[n] \notin L
      BY <1>6, <1>10, <1>11
    <3>2. \A x \in S : x \in L /\ u[x] = e[x] /\ e[x] \in L
      BY <1>2, <1>11
    <3>3. CASE y \in S /\ z \in S
      BY <1>1, <2>2, <3>2, <3>3 DEF From
    <3> QED
      BY <2>2, <3>1, <3>2, <3>3
  <2>3. ASSUME NEW y \in L \cup M
        PROVE  \E a \in S \cup {l[1]} : u[a] = u[y] /\ v[y] <= v[a]
    <3>1. CASE y \in L
      <4>1. PICK a \in S : e[a] = e[y] /\ d[y] <= d[a]
        BY <1>1, <3>1 DEF From
      <4>2. u[a] = u[y] /\ v[y] <= v[a]
        BY <1>2, <1>11, <3>1, <4>1
      <4> QED
        BY <4>2
    <3>2. CASE y \in M
      <4>1. l[1] \in M /\ r[l[1]] = 1
        BY <1>6, <1>10
      <4>2. u[l[1]] = u[y] /\ v[l[1]] = n - 1 + 1 /\ v[y] = n - r[y] + 1
        BY <1>11, <3>2, <4>1
      <4>3. r[y] \in 1 .. n
        BY <1>5, <3>2
      <4>4. v[y] <= v[l[1]]
        BY <4>2, <4>3
      <4> QED
        BY <4>2, <4>4
    <3> QED
      BY <3>1, <3>2
  <2> QED
    BY <2>1, <2>2, <2>3, Zenon DEF From
<1>14. L \cup M \subseteq Blocks
  BY <1>2, <1>3, <1>6
<1>15. Size(g, l[1]) = n
  <2>1. l[1] \in M /\ r[l[1]] = 1
    BY <1>6, <1>10
  <2>2. v[l[1]] = n - 1 + 1
    BY <1>11, <2>1
  <2>3. Size(g, l[1]) = v[l[1]]
    BY <1>12, <1>14, <2>1, ReachIs
  <2> QED
    BY <2>2, <2>3
<1>16. \A x \in L \cup {NoBlock} : Size(g, x) = Size(f, x)
  BY ListsKept
<1>17. AreLists(g, L \cup M, S \cup {l[1]})
  BY <1>12, <1>13, <1>14 DEF AreLists
<1> QED
  BY <1>3, <1>15, <1>16, <1>17

\* So many lists of at most m blocks have at most so many times m blocks.
LEMMA UnionSize ==
  ASSUME NEW f, NEW m \in Nat
  PROVE  \A T \in SUBSET Blocks :
           (\A b \in T : IsFiniteSet(Reach(f, b)) /\ Size(f, b) <= m) =>
             /\ IsFiniteSet(UNION {Reach(f, b) : b \in T}) /\ Cardinality(T) \in Nat
             /\ Cardinality(UNION {Reach(f, b) : b \in T}) <= Cardinality(T) * m
<1> DEFINE Short(T) == \A b \in T : IsFiniteSet(Reach(f, b)) /\ Size(f, b) <= m
           U(T) == UNION {Reach(f, b) : b \in T}
           N == {n \in Nat : \A T \in SUBSET Blocks : Short(T) /\ Cardinality(T) = n =>
                   IsFiniteSet(U(T)) /\ Cardinality(U(T)) <= n * m}
<1>1. \A T \in SUBSET Blocks : IsFiniteSet(T) /\ Cardinality(T) \in Nat
  BY PoolAssumption, FS_Subset, FS_CardinalityType
<1>2. 0 \in N
  <2>1. ASSUME NEW T \in SUBSET Blocks, Cardinality(T) = 0
        PROVE  IsFiniteSet(U(T)) /\ Cardinality(U(T)) <= 0 * m
    <3>1. T = {}
      BY <1>1, <2>1, FS_EmptySet
    <3>2. U(T) = {}
      BY <3>1
    <3>3. 0 * m = 0
      OBVIOUS
    <3> HIDE DEF U
    <3> QED
      BY <3>2, <3>3, FS_EmptySet
  <2> QED
    BY <2>1
<1>3. ASSUME NEW n \in N
      PROVE  n + 1 \in N
  <2>1. ASSUME NEW T \in SUBSET Blocks, Short(T), Cardinality(T) = n + 1
        PROVE  IsFiniteSet(U(T)) /\ Cardinality(U(T)) <= (n + 1) * m
    <3>1. PICK x : x \in T
      <4>1. Cardinality(T) # 0
        BY <2>1
      <4>2. T # {}
        BY <4>1, FS_EmptySet
      <4> QED
        BY <4>2
    <3>2. PICK R : R = T \ {x}
      BY Zenon
    <3>3. R \in SUBSET Blocks /\ Short(R) /\ Cardinality(R) = n
      <4>1. Cardinality(T \ {x}) = Cardinality(T) - 1
        BY <1>1, <3>1, FS_RemoveElement
      <4>2. n + 1 - 1 = n
        OBVIOUS
      <4> QED
        BY <2>1, <3>2, <4>1, <4>2
    <3>4. IsFiniteSet(U(R)) /\ Cardinality(U(R)) <= n * m
      BY <3>3
    <3>5. U(T) = U(R) \cup Reach(f, x)
      BY <3>1, <3>2
    <3>6. IsFiniteSet(Reach(f, x)) /\ Cardinality(Reach(f, x)) <= m
      BY <2>1, <3>1 DEF Size
    <3>7. PICK A, B : A = U(R) /\ B = Reach(f, x)
      BY Zenon
    <3>8. /\ IsFiniteSet(A \cup B) /\ Cardinality(A \cup B) = Cardinality(A) + Cardinality(B) - Cardinality(A \cap B)
          /\ Cardinality(A) \in Nat /\ Cardinality(B) \in Nat /\ Cardinality(A \cap B) \in Nat
      <4>1. IsFiniteSet(A) /\ IsFiniteSet(B)
        BY <3>4, <3>6, <3>7
      <4>2. A \cap B \subseteq A
        OBVIOUS
      <4> QED
        BY <4>1, <4>2, FS_Union, FS_Subset, FS_CardinalityType
    <3>9. Cardinality(A \cup B) <= n * m + m
      <4>1. Cardinality(A) <= n * m /\ Cardinality(B) <= m
        BY <3>4, <3>6, <3>7
      <4>2. n * m \in Nat
        OBVIOUS
      <4> QED
        BY <3>8, <4>1, <4>2
    <3>10. (n + 1) * m = n * m + m
      OBVIOUS
    <3>11. U(T) = A \cup B
      BY <3>5, <3>7
    <3> QED
      BY <3>8, <3>9, <3>10, <3>11
  <2>2. n + 1 \in Nat
    OBVIOUS
  <2> HIDE DEF U, Short
  <2> QED
    BY <2>1, <2>2
<1>4. N = Nat
  <2>1. N \in SUBSET Nat
    OBVIOUS
  <2> HIDE DEF N
  <2> QED
    BY <1>2, <1>3, <2>1, Induction
<1> QED
  BY <1>1, <1>4

----------------------------------------------------------------------------
(***************************************************************************)
(* Where blocks and chunks are: the blocks F are strung by f to chunks,    *)
(* and the chunks L of them by g to stacks, the pool's under p and one of  *)
(* each thread under mine[t].  odd[t] is a chunk in no stack.              *)
(***************************************************************************)

Stacks(p, mine) == ({p} \cup {mine[t] : t \in Threads}) \ {NoBlock}
Loose(odd)      == {odd[t] : t \in Threads} \ {NoBlock}

\* No other thread has what t has.
Alone(odd, t) == odd[t] # NoBlock => \A u \in Threads \ {t} : odd[u] # odd[t]

\* No chunk is the first in two places.
Apart(L, p, mine, odd) ==
  \A t \in Threads :
    /\ Alone(mine, t) /\ (mine[t] # NoBlock => mine[t] # p)
    /\ Alone(odd, t) /\ (odd[t] # NoBlock => odd[t] \notin L)

Placed(f, g, F, L, p, mine, odd) ==
  /\ p \in Links /\ mine \in [Threads -> Links] /\ odd \in [Threads -> Links]
  /\ AreLists(g, L, Stacks(p, mine))
  /\ AreLists(f, F, L \cup Loose(odd))
  /\ Apart(L, p, mine, odd)

LEMMA PlacedFacts ==
  ASSUME NEW f, NEW g, NEW F, NEW L, NEW p, NEW mine, NEW odd, Placed(f, g, F, L, p, mine, odd)
  PROVE  /\ p \in Links /\ mine \in [Threads -> Links] /\ odd \in [Threads -> Links]
         /\ NoBlock \notin Blocks /\ F \subseteq Blocks /\ L \subseteq F
         /\ p # NoBlock => p \in L
         /\ \A t \in Threads : /\ mine[t] # NoBlock => mine[t] \in L
                               /\ odd[t] # NoBlock => odd[t] \in F /\ odd[t] \notin L
         /\ \A b \in F : f[b] \in F \cup {NoBlock} /\ Size(f, b) = Size(f, f[b]) + 1
         /\ \A b \in L : g[b] \in L \cup {NoBlock} /\ Size(g, b) = Size(g, g[b]) + 1
         /\ \A b \in F \cup {NoBlock} : Size(f, b) \in Nat
         /\ \A b \in L \cup {NoBlock} : Size(g, b) \in Nat
<1>1. AreLists(f, F, L \cup Loose(odd)) /\ AreLists(g, L, Stacks(p, mine))
  BY DEF Placed
<1>2. /\ p \in Links /\ mine \in [Threads -> Links] /\ odd \in [Threads -> Links]
      /\ NoBlock \notin Blocks
  BY PoolAssumption DEF Placed
<1>3. F \subseteq Blocks /\ L \cup Loose(odd) \subseteq F
  BY <1>1, ListFacts
<1>4. Stacks(p, mine) \subseteq L
  BY <1>1, ListFacts
<1>5. p # NoBlock => p \in L
  BY <1>4 DEF Stacks
<1>6. ASSUME NEW t \in Threads
      PROVE  /\ mine[t] # NoBlock => mine[t] \in L
             /\ odd[t] # NoBlock => odd[t] \in F /\ odd[t] \notin L
  <2>1. mine[t] # NoBlock => mine[t] \in L
    BY <1>4 DEF Stacks
  <2>2. odd[t] # NoBlock => odd[t] \in F
    BY <1>3 DEF Loose
  <2>3. odd[t] # NoBlock => odd[t] \notin L
    BY DEF Placed, Apart
  <2> QED
    BY <2>1, <2>2, <2>3
<1>7. \A b \in F : f[b] \in F \cup {NoBlock} /\ Size(f, b) = Size(f, f[b]) + 1 /\ Size(f, b) \in Nat
  BY <1>1, ListFacts
<1>8. \A b \in L : g[b] \in L \cup {NoBlock} /\ Size(g, b) = Size(g, g[b]) + 1 /\ Size(g, b) \in Nat
  BY <1>1, ListFacts
<1>9. Size(f, NoBlock) = 0 /\ Size(g, NoBlock) = 0
  BY None
<1> QED
  BY <1>2, <1>3, <1>5, <1>6, <1>7, <1>8, <1>9

\* Thread t has x now.
Changed(odd, o, t, x) ==
  o \in [Threads -> Links] /\ o[t] = x /\ \A u \in Threads \ {t} : o[u] = odd[u]

\* What a chunk's coming or going does to the chunks that come first.
LEMMA LooseChanges ==
  ASSUME NEW odd, NEW t \in Threads, NEW x, NEW o, Changed(odd, o, t, x), Alone(odd, t)
  PROVE  Loose(o) = (Loose(odd) \ {odd[t]}) \cup ({x} \ {NoBlock})
<1>1. \A u \in Threads : o[u] = IF u = t THEN x ELSE odd[u]
  BY DEF Changed
<1>2. Loose(o) \subseteq (Loose(odd) \ {odd[t]}) \cup ({x} \ {NoBlock})
  BY <1>1 DEF Loose, Alone
<1>3. ASSUME NEW y \in (Loose(odd) \ {odd[t]}) \cup ({x} \ {NoBlock})
      PROVE  y \in Loose(o)
  <2>1. CASE y \in Loose(odd) \ {odd[t]}
    <3>1. PICK u \in Threads : y = odd[u] /\ u # t /\ y # NoBlock
      BY <2>1 DEF Loose
    <3> QED
      BY <1>1, <3>1 DEF Loose
  <2>2. CASE y = x /\ x # NoBlock
    BY <1>1, <2>2 DEF Loose
  <2> QED
    BY <2>1, <2>2
<1> QED
  BY <1>2, <1>3

LEMMA StacksChange ==
  ASSUME NEW p, NEW mine, NEW t \in Threads, NEW x, NEW m, Changed(mine, m, t, x),
         Alone(mine, t), mine[t] # NoBlock => mine[t] # p
  PROVE  Stacks(p, m) = (Stacks(p, mine) \ {mine[t]}) \cup ({x} \ {NoBlock})
<1>1. \A o : Stacks(p, o) = Loose(o) \cup ({p} \ {NoBlock})
  BY DEF Stacks, Loose
<1>2. Loose(m) = (Loose(mine) \ {mine[t]}) \cup ({x} \ {NoBlock})
  BY LooseChanges
<1> QED
  BY <1>1, <1>2

LEMMA StacksTop ==
  ASSUME NEW p, NEW mine, NEW x, \A t \in Threads : mine[t] # NoBlock => mine[t] # p
  PROVE  Stacks(x, mine) = (Stacks(p, mine) \ {p}) \cup ({x} \ {NoBlock})
<1>1. \A y : Stacks(y, mine) = Loose(mine) \cup ({y} \ {NoBlock})
  BY DEF Stacks, Loose
<1>2. p \notin Loose(mine)
  BY DEF Loose
<1> QED
  BY <1>1, <1>2

\* Apart, when one thread's odd chunk changes.
LEMMA OddApart ==
  ASSUME NEW L, NEW p, NEW mine, NEW odd, Apart(L, p, mine, odd),
         NEW t \in Threads, NEW x, x # NoBlock => x \notin L \cup Loose(odd),
         NEW o, Changed(odd, o, t, x)
  PROVE  Apart(L, p, mine, o)
<1>2. \A u \in Threads : o[u] = IF u = t THEN x ELSE odd[u]
  BY DEF Changed
<1>3. x # NoBlock => \A u \in Threads : odd[u] # x
  BY DEF Loose
<1>4. \A u \in Threads : Alone(mine, u) /\ (mine[u] # NoBlock => mine[u] # p)
  BY DEF Apart
<1>5. ASSUME NEW u \in Threads
      PROVE  Alone(o, u) /\ (o[u] # NoBlock => o[u] \notin L)
  <2>1. Alone(odd, u) /\ (odd[u] # NoBlock => odd[u] \notin L)
    BY DEF Apart
  <2> QED
    BY <1>2, <1>3, <2>1 DEF Alone
<1> QED
  BY <1>4, <1>5 DEF Apart

\* Apart, when the first chunk of one thread's stack changes.
LEMMA MineApart ==
  ASSUME NEW L, NEW p, NEW mine, NEW odd, Apart(L, p, mine, odd),
         NEW t \in Threads, NEW x, x # NoBlock => x \notin Stacks(p, mine),
         NEW o, Changed(mine, o, t, x)
  PROVE  Apart(L, p, o, odd)
<1>2. \A u \in Threads : o[u] = IF u = t THEN x ELSE mine[u]
  BY DEF Changed
<1>3. x # NoBlock => x # p /\ \A u \in Threads : mine[u] # x
  BY DEF Stacks
<1>4. \A u \in Threads : Alone(odd, u) /\ (odd[u] # NoBlock => odd[u] \notin L)
  BY DEF Apart
<1>5. ASSUME NEW u \in Threads
      PROVE  Alone(o, u) /\ (o[u] # NoBlock => o[u] # p)
  <2>1. Alone(mine, u) /\ (mine[u] # NoBlock => mine[u] # p)
    BY DEF Apart
  <2> QED
    BY <1>2, <1>3, <2>1 DEF Alone
<1> QED
  BY <1>4, <1>5 DEF Apart

\* The first block of the odd chunk is given out.
LEMMA Taken ==
  ASSUME NEW f, NEW g, NEW F, NEW L, NEW p, NEW mine, NEW odd, Placed(f, g, F, L, p, mine, odd),
         NEW t \in Threads, odd[t] # NoBlock, NEW o, Changed(odd, o, t, f[odd[t]])
  PROVE  Placed(f, g, F \ {odd[t]}, L, p, mine, o)
<1>1. PICK s : s = odd[t]
  BY Zenon
<1>2. /\ p \in Links /\ mine \in [Threads -> Links] /\ odd \in [Threads -> Links]
      /\ AreLists(g, L, Stacks(p, mine)) /\ AreLists(f, F, L \cup Loose(odd))
      /\ Apart(L, p, mine, odd)
  BY DEF Placed
<1>3. s \in Loose(odd) /\ s \notin L /\ Alone(odd, t)
  BY <1>1, <1>2 DEF Loose, Apart
<1>4. f[s] \in F \cup {NoBlock} /\ f[s] \notin L \cup Loose(odd) /\ F \subseteq Blocks
  BY <1>2, <1>3, ListFacts
<1>5. Changed(odd, o, t, f[s]) /\ o \in [Threads -> Links]
  BY <1>1 DEF Changed
<1>6. AreLists(f, F \ {s}, ((L \cup Loose(odd)) \ {s}) \cup ({f[s]} \ {NoBlock}))
  BY <1>2, <1>3, ListsPopped
<1>7. Loose(o) = (Loose(odd) \ {odd[t]}) \cup ({f[s]} \ {NoBlock})
  BY <1>3, <1>5, LooseChanges
<1>8. ((L \cup Loose(odd)) \ {s}) \cup ({f[s]} \ {NoBlock}) = L \cup Loose(o)
  BY <1>1, <1>3, <1>7
<1>9. Apart(L, p, mine, o)
  BY <1>2, <1>4, <1>5, OddApart
<1> QED
  BY <1>1, <1>2, <1>5, <1>6, <1>8, <1>9 DEF Placed

\* A block comes before the odd chunk.
LEMMA Given ==
  ASSUME NEW f, NEW g, NEW F, NEW L, NEW p, NEW mine, NEW odd, Placed(f, g, F, L, p, mine, odd),
         NEW t \in Threads, NEW b \in Blocks \ F, NEW h, h[b] = odd[t], Same(f, h, F),
         NEW o, Changed(odd, o, t, b)
  PROVE  /\ Placed(h, g, F \cup {b}, L, p, mine, o)
         /\ Size(h, b) = Size(f, odd[t]) + 1
         /\ \A x \in F \cup {NoBlock} : Size(h, x) = Size(f, x)
<1>1. PICK s : s = odd[t]
  BY Zenon
<1>2. /\ p \in Links /\ mine \in [Threads -> Links] /\ odd \in [Threads -> Links]
      /\ AreLists(g, L, Stacks(p, mine)) /\ AreLists(f, F, L \cup Loose(odd))
      /\ Apart(L, p, mine, odd)
  BY DEF Placed
<1>3. s \in (L \cup Loose(odd)) \cup {NoBlock} /\ s \notin L /\ Alone(odd, t)
  <2>1. NoBlock \notin L
    BY <1>2, ListFacts
  <2> QED
    BY <1>1, <1>2, <2>1 DEF Loose, Apart
<1>4. b \notin L \cup Loose(odd) /\ b \in Links /\ b # NoBlock
  <2>1. L \cup Loose(odd) \subseteq F
    BY <1>2, ListFacts
  <2> QED
    BY <2>1, PoolAssumption DEF Links
<1>5. /\ AreLists(h, F \cup {b}, ((L \cup Loose(odd)) \ {s}) \cup {b})
      /\ Size(h, b) = Size(f, s) + 1
      /\ \A x \in F \cup {NoBlock} : Size(h, x) = Size(f, x)
  <2>1. PICK A : A = L \cup Loose(odd)
    BY Zenon
  <2>2. AreLists(f, F, A) /\ s \in A \cup {NoBlock} /\ h[b] = s
    BY <1>1, <1>2, <1>3, <2>1
  <2>3. AreLists(h, F \cup {b}, (A \ {s}) \cup {b})
    BY <2>2, ListsPushed, Zenon
  <2>4. Size(h, b) = Size(f, s) + 1
    BY <2>2, <2>3, ListsPushed
  <2>5. \A x \in F \cup {NoBlock} : Size(h, x) = Size(f, x)
    BY <2>2, ListsKept
  <2> QED
    BY <2>1, <2>3, <2>4, <2>5, Zenon
<1>6. Loose(o) = (Loose(odd) \ {s}) \cup {b}
  <2>1. Loose(o) = (Loose(odd) \ {odd[t]}) \cup ({b} \ {NoBlock})
    BY <1>3, LooseChanges
  <2> QED
    BY <1>1, <1>4, <2>1
<1>7. ((L \cup Loose(odd)) \ {s}) \cup {b} = L \cup Loose(o)
  BY <1>3, <1>6
<1>8. Apart(L, p, mine, o)
  BY <1>2, <1>4, OddApart
<1>9. o \in [Threads -> Links]
  BY DEF Changed
<1> QED
  BY <1>1, <1>2, <1>5, <1>7, <1>8, <1>9 DEF Placed

\* A new chunk is the odd one.
LEMMA Made ==
  ASSUME NEW f, NEW g, NEW F, NEW L, NEW p, NEW mine, NEW odd, Placed(f, g, F, L, p, mine, odd),
         NEW t \in Threads, odd[t] = NoBlock,
         NEW n \in Nat \ {0}, NEW l \in [1 .. n -> Blocks \ F],
         NEW h, Strand(h, l, n), Same(f, h, F), NEW o, Changed(odd, o, t, l[1])
  PROVE  /\ Placed(h, g, F \cup {l[i] : i \in 1 .. n}, L, p, mine, o)
         /\ Size(h, l[1]) = n
         /\ \A x \in F \cup {NoBlock} : Size(h, x) = Size(f, x)
<1>1. /\ p \in Links /\ mine \in [Threads -> Links] /\ odd \in [Threads -> Links]
      /\ AreLists(g, L, Stacks(p, mine)) /\ AreLists(f, F, L \cup Loose(odd))
      /\ Apart(L, p, mine, odd)
  BY DEF Placed
<1>2. PICK b : b = l[1]
  BY Zenon
<1>3. b \in Blocks \ F /\ b \in Links /\ b # NoBlock
  BY <1>2, PoolAssumption DEF Links
<1>4. b \notin L \cup Loose(odd)
  <2>1. L \cup Loose(odd) \subseteq F
    BY <1>1, ListFacts
  <2> QED
    BY <1>3, <2>1
<1>5. /\ AreLists(h, F \cup {l[i] : i \in 1 .. n}, (L \cup Loose(odd)) \cup {b})
      /\ Size(h, b) = n
      /\ \A x \in F \cup {NoBlock} : Size(h, x) = Size(f, x)
  <2>1. PICK A : A = L \cup Loose(odd)
    BY Zenon
  <2>2. AreLists(f, F, A)
    BY <1>1, <2>1
  <2>3. AreLists(h, F \cup {l[i] : i \in 1 .. n}, A \cup {l[1]})
    BY <2>2, ListsMade, Zenon
  <2>4. Size(h, l[1]) = n
    BY <2>2, <2>3, ListsMade
  <2>5. \A x \in F \cup {NoBlock} : Size(h, x) = Size(f, x)
    BY <2>2, ListsKept
  <2> QED
    BY <1>2, <2>1, <2>3, <2>4, <2>5, Zenon
<1>6. Changed(odd, o, t, b) /\ o \in [Threads -> Links] /\ Alone(odd, t)
  BY <1>2 DEF Changed, Alone
<1>7. (L \cup Loose(odd)) \cup {b} = L \cup Loose(o)
  <2>1. Loose(o) = (Loose(odd) \ {odd[t]}) \cup ({b} \ {NoBlock})
    BY <1>6, LooseChanges
  <2>2. NoBlock \notin Loose(odd)
    BY DEF Loose
  <2> QED
    BY <1>3, <2>1, <2>2
<1>8. Apart(L, p, mine, o)
  BY <1>1, <1>4, <1>6, OddApart
<1> QED
  BY <1>1, <1>2, <1>5, <1>6, <1>7, <1>8 DEF Placed

\* A thread turns to the first of its own chunks.
LEMMA OpenedOwn ==
  ASSUME NEW f, NEW g, NEW F, NEW L, NEW p, NEW mine, NEW odd, Placed(f, g, F, L, p, mine, odd),
         NEW t \in Threads, mine[t] # NoBlock, odd[t] = NoBlock,
         NEW m, Changed(mine, m, t, g[mine[t]]), NEW o, Changed(odd, o, t, mine[t])
  PROVE  Placed(f, g, F, L \ {mine[t]}, p, m, o)
<1>1. PICK s : s = mine[t]
  BY Zenon
<1>2. /\ p \in Links /\ mine \in [Threads -> Links] /\ odd \in [Threads -> Links]
      /\ AreLists(g, L, Stacks(p, mine)) /\ AreLists(f, F, L \cup Loose(odd))
      /\ Apart(L, p, mine, odd)
  BY DEF Placed
<1>3. /\ s \in Stacks(p, mine) /\ s \in L /\ s # NoBlock /\ s # p /\ Alone(mine, t)
      /\ g[s] \notin Stacks(p, mine)
  <2>1. s \in Stacks(p, mine) /\ s # NoBlock
    BY <1>1 DEF Stacks
  <2>2. s # p /\ Alone(mine, t)
    BY <1>1, <1>2 DEF Apart
  <2>3. Stacks(p, mine) \subseteq L /\ g[s] \notin Stacks(p, mine)
    BY <1>2, <2>1, ListFacts
  <2> QED
    BY <2>1, <2>2, <2>3
<1>4. Changed(mine, m, t, g[s]) /\ Changed(odd, o, t, s) /\ m \in [Threads -> Links] /\ o \in [Threads -> Links]
  BY <1>1 DEF Changed
<1>5. AreLists(g, L \ {s}, Stacks(p, m))
  <2>0. Changed(mine, m, t, g[s]) /\ Alone(mine, t) /\ (mine[t] # NoBlock => mine[t] # p)
    BY <1>1, <1>3, <1>4
  <2>1. Stacks(p, m) = (Stacks(p, mine) \ {s}) \cup ({g[s]} \ {NoBlock})
    <3>1. Stacks(p, m) = (Stacks(p, mine) \ {mine[t]}) \cup ({g[s]} \ {NoBlock})
      BY <2>0, StacksChange
    <3> QED
      BY <1>1, <3>1
  <2>2. AreLists(g, L \ {s}, (Stacks(p, mine) \ {s}) \cup ({g[s]} \ {NoBlock}))
    BY <1>2, <1>3, ListsPopped
  <2> QED
    BY <2>1, <2>2
<1>6. s \notin Loose(odd)
  BY <1>2, <1>3 DEF Loose, Apart
<1>7. AreLists(f, F, (L \ {s}) \cup Loose(o))
  <2>1. Loose(o) = (Loose(odd) \ {odd[t]}) \cup ({s} \ {NoBlock})
    BY <1>4, LooseChanges DEF Alone
  <2>2. NoBlock \notin Loose(odd)
    BY DEF Loose
  <2>3. (L \ {s}) \cup Loose(o) = L \cup Loose(odd)
    BY <1>3, <2>1, <2>2
  <2> QED
    BY <1>2, <2>3
<1>8. Apart(L, p, m, odd)
  BY <1>2, <1>3, <1>4, MineApart
<1>9. Apart(L \ {s}, p, m, o)
  <2>1. Apart(L \ {s}, p, m, odd)
    BY <1>8 DEF Apart
  <2>2. s \notin (L \ {s}) \cup Loose(odd)
    BY <1>6
  <2> QED
    BY <1>4, <2>1, <2>2, OddApart
<1> QED
  BY <1>1, <1>2, <1>4, <1>5, <1>7, <1>9 DEF Placed

\* A thread takes the first chunk of the pool.
LEMMA OpenedPool ==
  ASSUME NEW f, NEW g, NEW F, NEW L, NEW p, NEW mine, NEW odd, Placed(f, g, F, L, p, mine, odd),
         NEW t \in Threads, p # NoBlock, odd[t] = NoBlock, NEW o, Changed(odd, o, t, p)
  PROVE  Placed(f, g, F, L \ {p}, g[p], mine, o)
<1>2. /\ p \in Links /\ mine \in [Threads -> Links] /\ odd \in [Threads -> Links]
      /\ AreLists(g, L, Stacks(p, mine)) /\ AreLists(f, F, L \cup Loose(odd))
      /\ Apart(L, p, mine, odd)
  BY DEF Placed
<1>3. /\ p \in Stacks(p, mine) /\ p \in L /\ (\A u \in Threads : mine[u] # NoBlock => mine[u] # p)
      /\ g[p] \notin Stacks(p, mine) /\ g[p] \in Links
  <2>1. p \in Stacks(p, mine)
    BY DEF Stacks
  <2>2. Stacks(p, mine) \subseteq L /\ g[p] \notin Stacks(p, mine) /\ g[p] \in L \cup {NoBlock} /\ L \subseteq Blocks
    BY <1>2, <2>1, ListFacts
  <2>3. \A u \in Threads : mine[u] # NoBlock => mine[u] # p
    BY <1>2 DEF Apart
  <2> QED
    BY <2>1, <2>2, <2>3 DEF Links
<1>5. AreLists(g, L \ {p}, Stacks(g[p], mine))
  <2>1. Stacks(g[p], mine) = (Stacks(p, mine) \ {p}) \cup ({g[p]} \ {NoBlock})
    BY <1>3, StacksTop
  <2>2. AreLists(g, L \ {p}, (Stacks(p, mine) \ {p}) \cup ({g[p]} \ {NoBlock}))
    BY <1>2, <1>3, ListsPopped
  <2> QED
    BY <2>1, <2>2
<1>6. p \notin Loose(odd)
  BY <1>2, <1>3 DEF Loose, Apart
<1>7. AreLists(f, F, (L \ {p}) \cup Loose(o))
  <2>1. Loose(o) = (Loose(odd) \ {odd[t]}) \cup ({p} \ {NoBlock})
    BY LooseChanges DEF Alone
  <2>2. NoBlock \notin Loose(odd)
    BY DEF Loose
  <2>3. (L \ {p}) \cup Loose(o) = L \cup Loose(odd)
    BY <1>3, <2>1, <2>2
  <2> QED
    BY <1>2, <2>3
<1>8. Apart(L, g[p], mine, odd)
  <2>1. \A u \in Threads : mine[u] # NoBlock => mine[u] # g[p]
    BY <1>3 DEF Stacks
  <2> QED
    BY <1>2, <2>1 DEF Apart
<1>9. Apart(L \ {p}, g[p], mine, o)
  <2>1. Apart(L \ {p}, g[p], mine, odd)
    BY <1>8 DEF Apart
  <2>2. p \notin (L \ {p}) \cup Loose(odd)
    BY <1>6
  <2> QED
    BY <2>1, <2>2, OddApart
<1>10. o \in [Threads -> Links]
  BY DEF Changed
<1> QED
  BY <1>2, <1>3, <1>5, <1>7, <1>9, <1>10 DEF Placed

\* A thread puts its odd chunk before its others.
LEMMA ClosedOwn ==
  ASSUME NEW f, NEW g, NEW F, NEW L, NEW p, NEW mine, NEW odd, Placed(f, g, F, L, p, mine, odd),
         NEW t \in Threads, odd[t] # NoBlock, NEW h, h[odd[t]] = mine[t], Same(g, h, L),
         NEW m, Changed(mine, m, t, odd[t]), NEW o, Changed(odd, o, t, NoBlock)
  PROVE  /\ Placed(f, h, F, L \cup {odd[t]}, p, m, o)
         /\ Size(h, odd[t]) = Size(g, mine[t]) + 1
         /\ \A x \in L \cup {NoBlock} : Size(h, x) = Size(g, x)
<1>1. PICK s : s = odd[t]
  BY Zenon
<1>2. /\ p \in Links /\ mine \in [Threads -> Links] /\ odd \in [Threads -> Links]
      /\ AreLists(g, L, Stacks(p, mine)) /\ AreLists(f, F, L \cup Loose(odd))
      /\ Apart(L, p, mine, odd)
  BY DEF Placed
<1>3. s \in Loose(odd) /\ s \notin L /\ Alone(odd, t) /\ s # NoBlock /\ s \in Blocks
  <2>1. s \in Loose(odd) /\ s \notin L /\ Alone(odd, t) /\ s # NoBlock
    BY <1>1, <1>2 DEF Loose, Apart
  <2>2. F \subseteq Blocks /\ L \cup Loose(odd) \subseteq F
    BY <1>2, ListFacts
  <2> QED
    BY <2>1, <2>2
<1>4. Changed(mine, m, t, s) /\ Changed(odd, o, t, NoBlock) /\ m \in [Threads -> Links] /\ o \in [Threads -> Links]
  BY <1>1 DEF Changed
<1>5. Alone(mine, t) /\ (mine[t] # NoBlock => mine[t] # p) /\ mine[t] \in Stacks(p, mine) \cup {NoBlock}
      /\ Stacks(p, mine) \subseteq L
  <2>1. mine[t] \in Stacks(p, mine) \cup {NoBlock}
    BY DEF Stacks
  <2>2. Stacks(p, mine) \subseteq L
    BY <1>2, ListFacts
  <2> QED
    BY <1>2, <2>1, <2>2 DEF Apart
<1>6. Stacks(p, m) = (Stacks(p, mine) \ {mine[t]}) \cup {s}
  <2>1. Stacks(p, m) = (Stacks(p, mine) \ {mine[t]}) \cup ({s} \ {NoBlock})
    BY <1>4, <1>5, StacksChange
  <2> QED
    BY <1>3, <2>1
<1>7. /\ AreLists(h, L \cup {s}, Stacks(p, m))
      /\ Size(h, s) = Size(g, mine[t]) + 1
      /\ \A x \in L \cup {NoBlock} : Size(h, x) = Size(g, x)
  <2>1. PICK A, x : A = Stacks(p, mine) /\ x = mine[t]
    BY Zenon
  <2>2. AreLists(g, L, A) /\ x \in A \cup {NoBlock} /\ h[s] = x
    BY <1>1, <1>2, <1>5, <2>1
  <2>3. AreLists(h, L \cup {s}, (A \ {x}) \cup {s})
    BY <1>3, <2>2, ListsPushed, Zenon
  <2>4. Size(h, s) = Size(g, x) + 1
    BY <1>3, <2>2, <2>3, ListsPushed
  <2>5. \A y \in L \cup {NoBlock} : Size(h, y) = Size(g, y)
    BY <2>2, ListsKept
  <2> QED
    BY <1>6, <2>1, <2>3, <2>4, <2>5, Zenon
<1>8. AreLists(f, F, (L \cup {s}) \cup Loose(o))
  <2>1. Loose(o) = (Loose(odd) \ {s}) \cup ({NoBlock} \ {NoBlock})
    BY <1>1, <1>3, <1>4, LooseChanges
  <2>2. (L \cup {s}) \cup Loose(o) = L \cup Loose(odd)
    BY <1>3, <2>1
  <2> QED
    BY <1>2, <2>2
<1>9. Apart(L \cup {s}, p, m, o)
  <2>1. Apart(L, p, m, odd)
    BY <1>2, <1>3, <1>4, <1>5, MineApart
  <2>2. \A u \in Threads : Alone(o, u) /\ (o[u] # NoBlock => o[u] \notin L \cup {s})
    <3>1. \A u \in Threads : o[u] = IF u = t THEN NoBlock ELSE odd[u]
      BY <1>4 DEF Changed
    <3>2. \A u \in Threads : Alone(odd, u) /\ (odd[u] # NoBlock => odd[u] \notin L)
      BY <1>2 DEF Apart
    <3> QED
      BY <1>1, <1>3, <3>1, <3>2 DEF Alone
  <2> QED
    BY <2>1, <2>2 DEF Apart
<1> QED
  BY <1>1, <1>2, <1>4, <1>7, <1>8, <1>9 DEF Placed

\* A thread puts its odd chunk on the pool.
LEMMA ClosedPool ==
  ASSUME NEW f, NEW g, NEW F, NEW L, NEW p, NEW mine, NEW odd, Placed(f, g, F, L, p, mine, odd),
         NEW t \in Threads, odd[t] # NoBlock, g[odd[t]] = p, NEW o, Changed(odd, o, t, NoBlock)
  PROVE  Placed(f, g, F, L \cup {odd[t]}, odd[t], mine, o)
<1>1. PICK s : s = odd[t]
  BY Zenon
<1>2. /\ p \in Links /\ mine \in [Threads -> Links] /\ odd \in [Threads -> Links]
      /\ AreLists(g, L, Stacks(p, mine)) /\ AreLists(f, F, L \cup Loose(odd))
      /\ Apart(L, p, mine, odd)
  BY DEF Placed
<1>3. s \in Loose(odd) /\ s \notin L /\ Alone(odd, t) /\ s # NoBlock /\ s \in Blocks /\ s \in Links
  <2>1. s \in Loose(odd) /\ s \notin L /\ Alone(odd, t) /\ s # NoBlock
    BY <1>1, <1>2 DEF Loose, Apart
  <2>2. F \subseteq Blocks /\ L \cup Loose(odd) \subseteq F
    BY <1>2, ListFacts
  <2> QED
    BY <2>1, <2>2 DEF Links
<1>4. Stacks(p, mine) \subseteq L /\ p \in Stacks(p, mine) \cup {NoBlock}
      /\ (\A u \in Threads : mine[u] # NoBlock => mine[u] # p)
  <2>1. p \in Stacks(p, mine) \cup {NoBlock}
    BY DEF Stacks
  <2>2. Stacks(p, mine) \subseteq L
    BY <1>2, ListFacts
  <2> QED
    BY <1>2, <2>1, <2>2 DEF Apart
<1>6. Stacks(s, mine) = (Stacks(p, mine) \ {p}) \cup {s}
  <2>1. Stacks(s, mine) = (Stacks(p, mine) \ {p}) \cup ({s} \ {NoBlock})
    BY <1>4, StacksTop
  <2> QED
    BY <1>3, <2>1
<1>7. AreLists(g, L \cup {s}, Stacks(s, mine))
  <2>1. PICK A : A = Stacks(p, mine)
    BY Zenon
  <2>2. AreLists(g, L, A) /\ p \in A \cup {NoBlock} /\ g[s] = p /\ Same(g, g, L)
    BY <1>1, <1>2, <1>4, <2>1 DEF Same
  <2>3. AreLists(g, L \cup {s}, (A \ {p}) \cup {s})
    BY <1>3, <2>2, ListsPushed, Zenon
  <2> QED
    BY <1>6, <2>1, <2>3, Zenon
<1>8. AreLists(f, F, (L \cup {s}) \cup Loose(o))
  <2>1. Loose(o) = (Loose(odd) \ {s}) \cup ({NoBlock} \ {NoBlock})
    BY <1>1, <1>3, LooseChanges
  <2>2. (L \cup {s}) \cup Loose(o) = L \cup Loose(odd)
    BY <1>3, <2>1
  <2> QED
    BY <1>2, <2>2
<1>9. Apart(L \cup {s}, s, mine, o)
  <2>1. \A u \in Threads : Alone(o, u) /\ (o[u] # NoBlock => o[u] \notin L \cup {s})
    <3>1. \A u \in Threads : o[u] = IF u = t THEN NoBlock ELSE odd[u]
      BY DEF Changed
    <3>2. \A u \in Threads : Alone(odd, u) /\ (odd[u] # NoBlock => odd[u] \notin L)
      BY <1>2 DEF Apart
    <3> QED
      BY <1>1, <1>3, <3>1, <3>2 DEF Alone
  <2>2. \A u \in Threads : Alone(mine, u) /\ (mine[u] # NoBlock => mine[u] # s)
    <3>1. \A u \in Threads : mine[u] # NoBlock => mine[u] \in Stacks(p, mine)
      BY DEF Stacks
    <3> QED
      BY <1>2, <1>3, <1>4, <3>1 DEF Apart
  <2> QED
    BY <2>1, <2>2 DEF Apart
<1>10. o \in [Threads -> Links]
  BY DEF Changed
<1> QED
  BY <1>1, <1>2, <1>3, <1>7, <1>8, <1>9, <1>10 DEF Placed

\* Links of no chunk in a stack may change.
LEMMA Kept ==
  ASSUME NEW f, NEW g, NEW F, NEW L, NEW p, NEW mine, NEW odd, Placed(f, g, F, L, p, mine, odd),
         NEW h, Same(g, h, L)
  PROVE  /\ Placed(f, h, F, L, p, mine, odd)
         /\ \A x \in L \cup {NoBlock} : Size(h, x) = Size(g, x)
<1>1. AreLists(g, L, Stacks(p, mine))
  BY DEF Placed
<1>2. AreLists(h, L, Stacks(p, mine)) /\ \A x \in L \cup {NoBlock} : Size(h, x) = Size(g, x)
  BY <1>1, ListsKept
<1> QED
  BY <1>2 DEF Placed

----------------------------------------------------------------------------
(***************************************************************************)
(* The invariant.                                                          *)
(***************************************************************************)

\* The first of a thread's full chunks, and the chunk it gives from or pushes.
Mines == [t \in Threads |-> IF exiting[t] THEN rest[t] ELSE cache[t].chunkTop]
Odds  == [t \in Threads |-> IF Pushing(t) THEN head[t] ELSE cache[t].cur]

Unused == Blocks \ (inUse \cup unmade)

\* The unused blocks are in chunks, and the chunks L in stacks, with their counts.
InPlace(L) ==
  /\ Placed(next, chunkNext, Unused, L, top.ptr, Mines, Odds)
  /\ \A b \in L : count[b] = Size(next, b)

CacheOK(t) ==
  /\ cache[t].curCount = Size(next, cache[t].cur) /\ cache[t].curCount < ChunkSize
  /\ cache[t].chunkCount = Size(chunkNext, cache[t].chunkTop) /\ cache[t].chunkCount <= TlsMaxChunks

PlaceOK(t) ==
  /\ pc[t] # "idle" => cache[t].cur = NoBlock
  /\ Pushing(t) => head[t] # NoBlock /\ count[head[t]] = Size(next, head[t])
  /\ exiting[t] => Pushing(t) /\ cache[t] = Empty
  /\ ~ exiting[t] => rest[t] = NoBlock

\* What the tag tells a thread that has read top.
TopOK(t) ==
  pc[t] \in Reading =>
    /\ top.tag = oldTop[t].tag + slept[t] \/ top.tag = oldTop[t].tag + slept[t] - TagLimit
    /\ slept[t] = 0 => top = oldTop[t]
    /\ pc[t] \in {"PopNext", "PopCas"} => oldTop[t].ptr # NoBlock
    /\ pc[t] = "PopCas" /\ slept[t] = 0 => nextTop[t] = chunkNext[oldTop[t].ptr]
    /\ pc[t] = "PushCas" => chunkNext[head[t]] = oldTop[t].ptr

PoolInv ==
  /\ TypeOK /\ inUse \cap unmade = {}
  /\ \E L : InPlace(L)
  /\ \A t \in Threads : CacheOK(t) /\ PlaceOK(t) /\ TopOK(t)
  /\ crashed => MaxChunks # 0 /\ chunkCount > MaxChunks

LEMMA InvFacts ==
  ASSUME TypeOK, NEW L, InPlace(L)
  PROVE  /\ NoBlock \notin Blocks /\ L \subseteq Unused /\ Unused \subseteq Blocks
         /\ top.ptr \in L \cup {NoBlock}
         /\ \A t \in Threads :
              /\ ~ exiting[t] => cache[t].chunkTop \in L \cup {NoBlock}
              /\ exiting[t] => rest[t] \in L \cup {NoBlock}
              /\ ~ Pushing(t) => cache[t].cur \in (Unused \ L) \cup {NoBlock}
              /\ Pushing(t) => head[t] \in (Unused \ L) \cup {NoBlock}
         /\ \A b \in Unused : /\ next[b] \in Unused \cup {NoBlock}
                              /\ Size(next, b) = Size(next, next[b]) + 1
         /\ \A b \in L : /\ chunkNext[b] \in L \cup {NoBlock}
                         /\ Size(chunkNext, b) = Size(chunkNext, chunkNext[b]) + 1
                         /\ count[b] = Size(next, b)
         /\ \A b \in Unused \cup {NoBlock} : Size(next, b) \in Nat
         /\ \A b \in L \cup {NoBlock} : Size(chunkNext, b) \in Nat
<1>1. Placed(next, chunkNext, Unused, L, top.ptr, Mines, Odds) /\ \A b \in L : count[b] = Size(next, b)
  BY DEF InPlace
<1>2. PICK m, o : m = Mines /\ o = Odds
  BY Zenon
<1>3. /\ NoBlock \notin Blocks /\ L \subseteq Unused /\ Unused \subseteq Blocks
      /\ top.ptr # NoBlock => top.ptr \in L
      /\ \A t \in Threads : /\ m[t] # NoBlock => m[t] \in L
                            /\ o[t] # NoBlock => o[t] \in Unused /\ o[t] \notin L
      /\ \A b \in Unused : next[b] \in Unused \cup {NoBlock} /\ Size(next, b) = Size(next, next[b]) + 1
      /\ \A b \in L : chunkNext[b] \in L \cup {NoBlock} /\ Size(chunkNext, b) = Size(chunkNext, chunkNext[b]) + 1
      /\ \A b \in Unused \cup {NoBlock} : Size(next, b) \in Nat
      /\ \A b \in L \cup {NoBlock} : Size(chunkNext, b) \in Nat
  BY <1>1, <1>2, PlacedFacts
<1>4. ASSUME NEW t \in Threads
      PROVE  /\ ~ exiting[t] => cache[t].chunkTop \in L \cup {NoBlock}
             /\ exiting[t] => rest[t] \in L \cup {NoBlock}
             /\ ~ Pushing(t) => cache[t].cur \in (Unused \ L) \cup {NoBlock}
             /\ Pushing(t) => head[t] \in (Unused \ L) \cup {NoBlock}
  <2>1. /\ m[t] = IF exiting[t] THEN rest[t] ELSE cache[t].chunkTop
        /\ o[t] = IF Pushing(t) THEN head[t] ELSE cache[t].cur
    BY <1>2 DEF Mines, Odds
  <2> QED
    BY <1>3, <2>1
<1> QED
  BY <1>1, <1>3, <1>4

\* What a step leaves alone of another thread.
SameThread(u) ==
  /\ pc'[u] = pc[u] /\ cache'[u] = cache[u] /\ head'[u] = head[u] /\ rest'[u] = rest[u]
  /\ exiting'[u] = exiting[u] /\ oldTop'[u] = oldTop[u] /\ nextTop'[u] = nextTop[u]

OnlyThread(t) == \A u \in Threads \ {t} : SameThread(u)

\* What it leaves alone of the chunks.
SizesKept(L) ==
  /\ \A b \in Unused \cup {NoBlock} : Size(next', b) = Size(next, b)
  /\ \A b \in L \cup {NoBlock} : Size(chunkNext', b) = Size(chunkNext, b)

PushedKept(t) ==
  \A u \in Threads \ {t} : Pushing(u) =>
    count'[head[u]] = count[head[u]] /\ chunkNext'[head[u]] = chunkNext[head[u]]

LEMMA Others ==
  ASSUME TypeOK, NEW L, InPlace(L), NEW t, OnlyThread(t), SizesKept(L), PushedKept(t),
         NEW u \in Threads \ {t}, CacheOK(u), PlaceOK(u)
  PROVE  CacheOK(u)' /\ PlaceOK(u)'
<1>1. SameThread(u)
  BY DEF OnlyThread
<1>2. /\ ~ exiting[u] => cache[u].chunkTop \in L \cup {NoBlock}
      /\ ~ Pushing(u) => cache[u].cur \in (Unused \ L) \cup {NoBlock}
      /\ Pushing(u) => head[u] \in (Unused \ L) \cup {NoBlock}
  BY InvFacts
<1>3. cache[u].cur \in Unused \cup {NoBlock}
  BY <1>2 DEF PlaceOK, Pushing
<1>4. cache[u].chunkTop \in L \cup {NoBlock}
  BY <1>2 DEF PlaceOK, Empty
<1>5. Size(next', cache[u].cur) = Size(next, cache[u].cur)
      /\ Size(chunkNext', cache[u].chunkTop) = Size(chunkNext, cache[u].chunkTop)
  BY <1>3, <1>4 DEF SizesKept
<1>6. CacheOK(u)'
  BY <1>1, <1>5 DEF CacheOK, SameThread
<1>7. Pushing(u) => count'[head[u]] = count[head[u]] /\ Size(next', head[u]) = Size(next, head[u])
  BY <1>2 DEF SizesKept, PushedKept
<1>8. PlaceOK(u)'
  BY <1>1, <1>7 DEF PlaceOK, SameThread, Pushing
<1> QED
  BY <1>6, <1>8

\* A thread that has read top, when another step does not change it.
LEMMA TopKept ==
  ASSUME TypeOK, NEW L, InPlace(L), NEW t, OnlyThread(t), PushedKept(t), Same(chunkNext, chunkNext', L),
         top' = top, NEW u \in Threads \ {t}, slept'[u] = slept[u], TopOK(u)
  PROVE  TopOK(u)'
<1>1. SameThread(u)
  BY DEF OnlyThread
<1>2. SUFFICES ASSUME pc[u] \in Reading
               PROVE  TopOK(u)'
  BY <1>1 DEF TopOK, SameThread
<1>3. ASSUME pc[u] = "PopCas", slept[u] = 0
      PROVE  nextTop[u] = chunkNext'[oldTop[u].ptr]
  <2>1. top = oldTop[u] /\ oldTop[u].ptr # NoBlock /\ nextTop[u] = chunkNext[oldTop[u].ptr]
    BY <1>2, <1>3 DEF TopOK
  <2>2. oldTop[u].ptr \in L
    BY <2>1, InvFacts
  <2> QED
    BY <2>1, <2>2 DEF Same
<1>4. pc[u] = "PushCas" => chunkNext'[head[u]] = chunkNext[head[u]]
  BY DEF PushedKept, Pushing
<1> QED
  BY <1>1, <1>2, <1>3, <1>4 DEF TopOK, SameThread

\* The tags, when top changes.
LEMMA TagGoesOn ==
  ASSUME NEW x \in 0 .. TagLimit - 1, NEW o \in 0 .. TagLimit - 1, NEW s \in 0 .. TagLimit - 2,
         x = o + s \/ x = o + s - TagLimit
  PROVE  (x + 1) % TagLimit = o + (s + 1) \/ (x + 1) % TagLimit = o + (s + 1) - TagLimit
<1>1. PICK n \in Nat \ {0, 1} : n = TagLimit
  BY PoolAssumption
<1>2. CASE x + 1 < n
  <2>1. (x + 1) % n = x + 1
    BY <1>1, <1>2
  <2> QED
    BY <1>1, <2>1
<1>3. CASE ~(x + 1 < n)
  <2>1. x + 1 = n /\ n % n = 0
    BY <1>1, <1>3
  <2>2. o + s + 1 = n
    BY <1>1, <2>1
  <2> QED
    BY <1>1, <2>1, <2>2
<1> QED
  BY <1>2, <1>3

LEMMA TopMoved ==
  ASSUME TypeOK, NEW t, OnlyThread(t), NEW b, SetTop(t, b), chunkNext' = chunkNext,
         NEW u \in Threads \ {t}, TopOK(u)
  PROVE  TopOK(u)'
<1>1. SameThread(u)
  BY DEF OnlyThread
<1>2. SUFFICES ASSUME pc[u] \in Reading
               PROVE  TopOK(u)'
  BY <1>1 DEF TopOK, SameThread
<1>3. /\ top = oldTop[t] /\ top' = Make(top.tag + 1, b)
      /\ slept[u] < TagLimit - 1 /\ slept'[u] = slept[u] + 1
  BY <1>2 DEF SetTop
<1>4. top'.tag = (top.tag + 1) % TagLimit
  BY <1>3 DEF Make
<1>5. PICK x, o, s : x = top.tag /\ o = oldTop[u].tag /\ s = slept[u]
  BY Zenon
<1>6. /\ x \in 0 .. TagLimit - 1 /\ o \in 0 .. TagLimit - 1 /\ s \in 0 .. TagLimit - 2
      /\ TagLimit \in Nat
  <2>1. top \in Tagged /\ oldTop[u] \in Tagged /\ slept[u] \in 0 .. TagLimit - 1
    BY DEF TypeOK
  <2> QED
    BY <1>3, <1>5, <2>1, PoolAssumption DEF Tagged
<1>7. x = o + s \/ x = o + s - TagLimit
  BY <1>2, <1>5 DEF TopOK
<1>8. top'.tag = o + (s + 1) \/ top'.tag = o + (s + 1) - TagLimit
  BY <1>4, <1>5, <1>6, <1>7, TagGoesOn
<1>9. slept'[u] = s + 1 /\ slept'[u] # 0
  BY <1>3, <1>5, <1>6
<1>10. pc'[u] = pc[u] /\ oldTop'[u] = oldTop[u] /\ nextTop'[u] = nextTop[u] /\ head'[u] = head[u]
  BY <1>1 DEF SameThread
<1>11. /\ pc[u] \in {"PopNext", "PopCas"} => oldTop[u].ptr # NoBlock
       /\ pc[u] = "PushCas" => chunkNext'[head[u]] = oldTop[u].ptr
  BY <1>2 DEF TopOK
<1> QED
  BY <1>5, <1>8, <1>9, <1>10, <1>11 DEF TopOK

\* Where the compare-and-swap meets the top that was read, top has not changed since.
LEMMA TagTells ==
  ASSUME TypeOK, NEW t \in Threads, TopOK(t), pc[t] \in Reading, top = oldTop[t]
  PROVE  slept[t] = 0
<1>1. PICK x, s : x = oldTop[t].tag /\ s = slept[t]
  BY Zenon
<1>2. x \in 0 .. TagLimit - 1 /\ s \in 0 .. TagLimit - 1 /\ TagLimit \in Nat
  <2>1. oldTop[t] \in Tagged /\ slept[t] \in 0 .. TagLimit - 1
    BY DEF TypeOK
  <2> QED
    BY <1>1, <2>1, PoolAssumption DEF Tagged
<1>3. x = x + s \/ x = x + s - TagLimit
  BY <1>1 DEF TopOK
<1> QED
  BY <1>1, <1>2, <1>3

\* The stacks and odd chunks when only t moves.
LEMMA PlacesChange ==
  ASSUME TypeOK', NEW t \in Threads, OnlyThread(t)
  PROVE  /\ Changed(Mines, Mines', t, IF exiting'[t] THEN rest'[t] ELSE cache'[t].chunkTop)
         /\ Changed(Odds, Odds', t, IF Pushing(t)' THEN head'[t] ELSE cache'[t].cur)
<1>1. \A u \in Threads : cache'[u].cur \in Links /\ cache'[u].chunkTop \in Links /\ rest'[u] \in Links /\ head'[u] \in Links
  BY DEF TypeOK, Cache
<1>2. Mines' \in [Threads -> Links] /\ Odds' \in [Threads -> Links]
  BY <1>1 DEF Mines, Odds
<1>3. /\ Mines'[t] = IF exiting'[t] THEN rest'[t] ELSE cache'[t].chunkTop
      /\ Odds'[t] = IF Pushing(t)' THEN head'[t] ELSE cache'[t].cur
  BY DEF Mines, Odds
<1>4. ASSUME NEW u \in Threads \ {t}
      PROVE  Mines'[u] = Mines[u] /\ Odds'[u] = Odds[u]
  BY DEF Mines, Odds, OnlyThread, SameThread, Pushing
<1> QED
  BY <1>2, <1>3, <1>4 DEF Changed

LEMMA ChangedSame ==
  ASSUME NEW o, NEW q, NEW r, NEW t \in Threads, NEW x, Changed(o, q, t, x), Changed(o, r, t, x)
  PROVE  q = r
<1>1. q \in [Threads -> Links] /\ r \in [Threads -> Links] /\ \A u \in Threads : q[u] = r[u]
  BY DEF Changed
<1> QED
  BY <1>1

LEMMA PlacesSame ==
  ASSUME NEW o \in [Threads -> Links], NEW q, NEW t \in Threads, NEW x, Changed(o, q, t, x), x = o[t]
  PROVE  q = o
<1>1. q \in [Threads -> Links] /\ \A u \in Threads : q[u] = o[u]
  BY DEF Changed
<1> QED
  BY <1>1

----------------------------------------------------------------------------
(***************************************************************************)
(* Every step keeps the invariant.                                         *)
(***************************************************************************)

TopsKept(t)  == \A u \in Threads \ {t} : TopOK(u)'
LimitTold    == crashed => MaxChunks # 0 /\ chunkCount > MaxChunks
Disjoint     == inUse \cap unmade = {}

\* The invariant after a step of t, from what the step does.
LEMMA Rebuilt ==
  ASSUME PoolInv, NEW L, InPlace(L), NEW t \in Threads, OnlyThread(t), SizesKept(L), PushedKept(t),
         TypeOK', Disjoint', LimitTold', NEW M, InPlace(M)',
         CacheOK(t)', PlaceOK(t)', TopOK(t)', TopsKept(t)
  PROVE  PoolInv'
<1>1. TypeOK /\ \A u \in Threads : CacheOK(u) /\ PlaceOK(u)
  BY DEF PoolInv
<1>2. ASSUME NEW u \in Threads
      PROVE  CacheOK(u)' /\ PlaceOK(u)' /\ TopOK(u)'
  <2>1. CASE u = t
    BY <2>1
  <2>2. CASE u # t
    <3>1. CacheOK(u)' /\ PlaceOK(u)'
      BY <1>1, <2>2, Others
    <3> QED
      BY <2>2, <3>1 DEF TopsKept
  <2> QED
    BY <2>1, <2>2
<1> QED
  BY <1>2 DEF PoolInv, Disjoint, LimitTold

\* Steps that leave blocks, chunks and caches alone.
QuietStep(t) ==
  /\ UNCHANGED <<links, shared, top, cache, head, rest, exiting>>
  /\ Pushing(t)' = Pushing(t)
  /\ OnlyThread(t) /\ slept' \in [Threads -> 0 .. TagLimit - 1]
  /\ \A u \in Threads \ {t} : slept'[u] = slept[u]

LEMMA Quiet ==
  ASSUME PoolInv, NEW t \in Threads, QuietStep(t), TypeOK', PlaceOK(t)', TopOK(t)'
  PROVE  PoolInv'
<1>1. PICK L : InPlace(L)
  BY DEF PoolInv
<1>2. TypeOK /\ CacheOK(t) /\ \A u \in Threads : TopOK(u)
  BY DEF PoolInv
<1>3. /\ next' = next /\ chunkNext' = chunkNext /\ count' = count /\ inUse' = inUse /\ unmade' = unmade
      /\ chunkCount' = chunkCount /\ crashed' = crashed /\ top' = top /\ cache' = cache /\ head' = head
      /\ rest' = rest /\ exiting' = exiting /\ Pushing(t)' = Pushing(t) /\ OnlyThread(t)
  BY DEF QuietStep, links, shared
<1>4. Mines' = Mines
  BY <1>3 DEF Mines
<1>5. Odds' = Odds
  BY <1>3 DEF Odds, OnlyThread, SameThread, Pushing
<1>6. InPlace(L)'
  BY <1>1, <1>3, <1>4, <1>5 DEF InPlace, Unused
<1>7. SizesKept(L) /\ PushedKept(t) /\ Same(chunkNext, chunkNext', L)
  BY <1>3 DEF SizesKept, PushedKept, Same
<1>8. CacheOK(t)'
  BY <1>2, <1>3 DEF CacheOK
<1>9. TopsKept(t)
  <2>1. ASSUME NEW u \in Threads \ {t}
        PROVE  TopOK(u)'
    <3>1. slept'[u] = slept[u]
      BY DEF QuietStep
    <3> QED
      BY <1>1, <1>2, <1>3, <1>7, <3>1, TopKept
  <2> QED
    BY <2>1 DEF TopsKept
<1>10. Disjoint' /\ LimitTold'
  BY <1>3 DEF PoolInv, Disjoint, LimitTold
<1> QED
  BY <1>1, <1>3, <1>6, <1>7, <1>8, <1>9, <1>10, Rebuilt

LEMMA AllocFromPoolKeeps ==
  ASSUME PoolInv, NEW t \in Threads, AllocFromPool(t)
  PROVE  PoolInv'
<1>1. TypeOK /\ PlaceOK(t)
  BY DEF PoolInv
<1>2. /\ pc[t] = "idle" /\ pc' = [pc EXCEPT ![t] = "PopTop"] /\ cache[t].cur = NoBlock
      /\ UNCHANGED <<links, shared, top, cache, locals, slept>>
  BY DEF AllocFromPool, Go, At
<1>3. TypeOK'
  BY <1>1, <1>2 DEF TypeOK, links, shared, locals
<1>4. pc'[t] = "PopTop" /\ \A u \in Threads \ {t} : pc'[u] = pc[u]
  BY <1>1, <1>2 DEF TypeOK
<1>5. QuietStep(t)
  BY <1>1, <1>2, <1>4 DEF QuietStep, OnlyThread, SameThread, Pushing, TypeOK, links, shared, locals
<1>6. PlaceOK(t)' /\ TopOK(t)'
  BY <1>1, <1>2, <1>4 DEF PlaceOK, TopOK, Pushing, Reading, locals
<1> QED
  BY <1>3, <1>5, <1>6, Quiet

LEMMA PopTopKeeps ==
  ASSUME PoolInv, NEW t \in Threads, PopTop(t)
  PROVE  PoolInv'
<1>1. TypeOK /\ PlaceOK(t)
  BY DEF PoolInv
<1>2. PICK to \in {"NewChunk", "PopNext"} : to = IF top.ptr = NoBlock THEN "NewChunk" ELSE "PopNext"
  BY Zenon
<1>3. /\ pc[t] = "PopTop" /\ pc' = [pc EXCEPT ![t] = to]
      /\ oldTop' = [oldTop EXCEPT ![t] = top] /\ slept' = [slept EXCEPT ![t] = 0]
      /\ UNCHANGED <<links, shared, top, cache, head, nextTop, rest, exiting>>
  BY <1>2 DEF PopTop, Go, At, ReadTop
<1>4. 0 \in 0 .. TagLimit - 1
  BY PoolAssumption
<1>5. TypeOK'
  BY <1>1, <1>2, <1>3, <1>4 DEF TypeOK, links, shared
<1>6. /\ pc'[t] = to /\ oldTop'[t] = top /\ slept'[t] = 0 /\ top' = top
      /\ \A u \in Threads \ {t} : pc'[u] = pc[u] /\ oldTop'[u] = oldTop[u] /\ slept'[u] = slept[u]
  BY <1>1, <1>3 DEF TypeOK
<1>7. QuietStep(t)
  BY <1>2, <1>3, <1>5, <1>6 DEF QuietStep, OnlyThread, SameThread, Pushing, TypeOK
<1>8. PlaceOK(t)'
  BY <1>1, <1>2, <1>3, <1>6 DEF PlaceOK, Pushing
<1>9. top.tag \in Int
  BY <1>1 DEF TypeOK, Tagged
<1>10. TopOK(t)'
  BY <1>2, <1>6, <1>9 DEF TopOK, Reading
<1> QED
  BY <1>5, <1>7, <1>8, <1>10, Quiet

LEMMA PopNextKeeps ==
  ASSUME PoolInv, NEW t \in Threads, PopNext(t)
  PROVE  PoolInv'
<1>1. TypeOK /\ PlaceOK(t) /\ TopOK(t)
  BY DEF PoolInv
<1>2. /\ pc[t] = "PopNext" /\ pc' = [pc EXCEPT ![t] = "PopCas"]
      /\ nextTop' = [nextTop EXCEPT ![t] = chunkNext[oldTop[t].ptr]]
      /\ UNCHANGED <<links, shared, top, cache, head, oldTop, rest, exiting, slept>>
  BY DEF PopNext, Go, At
<1>3. oldTop[t].ptr # NoBlock /\ oldTop[t].ptr \in Links
  BY <1>1, <1>2 DEF TopOK, Reading, TypeOK, Tagged
<1>4. chunkNext[oldTop[t].ptr] \in Links
  BY <1>1, <1>3 DEF TypeOK, Links
<1>5. TypeOK'
  BY <1>1, <1>2, <1>4 DEF TypeOK, links, shared
<1>6. /\ pc'[t] = "PopCas" /\ nextTop'[t] = chunkNext[oldTop[t].ptr]
      /\ \A u \in Threads \ {t} : pc'[u] = pc[u] /\ nextTop'[u] = nextTop[u]
  BY <1>1, <1>2 DEF TypeOK
<1>7. QuietStep(t)
  BY <1>1, <1>2, <1>6 DEF QuietStep, OnlyThread, SameThread, Pushing, TypeOK
<1>8. PlaceOK(t)'
  BY <1>1, <1>2, <1>6 DEF PlaceOK, Pushing
<1>9. TopOK(t)'
  BY <1>1, <1>2, <1>6 DEF TopOK, Reading, links
<1> QED
  BY <1>5, <1>7, <1>8, <1>9, Quiet

LEMMA PushTopKeeps ==
  ASSUME PoolInv, NEW t \in Threads, PushTop(t)
  PROVE  PoolInv'
<1>1. TypeOK /\ PlaceOK(t)
  BY DEF PoolInv
<1>2. /\ pc[t] = "PushTop" /\ pc' = [pc EXCEPT ![t] = "PushLink"]
      /\ oldTop' = [oldTop EXCEPT ![t] = top] /\ slept' = [slept EXCEPT ![t] = 0]
      /\ UNCHANGED <<links, shared, top, cache, head, nextTop, rest, exiting>>
  BY DEF PushTop, Go, At, ReadTop
<1>3. 0 \in 0 .. TagLimit - 1
  BY PoolAssumption
<1>4. TypeOK'
  BY <1>1, <1>2, <1>3 DEF TypeOK, links, shared
<1>5. /\ pc'[t] = "PushLink" /\ oldTop'[t] = top /\ slept'[t] = 0 /\ top' = top
      /\ \A u \in Threads \ {t} : pc'[u] = pc[u] /\ oldTop'[u] = oldTop[u] /\ slept'[u] = slept[u]
  BY <1>1, <1>2 DEF TypeOK
<1>6. QuietStep(t)
  BY <1>2, <1>4, <1>5 DEF QuietStep, OnlyThread, SameThread, Pushing, TypeOK
<1>7. PlaceOK(t)'
  BY <1>1, <1>2, <1>5 DEF PlaceOK, Pushing, links
<1>8. top.tag \in Int
  BY <1>1 DEF TypeOK, Tagged
<1>9. TopOK(t)'
  BY <1>5, <1>8 DEF TopOK, Reading
<1> QED
  BY <1>4, <1>6, <1>7, <1>9, Quiet

LEMMA RetryKeeps ==
  ASSUME PoolInv, NEW t \in Threads, NEW from, NEW to, Retry(t, from, to),
         <<from, to>> \in {<<"PopCas", "PopTop">>, <<"PushCas", "PushTop">>}
  PROVE  PoolInv'
<1>1. TypeOK /\ PlaceOK(t)
  BY DEF PoolInv
<1>2. /\ pc[t] = from /\ pc' = [pc EXCEPT ![t] = to]
      /\ oldTop' = [oldTop EXCEPT ![t] = Null] /\ nextTop' = [nextTop EXCEPT ![t] = NoBlock]
      /\ slept' = [slept EXCEPT ![t] = 0]
      /\ UNCHANGED <<links, shared, top, cache, head, rest, exiting>>
  BY DEF Retry, Go, At
<1>3. (from = "PopCas" /\ to = "PopTop") \/ (from = "PushCas" /\ to = "PushTop")
  OBVIOUS
<1>4. 0 \in 0 .. TagLimit - 1 /\ NoBlock \in Links /\ Null \in Tagged
  <2>1. 0 % TagLimit = 0 /\ TagLimit \in Nat \ {0}
    BY PoolAssumption
  <2> QED
    BY <2>1 DEF Null, Make, Tagged, Links
<1>5. TypeOK'
  <2>1. to \in {"PopTop", "PushTop"}
    BY <1>3
  <2> QED
    BY <1>1, <1>2, <1>4, <2>1 DEF TypeOK, links, shared
<1>6. /\ pc'[t] = to
      /\ \A u \in Threads \ {t} : /\ pc'[u] = pc[u] /\ oldTop'[u] = oldTop[u]
                                  /\ nextTop'[u] = nextTop[u] /\ slept'[u] = slept[u]
  BY <1>1, <1>2 DEF TypeOK
<1>7. Pushing(t)' = Pushing(t)
  BY <1>2, <1>3, <1>6 DEF Pushing
<1>8. QuietStep(t)
  BY <1>2, <1>5, <1>6, <1>7 DEF QuietStep, OnlyThread, SameThread, TypeOK
<1>9. PlaceOK(t)'
  BY <1>1, <1>2, <1>3, <1>6, <1>7 DEF PlaceOK, links
<1>10. TopOK(t)'
  BY <1>3, <1>6 DEF TopOK, Reading
<1> QED
  BY <1>5, <1>8, <1>9, <1>10, Quiet

\* The end of Alloc, with the chunk c.cur the odd one.
LEMMA GiveOutIs ==
  ASSUME TypeOK, Disjoint, NEW t \in Threads, NEW c \in Cache, GiveOut(t, c),
         next' = next, chunkNext' = chunkNext, unmade' = unmade,
         NEW L, NEW p, NEW m, NEW o, Placed(next, chunkNext, Unused, L, p, m, o),
         o[t] = c.cur, c.cur # NoBlock, c.curCount = Size(next, c.cur),
         NEW q, Changed(o, q, t, next[c.cur])
  PROVE  /\ cache' \in [Threads -> Cache] /\ inUse' \subseteq Blocks /\ crashed' = FALSE /\ Disjoint'
         /\ cache'[t] = [c EXCEPT !.cur = next[c.cur], !.curCount = @ - 1]
         /\ \A u \in Threads \ {t} : cache'[u] = cache[u]
         /\ cache'[t].curCount = Size(next, next[c.cur]) /\ cache'[t].curCount < ChunkSize
         /\ Placed(next', chunkNext', Unused', L, p, m, q)
<1>1. PICK s, n : s = c.cur /\ n = next[s]
  BY Zenon
<1>2. s \in Unused /\ n \in Unused \cup {NoBlock} /\ Size(next, s) = Size(next, n) + 1 /\ Size(next, n) \in Nat
      /\ Unused \subseteq Blocks
  BY <1>1, PlacedFacts
<1>3. s \in Blocks /\ s \notin inUse /\ s \notin unmade /\ n \in Links
  BY <1>2 DEF Unused, Links
<1>4. inUse' = inUse \cup {s} /\ crashed' = FALSE
  <2>1. crashed' = (s \in inUse) /\ inUse' = inUse \cup {s}
    BY <1>1, Zenon DEF GiveOut, ValidateAlloc
  <2>2. (s \in inUse) = FALSE
    BY <1>3
  <2> QED
    BY <2>1, <2>2
<1>5. PICK k \in Int : k = c.curCount
  <2>1. c.curCount \in Int
    BY PoolAssumption DEF Cache
  <2> QED
    BY <2>1, Zenon
<1>6. k \in 0 .. ChunkSize /\ k = Size(next, n) + 1
  BY <1>1, <1>2, <1>5 DEF Cache
<1>7. PICK d : d = [c EXCEPT !.cur = n, !.curCount = k - 1]
  BY Zenon
<1>8. cache' = [cache EXCEPT ![t] = d]
  BY <1>1, <1>5, <1>7 DEF GiveOut
<1>9. d \in Cache /\ d.cur = n /\ d.curCount = k - 1
  <2>1. k - 1 \in 0 .. ChunkSize
    BY <1>2, <1>6, PoolAssumption
  <2> QED
    BY <1>3, <1>7, <2>1 DEF Cache
<1>10. cache' \in [Threads -> Cache] /\ cache'[t] = d /\ \A u \in Threads \ {t} : cache'[u] = cache[u]
  BY <1>8, <1>9 DEF TypeOK
<1>11. k - 1 = Size(next, n) /\ k - 1 < ChunkSize
  BY <1>2, <1>6, PoolAssumption
<1>12. Unused' = Unused \ {s}
  BY <1>4 DEF Unused
<1>13. Placed(next, chunkNext, Unused \ {s}, L, p, m, q)
  <2>1. o[t] # NoBlock /\ Changed(o, q, t, next[o[t]]) /\ o[t] = s
    BY <1>1
  <2> QED
    BY <2>1, Taken
<1>14. inUse' \subseteq Blocks /\ Disjoint'
  BY <1>3, <1>4 DEF TypeOK, Disjoint
<1> QED
  BY <1>1, <1>4, <1>5, <1>7, <1>9, <1>10, <1>11, <1>12, <1>13, <1>14

LEMMA AllocKeeps ==
  ASSUME PoolInv, NEW t \in Threads, Alloc(t)
  PROVE  PoolInv'
<1>1. PICK L : InPlace(L)
  BY DEF PoolInv
<1>2. TypeOK /\ CacheOK(t) /\ PlaceOK(t) /\ Disjoint /\ \A u \in Threads : TopOK(u)
  BY DEF PoolInv, Disjoint
<1>3. /\ pc[t] = "idle" /\ cache[t].cur # NoBlock /\ GiveOut(t, cache[t])
      /\ next' = next /\ chunkNext' = chunkNext /\ count' = count /\ unmade' = unmade
      /\ chunkCount' = chunkCount /\ top' = top /\ pc' = pc /\ head' = head /\ oldTop' = oldTop
      /\ nextTop' = nextTop /\ rest' = rest /\ exiting' = exiting /\ slept' = slept
  BY DEF Alloc, At, links, locals
<1>4. PICK c \in Cache : c = cache[t]
  BY <1>2 DEF TypeOK
<1>5. PICK m, o : m = Mines /\ o = Odds
  BY Zenon
<1>6. Placed(next, chunkNext, Unused, L, top.ptr, m, o) /\ m \in [Threads -> Links] /\ o \in [Threads -> Links]
  BY <1>1, <1>5, PlacedFacts DEF InPlace
<1>7. o[t] = c.cur /\ m[t] = c.chunkTop /\ ~ Pushing(t) /\ ~ exiting[t]
  BY <1>2, <1>3, <1>4, <1>5 DEF Odds, Mines, Pushing, PlaceOK
<1>8. PICK q : q = [o EXCEPT ![t] = next[c.cur]]
  BY Zenon
<1>9. next[c.cur] \in Links
  <2>1. c.cur \in Blocks
    BY <1>3, <1>4 DEF Cache, Links
  <2> QED
    BY <1>2, <2>1 DEF TypeOK
<1>10. Changed(o, q, t, next[c.cur])
  BY <1>6, <1>8, <1>9 DEF Changed
<1>11. /\ cache' \in [Threads -> Cache] /\ inUse' \subseteq Blocks /\ crashed' = FALSE /\ Disjoint'
       /\ cache'[t] = [c EXCEPT !.cur = next[c.cur], !.curCount = @ - 1]
       /\ \A u \in Threads \ {t} : cache'[u] = cache[u]
       /\ cache'[t].curCount = Size(next, next[c.cur]) /\ cache'[t].curCount < ChunkSize
       /\ Placed(next', chunkNext', Unused', L, top.ptr, m, q)
  <2>1. GiveOut(t, c) /\ c.cur # NoBlock /\ c.curCount = Size(next, c.cur)
    BY <1>2, <1>3, <1>4 DEF CacheOK
  <2> QED
    BY <1>2, <1>3, <1>6, <1>7, <1>10, <2>1, GiveOutIs
<1>12. TypeOK'
  BY <1>2, <1>3, <1>11 DEF TypeOK
<1>13. OnlyThread(t)
  BY <1>3, <1>11 DEF OnlyThread, SameThread
<1>14. /\ cache'[t].cur = next[c.cur] /\ cache'[t].chunkTop = c.chunkTop
       /\ cache'[t].chunkCount = c.chunkCount
  BY <1>11 DEF Cache
<1>15. Odds' = q /\ Mines' = m
  <2>1. Changed(m, Mines', t, c.chunkTop) /\ Changed(o, Odds', t, next[c.cur])
    <3>1. (IF exiting'[t] THEN rest'[t] ELSE cache'[t].chunkTop) = c.chunkTop
          /\ (IF Pushing(t)' THEN head'[t] ELSE cache'[t].cur) = next[c.cur]
      BY <1>3, <1>7, <1>14 DEF Pushing
    <3> QED
      BY <1>5, <1>12, <1>13, <3>1, PlacesChange
  <2> QED
    BY <1>6, <1>7, <1>10, <2>1, PlacesSame, ChangedSame
<1>16. InPlace(L)'
  BY <1>1, <1>3, <1>11, <1>15 DEF InPlace
<1>17. SizesKept(L) /\ PushedKept(t) /\ Same(chunkNext, chunkNext', L)
  BY <1>3 DEF SizesKept, PushedKept, Same
<1>18. TopsKept(t)
  <2>1. ASSUME NEW u \in Threads \ {t}
        PROVE  TopOK(u)'
    BY <1>1, <1>2, <1>3, <1>13, <1>17, TopKept
  <2> QED
    BY <2>1 DEF TopsKept
<1>19. CacheOK(t)'
  BY <1>2, <1>3, <1>4, <1>11, <1>14 DEF CacheOK
<1>20. PlaceOK(t)'
  BY <1>2, <1>3, <1>7 DEF PlaceOK, Pushing
<1>21. TopOK(t)' /\ LimitTold'
  BY <1>3, <1>11 DEF TopOK, Reading, LimitTold
<1> QED
  BY <1>1, <1>11, <1>12, <1>13, <1>16, <1>17, <1>18, <1>19, <1>20, <1>21, Rebuilt

LEMMA AllocOwnChunkKeeps ==
  ASSUME PoolInv, NEW t \in Threads, AllocOwnChunk(t)
  PROVE  PoolInv'
<1>1. PICK L : InPlace(L)
  BY DEF PoolInv
<1>2. TypeOK /\ CacheOK(t) /\ PlaceOK(t) /\ Disjoint /\ \A u \in Threads : TopOK(u)
  BY DEF PoolInv, Disjoint
<1>3. PICK c \in Cache : c = cache[t]
  BY <1>2 DEF TypeOK
<1>4. PICK s : s = c.chunkTop
  BY Zenon
<1>5. PICK d : d = Refilled([c EXCEPT !.chunkTop = chunkNext[s], !.chunkCount = @ - 1], s)
  BY Zenon
<1>6. /\ pc[t] = "idle" /\ c.cur = NoBlock /\ s # NoBlock /\ GiveOut(t, d)
      /\ next' = next /\ chunkNext' = chunkNext /\ count' = count /\ unmade' = unmade
      /\ chunkCount' = chunkCount /\ top' = top /\ pc' = pc /\ head' = head /\ oldTop' = oldTop
      /\ nextTop' = nextTop /\ rest' = rest /\ exiting' = exiting /\ slept' = slept
  BY <1>3, <1>4, <1>5 DEF AllocOwnChunk, At, links, locals
<1>7. ~ Pushing(t) /\ ~ exiting[t]
  BY <1>2, <1>6 DEF Pushing, PlaceOK
<1>8. /\ s \in L /\ chunkNext[s] \in L \cup {NoBlock} /\ count[s] = Size(next, s)
      /\ Size(chunkNext, s) = Size(chunkNext, chunkNext[s]) + 1 /\ Size(chunkNext, chunkNext[s]) \in Nat
      /\ L \subseteq Blocks
  BY <1>1, <1>2, <1>3, <1>4, <1>6, <1>7, InvFacts
<1>9. PICK k \in Nat : k = Size(chunkNext, chunkNext[s])
  BY <1>8
<1>10. c.chunkCount = k + 1 /\ k + 1 <= TlsMaxChunks
  BY <1>2, <1>3, <1>4, <1>8, <1>9 DEF CacheOK
<1>11. d = [cur |-> s, curCount |-> count[s], chunkTop |-> chunkNext[s], chunkCount |-> k]
  <2>1. c = [cur |-> c.cur, curCount |-> c.curCount, chunkTop |-> c.chunkTop, chunkCount |-> k + 1]
    BY <1>3, <1>10 DEF Cache
  <2>2. d = [[c EXCEPT !.chunkTop = chunkNext[s], !.chunkCount = k] EXCEPT !.cur = s, !.curCount = count[s]]
    <3>1. c.chunkCount - 1 = k
      BY <1>9, <1>10
    <3> QED
      BY <1>5, <3>1 DEF Refilled
  <2> QED
    BY <2>1, <2>2
<1>12. d \in Cache /\ d.cur = s /\ d.curCount = Size(next, d.cur) /\ d.chunkTop = chunkNext[s] /\ d.chunkCount = k
  <2>1. s \in Links /\ chunkNext[s] \in Links /\ count[s] \in 0 .. ChunkSize
    BY <1>2, <1>8 DEF TypeOK, Links
  <2> QED
    BY <1>8, <1>11, <2>1 DEF Cache
<1>13. PICK m, o : m = Mines /\ o = Odds
  BY Zenon
<1>14. Placed(next, chunkNext, Unused, L, top.ptr, m, o) /\ m \in [Threads -> Links] /\ o \in [Threads -> Links]
  BY <1>1, <1>13, PlacedFacts DEF InPlace
<1>15. o[t] = NoBlock /\ m[t] = s
  BY <1>3, <1>4, <1>6, <1>7, <1>13 DEF Odds, Mines
<1>16. PICK m1, o1, q : m1 = [m EXCEPT ![t] = chunkNext[s]] /\ o1 = [o EXCEPT ![t] = s] /\ q = [o EXCEPT ![t] = next[s]]
  BY Zenon
<1>17. chunkNext[s] \in Links /\ s \in Links /\ next[s] \in Links
  BY <1>2, <1>8 DEF TypeOK, Links
<1>18. Changed(m, m1, t, chunkNext[s]) /\ Changed(o, o1, t, s) /\ Changed(o1, q, t, next[s]) /\ Changed(o, q, t, next[s])
  BY <1>14, <1>16, <1>17 DEF Changed
<1>19. Placed(next, chunkNext, Unused, L \ {s}, top.ptr, m1, o1)
  BY <1>6, <1>14, <1>15, <1>18, OpenedOwn
<1>20. o1[t] = s
  BY <1>18 DEF Changed
<1>21. /\ cache' \in [Threads -> Cache] /\ inUse' \subseteq Blocks /\ crashed' = FALSE /\ Disjoint'
       /\ cache'[t] = [d EXCEPT !.cur = next[s], !.curCount = @ - 1]
       /\ \A u \in Threads \ {t} : cache'[u] = cache[u]
       /\ cache'[t].curCount = Size(next, next[s]) /\ cache'[t].curCount < ChunkSize
       /\ Placed(next', chunkNext', Unused', L \ {s}, top.ptr, m1, q)
  <2>1. o1[t] = d.cur /\ d.cur # NoBlock /\ Changed(o1, q, t, next[d.cur])
    BY <1>6, <1>12, <1>18, <1>20
  <2>2. /\ cache' \in [Threads -> Cache] /\ inUse' \subseteq Blocks /\ crashed' = FALSE /\ Disjoint'
        /\ cache'[t] = [d EXCEPT !.cur = next[d.cur], !.curCount = @ - 1]
        /\ \A u \in Threads \ {t} : cache'[u] = cache[u]
        /\ cache'[t].curCount = Size(next, next[d.cur]) /\ cache'[t].curCount < ChunkSize
        /\ Placed(next', chunkNext', Unused', L \ {s}, top.ptr, m1, q)
    BY <1>2, <1>6, <1>12, <1>19, <2>1, GiveOutIs
  <2> QED
    BY <1>12, <2>2
<1>22. TypeOK'
  BY <1>2, <1>6, <1>21 DEF TypeOK
<1>23. OnlyThread(t)
  BY <1>6, <1>21 DEF OnlyThread, SameThread
<1>24. cache'[t].cur = next[s] /\ cache'[t].chunkTop = chunkNext[s] /\ cache'[t].chunkCount = k
  BY <1>12, <1>21 DEF Cache
<1>25. Odds' = q /\ Mines' = m1
  <2>1. Changed(m, Mines', t, chunkNext[s]) /\ Changed(o, Odds', t, next[s])
    <3>1. (IF exiting'[t] THEN rest'[t] ELSE cache'[t].chunkTop) = chunkNext[s]
          /\ (IF Pushing(t)' THEN head'[t] ELSE cache'[t].cur) = next[s]
      BY <1>6, <1>7, <1>24 DEF Pushing
    <3> QED
      BY <1>13, <1>22, <1>23, <3>1, PlacesChange
  <2> QED
    BY <1>18, <2>1, ChangedSame
<1>26. InPlace(L \ {s})'
  <2>1. \A b \in L \ {s} : count'[b] = Size(next', b)
    BY <1>1, <1>6 DEF InPlace
  <2> QED
    BY <1>6, <1>21, <1>25, <2>1 DEF InPlace
<1>27. SizesKept(L) /\ PushedKept(t) /\ Same(chunkNext, chunkNext', L)
  BY <1>6 DEF SizesKept, PushedKept, Same
<1>28. TopsKept(t)
  <2>1. ASSUME NEW u \in Threads \ {t}
        PROVE  TopOK(u)'
    BY <1>1, <1>2, <1>6, <1>23, <1>27, TopKept
  <2> QED
    BY <2>1 DEF TopsKept
<1>29. CacheOK(t)'
  <2>1. k <= TlsMaxChunks
    BY <1>10, PoolAssumption
  <2> QED
    BY <1>6, <1>9, <1>21, <1>24, <2>1 DEF CacheOK
<1>30. PlaceOK(t)'
  BY <1>2, <1>6, <1>7 DEF PlaceOK, Pushing
<1>31. TopOK(t)' /\ LimitTold'
  BY <1>6, <1>21 DEF TopOK, Reading, LimitTold
<1> QED
  BY <1>1, <1>21, <1>22, <1>23, <1>26, <1>27, <1>28, <1>29, <1>30, <1>31, Rebuilt

LEMMA SetTopIs ==
  ASSUME TypeOK, NEW t \in Threads, NEW b \in Links, SetTop(t, b)
  PROVE  top' \in Tagged /\ top'.ptr = b /\ slept' \in [Threads -> 0 .. TagLimit - 1]
<1>1. oldTop[t].tag \in 0 .. TagLimit - 1
  BY DEF TypeOK, Tagged
<1>2. PICK n \in Nat \ {0, 1} : n = TagLimit
  BY PoolAssumption
<1>3. (oldTop[t].tag + 1) % n \in 0 .. n - 1
  BY <1>1, <1>2
<1>4. top' = [tag |-> (oldTop[t].tag + 1) % TagLimit, ptr |-> b]
  BY DEF SetTop, Make
<1>5. slept' \in [Threads -> 0 .. TagLimit - 1]
  <2>1. slept' = [u \in Threads |-> IF u # t /\ pc[u] \in Reading THEN slept[u] + 1 ELSE 0]
    BY DEF SetTop
  <2>2. ASSUME NEW u \in Threads, u # t, pc[u] \in Reading
        PROVE  slept[u] + 1 \in 0 .. TagLimit - 1
    <3>1. slept[u] < TagLimit - 1 /\ slept[u] \in 0 .. TagLimit - 1
      BY <2>2 DEF SetTop, TypeOK
    <3> QED
      BY <1>2, <3>1
  <2>3. 0 \in 0 .. TagLimit - 1
    BY <1>2
  <2> QED
    BY <2>1, <2>2, <2>3
<1> QED
  BY <1>2, <1>3, <1>4, <1>5 DEF Tagged

LEMMA PopCasKeeps ==
  ASSUME PoolInv, NEW t \in Threads, PopCas(t)
  PROVE  PoolInv'
<1>1. PICK L : InPlace(L)
  BY DEF PoolInv
<1>2. TypeOK /\ CacheOK(t) /\ PlaceOK(t) /\ Disjoint /\ \A u \in Threads : TopOK(u)
  BY DEF PoolInv, Disjoint
<1>3. PICK c \in Cache : c = cache[t]
  BY <1>2 DEF TypeOK
<1>4. PICK s : s = oldTop[t].ptr
  BY Zenon
<1>5. PICK d : d = Refilled(c, s)
  BY Zenon
<1>6. /\ pc[t] = "PopCas" /\ SetTop(t, nextTop[t]) /\ GiveOut(t, d)
      /\ next' = next /\ chunkNext' = chunkNext /\ count' = count /\ unmade' = unmade
      /\ chunkCount' = chunkCount /\ pc' = [pc EXCEPT ![t] = "idle"] /\ head' = head
      /\ oldTop' = [oldTop EXCEPT ![t] = Null] /\ nextTop' = [nextTop EXCEPT ![t] = NoBlock]
      /\ rest' = rest /\ exiting' = exiting
  BY <1>3, <1>4, <1>5 DEF PopCas, Go, At, links
<1>7. top = oldTop[t] /\ top.ptr = s
  BY <1>4, <1>6 DEF SetTop
<1>8. s # NoBlock /\ nextTop[t] = chunkNext[s]
  <2>1. pc[t] \in Reading
    BY <1>6 DEF Reading
  <2>2. slept[t] = 0
    BY <1>2, <1>7, <2>1, TagTells
  <2> QED
    BY <1>2, <1>4, <1>6, <2>1, <2>2 DEF TopOK
<1>9. ~ Pushing(t) /\ ~ exiting[t] /\ c.cur = NoBlock
  BY <1>2, <1>3, <1>6 DEF Pushing, PlaceOK
<1>10. /\ s \in L /\ chunkNext[s] \in L \cup {NoBlock} /\ count[s] = Size(next, s) /\ L \subseteq Blocks
       /\ NoBlock \in Links
  BY <1>1, <1>2, <1>7, <1>8, InvFacts DEF Links
<1>11. d = [cur |-> s, curCount |-> count[s], chunkTop |-> c.chunkTop, chunkCount |-> c.chunkCount]
  BY <1>3, <1>5 DEF Refilled, Cache
<1>12. chunkNext[s] \in Links /\ s \in Links /\ next[s] \in Links /\ count[s] \in 0 .. ChunkSize
  BY <1>2, <1>10 DEF TypeOK, Links
<1>13. d \in Cache /\ d.cur = s /\ d.curCount = Size(next, d.cur)
       /\ d.chunkTop = c.chunkTop /\ d.chunkCount = c.chunkCount
  BY <1>3, <1>10, <1>11, <1>12 DEF Cache
<1>14. top' \in Tagged /\ top'.ptr = chunkNext[s] /\ slept' \in [Threads -> 0 .. TagLimit - 1]
  BY <1>2, <1>6, <1>8, <1>12, SetTopIs
<1>15. PICK m, o : m = Mines /\ o = Odds
  BY Zenon
<1>16. Placed(next, chunkNext, Unused, L, s, m, o) /\ m \in [Threads -> Links] /\ o \in [Threads -> Links]
  BY <1>1, <1>7, <1>15, PlacedFacts DEF InPlace
<1>17. o[t] = NoBlock /\ m[t] = c.chunkTop
  BY <1>3, <1>9, <1>15 DEF Odds, Mines
<1>18. PICK o1, q : o1 = [o EXCEPT ![t] = s] /\ q = [o EXCEPT ![t] = next[s]]
  BY Zenon
<1>19. Changed(o, o1, t, s) /\ Changed(o1, q, t, next[s]) /\ Changed(o, q, t, next[s])
  BY <1>12, <1>16, <1>18 DEF Changed
<1>20. Placed(next, chunkNext, Unused, L \ {s}, chunkNext[s], m, o1)
  BY <1>8, <1>16, <1>17, <1>19, OpenedPool
<1>21. o1[t] = s
  BY <1>19 DEF Changed
<1>22. /\ cache' \in [Threads -> Cache] /\ inUse' \subseteq Blocks /\ crashed' = FALSE /\ Disjoint'
       /\ cache'[t] = [d EXCEPT !.cur = next[s], !.curCount = @ - 1]
       /\ \A u \in Threads \ {t} : cache'[u] = cache[u]
       /\ cache'[t].curCount = Size(next, next[s]) /\ cache'[t].curCount < ChunkSize
       /\ Placed(next', chunkNext', Unused', L \ {s}, chunkNext[s], m, q)
  <2>1. o1[t] = d.cur /\ d.cur # NoBlock /\ Changed(o1, q, t, next[d.cur])
    BY <1>8, <1>13, <1>19, <1>21
  <2>2. /\ cache' \in [Threads -> Cache] /\ inUse' \subseteq Blocks /\ crashed' = FALSE /\ Disjoint'
        /\ cache'[t] = [d EXCEPT !.cur = next[d.cur], !.curCount = @ - 1]
        /\ \A u \in Threads \ {t} : cache'[u] = cache[u]
        /\ cache'[t].curCount = Size(next, next[d.cur]) /\ cache'[t].curCount < ChunkSize
        /\ Placed(next', chunkNext', Unused', L \ {s}, chunkNext[s], m, q)
    BY <1>2, <1>6, <1>13, <1>20, <2>1, GiveOutIs
  <2> QED
    BY <1>13, <2>2
<1>23. TypeOK'
  <2>1. Null \in Tagged
    <3>1. 0 % TagLimit = 0 /\ 0 \in 0 .. TagLimit - 1
      BY PoolAssumption
    <3> QED
      BY <1>10, <3>1 DEF Null, Make, Tagged
  <2> QED
    BY <1>2, <1>6, <1>10, <1>14, <1>22, <2>1 DEF TypeOK
<1>24. /\ pc'[t] = "idle"
       /\ \A u \in Threads \ {t} : pc'[u] = pc[u] /\ oldTop'[u] = oldTop[u] /\ nextTop'[u] = nextTop[u]
  BY <1>2, <1>6 DEF TypeOK
<1>25. OnlyThread(t)
  BY <1>6, <1>22, <1>24 DEF OnlyThread, SameThread
<1>26. cache'[t].cur = next[s] /\ cache'[t].chunkTop = c.chunkTop /\ cache'[t].chunkCount = c.chunkCount
  BY <1>13, <1>22 DEF Cache
<1>27. Odds' = q /\ Mines' = m
  <2>1. Changed(m, Mines', t, c.chunkTop) /\ Changed(o, Odds', t, next[s])
    <3>1. (IF exiting'[t] THEN rest'[t] ELSE cache'[t].chunkTop) = c.chunkTop
          /\ (IF Pushing(t)' THEN head'[t] ELSE cache'[t].cur) = next[s]
      BY <1>6, <1>9, <1>24, <1>26 DEF Pushing
    <3> QED
      BY <1>15, <1>23, <1>25, <3>1, PlacesChange
  <2> QED
    BY <1>16, <1>17, <1>19, <2>1, ChangedSame, PlacesSame
<1>28. InPlace(L \ {s})'
  <2>1. \A b \in L \ {s} : count'[b] = Size(next', b)
    BY <1>1, <1>6 DEF InPlace
  <2> QED
    BY <1>14, <1>22, <1>27, <2>1 DEF InPlace
<1>29. SizesKept(L) /\ PushedKept(t)
  BY <1>6 DEF SizesKept, PushedKept
<1>30. TopsKept(t)
  <2>1. ASSUME NEW u \in Threads \ {t}
        PROVE  TopOK(u)'
    BY <1>2, <1>6, <1>25, TopMoved
  <2> QED
    BY <2>1 DEF TopsKept
<1>31. CacheOK(t)'
  BY <1>2, <1>3, <1>6, <1>22, <1>26 DEF CacheOK
<1>32. PlaceOK(t)'
  BY <1>2, <1>6, <1>9, <1>24 DEF PlaceOK, Pushing
<1>33. TopOK(t)' /\ LimitTold'
  BY <1>22, <1>24 DEF TopOK, Reading, LimitTold
<1> QED
  BY <1>1, <1>22, <1>23, <1>25, <1>28, <1>29, <1>30, <1>31, <1>32, <1>33, Rebuilt


----------------------------------------------------------------------------
\* What Free and Seal do before they look at the number of blocks.
LEMMA PutIs ==
  ASSUME TypeOK, Disjoint, NEW t \in Threads, NEW b \in Blocks, Put(t, b), unmade' = unmade,
         NEW L, NEW p, NEW m, NEW o, Placed(next, chunkNext, Unused, L, p, m, o), o[t] = cache[t].cur,
         NEW q, Changed(o, q, t, b)
  PROVE  /\ next' \in [Blocks -> Links] /\ inUse' \subseteq Blocks /\ crashed' = crashed /\ Disjoint'
         /\ b \in inUse /\ Unused' = Unused \cup {b} /\ b \notin Unused
         /\ Placed(next', chunkNext, Unused', L, p, m, q)
         /\ Size(next', b) = Size(next, cache[t].cur) + 1
         /\ \A x \in Unused \cup {NoBlock} : Size(next', x) = Size(next, x)
<1>1. PICK s : s = cache[t].cur
  BY Zenon
<1>2. s \in Links
  BY <1>1 DEF TypeOK, Cache
<1>3. b \in inUse /\ inUse' = inUse \ {b} /\ crashed' = crashed /\ next' = [next EXCEPT ![b] = s]
  BY <1>1 DEF Put, ValidateFree
<1>4. b \notin Unused /\ Unused' = Unused \cup {b}
  BY <1>3 DEF Unused, Disjoint
<1>5. next' \in [Blocks -> Links] /\ next'[b] = s /\ \A x \in Blocks \ {b} : next'[x] = next[x]
  BY <1>2, <1>3 DEF TypeOK
<1>6. Same(next, next', Unused)
  BY <1>4, <1>5 DEF Same, Unused
<1>7. next'[b] = o[t] /\ b \in Blocks \ Unused
  BY <1>1, <1>4, <1>5
<1>8. PICK h : h = next'
  BY Zenon
<1>9. /\ Placed(h, chunkNext, Unused \cup {b}, L, p, m, q)
      /\ Size(h, b) = Size(next, o[t]) + 1
      /\ \A x \in Unused \cup {NoBlock} : Size(h, x) = Size(next, x)
  <2>1. h[b] = o[t] /\ Same(next, h, Unused)
    BY <1>6, <1>7, <1>8
  <2>2. Placed(h, chunkNext, Unused \cup {b}, L, p, m, q)
    BY <1>7, <2>1, Given
  <2> QED
    BY <1>7, <2>1, <2>2, Given
<1>10. inUse' \subseteq Blocks /\ Disjoint'
  BY <1>3 DEF TypeOK, Disjoint
<1> QED
  BY <1>3, <1>4, <1>5, <1>8, <1>9, <1>10

LEMMA FreeKeeps ==
  ASSUME PoolInv, NEW t \in Threads, NEW b \in Blocks, Free(t, b)
  PROVE  PoolInv'
<1>1. PICK L : InPlace(L)
  BY DEF PoolInv
<1>2. TypeOK /\ CacheOK(t) /\ PlaceOK(t) /\ Disjoint /\ \A u \in Threads : TopOK(u)
  BY DEF PoolInv, Disjoint
<1>3. PICK c \in Cache : c = cache[t]
  BY <1>2 DEF TypeOK
<1>4. PICK k \in Nat : k = c.curCount
  <2>1. c.curCount \in Nat
    BY PoolAssumption DEF Cache
  <2> QED
    BY <2>1, Zenon
<1>5. PICK d : d = [c EXCEPT !.cur = b, !.curCount = k + 1]
  BY Zenon
<1>6. /\ pc[t] = "idle" /\ Put(t, b) /\ k + 1 < ChunkSize /\ cache' = [cache EXCEPT ![t] = d]
      /\ chunkNext' = chunkNext /\ count' = count /\ unmade' = unmade
      /\ chunkCount' = chunkCount /\ top' = top /\ pc' = pc /\ head' = head /\ oldTop' = oldTop
      /\ nextTop' = nextTop /\ rest' = rest /\ exiting' = exiting /\ slept' = slept
  <2>1. Returned(t, b) = d
    BY <1>3, <1>4, <1>5 DEF Returned
  <2>2. d.curCount = k + 1
    BY <1>5 DEF Cache
  <2> QED
    BY <2>1, <2>2 DEF Free, Put, At, locals
<1>7. b \in Links /\ k + 1 \in 0 .. ChunkSize
  BY <1>6, PoolAssumption DEF Links
<1>8. d \in Cache /\ d.cur = b /\ d.curCount = k + 1 /\ d.chunkTop = c.chunkTop /\ d.chunkCount = c.chunkCount
  BY <1>5, <1>7 DEF Cache
<1>9. cache' \in [Threads -> Cache] /\ cache'[t] = d /\ \A u \in Threads \ {t} : cache'[u] = cache[u]
  BY <1>2, <1>6, <1>8 DEF TypeOK
<1>10. PICK m, o : m = Mines /\ o = Odds
  BY Zenon
<1>11. Placed(next, chunkNext, Unused, L, top.ptr, m, o) /\ m \in [Threads -> Links] /\ o \in [Threads -> Links]
  BY <1>1, <1>10, PlacedFacts DEF InPlace
<1>12. o[t] = cache[t].cur /\ m[t] = c.chunkTop /\ ~ Pushing(t) /\ ~ exiting[t]
  BY <1>2, <1>3, <1>6, <1>10 DEF Odds, Mines, Pushing, PlaceOK
<1>13. PICK q : q = [o EXCEPT ![t] = b]
  BY Zenon
<1>14. Changed(o, q, t, b)
  BY <1>7, <1>11, <1>13 DEF Changed
<1>15. /\ next' \in [Blocks -> Links] /\ inUse' \subseteq Blocks /\ crashed' = crashed /\ Disjoint'
       /\ b \in inUse /\ Unused' = Unused \cup {b} /\ b \notin Unused
       /\ Placed(next', chunkNext, Unused', L, top.ptr, m, q)
       /\ Size(next', b) = Size(next, cache[t].cur) + 1
       /\ \A x \in Unused \cup {NoBlock} : Size(next', x) = Size(next, x)
  BY <1>2, <1>6, <1>11, <1>12, <1>14, PutIs
<1>16. TypeOK'
  BY <1>2, <1>6, <1>9, <1>15 DEF TypeOK
<1>17. OnlyThread(t)
  BY <1>6, <1>9 DEF OnlyThread, SameThread
<1>18. Odds' = q /\ Mines' = m
  <2>1. Changed(m, Mines', t, c.chunkTop) /\ Changed(o, Odds', t, b)
    <3>1. (IF exiting'[t] THEN rest'[t] ELSE cache'[t].chunkTop) = c.chunkTop
          /\ (IF Pushing(t)' THEN head'[t] ELSE cache'[t].cur) = b
      BY <1>6, <1>8, <1>9, <1>12 DEF Pushing
    <3> QED
      BY <1>10, <1>16, <1>17, <3>1, PlacesChange
  <2> QED
    BY <1>11, <1>12, <1>14, <2>1, PlacesSame, ChangedSame
<1>19. L \subseteq Unused
  BY <1>1, <1>2, InvFacts
<1>20. InPlace(L)'
  <2>1. \A x \in L : count'[x] = Size(next', x)
    BY <1>1, <1>6, <1>15, <1>19 DEF InPlace
  <2> QED
    BY <1>6, <1>15, <1>18, <2>1 DEF InPlace
<1>21. SizesKept(L) /\ PushedKept(t) /\ Same(chunkNext, chunkNext', L)
  BY <1>6, <1>15 DEF SizesKept, PushedKept, Same
<1>22. TopsKept(t)
  <2>1. ASSUME NEW u \in Threads \ {t}
        PROVE  TopOK(u)'
    BY <1>1, <1>2, <1>6, <1>17, <1>21, TopKept
  <2> QED
    BY <2>1 DEF TopsKept
<1>23. CacheOK(t)'
  BY <1>2, <1>3, <1>4, <1>6, <1>8, <1>9, <1>15 DEF CacheOK
<1>24. PlaceOK(t)'
  BY <1>2, <1>6, <1>12 DEF PlaceOK, Pushing
<1>25. TopOK(t)' /\ LimitTold'
  BY <1>6, <1>15 DEF TopOK, Reading, LimitTold, PoolInv
<1> QED
  BY <1>1, <1>15, <1>16, <1>17, <1>20, <1>21, <1>22, <1>23, <1>24, <1>25, Rebuilt

LEMMA SealKeeps ==
  ASSUME PoolInv, NEW t \in Threads, NEW b \in Blocks, Seal(t, b)
  PROVE  PoolInv'
<1>1. PICK L : InPlace(L)
  BY DEF PoolInv
<1>2. TypeOK /\ CacheOK(t) /\ PlaceOK(t) /\ Disjoint /\ \A u \in Threads : TopOK(u)
  BY DEF PoolInv, Disjoint
<1>3. PICK c \in Cache : c = cache[t]
  BY <1>2 DEF TypeOK
<1>4. PICK k, n : k = c.curCount /\ n = c.chunkCount
  BY Zenon
<1>5. /\ k \in Nat /\ n \in Nat /\ k = Size(next, c.cur) /\ n = Size(chunkNext, c.chunkTop)
      /\ n <= TlsMaxChunks /\ c.chunkTop \in Links
  BY <1>2, <1>3, <1>4, PoolAssumption DEF CacheOK, Cache
<1>6. PICK d : d = [cur |-> NoBlock, curCount |-> 0, chunkTop |-> b, chunkCount |-> n + 1]
  BY Zenon
<1>7. PICK e : e = [d EXCEPT !.chunkTop = c.chunkTop, !.chunkCount = n]
  BY Zenon
<1>8. Returned(t, b) = [c EXCEPT !.cur = b, !.curCount = k + 1]
  BY <1>3, <1>4 DEF Returned
<1>9. Sealed(Returned(t, b)) = d
  BY <1>4, <1>6, <1>8 DEF Sealed, Cache
<1>10. [d EXCEPT !.chunkTop = c.chunkTop, !.chunkCount = @ - 1] = e
  <2>1. d.chunkCount - 1 = n
    BY <1>5, <1>6
  <2> QED
    BY <1>7, <2>1
<1>11. /\ pc[t] = "idle" /\ Put(t, b) /\ k + 1 = ChunkSize
       /\ chunkNext' = [chunkNext EXCEPT ![b] = c.chunkTop] /\ count' = [count EXCEPT ![b] = ChunkSize]
       /\ unmade' = unmade /\ chunkCount' = chunkCount /\ top' = top /\ oldTop' = oldTop
       /\ nextTop' = nextTop /\ rest' = rest /\ exiting' = exiting /\ slept' = slept
  <2>1. Returned(t, b).curCount = k + 1
    BY <1>8 DEF Cache
  <2> QED
    BY <1>3, <2>1 DEF Seal, Put, At
<1>12. \/ n + 1 <= TlsMaxChunks /\ cache' = [cache EXCEPT ![t] = d] /\ pc' = pc /\ head' = head
       \/ /\ cache' = [cache EXCEPT ![t] = e]
          /\ pc' = [pc EXCEPT ![t] = "PushTop"] /\ head' = [head EXCEPT ![t] = b]
  <2>1. d.chunkCount = n + 1
    BY <1>6
  <2> QED
    BY <1>3, <1>9, <1>10, <2>1 DEF Seal
<1>13. b \in Links /\ NoBlock \in Links /\ 0 \in 0 .. ChunkSize /\ ChunkSize \in 0 .. ChunkSize
  BY PoolAssumption DEF Links
<1>14. d \in Cache /\ e \in Cache /\ e.cur = NoBlock /\ e.curCount = 0 /\ e.chunkTop = c.chunkTop /\ e.chunkCount = n
  <2>1. d \in Cache /\ d.cur = NoBlock /\ d.curCount = 0
    BY <1>5, <1>6, <1>13 DEF Cache
  <2> QED
    BY <1>5, <1>7, <2>1 DEF Cache
<1>15. PICK m, o : m = Mines /\ o = Odds
  BY Zenon
<1>16. Placed(next, chunkNext, Unused, L, top.ptr, m, o) /\ m \in [Threads -> Links] /\ o \in [Threads -> Links]
  BY <1>1, <1>15, PlacedFacts DEF InPlace
<1>17. o[t] = cache[t].cur /\ m[t] = c.chunkTop /\ ~ Pushing(t) /\ ~ exiting[t]
  BY <1>2, <1>3, <1>11, <1>15 DEF Odds, Mines, Pushing, PlaceOK
<1>18. PICK q, r, m1 : q = [o EXCEPT ![t] = b] /\ r = [o EXCEPT ![t] = NoBlock] /\ m1 = [m EXCEPT ![t] = b]
  BY Zenon
<1>19. Changed(o, q, t, b) /\ Changed(q, r, t, NoBlock) /\ Changed(o, r, t, NoBlock) /\ Changed(m, m1, t, b)
  BY <1>13, <1>16, <1>18 DEF Changed
<1>20. q[t] = b
  BY <1>19 DEF Changed
<1>21. /\ next' \in [Blocks -> Links] /\ inUse' \subseteq Blocks /\ crashed' = crashed /\ Disjoint'
       /\ b \in inUse /\ Unused' = Unused \cup {b} /\ b \notin Unused
       /\ Placed(next', chunkNext, Unused', L, top.ptr, m, q)
       /\ Size(next', b) = Size(next, cache[t].cur) + 1
       /\ \A x \in Unused \cup {NoBlock} : Size(next', x) = Size(next, x)
  BY <1>2, <1>11, <1>16, <1>17, <1>19, PutIs
<1>22. /\ chunkNext' \in [Blocks -> Links] /\ count' \in [Blocks -> 0 .. ChunkSize]
       /\ chunkNext'[b] = c.chunkTop /\ count'[b] = ChunkSize
       /\ \A x \in Blocks \ {b} : chunkNext'[x] = chunkNext[x] /\ count'[x] = count[x]
  BY <1>2, <1>5, <1>11, <1>13 DEF TypeOK
<1>23. Size(next', b) = ChunkSize
  BY <1>3, <1>5, <1>11, <1>21
<1>24. L \subseteq Unused /\ Unused \subseteq Blocks
       /\ \A u \in Threads : Pushing(u) => head[u] \in Unused \cup {NoBlock}
       /\ \A x \in L : count[x] = Size(next, x)
  BY <1>1, <1>2, InvFacts
<1>25. Same(chunkNext, chunkNext', L)
  BY <1>21, <1>22, <1>24 DEF Same
<1>26. PICK h : h = chunkNext'
  BY Zenon
<1>27. Placed(next', h, Unused', L, top.ptr, m, q) /\ \A x \in L \cup {NoBlock} : Size(h, x) = Size(chunkNext, x)
  BY <1>21, <1>25, <1>26, Kept
<1>28. SizesKept(L)
  BY <1>21, <1>26, <1>27 DEF SizesKept
<1>29. PushedKept(t)
  <2>1. ASSUME NEW u \in Threads \ {t}, Pushing(u)
        PROVE  head[u] \in Blocks /\ head[u] # b
    BY <1>21, <1>24, <2>1 DEF PoolInv, PlaceOK
  <2> QED
    BY <1>22, <2>1 DEF PushedKept
<1>30. \A x \in L \cup {b} : count'[x] = Size(next', x)
  <2>1. ASSUME NEW x \in L
        PROVE  count'[x] = Size(next', x)
    <3>1. x \in Unused /\ x \in Blocks \ {b} /\ count[x] = Size(next, x)
      <4>1. x \in Unused /\ x \in Blocks
        BY <1>24
      <4>2. count[x] = Size(next, x)
        BY <1>1 DEF InPlace
      <4>3. b \notin Unused
        BY <1>21
      <4> QED
        BY <4>1, <4>2, <4>3
    <3>2. Size(next', x) = Size(next, x)
      BY <1>21, <3>1
    <3> QED
      BY <1>22, <3>1, <3>2
  <2> QED
    BY <1>22, <1>23, <2>1
<1>31. ASSUME OnlyThread(t), TypeOK', NEW M, InPlace(M)', CacheOK(t)', PlaceOK(t)', TopOK(t)'
       PROVE  PoolInv'
  <2>1. TopsKept(t)
    <3>1. ASSUME NEW u \in Threads \ {t}
          PROVE  TopOK(u)'
      BY <1>1, <1>2, <1>11, <1>25, <1>29, <1>31, TopKept
    <3> QED
      BY <3>1 DEF TopsKept
  <2>2. LimitTold'
    BY <1>11, <1>21 DEF LimitTold, PoolInv
  <2> QED
    BY <1>1, <1>21, <1>28, <1>29, <1>31, <2>1, <2>2, Rebuilt
<1>32. CASE n + 1 <= TlsMaxChunks /\ cache' = [cache EXCEPT ![t] = d] /\ pc' = pc /\ head' = head
  <2>1. cache' \in [Threads -> Cache] /\ cache'[t] = d /\ \A u \in Threads \ {t} : cache'[u] = cache[u]
    BY <1>2, <1>14, <1>32 DEF TypeOK
  <2>2. TypeOK'
    BY <1>2, <1>11, <1>21, <1>22, <1>32, <2>1 DEF TypeOK
  <2>3. OnlyThread(t)
    BY <1>11, <1>32, <2>1 DEF OnlyThread, SameThread
  <2>4. Odds' = r /\ Mines' = m1
    <3>1. (IF exiting'[t] THEN rest'[t] ELSE cache'[t].chunkTop) = b
          /\ (IF Pushing(t)' THEN head'[t] ELSE cache'[t].cur) = NoBlock
      BY <1>6, <1>11, <1>17, <1>32, <2>1 DEF Pushing
    <3>2. Changed(m, Mines', t, b) /\ Changed(o, Odds', t, NoBlock)
      BY <1>15, <2>2, <2>3, <3>1, PlacesChange
    <3> QED
      BY <1>19, <3>2, ChangedSame
  <2>5. Placed(next', h, Unused', L \cup {b}, top.ptr, m1, r) /\ Size(h, b) = Size(chunkNext, c.chunkTop) + 1
    <3>1. /\ q[t] # NoBlock /\ h[q[t]] = m[t] /\ Same(chunkNext, h, L)
          /\ Changed(m, m1, t, q[t]) /\ Changed(q, r, t, NoBlock)
      BY <1>17, <1>19, <1>20, <1>22, <1>25, <1>26, PoolAssumption
    <3>2. Placed(next', h, Unused', L \cup {q[t]}, top.ptr, m1, r)
      BY <1>21, <3>1, ClosedOwn
    <3>3. Size(h, q[t]) = Size(chunkNext, m[t]) + 1
      BY <1>21, <3>1, <3>2, ClosedOwn
    <3> QED
      BY <1>17, <1>20, <3>2, <3>3
  <2>6. InPlace(L \cup {b})'
    BY <1>11, <1>26, <1>30, <2>4, <2>5 DEF InPlace
  <2>7. CacheOK(t)'
    <3>1. Size(next', NoBlock) = 0
      BY None
    <3>2. d.cur = NoBlock /\ d.curCount = 0 /\ d.chunkTop = b /\ d.chunkCount = n + 1
      BY <1>6
    <3>3. Size(chunkNext', b) = n + 1
      BY <1>5, <1>26, <2>5
    <3> QED
      BY <1>32, <2>1, <3>1, <3>2, <3>3, PoolAssumption DEF CacheOK
  <2>8. PlaceOK(t)' /\ TopOK(t)'
    BY <1>2, <1>11, <1>17, <1>32 DEF PlaceOK, Pushing, TopOK, Reading
  <2> QED
    BY <1>31, <2>2, <2>3, <2>6, <2>7, <2>8
<1>33. CASE /\ cache' = [cache EXCEPT ![t] = e]
            /\ pc' = [pc EXCEPT ![t] = "PushTop"] /\ head' = [head EXCEPT ![t] = b]
  <2>1. cache' \in [Threads -> Cache] /\ cache'[t] = e /\ \A u \in Threads \ {t} : cache'[u] = cache[u]
    BY <1>2, <1>14, <1>33 DEF TypeOK
  <2>2. /\ pc'[t] = "PushTop" /\ head'[t] = b
        /\ \A u \in Threads \ {t} : pc'[u] = pc[u] /\ head'[u] = head[u]
    BY <1>2, <1>33 DEF TypeOK
  <2>3. TypeOK'
    BY <1>2, <1>11, <1>13, <1>21, <1>22, <1>33, <2>1 DEF TypeOK
  <2>4. OnlyThread(t)
    BY <1>11, <2>1, <2>2 DEF OnlyThread, SameThread
  <2>5. Odds' = q /\ Mines' = m
    <3>1. (IF exiting'[t] THEN rest'[t] ELSE cache'[t].chunkTop) = c.chunkTop
          /\ (IF Pushing(t)' THEN head'[t] ELSE cache'[t].cur) = b
      BY <1>11, <1>14, <1>17, <2>1, <2>2 DEF Pushing
    <3>2. Changed(m, Mines', t, c.chunkTop) /\ Changed(o, Odds', t, b)
      BY <1>15, <2>3, <2>4, <3>1, PlacesChange
    <3> QED
      BY <1>16, <1>17, <1>19, <3>2, ChangedSame, PlacesSame
  <2>6. InPlace(L)'
    BY <1>11, <1>26, <1>27, <1>30, <2>5 DEF InPlace
  <2>7. CacheOK(t)'
    <3>1. Size(next', NoBlock) = 0
      BY None
    <3>2. e.cur = NoBlock /\ e.curCount = 0 /\ e.chunkTop = c.chunkTop /\ e.chunkCount = n
      BY <1>14
    <3>3. c.chunkTop \in L \cup {NoBlock}
      BY <1>1, <1>2, <1>3, <1>17, InvFacts
    <3>4. Size(chunkNext', c.chunkTop) = n
      BY <1>5, <1>28, <3>3 DEF SizesKept
    <3> QED
      BY <1>5, <2>1, <3>1, <3>2, <3>4, PoolAssumption DEF CacheOK
  <2>8. PlaceOK(t)'
    <3>1. cache'[t].cur = NoBlock
      BY <1>14, <2>1
    <3> QED
      BY <1>2, <1>11, <1>17, <1>22, <1>23, <2>2, <3>1, PoolAssumption DEF PlaceOK, Pushing
  <2>9. TopOK(t)'
    BY <2>2 DEF TopOK, Reading
  <2> QED
    BY <1>31, <2>3, <2>4, <2>6, <2>7, <2>8, <2>9
<1> QED
  BY <1>12, <1>32, <1>33

LEMMA PushLinkKeeps ==
  ASSUME PoolInv, NEW t \in Threads, PushLink(t)
  PROVE  PoolInv'
<1>1. PICK L : InPlace(L)
  BY DEF PoolInv
<1>2. TypeOK /\ CacheOK(t) /\ PlaceOK(t) /\ Disjoint /\ \A u \in Threads : TopOK(u)
  BY DEF PoolInv, Disjoint
<1>3. PICK s, p : s = head[t] /\ p = oldTop[t].ptr
  BY Zenon
<1>4. /\ pc[t] = "PushLink" /\ pc' = [pc EXCEPT ![t] = "PushCas"]
      /\ chunkNext' = [chunkNext EXCEPT ![s] = p]
      /\ next' = next /\ count' = count /\ inUse' = inUse /\ unmade' = unmade
      /\ chunkCount' = chunkCount /\ crashed' = crashed /\ top' = top /\ cache' = cache
      /\ head' = head /\ oldTop' = oldTop /\ nextTop' = nextTop /\ rest' = rest
      /\ exiting' = exiting /\ slept' = slept
  BY <1>3 DEF PushLink, Go, At, shared, locals
<1>5. Pushing(t) /\ pc[t] \in Reading
  BY <1>4 DEF Pushing, Reading
<1>6. /\ s \in Unused /\ s \notin L /\ s \in Blocks /\ p \in Links /\ s # NoBlock /\ L \subseteq Blocks
      /\ cache[t].chunkTop \in Links
  <2>1. s \in (Unused \ L) \cup {NoBlock} /\ Unused \subseteq Blocks /\ L \subseteq Unused
    BY <1>1, <1>2, <1>3, <1>5, InvFacts
  <2> QED
    BY <1>2, <1>3, <1>5, <2>1 DEF PlaceOK, TypeOK, Tagged, Cache
<1>7. /\ chunkNext' \in [Blocks -> Links] /\ chunkNext'[s] = p
      /\ \A x \in Blocks \ {s} : chunkNext'[x] = chunkNext[x]
  BY <1>2, <1>4, <1>6 DEF TypeOK
<1>8. TypeOK'
  BY <1>2, <1>4, <1>7 DEF TypeOK
<1>9. pc'[t] = "PushCas" /\ \A u \in Threads \ {t} : pc'[u] = pc[u]
  BY <1>2, <1>4 DEF TypeOK
<1>10. OnlyThread(t)
  BY <1>4, <1>9 DEF OnlyThread, SameThread
<1>11. Pushing(t)' = Pushing(t) /\ \A u \in Threads \ {t} : Pushing(u)' = Pushing(u)
  BY <1>4, <1>9 DEF Pushing
<1>12. Mines' = Mines
  BY <1>4 DEF Mines
<1>13. Odds' = Odds
  <2>1. \A u \in Threads : Pushing(u)' = Pushing(u)
    BY <1>11
  <2> QED
    BY <1>4, <2>1 DEF Odds
<1>14. Same(chunkNext, chunkNext', L)
  BY <1>6, <1>7 DEF Same
<1>15. PICK h : h = chunkNext'
  BY Zenon
<1>16. PICK m, o : m = Mines /\ o = Odds
  BY Zenon
<1>17. Placed(next, chunkNext, Unused, L, top.ptr, m, o) /\ o \in [Threads -> Links]
  BY <1>1, <1>16, PlacedFacts DEF InPlace
<1>18. Placed(next, h, Unused, L, top.ptr, m, o) /\ \A x \in L \cup {NoBlock} : Size(h, x) = Size(chunkNext, x)
  BY <1>14, <1>15, <1>17, Kept
<1>19. InPlace(L)'
  <2>1. Unused' = Unused
    BY <1>4 DEF Unused
  <2> QED
    BY <1>1, <1>4, <1>12, <1>13, <1>15, <1>16, <1>18, <2>1 DEF InPlace
<1>20. SizesKept(L)
  BY <1>4, <1>15, <1>18 DEF SizesKept
<1>21. PushedKept(t)
  <2>1. ASSUME NEW u \in Threads \ {t}, Pushing(u)
        PROVE  head[u] \in Blocks \ {s}
    <3>1. head[u] \in Unused \cup {NoBlock} /\ head[u] # NoBlock /\ Unused \subseteq Blocks
      BY <1>1, <1>2, <2>1, InvFacts DEF PoolInv, PlaceOK
    <3>2. o[t] = s /\ o[u] = head[u]
      BY <1>3, <1>5, <1>16, <2>1 DEF Odds
    <3>3. Alone(o, t)
      BY <1>17 DEF Placed, Apart
    <3> QED
      BY <1>6, <3>1, <3>2, <3>3 DEF Alone
  <2> QED
    BY <1>4, <1>7, <2>1 DEF PushedKept
<1>22. TopsKept(t)
  <2>1. ASSUME NEW u \in Threads \ {t}
        PROVE  TopOK(u)'
    BY <1>1, <1>2, <1>4, <1>10, <1>14, <1>21, TopKept
  <2> QED
    BY <2>1 DEF TopsKept
<1>23. CacheOK(t)'
  <2>1. cache[t].chunkTop \in L \cup {NoBlock}
    BY <1>1, <1>2, InvFacts DEF PlaceOK, Empty
  <2>2. Size(chunkNext', cache[t].chunkTop) = Size(chunkNext, cache[t].chunkTop)
    BY <1>20, <2>1 DEF SizesKept
  <2> QED
    BY <1>2, <1>4, <2>2 DEF CacheOK
<1>24. PlaceOK(t)'
  BY <1>2, <1>4, <1>5, <1>9, <1>11 DEF PlaceOK
<1>25. TopOK(t)'
  BY <1>2, <1>3, <1>4, <1>5, <1>7, <1>9 DEF TopOK
<1>26. Disjoint' /\ LimitTold'
  BY <1>4 DEF PoolInv, Disjoint, LimitTold
<1> QED
  BY <1>1, <1>8, <1>10, <1>19, <1>20, <1>21, <1>22, <1>23, <1>24, <1>25, <1>26, Rebuilt

\* ~Cache, or the end of a push.
LEMMA EmptyOK == ASSUME NEW t \in Threads, cache'[t] = Empty PROVE CacheOK(t)'
<1>1. Size(next', NoBlock) = 0 /\ Size(chunkNext', NoBlock) = 0
  BY None
<1> QED
  BY <1>1, PoolAssumption DEF CacheOK, Empty

LEMMA ExitKeeps ==
  ASSUME PoolInv, NEW t \in Threads, Exit(t)
  PROVE  PoolInv'
<1>1. PICK L : InPlace(L)
  BY DEF PoolInv
<1>2. TypeOK /\ CacheOK(t) /\ PlaceOK(t) /\ Disjoint /\ \A u \in Threads : TopOK(u)
  BY DEF PoolInv, Disjoint
<1>3. PICK c \in Cache : c = cache[t]
  BY <1>2 DEF TypeOK
<1>4. /\ pc[t] = "idle" /\ c # Empty /\ cache' = [cache EXCEPT ![t] = Empty]
      /\ next' = next /\ chunkNext' = chunkNext /\ inUse' = inUse /\ unmade' = unmade
      /\ chunkCount' = chunkCount /\ crashed' = crashed /\ top' = top /\ oldTop' = oldTop
      /\ nextTop' = nextTop /\ slept' = slept
  BY <1>3 DEF Exit, At, shared
<1>5. ~ Pushing(t) /\ ~ exiting[t] /\ rest[t] = NoBlock
  BY <1>2, <1>4 DEF Pushing, PlaceOK
<1>6. /\ L \subseteq Unused /\ Unused \subseteq Blocks /\ c.chunkTop \in L \cup {NoBlock}
      /\ c.cur \in (Unused \ L) \cup {NoBlock}
      /\ \A x \in L : chunkNext[x] \in L \cup {NoBlock} /\ count[x] = Size(next, x)
  BY <1>1, <1>2, <1>3, <1>5, InvFacts
<1>7. PICK x, r, k : /\ x = (IF c.cur = NoBlock THEN c.chunkTop ELSE c.cur)
                     /\ r = (IF c.cur = NoBlock THEN chunkNext[c.chunkTop] ELSE c.chunkTop)
                     /\ k = Size(next, x)
  BY Zenon
<1>8. c.cur = NoBlock => c.chunkTop # NoBlock
  <2>1. ASSUME c.cur = NoBlock, c.chunkTop = NoBlock
        PROVE  FALSE
    <3>1. c.curCount = 0 /\ c.chunkCount = 0
      BY <1>2, <1>3, <2>1, None DEF CacheOK
    <3> QED
      BY <1>3, <1>4, <2>1, <3>1 DEF Empty, Cache
  <2> QED
    BY <2>1
<1>9. /\ x \in Unused /\ x \in Blocks /\ x # NoBlock /\ r \in L \cup {NoBlock}
      /\ x \in Links /\ r \in Links /\ NoBlock \in Links
  BY <1>6, <1>7, <1>8, PoolAssumption DEF Links
<1>10. /\ head' = [head EXCEPT ![t] = x] /\ rest' = [rest EXCEPT ![t] = r]
       /\ exiting' = [exiting EXCEPT ![t] = TRUE] /\ pc' = [pc EXCEPT ![t] = "PushTop"]
  <2>1. CASE c.cur = NoBlock
    <3>1. ExitOn(t, c.chunkTop)
      BY <1>3, <2>1 DEF Exit
    <3> QED
      BY <1>7, <1>8, <2>1, <3>1 DEF ExitOn
  <2>2. CASE c.cur # NoBlock
    BY <1>3, <1>7, <2>2 DEF Exit
  <2> QED
    BY <2>1, <2>2
<1>11. /\ count' \in [Blocks -> 0 .. ChunkSize] /\ count'[x] = k
       /\ \A y \in Blocks \ {x} : count'[y] = count[y]
  <2>1. CASE c.cur = NoBlock
    <3>1. count' = count
      BY <1>3, <2>1 DEF Exit
    <3>2. count[x] = k
      BY <1>6, <1>7, <1>8, <2>1
    <3> QED
      BY <1>2, <3>1, <3>2 DEF TypeOK
  <2>2. CASE c.cur # NoBlock
    <3>1. count' = [count EXCEPT ![x] = c.curCount] /\ c.curCount \in 0 .. ChunkSize
      BY <1>3, <1>7, <2>2 DEF Exit, Cache
    <3>2. k = c.curCount
      BY <1>2, <1>3, <1>7, <2>2 DEF CacheOK
    <3> QED
      BY <1>2, <1>9, <3>1, <3>2 DEF TypeOK
  <2> QED
    BY <2>1, <2>2
<1>12. cache' \in [Threads -> Cache] /\ cache'[t] = Empty /\ \A u \in Threads \ {t} : cache'[u] = cache[u]
  <2>1. Empty \in Cache
    BY <1>9, PoolAssumption DEF Empty, Cache
  <2> QED
    BY <1>2, <1>4, <2>1 DEF TypeOK
<1>13. TypeOK'
  BY <1>2, <1>4, <1>9, <1>10, <1>11, <1>12 DEF TypeOK
<1>14. /\ pc'[t] = "PushTop" /\ head'[t] = x /\ rest'[t] = r /\ exiting'[t] = TRUE
       /\ \A u \in Threads \ {t} : /\ pc'[u] = pc[u] /\ head'[u] = head[u]
                                   /\ rest'[u] = rest[u] /\ exiting'[u] = exiting[u]
  BY <1>2, <1>10 DEF TypeOK
<1>15. OnlyThread(t)
  BY <1>4, <1>12, <1>14 DEF OnlyThread, SameThread
<1>16. PICK m, o : m = Mines /\ o = Odds
  BY Zenon
<1>17. Placed(next, chunkNext, Unused, L, top.ptr, m, o) /\ m \in [Threads -> Links] /\ o \in [Threads -> Links]
  BY <1>1, <1>16, PlacedFacts DEF InPlace
<1>18. o[t] = c.cur /\ m[t] = c.chunkTop
  BY <1>3, <1>5, <1>16 DEF Odds, Mines
<1>19. Changed(m, Mines', t, r) /\ Changed(o, Odds', t, x)
  <2>1. (IF exiting'[t] THEN rest'[t] ELSE cache'[t].chunkTop) = r
        /\ (IF Pushing(t)' THEN head'[t] ELSE cache'[t].cur) = x
    BY <1>14 DEF Pushing
  <2> QED
    BY <1>13, <1>15, <1>16, <2>1, PlacesChange
<1>20. \E M : Placed(next, chunkNext, Unused, M, top.ptr, Mines', Odds') /\ M \subseteq L /\ x \notin M
  <2>1. PICK m1, o1 : m1 = Mines' /\ o1 = Odds'
    BY Zenon
  <2>2. CASE c.cur = NoBlock
    <3>1. m[t] # NoBlock /\ o[t] = NoBlock /\ Changed(m, m1, t, chunkNext[m[t]]) /\ Changed(o, o1, t, m[t])
      BY <1>7, <1>8, <1>18, <1>19, <2>1, <2>2
    <3>2. Placed(next, chunkNext, Unused, L \ {m[t]}, top.ptr, m1, o1)
      BY <1>17, <3>1, OpenedOwn
    <3> QED
      BY <1>7, <1>18, <2>1, <2>2, <3>2
  <2>3. CASE c.cur # NoBlock
    <3>1. m1 = m /\ o1 = o
      BY <1>7, <1>17, <1>18, <1>19, <2>1, <2>3, PlacesSame
    <3> QED
      BY <1>6, <1>7, <1>17, <2>1, <2>3, <3>1
  <2> QED
    BY <2>2, <2>3
<1>21. PICK M : Placed(next, chunkNext, Unused, M, top.ptr, Mines', Odds') /\ M \subseteq L /\ x \notin M
  BY <1>20
<1>22. InPlace(M)'
  <2>1. \A y \in M : count'[y] = Size(next', y)
    BY <1>4, <1>6, <1>11, <1>21
  <2>2. Unused' = Unused
    BY <1>4 DEF Unused
  <2> QED
    BY <1>4, <1>21, <2>1, <2>2 DEF InPlace
<1>23. SizesKept(L) /\ Same(chunkNext, chunkNext', L)
  BY <1>4 DEF SizesKept, Same
<1>24. PushedKept(t)
  <2>1. ASSUME NEW u \in Threads \ {t}, Pushing(u)
        PROVE  count'[head[u]] = count[head[u]]
    <3>1. head[u] \in (Unused \ L) \cup {NoBlock} /\ head[u] # NoBlock
      BY <1>1, <1>2, <2>1, InvFacts DEF PoolInv, PlaceOK
    <3>2. o[u] = head[u]
      BY <1>16, <2>1 DEF Odds
    <3>3. Alone(o, t)
      BY <1>17 DEF Placed, Apart
    <3>4. head[u] # x
      BY <1>6, <1>7, <1>8, <1>18, <3>1, <3>2, <3>3 DEF Alone
    <3> QED
      BY <1>6, <1>11, <3>1, <3>4
  <2> QED
    BY <1>4, <2>1 DEF PushedKept
<1>25. TopsKept(t)
  <2>1. ASSUME NEW u \in Threads \ {t}
        PROVE  TopOK(u)'
    BY <1>1, <1>2, <1>4, <1>15, <1>23, <1>24, TopKept
  <2> QED
    BY <2>1 DEF TopsKept
<1>26. CacheOK(t)'
  BY <1>12, EmptyOK
<1>27. PlaceOK(t)'
  BY <1>4, <1>7, <1>9, <1>11, <1>12, <1>14 DEF PlaceOK, Pushing, Empty
<1>28. TopOK(t)'
  BY <1>14 DEF TopOK, Reading
<1>29. Disjoint' /\ LimitTold'
  BY <1>4 DEF PoolInv, Disjoint, LimitTold
<1> QED
  BY <1>1, <1>13, <1>15, <1>22, <1>23, <1>24, <1>25, <1>26, <1>27, <1>28, <1>29, Rebuilt

LEMMA PushCasKeeps ==
  ASSUME PoolInv, NEW t \in Threads, PushCas(t)
  PROVE  PoolInv'
<1>1. PICK L : InPlace(L)
  BY DEF PoolInv
<1>2. TypeOK /\ CacheOK(t) /\ PlaceOK(t) /\ Disjoint /\ \A u \in Threads : TopOK(u)
  BY DEF PoolInv, Disjoint
<1>3. PICK s, x : s = head[t] /\ x = IF exiting[t] THEN rest[t] ELSE NoBlock
  BY Zenon
<1>4. /\ pc[t] = "PushCas" /\ SetTop(t, s) /\ ExitOn(t, x)
      /\ next' = next /\ chunkNext' = chunkNext /\ count' = count /\ inUse' = inUse /\ unmade' = unmade
      /\ chunkCount' = chunkCount /\ crashed' = crashed /\ cache' = cache
      /\ oldTop' = [oldTop EXCEPT ![t] = Null] /\ nextTop' = nextTop
  BY <1>3 DEF PushCas, At, After, links, shared
<1>5. Pushing(t) /\ pc[t] \in Reading
  BY <1>4 DEF Pushing, Reading
<1>6. /\ s \in Unused /\ s \notin L /\ s \in Blocks /\ s # NoBlock /\ s \in Links /\ count[s] = Size(next, s)
      /\ L \subseteq Unused /\ Unused \subseteq Blocks
  <2>1. s \in (Unused \ L) \cup {NoBlock} /\ Unused \subseteq Blocks /\ L \subseteq Unused
    BY <1>1, <1>2, <1>3, <1>5, InvFacts
  <2> QED
    BY <1>2, <1>3, <1>5, <2>1 DEF PlaceOK, Links
<1>7. x \in L \cup {NoBlock} /\ x = (IF exiting[t] THEN rest[t] ELSE NoBlock)
  BY <1>1, <1>2, <1>3, InvFacts
<1>8. NoBlock \in Links /\ L \subseteq Links /\ NoBlock \notin Blocks
  BY <1>6, PoolAssumption DEF Links
<1>9. PICK r : r = IF x = NoBlock THEN NoBlock ELSE chunkNext[x]
  BY Zenon
<1>10. x \in Links /\ r \in Links /\ (x # NoBlock => x \in L /\ count[x] = Size(next, x))
  <2>1. x # NoBlock => x \in L /\ chunkNext[x] \in L \cup {NoBlock} /\ count[x] = Size(next, x)
    BY <1>1, <1>2, <1>7, InvFacts
  <2> QED
    BY <1>7, <1>8, <1>9, <2>1
<1>11. PICK to \in {"idle", "PushTop"} : to = IF x = NoBlock THEN "idle" ELSE "PushTop"
  BY Zenon
<1>12. PICK going \in BOOLEAN : going = (x # NoBlock)
  BY Zenon
<1>13. /\ head' = [head EXCEPT ![t] = x] /\ rest' = [rest EXCEPT ![t] = r]
       /\ exiting' = [exiting EXCEPT ![t] = going] /\ pc' = [pc EXCEPT ![t] = to]
  BY <1>4, <1>9, <1>11, <1>12 DEF ExitOn
<1>14. top' \in Tagged /\ top'.ptr = s /\ slept' \in [Threads -> 0 .. TagLimit - 1]
  BY <1>2, <1>4, <1>6, SetTopIs
<1>15. TypeOK'
  <2>1. Null \in Tagged
    <3>1. 0 % TagLimit = 0 /\ 0 \in 0 .. TagLimit - 1
      BY PoolAssumption
    <3> QED
      BY <1>8, <3>1 DEF Null, Make, Tagged
  <2> QED
    BY <1>2, <1>4, <1>10, <1>11, <1>12, <1>13, <1>14, <2>1 DEF TypeOK
<1>16. /\ pc'[t] = to /\ head'[t] = x /\ rest'[t] = r /\ exiting'[t] = going
       /\ \A u \in Threads \ {t} : /\ pc'[u] = pc[u] /\ head'[u] = head[u] /\ rest'[u] = rest[u]
                                   /\ exiting'[u] = exiting[u] /\ oldTop'[u] = oldTop[u]
  BY <1>2, <1>4, <1>13 DEF TypeOK
<1>17. OnlyThread(t)
  BY <1>4, <1>16 DEF OnlyThread, SameThread
<1>18. cache[t].cur = NoBlock /\ (exiting[t] => cache[t].chunkTop = NoBlock) /\ (x # NoBlock => exiting[t])
  BY <1>2, <1>4, <1>7 DEF PlaceOK, Empty
<1>19. PICK p : p = top.ptr
  BY Zenon
<1>20. chunkNext[s] = p
  <2>1. top = oldTop[t]
    BY <1>4 DEF SetTop
  <2> QED
    BY <1>2, <1>3, <1>4, <1>5, <1>19, <2>1 DEF TopOK
<1>21. PICK m, o : m = Mines /\ o = Odds
  BY Zenon
<1>22. Placed(next, chunkNext, Unused, L, p, m, o) /\ m \in [Threads -> Links] /\ o \in [Threads -> Links]
  BY <1>1, <1>19, <1>21, PlacedFacts DEF InPlace
<1>23. o[t] = s /\ m[t] = IF exiting[t] THEN rest[t] ELSE cache[t].chunkTop
  BY <1>3, <1>5, <1>21 DEF Odds, Mines
<1>24. PICK o1 : o1 = [o EXCEPT ![t] = NoBlock]
  BY Zenon
<1>25. Changed(o, o1, t, NoBlock) /\ o1 \in [Threads -> Links] /\ o1[t] = NoBlock
  BY <1>8, <1>22, <1>24 DEF Changed
<1>26. Placed(next, chunkNext, Unused, L \cup {s}, s, m, o1)
  <2>1. o[t] # NoBlock /\ chunkNext[o[t]] = p
    BY <1>6, <1>20, <1>23
  <2>2. Placed(next, chunkNext, Unused, L \cup {o[t]}, o[t], m, o1)
    BY <1>22, <1>25, <2>1, ClosedPool
  <2> QED
    BY <1>23, <2>2
<1>27. /\ Changed(m, Mines', t, IF x # NoBlock THEN r ELSE m[t])
       /\ Changed(o, Odds', t, x)
  <2>1. (IF exiting'[t] THEN rest'[t] ELSE cache'[t].chunkTop) = IF x # NoBlock THEN r ELSE m[t]
    BY <1>4, <1>7, <1>12, <1>16, <1>18, <1>23
  <2>2. (IF Pushing(t)' THEN head'[t] ELSE cache'[t].cur) = x
    BY <1>4, <1>11, <1>16, <1>18 DEF Pushing
  <2> QED
    BY <1>15, <1>17, <1>21, <2>1, <2>2, PlacesChange
<1>28. Changed(o1, Odds', t, x)
  BY <1>25, <1>27 DEF Changed
<1>29. \E M : Placed(next, chunkNext, Unused, M, s, Mines', Odds') /\ M \subseteq L \cup {s}
  <2>1. PICK m1, o2 : m1 = Mines' /\ o2 = Odds'
    BY Zenon
  <2>2. CASE x # NoBlock
    <3>1. m[t] = x /\ r = chunkNext[x]
      BY <1>7, <1>9, <1>18, <1>23, <2>2
    <3>2. m[t] # NoBlock /\ Changed(m, m1, t, chunkNext[m[t]]) /\ Changed(o1, o2, t, m[t])
      BY <1>27, <1>28, <2>1, <2>2, <3>1
    <3>3. Placed(next, chunkNext, Unused, (L \cup {s}) \ {m[t]}, s, m1, o2)
      BY <1>25, <1>26, <3>2, OpenedOwn
    <3> QED
      BY <2>1, <3>3
  <2>3. CASE x = NoBlock
    <3>1. m1 = m /\ o2 = o1
      BY <1>22, <1>25, <1>27, <1>28, <2>1, <2>3, PlacesSame
    <3> QED
      BY <1>26, <2>1, <3>1
  <2> QED
    BY <2>2, <2>3
<1>30. PICK M : Placed(next, chunkNext, Unused, M, s, Mines', Odds') /\ M \subseteq L \cup {s}
  BY <1>29
<1>31. InPlace(M)'
  <2>1. \A y \in L : count[y] = Size(next, y)
    BY <1>1 DEF InPlace
  <2>2. \A y \in M : count'[y] = Size(next', y)
    BY <1>4, <1>6, <1>30, <2>1
  <2>3. Unused' = Unused
    BY <1>4 DEF Unused
  <2> QED
    BY <1>4, <1>14, <1>30, <2>2, <2>3 DEF InPlace
<1>32. SizesKept(L) /\ PushedKept(t)
  BY <1>4 DEF SizesKept, PushedKept
<1>33. TopsKept(t)
  <2>1. ASSUME NEW u \in Threads \ {t}
        PROVE  TopOK(u)'
    BY <1>2, <1>4, <1>17, TopMoved
  <2> QED
    BY <2>1 DEF TopsKept
<1>34. CacheOK(t)'
  BY <1>2, <1>4 DEF CacheOK
<1>35. PlaceOK(t)'
  <2>1. cache'[t].cur = NoBlock
    BY <1>4, <1>18
  <2>2. Pushing(t)' => x # NoBlock
    BY <1>11, <1>16 DEF Pushing
  <2>3. x # NoBlock => Pushing(t)' /\ cache[t] = Empty
    BY <1>2, <1>11, <1>16, <1>18 DEF Pushing, PlaceOK
  <2>4. going = FALSE => r = NoBlock
    BY <1>9, <1>12
  <2> QED
    BY <1>4, <1>10, <1>12, <1>16, <2>1, <2>2, <2>3, <2>4 DEF PlaceOK
<1>36. TopOK(t)'
  BY <1>11, <1>16 DEF TopOK, Reading
<1>37. Disjoint' /\ LimitTold'
  BY <1>4 DEF PoolInv, Disjoint, LimitTold
<1> QED
  BY <1>1, <1>15, <1>17, <1>31, <1>32, <1>33, <1>34, <1>35, <1>36, <1>37, Rebuilt

\* A new chunk, of the blocks l: its blocks, their links, and all links.
MadeOf(l)  == {l[i] : i \in 1 .. ChunkSize}
LastOf(l)  == [i \in 1 .. ChunkSize |-> IF i = ChunkSize THEN NoBlock ELSE l[i + 1]]
AfterIn(l, b) == LastOf(l)[CHOOSE i \in 1 .. ChunkSize : l[i] = b]
LinksOf(l) == [b \in Blocks |-> IF b \in MadeOf(l) THEN AfterIn(l, b) ELSE next[b]]

LEMMA MadeIs ==
  ASSUME TypeOK, NEW l \in Lists(unmade)
  PROVE  /\ LinksOf(l) \in [Blocks -> Links] /\ Strand(LinksOf(l), l, ChunkSize)
         /\ MadeOf(l) \subseteq unmade /\ l[1] \in MadeOf(l) /\ AfterIn(l, l[1]) = LinksOf(l)[l[1]]
         /\ \A b \in Blocks \ MadeOf(l) : LinksOf(l)[b] = next[b]
<1>1. PICK made, last, h : made = MadeOf(l) /\ last = LastOf(l) /\ h = LinksOf(l)
  BY Zenon
<1>2. made = {l[i] : i \in 1 .. ChunkSize}
  BY <1>1 DEF MadeOf
<1>3. last = [i \in 1 .. ChunkSize |-> IF i = ChunkSize THEN NoBlock ELSE l[i + 1]]
  BY <1>1 DEF LastOf
<1>4. h = [b \in Blocks |-> IF b \in made THEN AfterIn(l, b) ELSE next[b]]
  BY <1>1 DEF LinksOf
<1>5. ChunkSize \in Nat \ {0}
  BY PoolAssumption
<1>6. /\ l \in [1 .. ChunkSize -> unmade] /\ \A i, j \in 1 .. ChunkSize : l[i] = l[j] => i = j
  BY DEF Lists
<1>7. made \subseteq unmade /\ unmade \subseteq Blocks /\ 1 \in 1 .. ChunkSize
  BY <1>2, <1>5, <1>6 DEF TypeOK
<1>8. l[1] \in made
  BY <1>2, <1>7
<1>9. \A i \in 1 .. ChunkSize : i # ChunkSize => i + 1 \in 1 .. ChunkSize
  BY <1>5
<1>10. \A i \in 1 .. ChunkSize : /\ last[i] = (IF i = ChunkSize THEN NoBlock ELSE l[i + 1])
                                 /\ last[i] \in Links
  BY <1>3, <1>6, <1>7, <1>9 DEF Links
<1>11. \A i \in 1 .. ChunkSize : AfterIn(l, l[i]) = last[i]
  <2>1. ASSUME NEW i \in 1 .. ChunkSize
        PROVE  AfterIn(l, l[i]) = last[i]
    <3>1. PICK k : k = CHOOSE j \in 1 .. ChunkSize : l[j] = l[i]
      BY Zenon
    <3>2. k \in 1 .. ChunkSize /\ l[k] = l[i]
      BY <3>1
    <3>3. k = i
      BY <1>6, <3>2
    <3>4. AfterIn(l, l[i]) = last[k]
      BY <1>1, <3>1, Zenon DEF AfterIn
    <3> QED
      BY <3>3, <3>4
  <2> QED
    BY <2>1
<1>12. \A i \in 1 .. ChunkSize : l[i] \in made /\ l[i] \in Blocks
  BY <1>2, <1>6, <1>7
<1>13. \A i \in 1 .. ChunkSize : h[l[i]] = last[i]
  BY <1>4, <1>11, <1>12
<1>14. \A b \in Blocks \ made : h[b] = next[b]
  BY <1>4
<1>15. h \in [Blocks -> Links]
  <2>1. ASSUME NEW b \in Blocks
        PROVE  h[b] \in Links
    <3>1. CASE b \in made
      BY <1>2, <1>10, <1>13, <3>1
    <3>2. CASE b \notin made
      BY <1>14, <3>2 DEF TypeOK
    <3> QED
      BY <3>1, <3>2
  <2> QED
    BY <1>4, <2>1
<1>16. Strand(h, l, ChunkSize)
  BY <1>6, <1>10, <1>13 DEF Strand
<1>17. AfterIn(l, l[1]) = h[l[1]]
  BY <1>7, <1>11, <1>13
<1> QED
  BY <1>1, <1>7, <1>8, <1>14, <1>15, <1>16, <1>17

LEMMA NewChunkKeeps ==
  ASSUME PoolInv, NEW t \in Threads, NewChunk(t)
  PROVE  PoolInv'
<1>1. PICK L : InPlace(L)
  BY DEF PoolInv
<1>2. TypeOK /\ CacheOK(t) /\ PlaceOK(t) /\ Disjoint /\ \A u \in Threads : TopOK(u)
  BY DEF PoolInv, Disjoint
<1>3. PICK c \in Cache : c = cache[t]
  BY <1>2 DEF TypeOK
<1>4. /\ pc[t] = "NewChunk" /\ pc' = [pc EXCEPT ![t] = "idle"] /\ chunkCount' = chunkCount + 1
      /\ crashed' = (MaxChunks # 0 /\ chunkCount' > MaxChunks) /\ oldTop' = [oldTop EXCEPT ![t] = Null]
      /\ chunkNext' = chunkNext /\ top' = top /\ head' = head /\ nextTop' = nextTop
      /\ rest' = rest /\ exiting' = exiting /\ slept' = slept
  BY DEF NewChunk, Go, At
<1>5. PICK l \in Lists(unmade) :
        LET made == {l[i] : i \in 1 .. ChunkSize}
            last == [i \in 1 .. ChunkSize |-> IF i = ChunkSize THEN NoBlock ELSE l[i + 1]]
            Follow(b) == last[CHOOSE i \in 1 .. ChunkSize : l[i] = b]
        IN  /\ unmade' = unmade \ made
            /\ next' = [b \in Blocks |-> IF b \in made THEN Follow(b) ELSE next[b]]
            /\ count' = [count EXCEPT ![l[1]] = ChunkSize]
            /\ inUse' = inUse \cup {l[1]}
            /\ cache' = [cache EXCEPT ![t].cur = Follow(l[1]), ![t].curCount = ChunkSize - 1]
  BY DEF NewChunk
<1>6. PICK made, h : made = MadeOf(l) /\ h = LinksOf(l)
  BY Zenon
<1>7. PICK s, n : s = l[1] /\ n = AfterIn(l, l[1])
  BY Zenon
<1>8. made = {l[i] : i \in 1 .. ChunkSize}
  BY <1>6 DEF MadeOf
<1>9. /\ unmade' = unmade \ MadeOf(l) /\ next' = LinksOf(l) /\ count' = [count EXCEPT ![l[1]] = ChunkSize]
      /\ inUse' = inUse \cup {l[1]}
      /\ cache' = [cache EXCEPT ![t].cur = AfterIn(l, l[1]), ![t].curCount = ChunkSize - 1]
  BY <1>5, Zenon DEF MadeOf, LinksOf, AfterIn, LastOf
<1>10. /\ unmade' = unmade \ made /\ next' = h /\ count' = [count EXCEPT ![s] = ChunkSize]
       /\ inUse' = inUse \cup {s}
       /\ cache' = [cache EXCEPT ![t].cur = n, ![t].curCount = ChunkSize - 1]
  BY <1>6, <1>7, <1>9, Zenon
<1>11. /\ h \in [Blocks -> Links] /\ Strand(h, l, ChunkSize) /\ made \subseteq unmade /\ s \in made
       /\ n = h[s] /\ \A b \in Blocks \ made : h[b] = next[b]
  BY <1>2, <1>6, <1>7, MadeIs
<1>12. /\ inUse \subseteq Blocks /\ unmade \subseteq Blocks /\ s \in Blocks /\ inUse \cap unmade = {}
       /\ s \notin Unused /\ made \cap Unused = {} /\ s = l[1]
  BY <1>2, <1>7, <1>11 DEF TypeOK, Unused, Disjoint
<1>13. Unused' = (Unused \cup made) \ {s}
  BY <1>10, <1>11, <1>12 DEF Unused
<1>14. l \in [1 .. ChunkSize -> Blocks \ Unused]
  BY <1>12 DEF Lists, Unused
<1>15. PICK m, o : m = Mines /\ o = Odds
  BY Zenon
<1>16. Placed(next, chunkNext, Unused, L, top.ptr, m, o) /\ m \in [Threads -> Links] /\ o \in [Threads -> Links]
  BY <1>1, <1>15, PlacedFacts DEF InPlace
<1>17. o[t] = NoBlock /\ m[t] = c.chunkTop /\ ~ Pushing(t) /\ ~ exiting[t]
  BY <1>2, <1>3, <1>4, <1>15 DEF Odds, Mines, Pushing, PlaceOK
<1>18. n \in Links /\ s \in Links
  BY <1>11, <1>12 DEF Links
<1>19. PICK o1, q : o1 = [o EXCEPT ![t] = s] /\ q = [o EXCEPT ![t] = n]
  BY Zenon
<1>20. Changed(o, o1, t, s) /\ Changed(o1, q, t, n) /\ Changed(o, q, t, n) /\ o1[t] = s
  BY <1>16, <1>18, <1>19 DEF Changed
<1>21. Same(next, h, Unused)
  BY <1>11, <1>12 DEF Same, Unused
<1>22. ChunkSize \in Nat \ {0}
  BY PoolAssumption
<1>23. /\ Placed(h, chunkNext, Unused \cup made, L, top.ptr, m, o1)
       /\ Size(h, s) = ChunkSize
       /\ \A x \in Unused \cup {NoBlock} : Size(h, x) = Size(next, x)
  <2>1. Changed(o, o1, t, l[1])
    BY <1>12, <1>20
  <2>2. Placed(h, chunkNext, Unused \cup {l[i] : i \in 1 .. ChunkSize}, L, top.ptr, m, o1)
    BY <1>11, <1>14, <1>16, <1>17, <1>21, <1>22, <2>1, Made
  <2>3. Size(h, l[1]) = ChunkSize /\ \A x \in Unused \cup {NoBlock} : Size(h, x) = Size(next, x)
    BY <1>11, <1>14, <1>16, <1>17, <1>21, <1>22, <2>1, <2>2, Made
  <2> QED
    BY <1>8, <1>12, <2>2, <2>3
<1>24. Size(h, n) + 1 = ChunkSize /\ Size(h, n) \in Nat
  <2>1. /\ \A b \in Unused \cup made : h[b] \in (Unused \cup made) \cup {NoBlock} /\ Size(h, b) = Size(h, h[b]) + 1
        /\ \A b \in (Unused \cup made) \cup {NoBlock} : Size(h, b) \in Nat
    BY <1>23, PlacedFacts
  <2> QED
    BY <1>11, <1>23, <2>1
<1>25. Placed(h, chunkNext, (Unused \cup made) \ {s}, L, top.ptr, m, q)
  <2>1. o1[t] # NoBlock /\ Changed(o1, q, t, h[o1[t]]) /\ o1[t] = s
    BY <1>11, <1>12, <1>20, PoolAssumption
  <2> QED
    BY <1>23, <2>1, Taken
<1>26. PICK d : d = [c EXCEPT !.cur = n, !.curCount = ChunkSize - 1]
  BY Zenon
<1>27. d \in Cache /\ d.cur = n /\ d.curCount = ChunkSize - 1 /\ d.chunkTop = c.chunkTop /\ d.chunkCount = c.chunkCount
  <2>1. ChunkSize - 1 \in 0 .. ChunkSize
    BY <1>22
  <2> QED
    BY <1>18, <1>26, <2>1 DEF Cache
<1>28. cache' = [cache EXCEPT ![t] = d]
  BY <1>3, <1>10, <1>26
<1>29. cache' \in [Threads -> Cache] /\ cache'[t] = d /\ \A u \in Threads \ {t} : cache'[u] = cache[u]
  BY <1>2, <1>27, <1>28 DEF TypeOK
<1>30. crashed' \in BOOLEAN /\ LimitTold'
  <2>1. crashed' = TRUE \/ crashed' = FALSE
    BY <1>4
  <2>2. crashed' => MaxChunks # 0 /\ chunkCount' > MaxChunks
    BY <1>4
  <2> QED
    BY <2>1, <2>2 DEF LimitTold
<1>31. TypeOK'
  <2>1. Null \in Tagged
    <3>1. 0 % TagLimit = 0 /\ 0 \in 0 .. TagLimit - 1 /\ NoBlock \in Links
      BY PoolAssumption DEF Links
    <3> QED
      BY <3>1 DEF Null, Make, Tagged
  <2>2. ChunkSize \in 0 .. ChunkSize
    BY <1>22
  <2>3. /\ next' \in [Blocks -> Links] /\ count' \in [Blocks -> 0 .. ChunkSize]
        /\ inUse' \subseteq Blocks /\ unmade' \subseteq Blocks
    BY <1>2, <1>10, <1>11, <1>12, <2>2 DEF TypeOK
  <2>4. chunkCount' \in Nat /\ oldTop' \in [Threads -> Tagged]
    BY <1>2, <1>4, <2>1 DEF TypeOK
  <2>5. pc' \in [Threads -> {"idle", "PopTop", "PopNext", "PopCas", "NewChunk",
                             "PushTop", "PushLink", "PushCas"}]
    BY <1>2, <1>4 DEF TypeOK
  <2> QED
    BY <1>2, <1>4, <1>29, <1>30, <2>3, <2>4, <2>5 DEF TypeOK
<1>32. pc'[t] = "idle" /\ \A u \in Threads \ {t} : pc'[u] = pc[u] /\ oldTop'[u] = oldTop[u]
  BY <1>2, <1>4 DEF TypeOK
<1>33. OnlyThread(t)
  BY <1>4, <1>29, <1>32 DEF OnlyThread, SameThread
<1>34. Odds' = q /\ Mines' = m
  <2>1. (IF exiting'[t] THEN rest'[t] ELSE cache'[t].chunkTop) = c.chunkTop
        /\ (IF Pushing(t)' THEN head'[t] ELSE cache'[t].cur) = n
    BY <1>4, <1>17, <1>27, <1>29, <1>32 DEF Pushing
  <2>2. Changed(m, Mines', t, c.chunkTop) /\ Changed(o, Odds', t, n)
    BY <1>15, <1>31, <1>33, <2>1, PlacesChange
  <2> QED
    BY <1>16, <1>17, <1>20, <2>2, PlacesSame, ChangedSame
<1>35. L \subseteq Unused /\ Unused \subseteq Blocks
       /\ \A u \in Threads : Pushing(u) => head[u] \in Unused \cup {NoBlock}
  BY <1>1, <1>2, InvFacts
<1>36. InPlace(L)'
  <2>1. ASSUME NEW x \in L
        PROVE  count'[x] = Size(next', x)
    <3>1. x \in Unused /\ x # s /\ x \in Blocks
      BY <1>12, <1>35
    <3>2. count[x] = Size(next, x)
      BY <1>1 DEF InPlace
    <3>3. count'[x] = count[x]
      BY <1>2, <1>10, <3>1 DEF TypeOK
    <3> QED
      BY <1>10, <1>23, <3>1, <3>2, <3>3
  <2> QED
    BY <1>4, <1>10, <1>13, <1>25, <1>34, <2>1 DEF InPlace
<1>37. SizesKept(L) /\ Same(chunkNext, chunkNext', L)
  BY <1>4, <1>10, <1>23 DEF SizesKept, Same
<1>38. PushedKept(t)
  <2>1. ASSUME NEW u \in Threads \ {t}, Pushing(u)
        PROVE  count'[head[u]] = count[head[u]]
    <3>1. head[u] # NoBlock
      BY <2>1 DEF PoolInv, PlaceOK
    <3>2. head[u] \in Unused /\ head[u] \in Blocks
      BY <1>35, <2>1, <3>1
    <3> QED
      BY <1>2, <1>10, <1>12, <3>2 DEF TypeOK
  <2> QED
    BY <1>4, <2>1 DEF PushedKept
<1>39. TopsKept(t)
  <2>1. ASSUME NEW u \in Threads \ {t}
        PROVE  TopOK(u)'
    BY <1>1, <1>2, <1>4, <1>33, <1>37, <1>38, TopKept
  <2> QED
    BY <2>1 DEF TopsKept
<1>40. CacheOK(t)'
  <2>1. cache'[t].curCount = Size(next', n) /\ cache'[t].curCount < ChunkSize
    BY <1>10, <1>22, <1>24, <1>27, <1>29
  <2> QED
    BY <1>2, <1>3, <1>4, <1>27, <1>29, <2>1 DEF CacheOK
<1>41. PlaceOK(t)'
  BY <1>2, <1>4, <1>17, <1>32 DEF PlaceOK, Pushing
<1>42. TopOK(t)'
  BY <1>32 DEF TopOK, Reading
<1>43. Disjoint'
  BY <1>10, <1>11, <1>12 DEF Disjoint
<1> QED
  BY <1>1, <1>30, <1>31, <1>33, <1>36, <1>37, <1>38, <1>39, <1>40, <1>41, <1>42, <1>43, Rebuilt

----------------------------------------------------------------------------
LEMMA InitInv == Init => PoolInv
<1>1. SUFFICES ASSUME Init PROVE PoolInv
  OBVIOUS
<1>2. /\ next = [b \in Blocks |-> NoBlock] /\ chunkNext = [b \in Blocks |-> NoBlock]
      /\ count = [b \in Blocks |-> 0] /\ inUse = {} /\ unmade = Blocks /\ top = Null
      /\ chunkCount = 0 /\ crashed = FALSE /\ cache = [t \in Threads |-> Empty]
      /\ pc = [t \in Threads |-> "idle"] /\ head = [t \in Threads |-> NoBlock]
      /\ nextTop = [t \in Threads |-> NoBlock] /\ rest = [t \in Threads |-> NoBlock]
      /\ oldTop = [t \in Threads |-> Null] /\ exiting = [t \in Threads |-> FALSE]
      /\ slept = [t \in Threads |-> 0]
  BY <1>1 DEF Init
<1>3. NoBlock \in Links /\ Null \in Tagged /\ Null.ptr = NoBlock /\ Empty \in Cache
      /\ 0 \in 0 .. ChunkSize /\ 0 \in 0 .. TagLimit - 1
  <2>1. 0 % TagLimit = 0 /\ 0 \in 0 .. TagLimit - 1 /\ 0 \in 0 .. ChunkSize /\ NoBlock \in Links
    BY PoolAssumption DEF Links
  <2> QED
    BY <2>1 DEF Null, Make, Tagged, Empty, Cache
<1>4. TypeOK
  BY <1>2, <1>3 DEF TypeOK
<1>5. Unused = {}
  BY <1>2 DEF Unused
<1>6. PICK m, o : m = Mines /\ o = Odds
  BY Zenon
<1>7. /\ m \in [Threads -> Links] /\ o \in [Threads -> Links]
      /\ \A t \in Threads : m[t] = NoBlock /\ o[t] = NoBlock
  BY <1>2, <1>3, <1>6 DEF Mines, Odds, Pushing, Empty
<1>8. \A f : AreLists(f, {}, {})
  <2>1. PICK e : e = [b \in {} |-> 1]
    BY Zenon
  <2>2. e \in [{} -> {}] /\ e \in [{} -> Nat \ {0}]
    BY <2>1
  <2>3. \A f : Strung(f, {}, e, e) /\ From({}, {}, e, e)
    BY <2>2 DEF Strung, From
  <2> QED
    BY <2>3 DEF AreLists
<1>9. Stacks(NoBlock, m) = {} /\ Loose(o) = {}
  BY <1>7 DEF Stacks, Loose
<1>10. Placed(next, chunkNext, {}, {}, NoBlock, m, o)
  <2>1. Apart({}, NoBlock, m, o)
    BY <1>7 DEF Apart, Alone
  <2> QED
    BY <1>3, <1>7, <1>8, <1>9, <2>1 DEF Placed
<1>11. InPlace({})
  BY <1>2, <1>3, <1>5, <1>6, <1>10 DEF InPlace
<1>12. ASSUME NEW t \in Threads
       PROVE  CacheOK(t) /\ PlaceOK(t) /\ TopOK(t)
  <2>1. Size(next, NoBlock) = 0 /\ Size(chunkNext, NoBlock) = 0
    BY None
  <2>2. CacheOK(t)
    BY <1>2, <2>1, PoolAssumption DEF CacheOK, Empty
  <2> QED
    BY <1>2, <2>2 DEF PlaceOK, TopOK, Pushing, Reading, Empty
<1> QED
  BY <1>2, <1>4, <1>11, <1>12 DEF PoolInv

LEMMA NextInv == PoolInv /\ [Next]_vars => PoolInv'
<1>1. SUFFICES ASSUME PoolInv, [Next]_vars PROVE PoolInv'
  OBVIOUS
<1>2. CASE Next
  <2>1. PICK t \in Threads :
          \/ Pool(t) \/ Alloc(t) \/ AllocOwnChunk(t) \/ AllocFromPool(t) \/ Exit(t)
          \/ \E b \in Blocks : Free(t, b) \/ Seal(t, b)
    BY <1>2 DEF Next
  <2>2. CASE Pool(t)
    <3>1. CASE Retry(t, "PopCas", "PopTop") \/ Retry(t, "PushCas", "PushTop")
      BY <1>1, <3>1, RetryKeeps
    <3>2. CASE PopTop(t) \/ PopNext(t) \/ PopCas(t) \/ NewChunk(t)
      BY <1>1, <3>2, PopTopKeeps, PopNextKeeps, PopCasKeeps, NewChunkKeeps
    <3>3. CASE PushTop(t) \/ PushLink(t) \/ PushCas(t)
      BY <1>1, <3>3, PushTopKeeps, PushLinkKeeps, PushCasKeeps
    <3> QED
      BY <2>2, <3>1, <3>2, <3>3 DEF Pool
  <2>3. CASE Alloc(t) \/ AllocOwnChunk(t) \/ AllocFromPool(t) \/ Exit(t)
    BY <1>1, <2>3, AllocKeeps, AllocOwnChunkKeeps, AllocFromPoolKeeps, ExitKeeps
  <2>4. CASE \E b \in Blocks : Free(t, b) \/ Seal(t, b)
    BY <1>1, <2>4, FreeKeeps, SealKeeps
  <2> QED
    BY <2>1, <2>2, <2>3, <2>4
<1>3. CASE UNCHANGED vars
  <2>1. /\ next' = next /\ chunkNext' = chunkNext /\ count' = count /\ inUse' = inUse /\ unmade' = unmade
        /\ chunkCount' = chunkCount /\ crashed' = crashed /\ top' = top /\ cache' = cache /\ pc' = pc
        /\ head' = head /\ oldTop' = oldTop /\ nextTop' = nextTop /\ rest' = rest
        /\ exiting' = exiting /\ slept' = slept
    BY <1>3 DEF vars, links, shared, locals
  <2>2. TypeOK'
    BY <1>1, <2>1 DEF PoolInv, TypeOK
  <2>3. Mines' = Mines /\ Odds' = Odds /\ Unused' = Unused
    BY <2>1 DEF Mines, Odds, Unused, Pushing
  <2>4. PICK L : InPlace(L)
    BY <1>1 DEF PoolInv
  <2>5. InPlace(L)'
    BY <2>1, <2>3, <2>4 DEF InPlace
  <2>6. ASSUME NEW t \in Threads
        PROVE  CacheOK(t)' /\ PlaceOK(t)' /\ TopOK(t)'
    <3>1. CacheOK(t) /\ PlaceOK(t) /\ TopOK(t)
      BY <1>1 DEF PoolInv
    <3> QED
      BY <2>1, <3>1 DEF CacheOK, PlaceOK, TopOK, Pushing
  <2> QED
    BY <1>1, <2>1, <2>2, <2>5, <2>6 DEF PoolInv
<1> QED
  BY <1>1, <1>2, <1>3

\* The invariant holds in every state.
THEOREM PoolInvariant == Spec => []PoolInv
<1> QED
  BY InitInv, NextInv, PTL DEF Spec

\* Every variable holds a value of its type in every state.
THEOREM PoolTypes == Spec => []TypeOK
<1>1. PoolInv => TypeOK
  BY DEF PoolInv
<1> QED
  BY <1>1, PoolInvariant, PTL

----------------------------------------------------------------------------
(***************************************************************************)
(* What the invariant says of the chunks.                                  *)
(***************************************************************************)

PoolChunk(c)   == \E b \in Reach(chunkNext, top.ptr) : c = <<"pool", b>>
OwnChunk(t, c) == \E b \in Reach(chunkNext, Mines[t]) : c = <<t, "own", b>>
OddChunk(t, c) == Odds[t] # NoBlock /\ c = <<t, IF Pushing(t) THEN "push" ELSE "cur", Odds[t]>>

\* Every chunk is one of the pool's, or of a thread's own, or a thread's odd one.
LEMMA ChunkKinds ==
  ASSUME PoolInv
  PROVE  \A c : c \in Chunks <=> \/ PoolChunk(c)
                                 \/ \E t \in Threads : OwnChunk(t, c) \/ OddChunk(t, c)
<1>1. ASSUME NEW t \in Threads
      PROVE  /\ OwnChunks(t) = Reach(chunkNext, Mines[t])
             /\ Pushing(t) => Odds[t] = head[t] /\ head[t] # NoBlock /\ cache[t].cur = NoBlock
             /\ ~ Pushing(t) => Odds[t] = cache[t].cur
  <2>1. PlaceOK(t)
    BY DEF PoolInv
  <2>2. Reach(chunkNext, NoBlock) = {}
    BY None
  <2>3. OwnChunks(t) = Reach(chunkNext, Mines[t])
    BY <2>1, <2>2 DEF OwnChunks, Mines, PlaceOK, Empty
  <2> QED
    BY <2>1, <2>3 DEF Odds, PlaceOK, Pushing
<1>2. ASSUME NEW c \in Chunks
      PROVE  PoolChunk(c) \/ \E t \in Threads : OwnChunk(t, c) \/ OddChunk(t, c)
  <2>1. CASE \E b \in Reach(chunkNext, top.ptr) : c = <<"pool", b>>
    BY <2>1 DEF PoolChunk
  <2>2. CASE \E t \in Threads : \E b \in OwnChunks(t) : c = <<t, "own", b>>
    BY <1>1, <2>2 DEF OwnChunk
  <2>3. CASE \E t \in Threads : Pushing(t) /\ c = <<t, "push", head[t]>>
    BY <1>1, <2>3 DEF OddChunk
  <2>4. CASE \E t \in Threads : cache[t].cur # NoBlock /\ c = <<t, "cur", cache[t].cur>>
    BY <1>1, <2>4 DEF OddChunk
  <2> QED
    BY <2>1, <2>2, <2>3, <2>4 DEF Chunks
<1>3. ASSUME NEW c, PoolChunk(c) PROVE c \in Chunks
  BY <1>3 DEF PoolChunk, Chunks
<1>4. ASSUME NEW c, NEW t \in Threads, OwnChunk(t, c) PROVE c \in Chunks
  BY <1>1, <1>4 DEF OwnChunk, Chunks
<1>5. ASSUME NEW c, NEW t \in Threads, OddChunk(t, c) PROVE c \in Chunks
  <2>1. CASE Pushing(t)
    BY <1>1, <1>5, <2>1 DEF OddChunk, Chunks
  <2>2. CASE ~ Pushing(t)
    BY <1>1, <1>5, <2>2 DEF OddChunk, Chunks
  <2> QED
    BY <2>1, <2>2
<1> QED
  BY <1>2, <1>3, <1>4, <1>5

\* The lists they are in.
LEMMA ChunkLists ==
  ASSUME NEW L, InPlace(L)
  PROVE  /\ AreLists(next, Unused, L \cup Loose(Odds)) /\ AreLists(chunkNext, L, Stacks(top.ptr, Mines))
         /\ Apart(L, top.ptr, Mines, Odds)
BY DEF InPlace, Placed

\* The first block of each.
LEMMA ChunkFirst ==
  ASSUME PoolInv, NEW L, InPlace(L), NEW c
  PROVE  /\ PoolChunk(c) => First(c) \in L /\ c = <<"pool", First(c)>> /\ First(c) \in Reach(chunkNext, top.ptr)
         /\ \A t \in Threads : OwnChunk(t, c) =>
              First(c) \in L /\ c = <<t, "own", First(c)>> /\ First(c) \in Reach(chunkNext, Mines[t])
         /\ \A t \in Threads : OddChunk(t, c) =>
              First(c) = Odds[t] /\ First(c) # NoBlock /\ First(c) \in Loose(Odds) /\ First(c) \notin L
<1>1. /\ AreLists(chunkNext, L, Stacks(top.ptr, Mines)) /\ Apart(L, top.ptr, Mines, Odds)
  BY ChunkLists
<1>2. \A x : x \in Stacks(top.ptr, Mines) \cup {NoBlock} => Reach(chunkNext, x) \subseteq L
  BY <1>1, ListFacts, None
<1>3. top.ptr \in Stacks(top.ptr, Mines) \cup {NoBlock}
      /\ \A t \in Threads : Mines[t] \in Stacks(top.ptr, Mines) \cup {NoBlock}
  BY DEF Stacks
<1>4. ASSUME PoolChunk(c)
      PROVE  First(c) \in L /\ c = <<"pool", First(c)>> /\ First(c) \in Reach(chunkNext, top.ptr)
  <2>1. PICK b \in Reach(chunkNext, top.ptr) : c = <<"pool", b>>
    BY <1>4 DEF PoolChunk
  <2>2. First(c) = b
    BY <2>1 DEF First
  <2> QED
    BY <1>2, <1>3, <2>1, <2>2
<1>5. ASSUME NEW t \in Threads, OwnChunk(t, c)
      PROVE  First(c) \in L /\ c = <<t, "own", First(c)>> /\ First(c) \in Reach(chunkNext, Mines[t])
  <2>1. PICK b \in Reach(chunkNext, Mines[t]) : c = <<t, "own", b>>
    BY <1>5 DEF OwnChunk
  <2>2. First(c) = b
    BY <2>1 DEF First
  <2> QED
    BY <1>2, <1>3, <2>1, <2>2
<1>6. ASSUME NEW t \in Threads, OddChunk(t, c)
      PROVE  First(c) = Odds[t] /\ First(c) # NoBlock /\ First(c) \in Loose(Odds) /\ First(c) \notin L
  <2>1. Odds[t] # NoBlock /\ First(c) = Odds[t]
    BY <1>6 DEF OddChunk, First
  <2> QED
    BY <1>1, <2>1 DEF Loose, Apart
<1> QED
  BY <1>4, <1>5, <1>6

LEMMA InvCounts == PoolInv => CountsExact
<1>1. SUFFICES ASSUME PoolInv PROVE CountsExact
  OBVIOUS
<1>2. PICK L : InPlace(L)
  BY <1>1 DEF PoolInv
<1>3. ASSUME NEW c \in Chunks
      PROVE  IF c[Len(c) - 1] = "cur" THEN Cardinality(Reach(next, First(c))) = cache[c[1]].curCount
             ELSE Cardinality(Reach(next, First(c))) = count[First(c)]
  <2>1. \A b \in L : count[b] = Size(next, b)
    BY <1>2 DEF InPlace
  <2>2. CASE PoolChunk(c)
    <3>1. PICK a : a = First(c)
      BY Zenon
    <3>2. a \in L /\ c = <<"pool", a>>
      BY <1>1, <1>2, <2>2, <3>1, ChunkFirst
    <3>3. c[Len(c) - 1] = "pool"
      BY <3>2
    <3> QED
      BY <2>1, <3>1, <3>2, <3>3 DEF Size
  <2>3. ASSUME NEW t \in Threads, OwnChunk(t, c)
        PROVE  c[Len(c) - 1] = "own" /\ First(c) \in L
    <3>1. PICK a : a = First(c)
      BY Zenon
    <3>2. a \in L /\ c = <<t, "own", a>>
      BY <1>1, <1>2, <2>3, <3>1, ChunkFirst
    <3> QED
      BY <3>1, <3>2
  <2>4. ASSUME NEW t \in Threads, OddChunk(t, c), Pushing(t)
        PROVE  c[Len(c) - 1] = "push" /\ count[First(c)] = Size(next, First(c))
    <3>1. Odds[t] = head[t] /\ count[head[t]] = Size(next, head[t])
      BY <1>1, <2>4 DEF Odds, PoolInv, PlaceOK
    <3>2. c = <<t, "push", Odds[t]>>
      BY <2>4 DEF OddChunk
    <3>3. First(c) = Odds[t] /\ c[Len(c) - 1] = "push"
      BY <3>2 DEF First
    <3> QED
      BY <3>1, <3>3
  <2>5. ASSUME NEW t \in Threads, OddChunk(t, c), ~ Pushing(t)
        PROVE  c[Len(c) - 1] = "cur" /\ c[1] = t /\ cache[t].curCount = Size(next, First(c))
    <3>1. Odds[t] = cache[t].cur /\ cache[t].curCount = Size(next, cache[t].cur)
      BY <1>1, <2>5 DEF Odds, PoolInv, CacheOK
    <3>2. c = <<t, "cur", Odds[t]>>
      BY <2>5 DEF OddChunk
    <3>3. First(c) = Odds[t] /\ c[Len(c) - 1] = "cur" /\ c[1] = t
      BY <3>2 DEF First
    <3> QED
      BY <3>1, <3>3
  <2>6. PoolChunk(c) \/ \E t \in Threads : OwnChunk(t, c) \/ OddChunk(t, c)
    BY <1>1, ChunkKinds
  <2>7. CASE \E t \in Threads : OwnChunk(t, c)
    BY <2>1, <2>3, <2>7 DEF Size
  <2>8. CASE \E t \in Threads : OddChunk(t, c)
    <3>1. PICK t \in Threads : OddChunk(t, c)
      BY <2>8
    <3>2. CASE Pushing(t)
      BY <2>4, <3>1, <3>2 DEF Size
    <3>3. CASE ~ Pushing(t)
      BY <2>5, <3>1, <3>3 DEF Size
    <3> QED
      BY <3>2, <3>3
  <2> QED
    BY <2>2, <2>6, <2>7, <2>8
<1>4. \A t \in Threads : cache[t].chunkCount = Cardinality(Reach(chunkNext, cache[t].chunkTop))
  BY <1>1 DEF PoolInv, CacheOK, Size
<1> QED
  BY <1>3, <1>4 DEF CountsExact

LEMMA InvBounded == PoolInv => CacheBounded
<1>1. SUFFICES ASSUME PoolInv, NEW t \in Threads
               PROVE  Cardinality(UNION {Reach(next, b) : b \in {cache[t].cur} \cup Reach(chunkNext, cache[t].chunkTop)})
                        < (TlsMaxChunks + 1) * ChunkSize
  BY DEF CacheBounded
<1>2. PICK L : InPlace(L)
  BY <1>1 DEF PoolInv
<1>3. TypeOK /\ CacheOK(t) /\ PlaceOK(t)
  BY <1>1 DEF PoolInv
<1>4. PICK T, s : T = Reach(chunkNext, cache[t].chunkTop) /\ s = cache[t].cur
  BY Zenon
<1>5. AreLists(next, Unused, L \cup Loose(Odds)) /\ AreLists(chunkNext, L, Stacks(top.ptr, Mines))
  BY <1>2, ChunkLists
<1>6. /\ L \subseteq Blocks /\ L \subseteq Unused
      /\ \A b \in Unused : IsFiniteSet(Reach(next, b))
      /\ \A b \in L : Reach(chunkNext, b) \subseteq L
  BY <1>5, ListFacts
<1>7. cache[t].chunkTop \in L \cup {NoBlock} /\ s \in Unused \cup {NoBlock}
  BY <1>2, <1>3, <1>4, InvFacts DEF PlaceOK, Empty, Pushing
<1>8. Reach(chunkNext, NoBlock) = {} /\ Reach(next, NoBlock) = {}
  BY None
<1>9. T \subseteq L /\ IsFiniteSet(Reach(next, s))
  BY <1>4, <1>6, <1>7, <1>8, FS_EmptySet
<1>10. PICK m \in Nat \ {0} : m = ChunkSize
  BY PoolAssumption
<1>11. ASSUME NEW b \in T
       PROVE  IsFiniteSet(Reach(next, b)) /\ Size(next, b) <= m
  <2>1. b \in L /\ b \in Unused /\ b \in Blocks
    BY <1>6, <1>9
  <2>2. count[b] = Size(next, b)
    BY <1>2, <2>1 DEF InPlace
  <2>3. count[b] \in 0 .. m
    BY <1>3, <1>10, <2>1 DEF TypeOK
  <2> QED
    BY <1>6, <2>1, <2>2, <2>3
<1>12. PICK U : U = UNION {Reach(next, b) : b \in T}
  BY Zenon
<1>13. IsFiniteSet(U) /\ Cardinality(T) \in Nat /\ Cardinality(U) <= Cardinality(T) * m
  <2>1. T \in SUBSET Blocks
    BY <1>6, <1>9
  <2> QED
    BY <1>11, <1>12, <2>1, UnionSize
<1>14. UNION {Reach(next, b) : b \in {s} \cup T} = U \cup Reach(next, s)
  BY <1>12
<1>15. PICK i, j, k, n : /\ i = Cardinality(U) /\ j = Cardinality(Reach(next, s))
                         /\ k = Cardinality(T) /\ n = TlsMaxChunks
  BY Zenon
<1>16. i \in Nat /\ j \in Nat /\ k \in Nat /\ n \in Nat
  BY <1>9, <1>13, <1>15, FS_CardinalityType, PoolAssumption
<1>17. i <= k * m /\ j < m /\ k <= n
  <2>1. j = cache[t].curCount /\ cache[t].curCount < m /\ k = cache[t].chunkCount /\ cache[t].chunkCount <= n
    BY <1>3, <1>4, <1>10, <1>15 DEF CacheOK, Size
  <2> QED
    BY <1>13, <1>15, <2>1
<1>18. Cardinality(U \cup Reach(next, s)) <= i + j
  <2>1. /\ Cardinality(U \cup Reach(next, s)) =
             Cardinality(U) + Cardinality(Reach(next, s)) - Cardinality(U \cap Reach(next, s))
        /\ IsFiniteSet(U \cap Reach(next, s))
    BY <1>9, <1>13, FS_Union, FS_Intersection
  <2>2. Cardinality(U \cap Reach(next, s)) \in Nat
    BY <2>1, FS_CardinalityType
  <2> QED
    BY <1>15, <1>16, <2>1, <2>2
<1>19. i + j < (n + 1) * m
  <2>1. k * m <= n * m
    BY <1>10, <1>16, <1>17
  <2>2. (n + 1) * m = n * m + m
    BY <1>10, <1>16
  <2>3. k * m \in Nat /\ n * m \in Nat
    BY <1>10, <1>16
  <2> QED
    BY <1>10, <1>16, <1>17, <2>1, <2>2, <2>3
<1>20. Cardinality(U \cup Reach(next, s)) \in Nat
  BY <1>9, <1>13, FS_Union, FS_CardinalityType
<1>21. (n + 1) * m \in Nat
  BY <1>10, <1>16
<1>22. Cardinality(U \cup Reach(next, s)) < (n + 1) * m
  BY <1>16, <1>18, <1>19, <1>20, <1>21
<1> QED
  BY <1>4, <1>10, <1>14, <1>15, <1>22

\* What a chunk holds is unused.
LEMMA HeldUnused ==
  ASSUME PoolInv, NEW c \in Chunks
  PROVE  Reach(next, First(c)) \subseteq Unused
<1>1. PICK L : InPlace(L)
  BY DEF PoolInv
<1>2. AreLists(next, Unused, L \cup Loose(Odds))
  BY <1>1, ChunkLists
<1>3. PoolChunk(c) \/ \E t \in Threads : OwnChunk(t, c) \/ OddChunk(t, c)
  BY ChunkKinds
<1>4. First(c) \in L \cup Loose(Odds)
  BY <1>1, <1>3, ChunkFirst
<1> QED
  BY <1>2, <1>4, ListFacts

\* An unused block is in some chunk.
LEMMA SomeHolds ==
  ASSUME PoolInv, NEW b \in Unused
  PROVE  \E c \in Chunks : b \in Reach(next, First(c))
<1>1. PICK L : InPlace(L)
  BY DEF PoolInv
<1>2. AreLists(next, Unused, L \cup Loose(Odds)) /\ AreLists(chunkNext, L, Stacks(top.ptr, Mines))
  BY <1>1, ChunkLists
<1>3. PICK a \in L \cup Loose(Odds) : b \in Reach(next, a)
  BY <1>2, ListFacts
<1>4. CASE a \in L
  <2>1. PICK s \in Stacks(top.ptr, Mines) : a \in Reach(chunkNext, s)
    BY <1>2, <1>4, ListFacts
  <2>2. CASE s = top.ptr
    <3>1. PoolChunk(<<"pool", a>>)
      BY <2>1, <2>2 DEF PoolChunk
    <3>2. <<"pool", a>> \in Chunks /\ First(<<"pool", a>>) = a
      BY <3>1, ChunkKinds DEF First
    <3> QED
      BY <1>3, <3>2
  <2>3. CASE \E t \in Threads : s = Mines[t]
    <3>1. PICK t \in Threads : s = Mines[t]
      BY <2>3
    <3>2. OwnChunk(t, <<t, "own", a>>)
      BY <2>1, <3>1 DEF OwnChunk
    <3>3. <<t, "own", a>> \in Chunks /\ First(<<t, "own", a>>) = a
      BY <3>2, ChunkKinds DEF First
    <3> QED
      BY <1>3, <3>3
  <2> QED
    BY <2>1, <2>2, <2>3 DEF Stacks
<1>5. CASE a \in Loose(Odds)
  <2>1. PICK t \in Threads : a = Odds[t] /\ a # NoBlock
    BY <1>5 DEF Loose
  <2>2. PICK c : c = <<t, IF Pushing(t) THEN "push" ELSE "cur", a>>
    BY Zenon
  <2>3. OddChunk(t, c) /\ First(c) = a
    BY <2>1, <2>2 DEF OddChunk, First
  <2>4. c \in Chunks
    BY <2>3, ChunkKinds
  <2> QED
    BY <1>3, <2>3, <2>4
<1> QED
  BY <1>3, <1>4, <1>5

\* No block is in two chunks.
LEMMA OneHolds ==
  ASSUME PoolInv, NEW c \in Chunks, NEW d \in Chunks, NEW b,
         b \in Reach(next, First(c)), b \in Reach(next, First(d))
  PROVE  c = d
<1>1. PICK L : InPlace(L)
  BY DEF PoolInv
<1>2. PICK S, R : S = Stacks(top.ptr, Mines) /\ R = L \cup Loose(Odds)
  BY Zenon
<1>3. AreLists(next, Unused, R) /\ AreLists(chunkNext, L, S) /\ Apart(L, top.ptr, Mines, Odds)
  BY <1>1, <1>2, ChunkLists
<1>4. /\ PoolChunk(c) \/ \E t \in Threads : OwnChunk(t, c) \/ OddChunk(t, c)
      /\ PoolChunk(d) \/ \E t \in Threads : OwnChunk(t, d) \/ OddChunk(t, d)
  BY ChunkKinds
<1>5. First(c) \in R /\ First(d) \in R
  BY <1>1, <1>2, <1>4, ChunkFirst
<1>6. First(c) = First(d)
  BY <1>3, <1>5, ListFacts
<1>7. PICK a : a = First(c)
  BY Zenon
<1>8. \A x, y \in S \cup {NoBlock} : a \in Reach(chunkNext, x) /\ a \in Reach(chunkNext, y) => x = y /\ x # NoBlock
  BY <1>3, ListFacts, None
<1>9. top.ptr \in S \cup {NoBlock} /\ \A t \in Threads : Mines[t] \in S \cup {NoBlock}
  BY <1>2 DEF Stacks
<1>10. CASE PoolChunk(c)
  <2>1. a \in L /\ c = <<"pool", a>> /\ a \in Reach(chunkNext, top.ptr)
    BY <1>1, <1>7, <1>10, ChunkFirst
  <2>2. CASE PoolChunk(d)
    BY <1>1, <1>6, <1>7, <2>1, <2>2, ChunkFirst
  <2>3. ASSUME NEW t \in Threads, OwnChunk(t, d) PROVE FALSE
    <3>1. a \in Reach(chunkNext, Mines[t])
      BY <1>1, <1>6, <1>7, <2>3, ChunkFirst
    <3> QED
      BY <1>3, <1>8, <1>9, <2>1, <3>1 DEF Apart
  <2>4. ASSUME NEW t \in Threads, OddChunk(t, d) PROVE FALSE
    BY <1>1, <1>6, <1>7, <2>1, <2>4, ChunkFirst
  <2> QED
    BY <1>4, <2>2, <2>3, <2>4
<1>11. ASSUME NEW t \in Threads, OwnChunk(t, c) PROVE c = d
  <2>1. a \in L /\ c = <<t, "own", a>> /\ a \in Reach(chunkNext, Mines[t])
    BY <1>1, <1>7, <1>11, ChunkFirst
  <2>2. ASSUME PoolChunk(d) PROVE FALSE
    <3>1. a \in Reach(chunkNext, top.ptr)
      BY <1>1, <1>6, <1>7, <2>2, ChunkFirst
    <3> QED
      BY <1>3, <1>8, <1>9, <2>1, <3>1 DEF Apart
  <2>3. ASSUME NEW u \in Threads, OwnChunk(u, d) PROVE c = d
    <3>1. a \in Reach(chunkNext, Mines[u]) /\ d = <<u, "own", a>>
      BY <1>1, <1>6, <1>7, <2>3, ChunkFirst
    <3>2. Mines[t] = Mines[u] /\ Mines[t] # NoBlock
      BY <1>8, <1>9, <2>1, <3>1
    <3>3. Alone(Mines, t)
      BY <1>3 DEF Apart
    <3>4. u = t
      BY <3>2, <3>3 DEF Alone
    <3> QED
      BY <2>1, <3>1, <3>4
  <2>4. ASSUME NEW u \in Threads, OddChunk(u, d) PROVE FALSE
    BY <1>1, <1>6, <1>7, <2>1, <2>4, ChunkFirst
  <2> QED
    BY <1>4, <2>2, <2>3, <2>4
<1>12. ASSUME NEW t \in Threads, OddChunk(t, c) PROVE c = d
  <2>1. a = Odds[t] /\ a # NoBlock /\ a \notin L
    BY <1>1, <1>7, <1>12, ChunkFirst
  <2>2. ~ PoolChunk(d) /\ \A u \in Threads : ~ OwnChunk(u, d)
    BY <1>1, <1>6, <1>7, <2>1, ChunkFirst
  <2>3. PICK u \in Threads : OddChunk(u, d)
    BY <1>4, <2>2
  <2>4. a = Odds[u]
    BY <1>1, <1>6, <1>7, <2>3, ChunkFirst
  <2>5. Alone(Odds, t)
    BY <1>3 DEF Apart
  <2>6. u = t
    BY <2>1, <2>4, <2>5 DEF Alone
  <2> QED
    BY <1>12, <2>3, <2>6 DEF OddChunk
<1> QED
  BY <1>4, <1>10, <1>11, <1>12

\* The pool keeps to the maximum it was made with, if any.
WithinMax == MaxChunks = 0 \/ chunkCount <= MaxChunks

LEMMA InvOnePlace == PoolInv /\ WithinMax => OnePlace
<1>1. SUFFICES ASSUME PoolInv, WithinMax PROVE OnePlace
  OBVIOUS
<1>2. ~ crashed
  <2>1. chunkCount \in Nat /\ MaxChunks \in Nat /\ (crashed => MaxChunks # 0 /\ chunkCount > MaxChunks)
    BY <1>1, PoolAssumption DEF PoolInv, TypeOK
  <2> QED
    BY <1>1, <2>1 DEF WithinMax
<1>3. inUse \cap unmade = {}
  BY <1>1 DEF PoolInv
<1>4. PICK holding : holding = [c \in Chunks |-> Reach(next, First(c))]
  BY Zenon
<1>5. ASSUME NEW b \in Blocks
      PROVE  Cardinality({c \in DOMAIN holding : b \in holding[c]})
               + (IF b \in inUse THEN 1 ELSE 0) + (IF b \in unmade THEN 1 ELSE 0) = 1
  <2>1. PICK H : H = {c \in DOMAIN holding : b \in holding[c]}
    BY Zenon
  <2>2. H = {c \in Chunks : b \in Reach(next, First(c))}
    BY <1>4, <2>1
  <2>3. CASE b \in Unused
    <3>1. PICK c \in Chunks : b \in Reach(next, First(c))
      BY <1>1, <2>3, SomeHolds
    <3>2. H = {c}
      BY <1>1, <2>2, <3>1, OneHolds
    <3>3. Cardinality(H) = 1
      BY <3>2, FS_Singleton
    <3>4. b \notin inUse /\ b \notin unmade
      BY <2>3 DEF Unused
    <3> QED
      BY <2>1, <3>3, <3>4
  <2>4. CASE b \notin Unused
    <3>1. H = {}
      BY <1>1, <2>2, <2>4, HeldUnused
    <3>2. Cardinality(H) = 0
      BY <3>1, FS_EmptySet
    <3>3. (b \in inUse /\ b \notin unmade) \/ (b \notin inUse /\ b \in unmade)
      BY <1>3, <2>4 DEF Unused
    <3> QED
      BY <2>1, <3>2, <3>3
  <2> QED
    BY <2>3, <2>4
<1> QED
  BY <1>2, <1>4, <1>5 DEF OnePlace

\* Every block is in use, or in one chunk in one place, or not made yet, and the
\* checks of useFlag never fire, unless a pool that was made with a maximum passes
\* it: neither PopChunk, nor Refill, Free and Seal, nor ~Cache loses a block or
\* gives one out twice.
THEOREM BlocksInOnePlace == Spec => [](WithinMax => OnePlace)
<1>1. PoolInv => (WithinMax => OnePlace)
  BY InvOnePlace
<1> QED
  BY <1>1, PoolInvariant, PTL

\* The numbers that are written down are right: count in a chunk that Seal or
\* ~Cache passes on, curCount and chunkCount in a cache.
THEOREM CountsRight == Spec => []CountsExact
<1> QED
  BY InvCounts, PoolInvariant, PTL

\* A cache holds fewer blocks than TlsMaxChunks + 1 chunks: Seal pushes what is
\* beyond, whoever took the blocks that come in.
THEOREM CacheInBounds == Spec => []CacheBounded
<1> QED
  BY InvBounded, PoolInvariant, PTL

=============================================================================
