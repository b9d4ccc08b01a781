--------------------------- MODULE RecvFramingProofs ---------------------------
(***************************************************************************)
(* What peers send arrives as it was sent: proofs, for any size of the     *)
(* ring, of packets and of bytes, any streams and any cut of them.         *)
(***************************************************************************)
EXTENDS RecvFraming, FiniteSetTheorems, SequenceTheorems, WellFoundedInduction, TLAPS

----------------------------------------------------------------------------
(***************************************************************************)
(* Induction, and what recursion defines.                                  *)
(***************************************************************************)

\* Every non-empty set of naturals has a least element.
LEMMA LeastOf == \A T \in SUBSET Nat : T # {} => \E x \in T : \A y \in T : x <= y
<1> DEFINE R == {p \in Nat \X Nat : p[1] < p[2]}
<1>1. IsWellFoundedOn(R, Nat)
  BY NatLessThanWellFounded DEF OpToRel
<1>2. ASSUME NEW T \in SUBSET Nat, T # {}
      PROVE  \E x \in T : \A y \in T : x <= y
  <2>1. PICK x \in T : \A y \in T : ~ (<<y, x>> \in R)
    <3>1. T \subseteq Nat /\ T # {}
      BY <1>2
    <3> HIDE DEF R
    <3> QED
      BY <1>1, <3>1, WFMin, Zenon
  <2>2. \A y \in T : ~(y < x)
    BY <2>1
  <2> HIDE DEF R
  <2>3. \A y \in T : x <= y
    BY <1>2, <2>2
  <2> QED
    BY <2>3
<1> QED
  BY <1>2

\* A set that holds 0 and with every n its successor is Nat.
LEMMA Induction ==
  ASSUME NEW S \in SUBSET Nat, 0 \in S, \A n \in S : n + 1 \in S
  PROVE  S = Nat
<1> DEFINE T == Nat \ S
<1>1. SUFFICES ASSUME T # {}
               PROVE  FALSE
  OBVIOUS
<1>2. PICK x \in T : \A y \in T : x <= y
  BY <1>1, LeastOf
<1>3. x # 0 /\ x - 1 \in Nat
  BY <1>2
<1>4. x - 1 \in S
  BY <1>2, <1>3
<1> QED
  BY <1>2, <1>4

\* What holds at 0 and goes on from n - 1 to n holds up to N.
LEMMA UpTo ==
  ASSUME NEW N \in Nat, NEW S, 0 \in S, \A n \in 1 .. N : n - 1 \in S => n \in S
  PROVE  \A n \in 0 .. N : n \in S
<1> DEFINE T == {n \in Nat : n <= N => n \in S}
<1>1. 0 \in T
  OBVIOUS
<1>2. ASSUME NEW n \in T
      PROVE  n + 1 \in T
  <2>1. CASE n + 1 <= N
    <3>1. n \in S /\ n + 1 \in 1 .. N /\ (n + 1) - 1 = n
      BY <2>1
    <3>2. (n + 1) - 1 \in S
      BY <3>1
    <3> QED
      BY <3>1, <3>2
  <2>2. CASE ~(n + 1 <= N)
    BY <2>2
  <2> QED
    BY <2>1, <2>2
<1>3. T = Nat
  <2> HIDE DEF T
  <2>1. T \in SUBSET Nat
    BY DEF T
  <2> QED
    BY <1>1, <1>2, <2>1, Induction
<1> QED
  BY <1>3

\* There is a function that starts with x and goes on by F.
Follows(g, N, X, x, F) ==
  g \in [0 .. N -> X] /\ g[0] = x /\ \A n \in 1 .. N : g[n] = F[<<n, g[n - 1]>>]

LEMMA Recursion ==
  ASSUME NEW N \in Nat, NEW X, NEW x \in X, NEW F \in [(1 .. N) \X X -> X]
  PROVE  \E g : Follows(g, N, X, x, F)
<1> DEFINE Goes(m, g) == g[0] = x /\ \A n \in 1 .. m : g[n] = F[<<n, g[n - 1]>>]
           S == {m \in 0 .. N : \E g \in [0 .. N -> X] : Goes(m, g)}
<1>1. 0 \in S
  <2>1. PICK g \in [0 .. N -> X] : g = [n \in 0 .. N |-> x]
    OBVIOUS
  <2>2. Goes(0, g)
    BY <2>1
  <2> HIDE DEF Goes
  <2> QED
    BY <2>2
<1>2. ASSUME NEW m \in 1 .. N, m - 1 \in S
      PROVE  m \in S
  <2>1. PICK g \in [0 .. N -> X] : Goes(m - 1, g)
    BY <1>2
  <2>2. PICK y \in X : y = F[<<m, g[m - 1]>>]
    <3>1. g[m - 1] \in X
      OBVIOUS
    <3>2. F[<<m, g[m - 1]>>] \in X
      BY <3>1
    <3> QED
      BY <3>2, Zenon
  <2>3. PICK h \in [0 .. N -> X] : h = [g EXCEPT ![m] = y]
    OBVIOUS
  <2>4. h[0] = g[0] /\ h[m] = y /\ \A n \in 0 .. m - 1 : h[n] = g[n]
    BY <2>3
  <2>5. ASSUME NEW n \in 1 .. m
        PROVE  h[n] = F[<<n, h[n - 1]>>]
    <3>1. h[n - 1] = g[n - 1]
      BY <2>4
    <3>2. CASE n = m
      BY <2>2, <2>4, <3>1, <3>2
    <3>3. CASE n # m
      <4>1. n \in 1 .. m - 1 /\ h[n] = g[n]
        BY <2>4, <3>3
      <4> QED
        BY <2>1, <3>1, <4>1
    <3> QED
      BY <3>2, <3>3
  <2>6. Goes(m, h)
    BY <2>1, <2>4, <2>5
  <2> HIDE DEF Goes
  <2> QED
    BY <2>6
<1>3. N \in S
  <2> HIDE DEF S
  <2>1. \A n \in 0 .. N : n \in S
    BY <1>1, <1>2, UpTo
  <2> QED
    BY <2>1
<1> QED
  BY <1>3 DEF Follows

----------------------------------------------------------------------------
(***************************************************************************)
(* Bytes.                                                                  *)
(***************************************************************************)

\* Each bit doubles the number of values.
LEMMA ValuesAre ==
  /\ Values[0] = 1
  /\ \A n \in 1 .. Width : Values[n] = 2 * Values[n - 1]
  /\ \A n \in 0 .. Width : Values[n] \in Nat \ {0}
<1> DEFINE V(g) == g = [n \in 0 .. Width |-> IF n = 0 THEN 1 ELSE 2 * g[n - 1]]
<1>1. Width \in Nat \ {0}
  BY PacketAssumption
<1>2. \E g : V(g)
  <2>1. PICK F : F = [q \in (1 .. Width) \X Nat |-> 2 * q[2]]
    OBVIOUS
  <2>2. F \in [(1 .. Width) \X Nat -> Nat]
    BY <2>1
  <2>3. PICK g : Follows(g, Width, Nat, 1, F)
    <3>1. 1 \in Nat /\ Width \in Nat
      BY <1>1
    <3> QED
      BY <2>2, <3>1, Recursion
  <2>4. \A n \in 1 .. Width : g[n] = 2 * g[n - 1]
    <3>1. \A n \in 1 .. Width : g[n - 1] \in Nat
      BY <1>1, <2>3 DEF Follows
    <3>2. \A n \in 1 .. Width : F[<<n, g[n - 1]>>] = 2 * g[n - 1]
      BY <2>1, <3>1
    <3> QED
      BY <2>3, <3>2 DEF Follows
  <2>5. V(g)
    BY <1>1, <2>3, <2>4 DEF Follows
  <2> QED
    BY <2>5
<1>3. Values = CHOOSE g : V(g)
  BY DEF Values
<1>4. V(Values)
  <2> HIDE DEF V
  <2> QED
    BY <1>2, <1>3
<1>5. \A n \in 0 .. Width : Values[n] = IF n = 0 THEN 1 ELSE 2 * Values[n - 1]
  <2>1. PICK v : v = Values
    BY Zenon
  <2>2. V(v)
    BY <1>4, <2>1
  <2>3. \A n \in 0 .. Width : v[n] = IF n = 0 THEN 1 ELSE 2 * v[n - 1]
    BY <2>2
  <2> QED
    BY <2>1, <2>3
<1>6. Values[0] = 1 /\ \A n \in 1 .. Width : Values[n] = 2 * Values[n - 1]
  BY <1>1, <1>5
<1>7. \A n \in 0 .. Width : n \in {m \in 0 .. Width : Values[m] \in Nat \ {0}}
  <2>1. 0 \in {m \in 0 .. Width : Values[m] \in Nat \ {0}}
    BY <1>1, <1>6
  <2>2. \A n \in 1 .. Width : n - 1 \in {m \in 0 .. Width : Values[m] \in Nat \ {0}}
                                => n \in {m \in 0 .. Width : Values[m] \in Nat \ {0}}
    BY <1>1, <1>6
  <2> QED
    BY <1>1, <2>1, <2>2, UpTo
<1> QED
  BY <1>6, <1>7

LEMMA BytesAre ==
  /\ Values[Width] \in Nat /\ Values[Width] >= 2 /\ Bytes \subseteq Nat /\ 0 \in Bytes
  /\ \A n \in Int : Byte(n) \in Bytes /\ Byte(n + 1) # Byte(n)
<1>1. Width \in Nat \ {0}
  BY PacketAssumption
<1>2. PICK v \in Nat : v = Values[Width] /\ v >= 2
  <2>1. PICK w \in Nat \ {0} : w = Values[Width - 1]
    <3>1. Width - 1 \in 0 .. Width
      BY <1>1
    <3> QED
      BY <3>1, ValuesAre, Zenon
  <2>2. Values[Width] = 2 * w
    BY <1>1, <2>1, ValuesAre
  <2>3. 2 * w \in Nat /\ 2 * w >= 2
    OBVIOUS
  <2> QED
    BY <2>2, <2>3
<1>3. ASSUME NEW n \in Int
      PROVE  n % v \in 0 .. v - 1 /\ (n + 1) % v # n % v
  <2>1. n % v \in 0 .. v - 1
    BY <1>2
  <2>2. ASSUME (n + 1) % v = n % v
        PROVE  FALSE
    <3>1. PICK q \in Int, s \in Int, r \in Int : n = v * q + r /\ n + 1 = v * s + r
      <4>1. n \div v \in Int /\ (n + 1) \div v \in Int /\ n % v \in Int
        BY <1>2
      <4>2. n = v * (n \div v) + (n % v)
        BY <1>2
      <4>3. n + 1 = v * ((n + 1) \div v) + ((n + 1) % v)
        BY <1>2
      <4> QED
        BY <2>2, <4>1, <4>2, <4>3, Zenon
    <3>2. v * (s - q) = 1
      BY <3>1
    <3>3. CASE s - q >= 1
      BY <1>2, <3>2, <3>3
    <3>4. CASE s - q <= 0
      BY <1>2, <3>2, <3>4
    <3> QED
      BY <3>3, <3>4
  <2> QED
    BY <2>1, <2>2
<1> QED
  BY <1>2, <1>3 DEF Bytes, Byte

\* More bits have more values, and half of a byte is one of n - 1 bits.
LEMMA ValuesGrow == \A n \in 0 .. Width : Values[n] <= Values[Width]
<1> DEFINE S == {m \in 0 .. Width : \A n \in 0 .. m : Values[n] <= Values[m]}
<1>1. Width \in Nat
  BY PacketAssumption
<1>2. 0 \in S
  BY <1>1, ValuesAre
<1>3. ASSUME NEW m \in 1 .. Width, m - 1 \in S
      PROVE  m \in S
  <2>1. m \in 0 .. Width /\ m - 1 \in 0 .. Width /\ Values[m] = 2 * Values[m - 1]
    BY <1>1, ValuesAre
  <2>2. PICK v \in Nat : v = Values[m - 1] /\ Values[m] = 2 * v
    BY <2>1, ValuesAre
  <2>3. ASSUME NEW n \in 0 .. m
        PROVE  Values[n] <= Values[m]
    <3>1. CASE n = m
      BY <2>2, <3>1
    <3>2. CASE n # m
      <4>1. n \in 0 .. m - 1 /\ n \in 0 .. Width
        BY <1>1, <3>2
      <4>2. Values[n] <= v /\ Values[n] \in Nat
        BY <1>3, <2>2, <4>1, ValuesAre
      <4> QED
        BY <2>2, <4>2
    <3> QED
      BY <3>1, <3>2
  <2> QED
    BY <2>1, <2>3
<1>4. Width \in S
  <2> HIDE DEF S
  <2>1. \A n \in 0 .. Width : n \in S
    BY <1>1, <1>2, <1>3, UpTo
  <2> QED
    BY <1>1, <2>1
<1> QED
  BY <1>4

\* The last bit of the exclusive or, and the others.
XorTo(g) ==
  g = [n \in 0 .. Width |->
         [p \in Bytes \X Bytes |->
            IF n = 0 THEN 0
            ELSE ((p[1] + p[2]) % 2) + 2 * g[n - 1][<<p[1] \div 2, p[2] \div 2>>]]]

LEMMA Halves ==
  /\ \A b \in Nat : b \div 2 \in Nat /\ b % 2 \in 0 .. 1 /\ b = 2 * (b \div 2) + (b % 2)
  /\ \A b \in Bytes : b \div 2 \in Bytes
  /\ \A a \in Nat, r \in 0 .. 1 : (r + 2 * a) \div 2 = a /\ (r + 2 * a) % 2 = r
<1>1. \A b \in Nat : b \div 2 \in Nat /\ b % 2 \in 0 .. 1 /\ b = 2 * (b \div 2) + (b % 2)
  OBVIOUS
<1>2. \A b \in Bytes : b \div 2 \in Bytes
  BY BytesAre DEF Bytes
<1>3. \A a \in Nat, r \in 0 .. 1 : (r + 2 * a) \div 2 = a /\ (r + 2 * a) % 2 = r
  OBVIOUS
<1> QED
  BY <1>1, <1>2, <1>3

LEMMA XorExists == \E g : XorTo(g)
<1> DEFINE X == [Bytes \X Bytes -> Nat]
           Next1(h) == [p \in Bytes \X Bytes |->
                          ((p[1] + p[2]) % 2) + 2 * h[<<p[1] \div 2, p[2] \div 2>>]]
<1>1. Width \in Nat
  BY PacketAssumption
<1>2. PICK x \in X : x = [p \in Bytes \X Bytes |-> 0]
  OBVIOUS
<1>3. ASSUME NEW h \in X
      PROVE  Next1(h) \in X
  <2>1. ASSUME NEW p \in Bytes \X Bytes
        PROVE  ((p[1] + p[2]) % 2) + 2 * h[<<p[1] \div 2, p[2] \div 2>>] \in Nat
    <3>1. p[1] \in Nat /\ p[2] \in Nat /\ <<p[1] \div 2, p[2] \div 2>> \in Bytes \X Bytes
      BY BytesAre, Halves
    <3>2. h[<<p[1] \div 2, p[2] \div 2>>] \in Nat
      BY <3>1
    <3>3. (p[1] + p[2]) % 2 \in Nat
      BY <3>1
    <3> QED
      BY <3>2, <3>3
  <2> QED
    BY <2>1
<1>4. PICK F : F = [q \in (1 .. Width) \X X |-> Next1(q[2])]
  BY Zenon
<1>5. F \in [(1 .. Width) \X X -> X] /\ \A n \in 1 .. Width, h \in X : F[<<n, h>>] = Next1(h)
  <2> HIDE DEF X, Next1
  <2>1. \A q \in (1 .. Width) \X X : q[2] \in X
    OBVIOUS
  <2>2. \A q \in (1 .. Width) \X X : Next1(q[2]) \in X
    BY <1>3, <2>1
  <2> QED
    BY <1>4, <2>2
<1>6. PICK g : Follows(g, Width, X, x, F)
  <2> HIDE DEF X
  <2> QED
    BY <1>1, <1>5, Recursion
<1>7. ASSUME NEW n \in 0 .. Width
      PROVE  g[n] = [p \in Bytes \X Bytes |->
               IF n = 0 THEN 0
               ELSE ((p[1] + p[2]) % 2) + 2 * g[n - 1][<<p[1] \div 2, p[2] \div 2>>]]
  <2>1. CASE n = 0
    BY <1>2, <1>6, <2>1 DEF Follows
  <2>2. CASE n # 0
    <3>1. n \in 1 .. Width /\ n - 1 \in 0 .. Width
      BY <1>1, <2>2
    <3>2. g[n - 1] \in X
      <4> HIDE DEF X
      <4> QED
        BY <1>6, <3>1 DEF Follows
    <3>3. g[n] = Next1(g[n - 1])
      <4> HIDE DEF X, Next1
      <4> QED
        BY <1>5, <1>6, <3>1, <3>2 DEF Follows
    <3> QED
      BY <2>2, <3>3
  <2> QED
    BY <2>1, <2>2
<1>8. g = [n \in 0 .. Width |-> g[n]]
  <2> HIDE DEF X
  <2> QED
    BY <1>6 DEF Follows
<1>9. XorTo(g)
  BY <1>7, <1>8 DEF XorTo
<1> QED
  BY <1>9

\* To xor with the same byte twice changes nothing.
LEMMA XorTwice ==
  \A a, b \in Bytes : Xor(a, b) \in Bytes /\ Xor(Xor(a, b), b) = a
<1>1. PICK g : XorTo(g) /\ \A a, b : Xor(a, b) = g[Width][<<a, b>>]
  <2>1. PICK g : g = CHOOSE h : XorTo(h)
    BY Zenon
  <2>2. XorTo(g)
    <3>1. \E h : XorTo(h)
      BY XorExists
    <3> HIDE DEF XorTo
    <3> QED
      BY <2>1, <3>1
  <2>3. \A a, b : Xor(a, b) = g[Width][<<a, b>>]
    BY <2>1 DEF Xor, XorTo
  <2> QED
    BY <2>2, <2>3
<1>2. ASSUME NEW n \in 1 .. Width, NEW a \in Bytes, NEW b \in Bytes
      PROVE  g[n][<<a, b>>] = ((a + b) % 2) + 2 * g[n - 1][<<a \div 2, b \div 2>>]
  <2>1. n \in 0 .. Width /\ n # 0 /\ <<a, b>> \in Bytes \X Bytes
    OBVIOUS
  <2>2. g[n] = [p \in Bytes \X Bytes |->
                  IF n = 0 THEN 0
                  ELSE ((p[1] + p[2]) % 2) + 2 * g[n - 1][<<p[1] \div 2, p[2] \div 2>>]]
    BY <1>1, <2>1 DEF XorTo
  <2>3. g[n][<<a, b>>] = IF n = 0 THEN 0 ELSE ((a + b) % 2) + 2 * g[n - 1][<<a \div 2, b \div 2>>]
    BY <2>1, <2>2
  <2> QED
    BY <2>1, <2>3
<1>3. \A a, b \in Bytes : g[0][<<a, b>>] = 0
  <2>1. Width \in Nat
    BY PacketAssumption
  <2>2. 0 \in 0 .. Width
    BY <2>1
  <2>3. g[0] = [p \in Bytes \X Bytes |->
                  IF 0 = 0 THEN 0
                  ELSE ((p[1] + p[2]) % 2) + 2 * g[0 - 1][<<p[1] \div 2, p[2] \div 2>>]]
    BY <1>1, <2>2 DEF XorTo
  <2> QED
    BY <2>3
<1> DEFINE Low(n) == 0 .. Values[n] - 1
           Twice(n) == \A a, b \in Low(n) : /\ g[n][<<a, b>>] \in Low(n)
                                            /\ g[n][<<g[n][<<a, b>>], b>>] = a
           S == {n \in 0 .. Width : Twice(n)}
<1>4. Width \in Nat
  BY PacketAssumption
<1>5. \A n \in 0 .. Width : Low(n) \subseteq Bytes /\ Low(n) \subseteq Nat
  <2>1. ASSUME NEW n \in 0 .. Width
        PROVE  Low(n) \subseteq Bytes /\ Low(n) \subseteq Nat
    <3>1. Values[n] \in Nat /\ Values[Width] \in Nat /\ Values[n] <= Values[Width]
      BY <1>4, ValuesAre, ValuesGrow
    <3> QED
      BY <3>1 DEF Bytes
  <2> QED
    BY <2>1
<1>6. 0 \in S
  <2>1. Low(0) = {0}
    BY ValuesAre
  <2>2. Twice(0)
    <3>1. 0 \in Bytes
      BY BytesAre
    <3> QED
      BY <1>3, <2>1, <3>1
  <2> QED
    BY <1>4, <2>2
<1>7. ASSUME NEW n \in 1 .. Width, n - 1 \in S
      PROVE  n \in S
  <2>1. PICK v \in Nat : v = Values[n - 1] /\ Values[n] = 2 * v
    <3>1. n - 1 \in 0 .. Width /\ Values[n] = 2 * Values[n - 1]
      BY <1>4, ValuesAre
    <3> QED
      BY <3>1, ValuesAre
  <2>2. n \in 0 .. Width /\ n - 1 \in 0 .. Width
    BY <1>4
  <2>3. ASSUME NEW a \in Low(n), NEW b \in Low(n)
        PROVE  g[n][<<a, b>>] \in Low(n) /\ g[n][<<g[n][<<a, b>>], b>>] = a
    <3>1. a \in Bytes /\ b \in Bytes /\ a \in Nat /\ b \in Nat
      BY <1>5, <2>2
    <3>2. PICK x \in Nat, y \in Nat, r \in 0 .. 1, q \in 0 .. 1 :
            /\ x = a \div 2 /\ r = a % 2 /\ a = 2 * x + r
            /\ y = b \div 2 /\ q = b % 2 /\ b = 2 * y + q
      BY <3>1, Halves
    <3>3. x \in Low(n - 1) /\ y \in Low(n - 1)
      BY <2>1, <3>2
    <3>4. PICK z \in Nat : z = g[n - 1][<<x, y>>]
      BY <1>5, <1>7, <2>2, <3>3
    <3>5. z \in Low(n - 1) /\ g[n - 1][<<z, y>>] = x
      BY <1>7, <3>3, <3>4
    <3>6. PICK s \in 0 .. 1 : s = (a + b) % 2
      BY <3>1
    <3>7. PICK c \in Nat : c = g[n][<<a, b>>] /\ c = s + 2 * z
      <4>1. g[n][<<a, b>>] = ((a + b) % 2) + 2 * g[n - 1][<<a \div 2, b \div 2>>]
        BY <1>2, <3>1
      <4> QED
        BY <3>2, <3>4, <3>6, <4>1
    <3>8. c \in Low(n)
      BY <2>1, <3>5, <3>7
    <3>9. (c + b) % 2 = r
      <4>1. s = (r + q) % 2
        BY <3>2, <3>6
      <4>2. (c + b) % 2 = (s + q) % 2
        BY <3>2, <3>7
      <4>3. (((r + q) % 2) + q) % 2 = r
        OBVIOUS
      <4> QED
        BY <4>1, <4>2, <4>3
    <3>10. c \div 2 = z
      BY <3>7, Halves
    <3>11. g[n][<<c, b>>] = a
      <4>1. c \in Bytes
        BY <1>5, <2>2, <3>8
      <4>2. g[n][<<c, b>>] = ((c + b) % 2) + 2 * g[n - 1][<<c \div 2, b \div 2>>]
        BY <1>2, <3>1, <4>1
      <4>3. g[n][<<c, b>>] = r + 2 * x
        BY <3>2, <3>5, <3>9, <3>10, <4>2
      <4> QED
        BY <3>2, <4>3
    <3> QED
      BY <3>7, <3>8, <3>11
  <2>4. Twice(n)
    <3> HIDE DEF Low
    <3> QED
      BY <2>3
  <2> HIDE DEF Twice
  <2> QED
    BY <2>2, <2>4
<1>8. Width \in S
  <2> HIDE DEF S
  <2>1. \A n \in 0 .. Width : n \in S
    BY <1>4, <1>6, <1>7, UpTo
  <2> QED
    BY <1>4, <2>1
<1>9. Low(Width) = Bytes
  BY DEF Bytes
<1> QED
  <2> HIDE DEF Low
  <2>1. Twice(Width)
    BY <1>8
  <2> QED
    BY <1>1, <1>9, <2>1

----------------------------------------------------------------------------
(***************************************************************************)
(* Encoding.                                                               *)
(***************************************************************************)

\* The p and e of Encode, as they are after each byte.
Pairs == [p : Bytes, e : Bytes]
PairAfter(s, key, i, pair) ==
  [p |-> Xor(s[i], Byte(pair.p + key + i)),
   e |-> Xor(Xor(s[i], Byte(pair.p + key + i)), Byte(pair.e + FixedKey + i))]
EncodeTo(s, key, g) ==
  g = [i \in 0 .. Len(s) |-> IF i = 0 THEN [p |-> 0, e |-> 0] ELSE PairAfter(s, key, i, g[i - 1])]

LEMMA PairStays ==
  ASSUME NEW s \in Seq(Bytes), NEW key \in Bytes, NEW i \in 1 .. Len(s), NEW pair \in Pairs
  PROVE  PairAfter(s, key, i, pair) \in Pairs
<1>1. pair.p \in Int /\ pair.e \in Int /\ key \in Int /\ FixedKey \in Int /\ i \in Int /\ s[i] \in Bytes
  <2>1. pair.p \in Bytes /\ pair.e \in Bytes
    BY DEF Pairs
  <2>2. s[i] \in Bytes /\ FixedKey \in Bytes
    BY PacketAssumption
  <2>3. \A b \in Bytes : b \in Int
    BY BytesAre
  <2>4. i \in Int
    OBVIOUS
  <2> QED
    BY <2>1, <2>2, <2>3, <2>4
<1>2. pair.p + key + i \in Int /\ pair.e + FixedKey + i \in Int
  BY <1>1
<1>3. Byte(pair.p + key + i) \in Bytes /\ Byte(pair.e + FixedKey + i) \in Bytes
  BY <1>2, BytesAre
<1>4. PICK x \in Bytes, y \in Bytes : x = Byte(pair.p + key + i) /\ y = Byte(pair.e + FixedKey + i)
  BY <1>3
<1>5. Xor(s[i], x) \in Bytes
  BY <1>1, XorTwice
<1>6. Xor(Xor(s[i], x), y) \in Bytes
  BY <1>5, XorTwice
<1> QED
  BY <1>4, <1>5, <1>6 DEF PairAfter, Pairs

LEMMA EncodeExists ==
  ASSUME NEW s \in Seq(Bytes), NEW key \in Bytes
  PROVE  \E g : EncodeTo(s, key, g)
<1>1. PICK N \in Nat : N = Len(s)
  OBVIOUS
<1>2. PICK x \in Pairs : x = [p |-> 0, e |-> 0]
  BY BytesAre DEF Pairs
<1>3. PICK F : F = [q \in (1 .. N) \X Pairs |-> PairAfter(s, key, q[1], q[2])]
  BY Zenon
<1>4. F \in [(1 .. N) \X Pairs -> Pairs]
  <2>1. \A q \in (1 .. N) \X Pairs : q[1] \in 1 .. Len(s) /\ q[2] \in Pairs
    BY <1>1
  <2>2. \A q \in (1 .. N) \X Pairs : PairAfter(s, key, q[1], q[2]) \in Pairs
    BY <2>1, PairStays
  <2> QED
    BY <1>3, <2>2
<1>5. PICK g : Follows(g, N, Pairs, x, F)
  BY <1>4, Recursion
<1>6. ASSUME NEW i \in 0 .. N
      PROVE  g[i] = IF i = 0 THEN [p |-> 0, e |-> 0] ELSE PairAfter(s, key, i, g[i - 1])
  <2>1. CASE i = 0
    BY <1>2, <1>5, <2>1 DEF Follows
  <2>2. CASE i # 0
    <3>1. i \in 1 .. N /\ i - 1 \in 0 .. N
      BY <2>2
    <3>2. g[i - 1] \in Pairs /\ g[i] = F[<<i, g[i - 1]>>]
      BY <1>5, <3>1 DEF Follows
    <3>3. <<i, g[i - 1]>> \in (1 .. N) \X Pairs
      BY <3>1, <3>2
    <3>4. F[<<i, g[i - 1]>>] = PairAfter(s, key, i, g[i - 1])
      BY <1>3, <3>3
    <3> QED
      BY <2>2, <3>2, <3>4
  <2> QED
    BY <2>1, <2>2
<1>7. g = [i \in 0 .. N |-> g[i]]
  BY <1>5 DEF Follows
<1>8. EncodeTo(s, key, g)
  BY <1>1, <1>6, <1>7 DEF EncodeTo
<1> QED
  BY <1>8

\* Encode gives the e of the pairs.
LEMMA EncodeIs ==
  ASSUME NEW s \in Seq(Bytes), NEW key \in Bytes
  PROVE  \E g : /\ g[0] = [p |-> 0, e |-> 0]
                /\ \A i \in 1 .. Len(s) : g[i] = PairAfter(s, key, i, g[i - 1])
                /\ \A i \in 0 .. Len(s) : g[i] \in Pairs
                /\ Encode(s, key) = [i \in 1 .. Len(s) |-> g[i].e]
<1>1. PICK N \in Nat : N = Len(s)
  OBVIOUS
<1>2. PICK g : g = CHOOSE h : EncodeTo(s, key, h)
  BY Zenon
<1>3. EncodeTo(s, key, g)
  <2>1. \E h : EncodeTo(s, key, h)
    BY EncodeExists
  <2> QED
    BY <1>2, <2>1
<1>4. Encode(s, key) = [i \in 1 .. Len(s) |-> g[i].e]
  <2>1. Encode(s, key) = [i \in 1 .. Len(s) |-> (CHOOSE h : EncodeTo(s, key, h))[i].e]
    BY DEF Encode, EncodeTo, PairAfter
  <2> QED
    BY <1>2, <2>1, Zenon
<1>5. \A i \in 0 .. N : g[i] = IF i = 0 THEN [p |-> 0, e |-> 0] ELSE PairAfter(s, key, i, g[i - 1])
  BY <1>1, <1>3 DEF EncodeTo
<1>6. g[0] = [p |-> 0, e |-> 0] /\ \A i \in 1 .. N : g[i] = PairAfter(s, key, i, g[i - 1])
  BY <1>5
<1>7. \A i \in 0 .. N : i \in {j \in 0 .. N : g[j] \in Pairs}
  <2>1. 0 \in {j \in 0 .. N : g[j] \in Pairs}
    <3>1. 0 \in Bytes
      BY BytesAre
    <3>2. [p |-> 0, e |-> 0] \in Pairs
      BY <3>1 DEF Pairs
    <3> QED
      BY <1>6, <3>2
  <2>2. ASSUME NEW i \in 1 .. N, i - 1 \in {j \in 0 .. N : g[j] \in Pairs}
        PROVE  i \in {j \in 0 .. N : g[j] \in Pairs}
    <3>1. g[i - 1] \in Pairs /\ i \in 0 .. N /\ i \in 1 .. Len(s)
      BY <1>1, <2>2
    <3> QED
      BY <1>6, <3>1, PairStays
  <2> QED
    BY <2>1, <2>2, UpTo
<1> QED
  BY <1>1, <1>4, <1>6, <1>7

\* Decode takes back what Encode did.
LEMMA DecodeEncode ==
  ASSUME NEW s \in Seq(Bytes), NEW key \in Bytes
  PROVE  /\ Encode(s, key) \in Seq(Bytes) /\ Len(Encode(s, key)) = Len(s)
         /\ Decode(Encode(s, key), key) = s
<1>1. PICK N \in Nat : N = Len(s)
  OBVIOUS
<1>2. PICK g : /\ g[0] = [p |-> 0, e |-> 0]
               /\ \A i \in 1 .. N : g[i] = PairAfter(s, key, i, g[i - 1])
               /\ \A i \in 0 .. N : g[i] \in Pairs
               /\ Encode(s, key) = [i \in 1 .. N |-> g[i].e]
  BY <1>1, EncodeIs
<1>3. PICK c : c = Encode(s, key)
  BY Zenon
<1>4. c \in Seq(Bytes) /\ Len(c) = N /\ \A i \in 1 .. N : c[i] = g[i].e
  <2>1. \A i \in 1 .. N : g[i] \in Pairs
    BY <1>2
  <2>2. \A i \in 1 .. N : g[i].e \in Bytes
    BY <2>1 DEF Pairs
  <2> QED
    BY <1>2, <1>3, <2>2
<1> DEFINE e(i) == IF i = 0 THEN 0 ELSE c[i]
           p(i) == IF i = 0 THEN 0 ELSE Xor(e(i), Byte(e(i - 1) + FixedKey + i))
<1>5. Decode(c, key) = [i \in 1 .. N |-> Xor(p(i), Byte(p(i - 1) + key + i))]
  BY <1>4 DEF Decode
<1>6. ASSUME NEW i \in 0 .. N
      PROVE  e(i) = g[i].e
  BY <1>2, <1>4
<1>7. ASSUME NEW i \in 1 .. N
      PROVE  /\ g[i].p = Xor(s[i], Byte(g[i - 1].p + key + i))
             /\ g[i].e = Xor(g[i].p, Byte(g[i - 1].e + FixedKey + i))
             /\ g[i].p \in Bytes /\ s[i] \in Bytes
             /\ Byte(g[i - 1].p + key + i) \in Bytes
             /\ Byte(g[i - 1].e + FixedKey + i) \in Bytes
  <2>1. g[i] = PairAfter(s, key, i, g[i - 1]) /\ g[i] \in Pairs /\ g[i - 1] \in Pairs /\ s[i] \in Bytes
    BY <1>1, <1>2
  <2>2. g[i].p \in Bytes /\ g[i - 1].p \in Nat /\ g[i - 1].e \in Nat /\ key \in Nat /\ FixedKey \in Nat
    BY <2>1, BytesAre, PacketAssumption DEF Pairs
  <2>3. g[i - 1].p + key + i \in Int /\ g[i - 1].e + FixedKey + i \in Int
    BY <2>2
  <2>4. Byte(g[i - 1].p + key + i) \in Bytes /\ Byte(g[i - 1].e + FixedKey + i) \in Bytes
    BY <2>3, BytesAre
  <2>5. /\ g[i].p = Xor(s[i], Byte(g[i - 1].p + key + i))
        /\ g[i].e = Xor(g[i].p, Byte(g[i - 1].e + FixedKey + i))
    <3>1. PICK a, b : /\ a = Xor(s[i], Byte(g[i - 1].p + key + i))
                      /\ b = Xor(a, Byte(g[i - 1].e + FixedKey + i))
      BY Zenon
    <3>2. g[i] = [p |-> a, e |-> b]
      BY <2>1, <3>1 DEF PairAfter
    <3>3. g[i].p = a /\ g[i].e = b
      BY <3>2
    <3> QED
      BY <3>1, <3>3
  <2> QED
    BY <2>1, <2>2, <2>4, <2>5
<1> HIDE DEF e
<1>8. ASSUME NEW i \in 0 .. N
      PROVE  p(i) = g[i].p
  <2>1. CASE i = 0
    BY <1>2, <2>1
  <2>2. CASE i # 0
    <3>1. i \in 1 .. N /\ i - 1 \in 0 .. N
      BY <2>2
    <3>2. e(i) = g[i].e /\ e(i - 1) = g[i - 1].e
      BY <1>6, <3>1
    <3>3. p(i) = Xor(g[i].e, Byte(g[i - 1].e + FixedKey + i))
      BY <2>2, <3>2
    <3> QED
      BY <1>7, <3>1, <3>3, XorTwice
  <2> QED
    BY <2>1, <2>2
<1> HIDE DEF p
<1>9. ASSUME NEW i \in 1 .. N
      PROVE  Xor(p(i), Byte(p(i - 1) + key + i)) = s[i]
  <2>1. p(i) = g[i].p /\ p(i - 1) = g[i - 1].p
    BY <1>8
  <2> QED
    BY <1>7, <2>1, XorTwice
<1>10. Decode(c, key) = s
  <2>1. Decode(c, key) = [i \in 1 .. N |-> s[i]]
    BY <1>5, <1>9
  <2> QED
    BY <1>1, <2>1
<1> QED
  BY <1>1, <1>3, <1>4, <1>10

----------------------------------------------------------------------------
(***************************************************************************)
(* Checksums.                                                              *)
(***************************************************************************)

\* How CheckSum adds: g is the sum of the elements of s with an index in I.
Pick(I) == CHOOSE i \in I : TRUE
SumTo(s, g) ==
  g = [I \in SUBSET DOMAIN s |-> IF I = {} THEN 0 ELSE s[Pick(I)] + g[I \ {Pick(I)}]]

LEMMA PickIn == ASSUME NEW I, I # {} PROVE Pick(I) \in I
  BY DEF Pick

LEMMA SumExists ==
  ASSUME NEW s \in Seq(Int)
  PROVE  \E g : SumTo(s, g)
<1> DEFINE D == DOMAIN s
           Up(n) == {I \in SUBSET D : Cardinality(I) <= n}
           Body(g, I) == IF I = {} THEN 0 ELSE s[Pick(I)] + g[I \ {Pick(I)}]
           G == {n \in Nat : \E g : g = [I \in Up(n) |-> Body(g, I)]}
<1>1. IsFiniteSet(D) /\ \A I \in SUBSET D : IsFiniteSet(I) /\ Cardinality(I) \in Nat
  <2>1. D = 1 .. Len(s) /\ Len(s) \in Nat
    OBVIOUS
  <2>2. IsFiniteSet(D)
    BY <2>1, FS_Interval
  <2> QED
    BY <2>2, FS_Subset, FS_CardinalityType
<1> HIDE DEF D
<1>2. 0 \in G
  <2>1. Up(0) = {{}}
    BY <1>1, FS_EmptySet
  <2>2. [I \in Up(0) |-> 0] = [I \in Up(0) |-> Body([J \in Up(0) |-> 0], I)]
    BY <2>1
  <2> QED
    BY <2>2
<1>3. ASSUME NEW n \in G
      PROVE  n + 1 \in G
  <2>1. PICK g : g = [I \in Up(n) |-> Body(g, I)]
    OBVIOUS
  <2> DEFINE h == [I \in Up(n + 1) |-> Body(g, I)]
  <2>2. ASSUME NEW I \in Up(n + 1), I # {}
        PROVE  I \ {Pick(I)} \in Up(n) /\ I \ {Pick(I)} \in Up(n + 1)
    <3>1. I \in SUBSET D /\ Cardinality(I) <= n + 1 /\ IsFiniteSet(I) /\ Cardinality(I) \in Nat
      BY <1>1
    <3>2. PICK J : J = I \ {Pick(I)}
      OBVIOUS
    <3>3. Pick(I) \in I
      BY <2>2, PickIn, Zenon
    <3>4. J \in SUBSET D
      BY <3>1, <3>2
    <3>5. Cardinality(J) = Cardinality(I) - 1
      BY <3>1, <3>2, <3>3, FS_RemoveElement, Zenon
    <3>6. Cardinality(J) <= n /\ Cardinality(J) <= n + 1
      BY <3>1, <3>5
    <3>7. J \in Up(n) /\ J \in Up(n + 1)
      BY <3>4, <3>6
    <3> QED
      BY <3>2, <3>7
  <2>3. \A I \in Up(n) : I \in Up(n + 1)
    BY <1>1
  <2>4. \A I \in Up(n) : h[I] = g[I]
    <3> HIDE DEF Body, Up
    <3>1. \A I \in Up(n) : h[I] = Body(g, I)
      BY <2>3
    <3>2. \A I \in Up(n) : g[I] = Body(g, I)
      BY <2>1, Zenon
    <3> QED
      BY <3>1, <3>2
  <2>5. \A I \in Up(n + 1) : h[I] = Body(h, I)
    <3> TAKE I \in Up(n + 1)
    <3>1. h[I] = Body(g, I)
      OBVIOUS
    <3> HIDE DEF h, Up
    <3>2. CASE I = {}
      BY <3>1, <3>2
    <3>3. CASE I # {}
      <4>1. h[I \ {Pick(I)}] = g[I \ {Pick(I)}]
        BY <2>2, <2>4, <3>3
      <4> QED
        BY <3>1, <3>3, <4>1
    <3> QED
      BY <3>2, <3>3
  <2>6. h = [I \in Up(n + 1) |-> Body(h, I)]
    <3>1. h = [I \in Up(n + 1) |-> h[I]]
      OBVIOUS
    <3> HIDE DEF h, Body, Up
    <3> QED
      BY <2>5, <3>1
  <2>7. \E f : f = [I \in Up(n + 1) |-> Body(f, I)]
    <3> HIDE DEF h, Body, Up
    <3> QED
      BY <2>6, Zenon
  <2>8. n + 1 \in Nat
    OBVIOUS
  <2> HIDE DEF Body, Up
  <2> QED
    BY <2>7, <2>8, Zenon
<1>4. G = Nat
  <2> HIDE DEF G
  <2>1. G \in SUBSET Nat
    BY DEF G
  <2> QED
    BY <1>2, <1>3, <2>1, Induction
<1>5. Up(Cardinality(D)) = SUBSET D
  <2>1. \A I \in SUBSET D : Cardinality(I) <= Cardinality(D)
    BY <1>1, FS_Subset
  <2> QED
    BY <2>1
<1>6. Cardinality(D) \in G
  BY <1>1, <1>4
<1> QED
  BY <1>5, <1>6 DEF SumTo, D

\* A checksum is a byte, the remainder of a sum.
LEMMA CheckSumIs ==
  ASSUME NEW s \in Seq(Int)
  PROVE  \E n \in Int : CheckSum(s) = Byte(n)
<1> DEFINE D == DOMAIN s
<1>1. PICK g : SumTo(s, g) /\ FoldSeq(+, 0, s) = g[D]
  <2>1. PICK g : g = CHOOSE h : SumTo(s, h)
    BY Zenon
  <2>2. SumTo(s, g)
    <3>1. \E h : SumTo(s, h)
      BY SumExists
    <3> HIDE DEF SumTo
    <3> QED
      BY <2>1, <3>1
  <2>3. FoldSeq(+, 0, s) = (CHOOSE h : SumTo(s, h))[D]
    BY DEF FoldSeq, FoldFunction, FoldFunctionOnSet, MapThenFoldSet, SumTo, Pick
  <2> QED
    BY <2>1, <2>2, <2>3, Zenon
<1>2. IsFiniteSet(D) /\ \A I \in SUBSET D : IsFiniteSet(I) /\ Cardinality(I) \in Nat
  <2>1. D = 1 .. Len(s) /\ Len(s) \in Nat
    OBVIOUS
  <2>2. IsFiniteSet(D)
    BY <2>1, FS_Interval
  <2> QED
    BY <2>2, FS_Subset, FS_CardinalityType
<1>3. \A i \in D : s[i] \in Int
  OBVIOUS
<1> HIDE DEF D
<1>4. \A I \in SUBSET D : g[I] = IF I = {} THEN 0 ELSE s[Pick(I)] + g[I \ {Pick(I)}]
  BY <1>1 DEF SumTo, D
<1> DEFINE G == {n \in Nat : \A I \in SUBSET D : Cardinality(I) = n => g[I] \in Int}
<1>5. 0 \in G
  <2>1. \A I \in SUBSET D : Cardinality(I) = 0 => I = {}
    BY <1>2, FS_EmptySet
  <2>2. \A I \in SUBSET D : Cardinality(I) = 0 => g[I] = 0
    BY <1>4, <2>1
  <2> QED
    BY <2>2
<1>6. ASSUME NEW n \in G
      PROVE  n + 1 \in G
  <2>1. ASSUME NEW I \in SUBSET D, Cardinality(I) = n + 1
        PROVE  g[I] \in Int
    <3>1. I # {}
      BY <1>2, <2>1, FS_EmptySet
    <3>2. PICK J, i : i = Pick(I) /\ i \in I /\ J = I \ {i}
      BY <3>1, PickIn
    <3>3. Cardinality(J) = n /\ J \in SUBSET D
      <4>1. IsFiniteSet(I) /\ J \in SUBSET D
        BY <1>2, <3>2
      <4>2. Cardinality(I \ {i}) = Cardinality(I) - 1
        BY <3>2, <4>1, FS_RemoveElement
      <4>3. (n + 1) - 1 = n
        OBVIOUS
      <4> QED
        BY <2>1, <3>2, <4>1, <4>2, <4>3
    <3>4. g[J] \in Int /\ s[i] \in Int
      BY <1>3, <3>2, <3>3
    <3>5. g[I] = s[i] + g[J]
      BY <1>4, <3>1, <3>2
    <3> QED
      BY <3>4, <3>5
  <2> QED
    BY <2>1
<1>7. G = Nat
  <2> HIDE DEF G
  <2>1. G \in SUBSET Nat
    BY DEF G
  <2> QED
    BY <1>5, <1>6, <2>1, Induction
<1>8. g[D] \in Int
  BY <1>2, <1>7
<1> QED
  BY <1>1, <1>8 DEF CheckSum

----------------------------------------------------------------------------
(***************************************************************************)
(* Sequences.                                                              *)
(***************************************************************************)

LEMMA Joined ==
  ASSUME NEW S, NEW a \in Seq(S), NEW b \in Seq(S)
  PROVE  /\ a \o b \in Seq(S) /\ Len(a \o b) = Len(a) + Len(b)
         /\ \A i \in 1 .. Len(a) : (a \o b)[i] = a[i]
         /\ \A i \in 1 .. Len(b) : (a \o b)[Len(a) + i] = b[i]
<1>1. PICK l \in Nat, m \in Nat : l = Len(a) /\ m = Len(b)
  OBVIOUS
<1>2. /\ a \o b \in Seq(S) /\ Len(a \o b) = l + m
      /\ \A i \in 1 .. l + m : (a \o b)[i] = IF i <= l THEN a[i] ELSE b[i - l]
  BY <1>1, ConcatProperties
<1>3. \A i \in 1 .. l : (a \o b)[i] = a[i]
  BY <1>2
<1>4. ASSUME NEW i \in 1 .. m
      PROVE  (a \o b)[l + i] = b[i]
  <2>1. l + i \in 1 .. l + m /\ ~(l + i <= l) /\ (l + i) - l = i
    OBVIOUS
  <2>2. (a \o b)[l + i] = b[(l + i) - l]
    BY <1>2, <2>1
  <2> QED
    BY <2>1, <2>2
<1> QED
  BY <1>1, <1>2, <1>3, <1>4

\* The same in a word.
IsJoin(c, a, b) ==
  /\ c = a \o b /\ Len(c) = Len(a) + Len(b)
  /\ \A i \in 1 .. Len(a) : c[i] = a[i]
  /\ \A i \in 1 .. Len(b) : c[Len(a) + i] = b[i]

LEMMA Joins ==
  ASSUME NEW S, NEW a \in Seq(S), NEW b \in Seq(S)
  PROVE  \E c \in Seq(S) : IsJoin(c, a, b)
<1>1. PICK c : c = a \o b
  BY Zenon
<1>2. /\ c \in Seq(S) /\ Len(c) = Len(a) + Len(b)
      /\ \A i \in 1 .. Len(a) : c[i] = a[i]
      /\ \A i \in 1 .. Len(b) : c[Len(a) + i] = b[i]
  BY <1>1, Joined
<1> QED
  BY <1>1, <1>2 DEF IsJoin

LEMMA Alike ==
  ASSUME NEW S, NEW a \in Seq(S), NEW T, NEW b \in Seq(T), Len(a) = Len(b),
         \A i \in 1 .. Len(a) : a[i] = b[i]
  PROVE  a = b
OBVIOUS

\* Behind one element comes the rest.
LEMMA HeadJoined ==
  ASSUME NEW S, NEW x \in S, NEW b \in Seq(S)
  PROVE  /\ <<x>> \o b \in Seq(S) /\ Len(<<x>> \o b) = 1 + Len(b) /\ (<<x>> \o b)[1] = x
         /\ \A i \in 1 .. Len(b) : (<<x>> \o b)[1 + i] = b[i]
<1>1. PICK a \in Seq(S) : a = <<x>> /\ Len(a) = 1 /\ a[1] = x
  <2>1. <<x>> \in Seq(S)
    OBVIOUS
  <2>2. Len(<<x>>) = 1 /\ <<x>>[1] = x
    OBVIOUS
  <2> QED
    BY <2>1, <2>2, Zenon
<1>2. /\ a \o b \in Seq(S) /\ Len(a \o b) = Len(a) + Len(b)
      /\ \A i \in 1 .. Len(a) : (a \o b)[i] = a[i]
      /\ \A i \in 1 .. Len(b) : (a \o b)[Len(a) + i] = b[i]
  BY Joined
<1> QED
  BY <1>1, <1>2

----------------------------------------------------------------------------
(***************************************************************************)
(* Packets.                                                                *)
(***************************************************************************)

Places  == 0 .. Reserve + BufferSize - 1
Buffers == {b : b \in [Places -> Int]}
Records == [buffer : [Places -> Int], readPos : Nat, writePos : Nat, headerSize : Nat,
            encoded : BOOLEAN]

\* What writing at a place does and leaves alone.
LEMMA WrittenIs ==
  ASSUME NEW b \in [Places -> Int], NEW at \in Nat, NEW s \in Seq(Int),
         at + Len(s) <= Reserve + BufferSize
  PROVE  /\ Written(b, at, s) \in [Places -> Int]
         /\ \A i \in 1 .. Len(s) : at + i - 1 \in Places /\ Written(b, at, s)[at + i - 1] = s[i]
         /\ \A j \in Places : j < at \/ at + Len(s) <= j => Written(b, at, s)[j] = b[j]
<1>1. PICK l \in Nat, B \in Nat : l = Len(s) /\ B = BufferSize
  <2>1. Len(s) \in Nat /\ BufferSize \in Nat
    BY PacketAssumption
  <2> QED
    BY <2>1
<1>2. Places = 0 .. 3 + B /\ at + l <= 4 + B
  BY <1>1 DEF Places, Reserve, NetHeaderSize
<1>3. PICK w : w = Written(b, at, s)
  BY Zenon
<1>4. w = [j \in Places |-> IF j \in at .. at + l - 1 THEN s[j - at + 1] ELSE b[j]]
  BY <1>1, <1>3 DEF Written
<1>5. ASSUME NEW j \in Places
      PROVE  w[j] \in Int
  <2>1. CASE j \in at .. at + l - 1
    <3>1. j - at + 1 \in 1 .. Len(s)
      BY <1>1, <1>2, <2>1
    <3>2. s[j - at + 1] \in Int
      BY <3>1
    <3> QED
      BY <1>4, <2>1, <3>2
  <2>2. CASE j \notin at .. at + l - 1
    BY <1>4, <2>2
  <2> QED
    BY <2>1, <2>2
<1>6. w \in [Places -> Int]
  BY <1>4, <1>5
<1>7. ASSUME NEW i \in 1 .. l
      PROVE  at + i - 1 \in Places /\ w[at + i - 1] = s[i]
  <2>1. at + i - 1 \in Places /\ at + i - 1 \in at .. at + l - 1 /\ (at + i - 1) - at + 1 = i
    BY <1>2
  <2>2. w[at + i - 1] = s[(at + i - 1) - at + 1]
    BY <1>4, <2>1
  <2> QED
    BY <2>1, <2>2
<1>8. ASSUME NEW j \in Places, j < at \/ at + l <= j
      PROVE  w[j] = b[j]
  <2>1. j \notin at .. at + l - 1
    BY <1>2, <1>8
  <2> QED
    BY <1>4, <2>1
<1> QED
  BY <1>1, <1>3, <1>6, <1>7, <1>8

\* A part of the buffer holds the elements of a sequence.
Holds(b, at, s) == \A i \in 1 .. Len(s) : at + i - 1 \in Places /\ b[at + i - 1] = s[i]

LEMMA PartIs ==
  ASSUME NEW b, NEW at, NEW s \in Seq(Int), Holds(b, at, s)
  PROVE  Part(b, at, Len(s)) = s
BY DEF Part, Holds

\* Writing behind what was written adds to it.
LEMMA HoldsOn ==
  ASSUME NEW b \in [Places -> Int], NEW at \in Nat, NEW s \in Seq(Int), NEW r \in Seq(Int),
         Holds(b, at, s), at + Len(s) + Len(r) <= Reserve + BufferSize
  PROVE  Holds(Written(b, at + Len(s), r), at, s \o r)
<1>1. PICK l \in Nat, m \in Nat : l = Len(s) /\ m = Len(r)
  OBVIOUS
<1>2. PICK w : w = Written(b, at + l, r)
  BY Zenon
<1>3. PICK q \in Seq(Int) : /\ q = s \o r /\ Len(q) = l + m
                            /\ \A i \in 1 .. l : q[i] = s[i]
                            /\ \A i \in 1 .. m : q[l + i] = r[i]
  <2>1. /\ s \o r \in Seq(Int) /\ Len(s \o r) = Len(s) + Len(r)
        /\ \A i \in 1 .. Len(s) : (s \o r)[i] = s[i]
        /\ \A i \in 1 .. Len(r) : (s \o r)[Len(s) + i] = r[i]
    BY Joined
  <2> QED
    BY <1>1, <2>1, Zenon
<1>4. /\ \A i \in 1 .. m : (at + l) + i - 1 \in Places /\ w[(at + l) + i - 1] = r[i]
      /\ \A j \in Places : j < at + l \/ at + l + m <= j => w[j] = b[j]
  <2>1. at + l \in Nat /\ (at + l) + Len(r) <= Reserve + BufferSize
    BY <1>1
  <2>2. /\ \A i \in 1 .. Len(r) : (at + l) + i - 1 \in Places /\ Written(b, at + l, r)[(at + l) + i - 1] = r[i]
        /\ \A j \in Places : j < at + l \/ at + l + Len(r) <= j => Written(b, at + l, r)[j] = b[j]
    BY <2>1, WrittenIs
  <2> QED
    BY <1>1, <1>2, <2>2
<1>5. ASSUME NEW i \in 1 .. l + m
      PROVE  at + i - 1 \in Places /\ w[at + i - 1] = q[i]
  <2>1. CASE i <= l
    <3>1. i \in 1 .. l /\ at + i - 1 < at + l
      BY <2>1
    <3>2. at + i - 1 \in Places /\ b[at + i - 1] = s[i]
      BY <1>1, <3>1 DEF Holds
    <3> QED
      BY <1>3, <1>4, <3>1, <3>2
  <2>2. CASE ~(i <= l)
    <3>1. i - l \in 1 .. m /\ (at + l) + (i - l) - 1 = at + i - 1 /\ l + (i - l) = i
      BY <2>2
    <3>2. (at + l) + (i - l) - 1 \in Places /\ w[(at + l) + (i - l) - 1] = r[i - l]
      BY <1>4, <3>1
    <3>3. q[l + (i - l)] = r[i - l]
      BY <1>3, <3>1
    <3> QED
      BY <3>1, <3>2, <3>3
  <2> QED
    BY <2>1, <2>2
<1> QED
  BY <1>1, <1>2, <1>3, <1>5 DEF Holds

\* The first n elements of a sequence and the rest.
LEMMA Tails ==
  ASSUME NEW S, NEW q \in Seq(S), NEW n \in 0 .. Len(q)
  PROVE  /\ SubSeq(q, 1, n) \in Seq(S) /\ Len(SubSeq(q, 1, n)) = n
         /\ \A i \in 1 .. n : SubSeq(q, 1, n)[i] = q[i]
         /\ SubSeq(q, n + 1, Len(q)) \in Seq(S)
         /\ Len(SubSeq(q, n + 1, Len(q))) = Len(q) - n
         /\ \A i \in 1 .. Len(q) - n : SubSeq(q, n + 1, Len(q))[i] = q[n + i]
         /\ SubSeq(q, 1, n) \o SubSeq(q, n + 1, Len(q)) = q
<1>1. /\ SubSeq(q, n + 1, Len(q)) \in Seq(S)
      /\ Len(SubSeq(q, n + 1, Len(q))) = Len(q) - n
      /\ \A i \in 1 .. Len(q) - n : SubSeq(q, n + 1, Len(q))[i] = q[n + i]
  OBVIOUS
<1>2. /\ SubSeq(q, 1, n) \in Seq(S) /\ Len(SubSeq(q, 1, n)) = n
      /\ \A i \in 1 .. n : SubSeq(q, 1, n)[i] = q[i]
  OBVIOUS
<1>3. PICK a \in Seq(S), b \in Seq(S), l \in Nat :
        a = SubSeq(q, 1, n) /\ b = SubSeq(q, n + 1, Len(q)) /\ l = Len(q)
  <2>1. SubSeq(q, 1, n) \in Seq(S) /\ SubSeq(q, n + 1, Len(q)) \in Seq(S) /\ Len(q) \in Nat
    BY <1>1, <1>2
  <2> QED
    BY <2>1, Zenon
<1>4. a \o b = q
  <2>1. /\ Len(a) = n /\ Len(b) = l - n /\ n \in 0 .. l
        /\ \A i \in 1 .. n : a[i] = q[i]
        /\ \A i \in 1 .. l - n : b[i] = q[n + i]
    BY <1>1, <1>2, <1>3
  <2>2. /\ a \o b \in Seq(S) /\ Len(a \o b) = Len(a) + Len(b)
        /\ \A i \in 1 .. Len(a) : (a \o b)[i] = a[i]
        /\ \A i \in 1 .. Len(b) : (a \o b)[Len(a) + i] = b[i]
    BY Joined
  <2>3. ASSUME NEW i \in 1 .. l
        PROVE  (a \o b)[i] = q[i]
    <3>1. CASE i <= n
      BY <2>1, <2>2, <3>1
    <3>2. CASE ~(i <= n)
      <4>1. i - n \in 1 .. l - n /\ n + (i - n) = i
        BY <2>1, <3>2
      <4>2. (a \o b)[n + (i - n)] = b[i - n] /\ b[i - n] = q[n + (i - n)]
        BY <2>1, <2>2, <4>1
      <4> QED
        BY <4>1, <4>2
    <3> QED
      BY <3>1, <3>2
  <2>4. Len(a \o b) = l
    BY <2>1, <2>2
  <2> QED
    BY <1>3, <2>2, <2>3, <2>4, Alike
<1> QED
  BY <1>1, <1>2, <1>3, <1>4

\* A packet that is filled holds what it was filled with.
LEMMA FilledIs ==
  ASSUME NEW s \in Seq(Int), Len(s) <= BufferSize
  PROVE  /\ Filled(s) \in Records /\ ~Filled(s).encoded /\ Filled(s).headerSize = 0
         /\ Filled(s).writePos = Reserve + Len(s) /\ Holds(Filled(s).buffer, Reserve, s)
<1>1. PICK l \in Nat, B \in Nat \ {0} : l = Len(s) /\ B = BufferSize /\ l <= B
  <2>1. Len(s) \in Nat /\ BufferSize \in Nat \ {0}
    BY PacketAssumption
  <2> QED
    BY <2>1
<1>2. Reserve = 4
  BY DEF Reserve, NetHeaderSize
<1>3. PICK k \in 0 .. l : k = Least(1, Len(s)) /\ k <= 1
  BY <1>1 DEF Least
<1>4. PICK v \in Seq(Int), r \in Seq(Int) :
        /\ v = SubSeq(s, 1, k) /\ r = SubSeq(s, k + 1, Len(s))
        /\ Len(v) = k /\ Len(r) = l - k /\ v \o r = s
  <2>1. k \in 0 .. Len(s)
    BY <1>1
  <2>2. /\ SubSeq(s, 1, k) \in Seq(Int) /\ Len(SubSeq(s, 1, k)) = k
        /\ SubSeq(s, k + 1, Len(s)) \in Seq(Int) /\ Len(SubSeq(s, k + 1, Len(s))) = Len(s) - k
        /\ SubSeq(s, 1, k) \o SubSeq(s, k + 1, Len(s)) = s
    BY <2>1, Tails
  <2> QED
    BY <1>1, <2>2, Zenon
<1>5. PICK b \in [Places -> Int] : b = [i \in Places |-> 0] /\ b = Fresh.buffer
  <2>1. PICK b : b = [i \in Places |-> 0]
    BY Zenon
  <2>2. b \in [Places -> Int]
    BY <2>1
  <2>3. Fresh.buffer = b
    BY <2>1 DEF Fresh, Places
  <2> QED
    BY <2>1, <2>2, <2>3
<1>6. /\ Fresh = [buffer |-> b, readPos |-> 4, writePos |-> 4, headerSize |-> 0, encoded |-> FALSE]
      /\ Fresh \in Records
  BY <1>2, <1>5 DEF Fresh, Records, Places
<1>7. PICK c \in [Places -> Int] : c = Written(b, 4, v) /\ Holds(c, 4, v)
  <2>1. 4 + Len(v) <= Reserve + BufferSize
    BY <1>1, <1>2, <1>3, <1>4
  <2>2. /\ Written(b, 4, v) \in [Places -> Int]
        /\ \A i \in 1 .. Len(v) : 4 + i - 1 \in Places /\ Written(b, 4, v)[4 + i - 1] = v[i]
    BY <2>1, WrittenIs
  <2> QED
    BY <2>2, Zenon DEF Holds
<1>8. PICK q : /\ q = Push(Fresh, v)
               /\ q = [buffer |-> c, readPos |-> 4, writePos |-> 4 + k, headerSize |-> 0,
                       encoded |-> FALSE]
  <2>1. ~(Reserve + BufferSize - Fresh.writePos < Len(v))
    BY <1>1, <1>2, <1>3, <1>4, <1>6
  <2>2. Push(Fresh, v) = [Fresh EXCEPT !.buffer = Written(@, Fresh.writePos, v), !.writePos = @ + Len(v)]
    BY <2>1, Zenon DEF Push
  <2>3. Fresh.writePos = 4 /\ Fresh.buffer = b
    BY <1>6
  <2>4. Push(Fresh, v) = [Fresh EXCEPT !.buffer = c, !.writePos = 4 + k]
    BY <1>4, <1>7, <2>2, <2>3
  <2> QED
    BY <1>6, <2>4
<1>9. Fits(q, Len(r)) = l - k
  <2>1. q.writePos = 4 + k
    BY <1>8
  <2> QED
    BY <1>1, <1>2, <1>3, <1>4, <2>1 DEF Fits
<1>10. SubSeq(r, 1, l - k) = r
  <2>1. SubSeq(r, 1, Len(r)) = r
    OBVIOUS
  <2> QED
    BY <1>4, <2>1
<1>11. PICK d \in [Places -> Int] : d = Written(c, 4 + k, r) /\ Holds(d, 4, s)
  <2>1. 4 + Len(v) + Len(r) <= Reserve + BufferSize /\ (4 + k) + Len(r) <= Reserve + BufferSize
    <3>1. Len(v) = k /\ Len(r) = l - k
      BY <1>4
    <3> QED
      BY <1>1, <1>2, <3>1
  <2>2. Holds(Written(c, 4 + Len(v), r), 4, v \o r)
    BY <1>7, <2>1, HoldsOn
  <2>3. Written(c, 4 + k, r) \in [Places -> Int]
    <3>1. 4 + k \in Nat
      OBVIOUS
    <3> QED
      BY <2>1, <3>1, WrittenIs
  <2> QED
    BY <1>4, <2>2, <2>3
<1>12. PICK p : /\ p = PutData(q, r)
                /\ p = [buffer |-> d, readPos |-> 4, writePos |-> 4 + l, headerSize |-> 0,
                        encoded |-> FALSE]
  <2>1. q.writePos = 4 + k /\ q.buffer = c /\ (4 + k) + (l - k) = 4 + l
    BY <1>8
  <2>2. PutData(q, r) = [q EXCEPT !.buffer = Written(@, 4 + k, r), !.writePos = @ + (l - k)]
    BY <1>9, <1>10, <2>1 DEF PutData
  <2>3. PutData(q, r) = [q EXCEPT !.buffer = d, !.writePos = 4 + l]
    BY <1>11, <2>1, <2>2
  <2>4. q = [buffer |-> c, readPos |-> 4, writePos |-> 4 + k, headerSize |-> 0, encoded |-> FALSE]
    BY <1>8
  <2>5. PutData(q, r) = [buffer |-> d, readPos |-> 4, writePos |-> 4 + l, headerSize |-> 0,
                         encoded |-> FALSE]
    BY <2>3, <2>4
  <2> QED
    BY <2>5
<1>13. Filled(s) = p
  <2>1. Filled(s) = PutData(Push(Fresh, v), SubSeq(s, Len(v) + 1, Len(s)))
    BY <1>3, <1>4 DEF Filled
  <2> QED
    BY <1>4, <1>8, <1>12, <2>1
<1> QED
  BY <1>1, <1>2, <1>11, <1>12, <1>13 DEF Records

----------------------------------------------------------------------------
(***************************************************************************)
(* What is sent.                                                           *)
(***************************************************************************)

LEMMA BytesInts == ASSUME NEW s \in Seq(Bytes) PROVE s \in Seq(Int)
<1>1. \A b \in Bytes : b \in Int
  BY BytesAre
<1> QED
  BY <1>1

\* The byte after a byte is another one.
LEMMA NextByte ==
  ASSUME NEW c \in Bytes
  PROVE  Byte(c + 1) \in Bytes /\ Byte(c + 1) # c
<1>1. PICK v \in Nat : v = Values[Width] /\ v >= 2
  BY BytesAre
<1>2. c \in 0 .. v - 1
  BY <1>1 DEF Bytes
<1>3. Byte(c + 1) \in Bytes /\ Byte(c + 1) # Byte(c)
  BY <1>2, BytesAre
<1>4. Byte(c) = c
  <2>1. c % v = c
    BY <1>1, <1>2
  <2> QED
    BY <1>1, <2>1 DEF Byte
<1> QED
  BY <1>3, <1>4

LEMMA SumIsByte == ASSUME NEW s \in Seq(Bytes) PROVE CheckSum(s) \in Bytes
<1>1. s \in Seq(Int)
  BY BytesInts
<1>2. PICK n \in Int : CheckSum(s) = Byte(n)
  BY <1>1, CheckSumIs
<1> QED
  BY <1>2, BytesAre

\* A header of three elements, and what is behind it.
LEMMA ThreeJoined ==
  ASSUME NEW x \in Int, NEW y \in Int, NEW z \in Int, NEW r \in Seq(Int)
  PROVE  /\ <<x, y, z>> \in Seq(Int) /\ Len(<<x, y, z>>) = 3
         /\ <<x, y, z>> \o r \in Seq(Int) /\ Len(<<x, y, z>> \o r) = 3 + Len(r)
         /\ (<<x, y, z>> \o r)[1] = x /\ (<<x, y, z>> \o r)[2] = y /\ (<<x, y, z>> \o r)[3] = z
         /\ \A i \in 1 .. Len(r) : (<<x, y, z>> \o r)[3 + i] = r[i]
<1>1. PICK h \in Seq(Int) : h = <<x, y, z>> /\ Len(h) = 3 /\ h[1] = x /\ h[2] = y /\ h[3] = z
  <2>1. <<x, y, z>> \in Seq(Int)
    OBVIOUS
  <2>2. Len(<<x, y, z>>) = 3 /\ <<x, y, z>>[1] = x /\ <<x, y, z>>[2] = y /\ <<x, y, z>>[3] = z
    OBVIOUS
  <2> QED
    BY <2>1, <2>2, Zenon
<1>2. /\ h \o r \in Seq(Int) /\ Len(h \o r) = Len(h) + Len(r)
      /\ \A i \in 1 .. Len(h) : (h \o r)[i] = h[i]
      /\ \A i \in 1 .. Len(r) : (h \o r)[Len(h) + i] = r[i]
  BY Joined
<1>3. (h \o r)[1] = x /\ (h \o r)[2] = y /\ (h \o r)[3] = z
  BY <1>1, <1>2
<1> QED
  BY <1>1, <1>2, <1>3

LEMMA FourJoined ==
  ASSUME NEW w \in Int, NEW x \in Int, NEW y \in Int, NEW z \in Int, NEW r \in Seq(Int)
  PROVE  /\ <<w, x, y, z>> \o r \in Seq(Int) /\ Len(<<w, x, y, z>> \o r) = 4 + Len(r)
         /\ (<<w, x, y, z>> \o r)[2] = x
<1>1. PICK h \in Seq(Int) : h = <<w, x, y, z>> /\ Len(h) = 4 /\ h[2] = x
  <2>1. <<w, x, y, z>> \in Seq(Int)
    OBVIOUS
  <2>2. Len(<<w, x, y, z>>) = 4 /\ <<w, x, y, z>>[2] = x
    OBVIOUS
  <2> QED
    BY <2>1, <2>2, Zenon
<1>2. /\ h \o r \in Seq(Int) /\ Len(h \o r) = Len(h) + Len(r)
      /\ \A i \in 1 .. Len(h) : (h \o r)[i] = h[i]
  BY Joined
<1>3. (h \o r)[2] = x
  BY <1>1, <1>2
<1> QED
  BY <1>1, <1>2, <1>3

\* The header for clients, with an encoded checksum and payload.
NetFrame(code, s, key, c) == <<code, Len(s), key>> \o Encode(<<c>> \o s, key)

\* Its elements.
NetForm(h, code, s, key, c) ==
  /\ h \in Seq(Int) /\ Len(h) = 4 + Len(s)
  /\ h[1] = code /\ h[2] = Len(s) /\ h[3] = key
  /\ \A i \in 1 .. 1 + Len(s) : h[3 + i] = Encode(<<c>> \o s, key)[i]

LEMMA NetFrameIs ==
  ASSUME NEW code \in Int, NEW s \in Seq(Bytes), NEW key \in Bytes, NEW c \in Bytes
  PROVE  NetForm(NetFrame(code, s, key, c), code, s, key, c)
<1>1. PICK l \in Nat : l = Len(s)
  OBVIOUS
<1>2. PICK b \in Seq(Bytes) : b = <<c>> \o s /\ Len(b) = 1 + l
  <2>1. <<c>> \o s \in Seq(Bytes) /\ Len(<<c>> \o s) = 1 + Len(s)
    BY HeadJoined
  <2> QED
    BY <1>1, <2>1, Zenon
<1>3. PICK r \in Seq(Int) : r = Encode(b, key) /\ Len(r) = 1 + l
  <2>1. Encode(b, key) \in Seq(Bytes) /\ Len(Encode(b, key)) = Len(b)
    BY DecodeEncode
  <2> QED
    BY <1>2, <2>1, BytesInts
<1>4. key \in Int
  BY BytesAre
<1>5. PICK h \in Seq(Int) : /\ h = <<code, l, key>> \o r /\ Len(h) = 3 + Len(r)
                            /\ h[1] = code /\ h[2] = l /\ h[3] = key
                            /\ \A i \in 1 .. Len(r) : h[3 + i] = r[i]
  <2>1. l \in Int
    OBVIOUS
  <2>2. /\ <<code, l, key>> \o r \in Seq(Int) /\ Len(<<code, l, key>> \o r) = 3 + Len(r)
        /\ (<<code, l, key>> \o r)[1] = code /\ (<<code, l, key>> \o r)[2] = l
        /\ (<<code, l, key>> \o r)[3] = key
        /\ \A i \in 1 .. Len(r) : (<<code, l, key>> \o r)[3 + i] = r[i]
    BY <1>4, <2>1, ThreeJoined
  <2> QED
    BY <2>2, Zenon
<1>6. h = NetFrame(code, s, key, c)
  BY <1>1, <1>2, <1>3, <1>5 DEF NetFrame
<1>7. Len(h) = 4 + l /\ \A i \in 1 .. 1 + l : h[3 + i] = r[i]
  BY <1>3, <1>5
<1> QED
  BY <1>1, <1>2, <1>3, <1>5, <1>6, <1>7 DEF NetForm

\* What a client is sent, or sends.
LEMMA SentNet ==
  ASSUME NEW s \in Seq(Bytes), Len(s) <= BufferSize, NEW key \in Bytes
  PROVE  Sent(SetNetHeader(Filled(s), key)) = NetFrame(PacketCode, s, key, CheckSum(s))
<1>1. PICK l \in Nat, B \in Nat : l = Len(s) /\ B = BufferSize /\ l <= B
  <2>1. Len(s) \in Nat /\ BufferSize \in Nat
    BY PacketAssumption
  <2> QED
    BY <2>1
<1>2. Reserve = 4 /\ NetHeaderSize = 4
  BY DEF Reserve, NetHeaderSize
<1>3. PICK p \in Records : /\ p = Filled(s) /\ ~p.encoded
                           /\ p.writePos = 4 + l /\ Holds(p.buffer, 4, s)
  <2>1. s \in Seq(Int)
    BY BytesInts
  <2> QED
    BY <1>1, <1>2, <2>1, FilledIs
<1>4. Part(p.buffer, 4, l) = s
  <2>1. s \in Seq(Int)
    BY BytesInts
  <2> QED
    BY <1>1, <1>3, <2>1, PartIs
<1>5. PICK h \in Seq(Int) : h = NetFrame(PacketCode, s, key, CheckSum(s)) /\ Len(h) = 4 + l
  <2>1. PacketCode \in Int
    <3>1. PacketCode \in Bytes /\ \A b \in Bytes : b \in Int
      BY PacketAssumption, BytesAre
    <3> QED
      BY <3>1
  <2>2. PICK c \in Bytes : c = CheckSum(s)
    BY SumIsByte
  <2>3. PICK code \in Int : code = PacketCode
    BY <2>1
  <2>4. NetForm(NetFrame(code, s, key, c), code, s, key, c)
    BY NetFrameIs
  <2> QED
    BY <1>1, <2>2, <2>3, <2>4 DEF NetForm
<1>6. PICK q : /\ q = SetNetHeader(p, key)
               /\ q = [p EXCEPT !.buffer = Written(p.buffer, 0, h), !.headerSize = 4, !.encoded = TRUE]
  <2>1. p.writePos - Reserve = l
    BY <1>2, <1>3
  <2>2. SetNetHeader(p, key) =
          [p EXCEPT !.buffer = Written(@, 0, <<PacketCode, l, key>> \o
                                             Encode(<<CheckSum(s)>> \o s, key)),
                    !.headerSize = NetHeaderSize, !.encoded = TRUE]
    BY <1>2, <1>3, <1>4, <2>1 DEF SetNetHeader
  <2>3. h = <<PacketCode, l, key>> \o Encode(<<CheckSum(s)>> \o s, key)
    BY <1>1, <1>5 DEF NetFrame
  <2>4. SetNetHeader(p, key) = [p EXCEPT !.buffer = Written(@, 0, h), !.headerSize = 4, !.encoded = TRUE]
    BY <1>2, <2>2, <2>3
  <2> QED
    BY <2>4
<1>7. q.headerSize = 4 /\ q.writePos = 4 + l /\ q.buffer = Written(p.buffer, 0, h)
  BY <1>3, <1>6 DEF Records
<1>8. Holds(q.buffer, 0, h)
  <2>1. 0 + Len(h) <= Reserve + BufferSize /\ p.buffer \in [Places -> Int] /\ 0 \in Nat
    BY <1>1, <1>2, <1>3, <1>5 DEF Records
  <2> QED
    BY <1>7, <2>1, WrittenIs DEF Holds
<1>9. Sent(q) = Part(q.buffer, 0, 4 + l)
  <2>1. Reserve - q.headerSize = 0 /\ q.headerSize + q.writePos - Reserve = 4 + l
    BY <1>2, <1>7
  <2> QED
    BY <2>1 DEF Sent
<1>10. Part(q.buffer, 0, 4 + l) = h
  BY <1>5, <1>8, PartIs
<1> QED
  BY <1>3, <1>5, <1>6, <1>9, <1>10

\* What a peer is sent, or sends, that is trusted.
LEMMA SentLan ==
  ASSUME NEW s \in Seq(Bytes), Len(s) <= BufferSize
  PROVE  Sent(SetLanHeader(Filled(s))) = <<Len(s)>> \o s
<1>1. PICK l \in Nat, B \in Nat : l = Len(s) /\ B = BufferSize /\ l <= B
  <2>1. Len(s) \in Nat /\ BufferSize \in Nat
    BY PacketAssumption
  <2> QED
    BY <2>1
<1>2. Reserve = 4 /\ LanHeaderSize = 1 /\ s \in Seq(Int)
  BY BytesInts DEF Reserve, NetHeaderSize, LanHeaderSize
<1>3. PICK p \in Records : p = Filled(s) /\ p.writePos = 4 + l /\ Holds(p.buffer, 4, s)
  BY <1>1, <1>2, FilledIs
<1>4. PICK h \in Seq(Int) : h = <<l>> /\ Len(h) = 1 /\ h[1] = l
  <2>1. <<l>> \in Seq(Int) /\ Len(<<l>>) = 1 /\ <<l>>[1] = l
    OBVIOUS
  <2> QED
    BY <2>1, Zenon
<1>5. PICK b \in [Places -> Int] :
        /\ b = Written(p.buffer, 3, h)
        /\ 3 \in Places /\ b[3] = l
        /\ \A j \in Places : 4 <= j => b[j] = p.buffer[j]
  <2>1. 3 + Len(h) <= Reserve + BufferSize /\ p.buffer \in [Places -> Int] /\ 3 \in Nat
    BY <1>1, <1>2, <1>3, <1>4 DEF Records
  <2>2. /\ Written(p.buffer, 3, h) \in [Places -> Int]
        /\ \A i \in 1 .. Len(h) : 3 + i - 1 \in Places /\ Written(p.buffer, 3, h)[3 + i - 1] = h[i]
        /\ \A j \in Places : j < 3 \/ 3 + Len(h) <= j => Written(p.buffer, 3, h)[j] = p.buffer[j]
    BY <2>1, WrittenIs
  <2>3. 3 \in Places /\ Written(p.buffer, 3, h)[3] = l
    <3>1. 1 \in 1 .. Len(h) /\ 3 + 1 - 1 = 3
      BY <1>4
    <3> QED
      BY <1>4, <2>2, <3>1
  <2> QED
    BY <1>4, <2>2, <2>3
<1>6. PICK q : q = SetLanHeader(p) /\ q.headerSize = 1 /\ q.writePos = 4 + l /\ q.buffer = b
  <2>1. p.writePos - Reserve = l /\ Reserve - LanHeaderSize = 3
    BY <1>2, <1>3
  <2>2. SetLanHeader(p) = [p EXCEPT !.buffer = b, !.headerSize = 1]
    BY <1>2, <1>4, <1>5, <2>1 DEF SetLanHeader
  <2> QED
    BY <1>3, <2>2 DEF Records
<1>7. PICK t \in Seq(Int) : /\ t = <<l>> \o s /\ Len(t) = 1 + l /\ t[1] = l
                            /\ \A i \in 1 .. l : t[1 + i] = s[i]
  <2>1. l \in Int
    OBVIOUS
  <2>2. /\ <<l>> \o s \in Seq(Int) /\ Len(<<l>> \o s) = 1 + Len(s) /\ (<<l>> \o s)[1] = l
        /\ \A i \in 1 .. Len(s) : (<<l>> \o s)[1 + i] = s[i]
    BY <1>2, <2>1, HeadJoined
  <2> QED
    BY <1>1, <2>2, Zenon
<1>8. ASSUME NEW i \in 1 .. 1 + l
      PROVE  3 + i - 1 \in Places /\ b[3 + i - 1] = t[i]
  <2>1. CASE i = 1
    BY <1>5, <1>7, <2>1
  <2>2. CASE i # 1
    <3>1. i - 1 \in 1 .. l /\ 4 + (i - 1) - 1 = 3 + i - 1 /\ 1 + (i - 1) = i /\ 4 <= 3 + i - 1
      BY <2>2
    <3>2. 4 + (i - 1) - 1 \in Places /\ p.buffer[4 + (i - 1) - 1] = s[i - 1]
      BY <1>1, <1>3, <3>1 DEF Holds
    <3>3. t[1 + (i - 1)] = s[i - 1]
      BY <1>7, <3>1
    <3> QED
      BY <1>5, <3>1, <3>2, <3>3
  <2> QED
    BY <2>1, <2>2
<1>9. Holds(b, 3, t)
  BY <1>7, <1>8 DEF Holds
<1>10. Sent(q) = Part(b, 3, 1 + l)
  <2>1. Reserve - q.headerSize = 3 /\ q.headerSize + q.writePos - Reserve = 1 + l
    BY <1>2, <1>6
  <2> QED
    BY <1>6, <2>1 DEF Sent
<1>11. Part(b, 3, 1 + l) = t
  BY <1>7, <1>9, PartIs
<1> QED
  BY <1>1, <1>3, <1>6, <1>7, <1>10, <1>11

----------------------------------------------------------------------------
(***************************************************************************)
(* What is received.                                                       *)
(***************************************************************************)

\* n elements of s behind the first m.
IsPart(t, s, m, n) == t \in Seq(Int) /\ Len(t) = n /\ \A i \in 1 .. n : t[i] = s[m + i]

LEMMA PartOf ==
  ASSUME NEW b, NEW s \in Seq(Int), Holds(b, 4, s), NEW m \in Nat, NEW n \in Nat, NEW at \in Nat,
         m + n <= Len(s), at = 4 + m
  PROVE  IsPart(Part(b, at, n), s, m, n)
<1>1. PICK t : t = Part(b, at, n)
  BY Zenon
<1>2. t = [i \in 1 .. n |-> b[at + i - 1]]
  BY <1>1 DEF Part
<1>3. ASSUME NEW i \in 1 .. n
      PROVE  t[i] = s[m + i] /\ s[m + i] \in Int
  <2>1. m + i \in 1 .. Len(s) /\ 4 + (m + i) - 1 = at + i - 1
    OBVIOUS
  <2>2. b[4 + (m + i) - 1] = s[m + i] /\ s[m + i] \in Int
    BY <2>1 DEF Holds
  <2> QED
    BY <1>2, <2>1, <2>2
<1>4. t \in Seq(Int) /\ Len(t) = n
  <2>1. t \in [1 .. n -> Int]
    BY <1>2, <1>3
  <2> QED
    BY <2>1
<1> QED
  BY <1>1, <1>3, <1>4 DEF IsPart

\* The first element, the second and the rest.
Whole(s, a, b, c) == a \o b \o c = s

LEMMA ThreeParts ==
  ASSUME NEW s \in Seq(Int), NEW z \in Nat, Len(s) = 2 + z,
         NEW a \in Seq(Int), NEW b \in Seq(Int), NEW c \in Seq(Int),
         IsPart(a, s, 0, 1), IsPart(b, s, 1, 1), IsPart(c, s, 2, z)
  PROVE  Whole(s, a, b, c)
<1>b. PICK x \in Nat, y \in Nat : x = 1 /\ y = 1
  OBVIOUS
<1>a. /\ Len(a) = x /\ Len(b) = y /\ Len(c) = z
      /\ \A i \in 1 .. x : a[i] = s[i]
      /\ \A i \in 1 .. y : b[i] = s[x + i]
      /\ \A i \in 1 .. z : c[i] = s[x + y + i]
  BY <1>b DEF IsPart
<1>1. PICK d \in Seq(Int) : IsJoin(d, a, b)
  BY Joins
<1>2. PICK e \in Seq(Int) : IsJoin(e, d, c)
  BY Joins
<1>c. /\ d = a \o b /\ Len(d) = x + y
      /\ \A i \in 1 .. x : d[i] = a[i]
      /\ \A i \in 1 .. y : d[x + i] = b[i]
  BY <1>1, <1>a, Zenon DEF IsJoin
<1>d. /\ e = d \o c /\ Len(e) = x + y + z
      /\ \A i \in 1 .. x + y : e[i] = d[i]
      /\ \A i \in 1 .. z : e[x + y + i] = c[i]
  <2>1. /\ e = d \o c /\ Len(e) = Len(d) + Len(c)
        /\ \A i \in 1 .. Len(d) : e[i] = d[i]
        /\ \A i \in 1 .. Len(c) : e[Len(d) + i] = c[i]
    BY <1>2, Zenon DEF IsJoin
  <2>2. Len(d) = x + y /\ Len(c) = z
    BY <1>a, <1>c
  <2> QED
    BY <2>1, <2>2, Zenon
<1>0. /\ d = a \o b /\ Len(d) = x + y /\ e = d \o c /\ Len(e) = x + y + z
      /\ \A i \in 1 .. x : d[i] = a[i]
      /\ \A i \in 1 .. y : d[x + i] = b[i]
      /\ \A i \in 1 .. x + y : e[i] = d[i]
      /\ \A i \in 1 .. z : e[x + y + i] = c[i]
  BY <1>c, <1>d, Zenon
<1>3. ASSUME NEW i \in 1 .. x + y + z
      PROVE  e[i] = s[i]
  <2>1. CASE i <= x
    <3>1. i \in 1 .. x /\ i \in 1 .. x + y
      BY <2>1
    <3> QED
      BY <1>0, <1>a, <3>1, Zenon
  <2>2. CASE x < i /\ i <= x + y
    <3>1. i - x \in 1 .. y /\ x + (i - x) = i /\ i \in 1 .. x + y
      BY <2>2
    <3>2. d[x + (i - x)] = b[i - x] /\ b[i - x] = s[x + (i - x)]
      BY <1>0, <1>a, <3>1
    <3> QED
      BY <1>0, <3>1, <3>2
  <2>3. CASE x + y < i
    <3>1. i - (x + y) \in 1 .. z /\ x + y + (i - (x + y)) = i
      BY <2>3
    <3>2. e[x + y + (i - (x + y))] = c[i - (x + y)] /\ c[i - (x + y)] = s[x + y + (i - (x + y))]
      BY <1>0, <1>a, <3>1
    <3> QED
      BY <3>1, <3>2
  <2> QED
    BY <2>1, <2>2, <2>3
<1>4. Len(e) = Len(s)
  BY <1>0, <1>b
<1>5. e = s
  BY <1>0, <1>3, <1>4, Alike
<1> QED
  BY <1>0, <1>5 DEF Whole

\* A packet, and what is left of it in reading.
Rec(b, x, y, h, k) ==
  [buffer |-> b, readPos |-> x, writePos |-> y, headerSize |-> h, encoded |-> k]

Reads(b, x, y, h, k, n) ==
  /\ Data(Rec(b, x, y, h, k), n) = Part(b, x, IF y - x < n THEN y - x ELSE n)
  /\ GetData(Rec(b, x, y, h, k), n)
       = IF y - x <= n THEN Rec(b, 4, 4, h, k) ELSE Rec(b, x + n, y, h, k)
  /\ Popped(Rec(b, x, y, h, k), n) = IF y - x < n THEN <<>> ELSE Part(b, x, n)
  /\ Pop(Rec(b, x, y, h, k), n)
       = IF y - x < n THEN Rec(b, x, y, h, k)
         ELSE IF y - x = n THEN Rec(b, 4, 4, h, k) ELSE Rec(b, x + n, y, h, k)

LEMMA RecIs ==
  ASSUME NEW b, NEW x \in Nat, NEW y \in Nat, NEW h, NEW k, NEW n \in Nat
  PROVE  Reads(b, x, y, h, k, n)
<1>1. PICK r : r = [buffer |-> b, readPos |-> x, writePos |-> y, headerSize |-> h, encoded |-> k]
  BY Zenon
<1>2. r = Rec(b, x, y, h, k) /\ r.buffer = b /\ r.readPos = x /\ r.writePos = y
  BY <1>1 DEF Rec
<1>3. DataSize(r) = y - x
  BY <1>2 DEF DataSize
<1>4. Data(r, n) = Part(b, x, IF y - x < n THEN y - x ELSE n)
  BY <1>2, <1>3 DEF Data
<1>5. Reserve = 4
  BY DEF Reserve, NetHeaderSize
<1>6. [r EXCEPT !.readPos = Reserve, !.writePos = Reserve] = Rec(b, 4, 4, h, k)
  <2>1. PICK t : t = [r EXCEPT !.readPos = 4, !.writePos = 4]
    BY Zenon
  <2>2. t = [buffer |-> b, readPos |-> 4, writePos |-> 4, headerSize |-> h, encoded |-> k]
    BY <1>1, <2>1
  <2> QED
    BY <1>5, <2>1, <2>2 DEF Rec
<1>7. [r EXCEPT !.readPos = @ + n] = Rec(b, x + n, y, h, k)
  <2>1. [r EXCEPT !.readPos = @ + n] = [r EXCEPT !.readPos = x + n]
    BY <1>2, Zenon
  <2> QED
    BY <1>1, <2>1 DEF Rec
<1>8. GetData(r, n) = IF y - x <= n THEN Rec(b, 4, 4, h, k) ELSE Rec(b, x + n, y, h, k)
  BY <1>3, <1>6, <1>7, Zenon DEF GetData
<1>9. Popped(r, n) = IF y - x < n THEN <<>> ELSE Part(b, x, n)
  BY <1>2, <1>3 DEF Popped
<1>10. Pop(r, n) = IF y - x < n THEN r
                  ELSE IF y - x = n THEN Rec(b, 4, 4, h, k) ELSE Rec(b, x + n, y, h, k)
  BY <1>3, <1>6, <1>7, Zenon DEF Pop
<1> QED
  BY <1>2, <1>4, <1>8, <1>9, <1>10 DEF Reads

\* Whatever is in a packet, an application reads all of it.
LEMMA ReadIs ==
  ASSUME NEW p \in Records, NEW s \in Seq(Int), Len(s) <= BufferSize,
         p.readPos = 4, p.writePos = 4 + Len(s), Holds(p.buffer, 4, s)
  PROVE  Read(p) = s
<1>1. PICK l \in Nat, B \in Nat : l = Len(s) /\ B = BufferSize /\ l <= B
  <2>1. Len(s) \in Nat /\ BufferSize \in Nat
    BY PacketAssumption
  <2> QED
    BY <2>1
<1>2. PICK b, h, k : b = p.buffer /\ p = Rec(b, 4, 4 + l, h, k)
  <2>1. p = [buffer |-> p.buffer, readPos |-> p.readPos, writePos |-> p.writePos,
             headerSize |-> p.headerSize, encoded |-> p.encoded]
    BY DEF Records
  <2> QED
    BY <1>1, <2>1 DEF Rec
<1>3. Read(p) = Popped(p, 1) \o Data(Pop(p, 1), 1) \o Data(GetData(Pop(p, 1), 1), B)
  BY <1>1 DEF Read
<1>4. \A x, y, n \in Nat : Reads(b, x, y, h, k, n)
  BY RecIs
<1>5. ASSUME NEW n \in Nat
      PROVE  Data(Rec(b, 4, 4, h, k), n) = <<>>
  <2>1. Data(Rec(b, 4, 4, h, k), n) = Part(b, 4, IF 4 - 4 < n THEN 4 - 4 ELSE n)
    <3>1. Reads(b, 4, 4, h, k, n)
      BY <1>4
    <3> QED
      BY <3>1, Zenon DEF Reads
  <2>2. (IF 4 - 4 < n THEN 4 - 4 ELSE n) = 0
    OBVIOUS
  <2>3. Part(b, 4, 0) = <<>>
    BY DEF Part
  <2> QED
    BY <2>1, <2>2, <2>3
<1>6. GetData(Rec(b, 4, 4, h, k), 1) = Rec(b, 4, 4, h, k)
  <2>1. GetData(Rec(b, 4, 4, h, k), 1)
          = IF 4 - 4 <= 1 THEN Rec(b, 4, 4, h, k) ELSE Rec(b, 4 + 1, 4, h, k)
    <3>1. Reads(b, 4, 4, h, k, 1)
      BY <1>4
    <3> QED
      BY <3>1, Zenon DEF Reads
  <2> QED
    BY <2>1
<1>7. CASE l = 0
  <2>1. p = Rec(b, 4, 4, h, k)
    BY <1>2, <1>7
  <2>2. Pop(p, 1) = p /\ Popped(p, 1) = <<>>
    <3>1. /\ Popped(p, 1) = IF 4 - 4 < 1 THEN <<>> ELSE Part(b, 4, 1)
          /\ Pop(p, 1) = IF 4 - 4 < 1 THEN Rec(b, 4, 4, h, k)
                         ELSE IF 4 - 4 = 1 THEN Rec(b, 4, 4, h, k) ELSE Rec(b, 4 + 1, 4, h, k)
      <4>1. Reads(b, 4, 4, h, k, 1)
        BY <1>4
      <4> QED
        BY <2>1, <4>1, Zenon DEF Reads
    <3> QED
      BY <2>1, <3>1
  <2>3. Data(p, 1) = <<>> /\ Data(GetData(p, 1), B) = <<>>
    BY <1>5, <1>6, <2>1
  <2>4. s = <<>>
    <3>1. Len(s) = 0
      BY <1>1, <1>7
    <3> QED
      BY <3>1, EmptySeq
  <2>5. <<>> \o <<>> \o <<>> = <<>>
    OBVIOUS
  <2> QED
    BY <1>3, <2>2, <2>3, <2>4, <2>5
<1>8. CASE l = 1
  <2>1. p = Rec(b, 4, 5, h, k)
    BY <1>2, <1>8
  <2>2. Pop(p, 1) = Rec(b, 4, 4, h, k) /\ Popped(p, 1) = Part(b, 4, 1)
    <3>1. /\ Popped(p, 1) = IF 5 - 4 < 1 THEN <<>> ELSE Part(b, 4, 1)
          /\ Pop(p, 1) = IF 5 - 4 < 1 THEN Rec(b, 4, 5, h, k)
                         ELSE IF 5 - 4 = 1 THEN Rec(b, 4, 4, h, k) ELSE Rec(b, 4 + 1, 5, h, k)
      <4>1. Reads(b, 4, 5, h, k, 1)
        BY <1>4
      <4> QED
        BY <2>1, <4>1, Zenon DEF Reads
    <3> QED
      BY <3>1
  <2>3. Data(Pop(p, 1), 1) = <<>> /\ Data(GetData(Pop(p, 1), 1), B) = <<>>
    BY <1>5, <1>6, <2>2
  <2>4. Part(b, 4, 1) = s
    BY <1>1, <1>2, <1>8, PartIs
  <2>5. s \o <<>> \o <<>> = s
    OBVIOUS
  <2> QED
    BY <1>3, <2>2, <2>3, <2>4, <2>5
<1>9. CASE l >= 2
  <2>0. PICK w \in Nat : w = 4 + l
    OBVIOUS
  <2>1. Pop(p, 1) = Rec(b, 5, 4 + l, h, k) /\ Popped(p, 1) = Part(b, 4 + 0, 1)
    <3>1. Reads(b, 4, w, h, k, 1)
      BY <1>4
    <3>2. ~(w - 4 < 1) /\ w - 4 # 1 /\ 4 + 1 = 5 /\ 4 + 0 = 4
      BY <1>9, <2>0
    <3>3. Popped(p, 1) = Part(b, 4, 1) /\ Pop(p, 1) = Rec(b, 4 + 1, w, h, k)
      BY <1>2, <2>0, <3>1, <3>2, Zenon DEF Reads
    <3> QED
      BY <2>0, <3>2, <3>3
  <2>2. Data(Pop(p, 1), 1) = Part(b, 4 + 1, 1)
    <3>1. Reads(b, 5, w, h, k, 1)
      BY <1>4
    <3>2. (IF w - 5 < 1 THEN w - 5 ELSE 1) = 1 /\ 4 + 1 = 5
      BY <1>9, <2>0
    <3>3. Data(Rec(b, 5, w, h, k), 1) = Part(b, 5, IF w - 5 < 1 THEN w - 5 ELSE 1)
      BY <3>1, Zenon DEF Reads
    <3> QED
      BY <2>0, <2>1, <3>2, <3>3
  <2>3. PICK n \in Nat : n = l - 2
    BY <1>9
  <2>4. Data(GetData(Pop(p, 1), 1), B) = Part(b, 4 + 2, n)
    <3>1. GetData(Rec(b, 5, w, h, k), 1)
            = IF w - 5 <= 1 THEN Rec(b, 4, 4, h, k) ELSE Rec(b, 5 + 1, w, h, k)
      <4>1. Reads(b, 5, w, h, k, 1)
        BY <1>4
      <4> QED
        BY <4>1, Zenon DEF Reads
    <3>2. CASE l = 2
      <4>1. GetData(Pop(p, 1), 1) = Rec(b, 4, 4, h, k)
        BY <2>0, <2>1, <3>1, <3>2
      <4>2. Part(b, 4 + 2, n) = <<>>
        BY <2>3, <3>2 DEF Part
      <4> QED
        BY <1>5, <4>1, <4>2
    <3>3. CASE l # 2
      <4>1. ~(w - 5 <= 1) /\ 5 + 1 = 6 /\ 4 + 2 = 6
        BY <1>9, <2>0, <3>3
      <4>2. GetData(Pop(p, 1), 1) = Rec(b, 6, w, h, k)
        BY <2>0, <2>1, <3>1, <4>1
      <4>3. Data(Rec(b, 6, w, h, k), B) = Part(b, 6, IF w - 6 < B THEN w - 6 ELSE B)
        <5>1. Reads(b, 6, w, h, k, B)
          BY <1>4
        <5> QED
          BY <5>1, Zenon DEF Reads
      <4>4. (IF w - 6 < B THEN w - 6 ELSE B) = n
        BY <1>1, <1>9, <2>0, <2>3
      <4> QED
        BY <4>2, <4>3, <4>4
    <3> QED
      BY <3>2, <3>3
  <2>5. /\ IsPart(Popped(p, 1), s, 0, 1)
        /\ IsPart(Data(Pop(p, 1), 1), s, 1, 1)
        /\ IsPart(Data(GetData(Pop(p, 1), 1), B), s, 2, n)
    <3>1. 0 + 1 <= Len(s) /\ 1 + 1 <= Len(s) /\ 2 + n <= Len(s)
      BY <1>1, <1>9, <2>3
    <3>2. \A m, r, at \in Nat : m + r <= Len(s) /\ at = 4 + m => IsPart(Part(b, at, r), s, m, r)
      BY <1>2, PartOf
    <3>3. 4 + 0 \in Nat /\ 4 + 1 \in Nat /\ 4 + 2 \in Nat /\ 0 \in Nat /\ 1 \in Nat /\ 2 \in Nat
      OBVIOUS
    <3>4. IsPart(Part(b, 4 + 0, 1), s, 0, 1) /\ IsPart(Part(b, 4 + 1, 1), s, 1, 1)
          /\ IsPart(Part(b, 4 + 2, n), s, 2, n)
      BY <3>1, <3>2, <3>3, Zenon
    <3> QED
      BY <2>1, <2>2, <2>4, <3>4
  <2>6. Popped(p, 1) \o Data(Pop(p, 1), 1) \o Data(GetData(Pop(p, 1), 1), B) = s
    <3>1. Len(s) = 2 + n
      BY <1>1, <1>9, <2>3
    <3>2. PICK u \in Seq(Int), v \in Seq(Int), t \in Seq(Int) :
            /\ u = Popped(p, 1) /\ v = Data(Pop(p, 1), 1)
            /\ t = Data(GetData(Pop(p, 1), 1), B)
      BY <2>5 DEF IsPart
    <3>3. IsPart(u, s, 0, 1) /\ IsPart(v, s, 1, 1) /\ IsPart(t, s, 2, n)
      BY <2>5, <3>2, Zenon
    <3>4. Whole(s, u, v, t)
      BY <3>1, <3>3, ThreeParts
    <3> QED
      BY <3>2, <3>4, Zenon DEF Whole
  <2> QED
    BY <1>3, <2>6
<1> QED
  BY <1>1, <1>7, <1>8, <1>9


----------------------------------------------------------------------------
(***************************************************************************)
(* The ring.                                                               *)
(***************************************************************************)

Cells == Int \cup {Nothing}
Rings == [buffer : [Positions -> Cells], front : Positions, rear : Positions]

\* Where the i-th element in use is, or will be.
Spot(r, i) == IF r.front + i <= Capacity THEN r.front + i - 1 ELSE r.front + i - 1 - Capacity

Contents(r) == Peek(r, UseSize(r))

LEMMA Mods ==
  ASSUME NEW x \in Int
  PROVE  /\ 0 <= x /\ x < Capacity => x % Capacity = x
         /\ Capacity <= x /\ x < 2 * Capacity => x % Capacity = x - Capacity
BY RingAssumption

\* What is in use and what is free make up the array but for one place, and rear
\* is as far from front as there are elements.
LEMMA Sizes ==
  ASSUME NEW r \in Rings
  PROVE  /\ Capacity \in Nat \ {0} /\ r.front \in 0 .. Capacity - 1 /\ r.rear \in 0 .. Capacity - 1
         /\ r.buffer \in [Positions -> Cells]
         /\ UseSize(r) \in 0 .. Capacity - 1 /\ FreeSize(r) \in 0 .. Capacity - 1
         /\ UseSize(r) + FreeSize(r) = Capacity - 1
         /\ r.rear = (IF r.front + UseSize(r) < Capacity THEN r.front + UseSize(r)
                      ELSE r.front + UseSize(r) - Capacity)
<1>1. PICK f \in Int, b \in Int : f = r.front /\ b = r.rear
  <2>1. r.front \in Int /\ r.rear \in Int
    BY RingAssumption DEF Rings, Positions
  <2> QED
    BY <2>1, Zenon
<1>2. /\ Capacity \in Nat \ {0} /\ f \in 0 .. Capacity - 1 /\ b \in 0 .. Capacity - 1
      /\ r.buffer \in [Positions -> Cells]
  BY <1>1, RingAssumption DEF Rings, Positions
<1>3. PICK u \in 0 .. Capacity - 1 : u = UseSize(r) /\ u = IF b >= f THEN b - f ELSE Capacity - (f - b)
  <2>1. UseSize(r) = IF b >= f THEN b - f ELSE Capacity - (f - b)
    BY <1>1 DEF UseSize
  <2>2. (IF b >= f THEN b - f ELSE Capacity - (f - b)) \in 0 .. Capacity - 1
    BY <1>2
  <2> QED
    BY <2>1, <2>2, Zenon
<1>4. FreeSize(r) = Capacity - 1 - u
  BY <1>3 DEF FreeSize
<1>5. b = IF f + u < Capacity THEN f + u ELSE f + u - Capacity
  BY <1>2, <1>3
<1>6. /\ UseSize(r) = u /\ FreeSize(r) = Capacity - 1 - u /\ r.front = f /\ r.rear = b
      /\ u \in 0 .. Capacity - 1 /\ Capacity - 1 - u \in 0 .. Capacity - 1
      /\ u + (Capacity - 1 - u) = Capacity - 1
  BY <1>1, <1>2, <1>3, <1>4
<1> QED
  BY <1>2, <1>5, <1>6

\* Elements go on round the end of the array.
LEMMA PeekIs ==
  ASSUME NEW r \in Rings, NEW n \in 0 .. UseSize(r)
  PROVE  /\ Peek(r, n) \in Seq(Cells) /\ Len(Peek(r, n)) = n
         /\ \A i \in 1 .. n : Spot(r, i) \in Positions /\ Peek(r, n)[i] = r.buffer[Spot(r, i)]
<1>1. /\ Capacity \in Nat \ {0} /\ r.front \in 0 .. Capacity - 1
      /\ r.buffer \in [Positions -> Cells] /\ UseSize(r) \in 0 .. Capacity - 1
  BY Sizes
<1>2. PICK k : k = Least(Capacity - r.front, n)
  BY Zenon
<1>3. k = (IF Capacity - r.front < n THEN Capacity - r.front ELSE n)
  BY <1>2 DEF Least
<1>4. PICK c : /\ c = Peek(r, n)
               /\ c = [i \in 1 .. n |-> IF i <= k THEN r.buffer[r.front + i - 1]
                                        ELSE r.buffer[i - k - 1]]
  <2>1. ~(n > UseSize(r))
    BY <1>1
  <2> QED
    BY <1>2, <2>1, Zenon DEF Peek
<1>5. ASSUME NEW i \in 1 .. n
      PROVE  Spot(r, i) \in Positions /\ c[i] = r.buffer[Spot(r, i)]
  <2>1. Spot(r, i) \in Positions
    BY <1>1 DEF Spot, Positions
  <2>2. Spot(r, i) = IF i <= k THEN r.front + i - 1 ELSE i - k - 1
    BY <1>1, <1>3 DEF Spot
  <2> QED
    BY <1>4, <2>1, <2>2
<1>6. c \in [1 .. n -> Cells]
  BY <1>1, <1>4, <1>5
<1>7. n \in Nat
  BY <1>1
<1> QED
  BY <1>4, <1>5, <1>6, <1>7

LEMMA ContentsIs ==
  ASSUME NEW r \in Rings
  PROVE  /\ Contents(r) \in Seq(Cells) /\ Len(Contents(r)) = UseSize(r)
         /\ \A i \in 1 .. UseSize(r) : Spot(r, i) \in Positions /\ Contents(r)[i] = r.buffer[Spot(r, i)]
<1>1. UseSize(r) \in 0 .. UseSize(r)
  <2>1. UseSize(r) \in 0 .. Capacity - 1
    BY Sizes
  <2> QED
    BY <2>1
<1> QED
  BY <1>1, PeekIs DEF Contents

\* What is looked at is the first of what there is.
LEMMA PeekFirst ==
  ASSUME NEW r \in Rings, NEW n \in 0 .. UseSize(r), NEW i \in 1 .. n
  PROVE  Peek(r, n)[i] = Contents(r)[i]
<1>1. i \in 1 .. UseSize(r)
  <2>1. UseSize(r) \in 0 .. Capacity - 1 /\ Capacity \in Nat
    BY Sizes
  <2> QED
    BY <2>1
<1> QED
  BY <1>1, PeekIs, ContentsIs

\* Moving front gives places back.
LEMMA FrontMoves ==
  ASSUME NEW r \in Rings, NEW n \in 0 .. UseSize(r), NEW m,
         m = [r EXCEPT !.front = (r.front + n) % Capacity]
  PROVE  /\ m \in Rings /\ UseSize(m) = UseSize(r) - n
         /\ \A i \in 1 .. UseSize(m) : Contents(m)[i] = Contents(r)[n + i]
<1>1. PICK g \in Int, u \in Int, b \in Int : g = r.front /\ u = UseSize(r) /\ b = r.rear
  <2>1. r.front \in Int /\ UseSize(r) \in Int /\ r.rear \in Int
    BY Sizes
  <2> QED
    BY <2>1, Zenon
<1>2. /\ Capacity \in Nat \ {0} /\ g \in 0 .. Capacity - 1 /\ b \in 0 .. Capacity - 1
      /\ u \in 0 .. Capacity - 1 /\ n \in 0 .. u
      /\ b = IF g + u < Capacity THEN g + u ELSE g + u - Capacity
  BY <1>1, Sizes
<1>3. PICK f \in 0 .. Capacity - 1 : f = IF g + n < Capacity THEN g + n ELSE g + n - Capacity
  BY <1>2
<1>4. (g + n) % Capacity = f
  <2>1. g + n \in Int /\ 0 <= g + n /\ g + n < 2 * Capacity
    BY <1>2
  <2> QED
    BY <1>2, <1>3, <2>1, Mods
<1>5. m = [r EXCEPT !.front = f]
  BY <1>1, <1>4
<1>6. m.front = f /\ m.rear = b /\ m.buffer = r.buffer /\ m \in Rings
  BY <1>1, <1>5 DEF Rings, Positions
<1>7. UseSize(m) = u - n
  BY <1>2, <1>3, <1>6 DEF UseSize
<1>8. ASSUME NEW i \in 1 .. u - n
      PROVE  Contents(m)[i] = Contents(r)[n + i]
  <2>1. n + i \in 1 .. u /\ i \in 1 .. u
    BY <1>2
  <2>2. (IF f + i <= Capacity THEN f + i - 1 ELSE f + i - 1 - Capacity)
          = IF g + (n + i) <= Capacity THEN g + (n + i) - 1 ELSE g + (n + i) - 1 - Capacity
    BY <1>2, <1>3, <2>1
  <2>3. Spot(m, i) = Spot(r, n + i)
    BY <1>1, <1>6, <2>2 DEF Spot
  <2>4. Contents(m)[i] = m.buffer[Spot(m, i)]
    BY <1>6, <1>7, ContentsIs
  <2>5. Contents(r)[n + i] = r.buffer[Spot(r, n + i)]
    BY <1>1, <2>1, ContentsIs
  <2> QED
    BY <1>6, <2>3, <2>4, <2>5
<1> QED
  BY <1>1, <1>6, <1>7, <1>8

\* Moving rear takes them.
LEMMA RearMoves ==
  ASSUME NEW r \in Rings, NEW n \in 0 .. FreeSize(r)
  PROVE  /\ MoveRear(r, n) \in Rings /\ UseSize(MoveRear(r, n)) = UseSize(r) + n
         /\ \A i \in 1 .. UseSize(r) : Contents(MoveRear(r, n))[i] = Contents(r)[i]
         /\ \A i \in 1 .. n : Contents(MoveRear(r, n))[UseSize(r) + i] = r.buffer[Spot(r, UseSize(r) + i)]
<1>1. PICK g \in Int, u \in Int, b \in Int, v \in Int :
        g = r.front /\ u = UseSize(r) /\ b = r.rear /\ v = FreeSize(r)
  <2>1. r.front \in Int /\ UseSize(r) \in Int /\ r.rear \in Int /\ FreeSize(r) \in Int
    BY Sizes
  <2> QED
    BY <2>1, Zenon
<1>2. /\ Capacity \in Nat \ {0} /\ g \in 0 .. Capacity - 1 /\ b \in 0 .. Capacity - 1
      /\ u \in 0 .. Capacity - 1 /\ v \in 0 .. Capacity - 1 /\ n \in 0 .. v /\ u + v = Capacity - 1
      /\ b = IF g + u < Capacity THEN g + u ELSE g + u - Capacity
  BY <1>1, Sizes
<1>3. PICK d \in 0 .. Capacity - 1 : d = IF b + n < Capacity THEN b + n ELSE b + n - Capacity
  <2>1. (IF b + n < Capacity THEN b + n ELSE b + n - Capacity) \in 0 .. Capacity - 1
    BY <1>2
  <2> QED
    BY <2>1, Zenon
<1>4. (b + Least(n, v)) % Capacity = d
  <2>1. b + n \in Int /\ 0 <= b + n /\ b + n < 2 * Capacity /\ Least(n, v) = n
    BY <1>2 DEF Least
  <2>2. (b + n) % Capacity = d
    BY <1>2, <1>3, <2>1, Mods
  <2> QED
    BY <2>1, <2>2
<1>5. PICK m : m = MoveRear(r, n) /\ m = [r EXCEPT !.rear = d]
  BY <1>1, <1>4 DEF MoveRear
<1>6. m.front = g /\ m.rear = d /\ m.buffer = r.buffer /\ m \in Rings
  BY <1>1, <1>5 DEF Rings, Positions
<1>7. UseSize(m) = u + n
  BY <1>2, <1>3, <1>6 DEF UseSize
<1>8. ASSUME NEW i \in 1 .. u + n
      PROVE  Contents(m)[i] = r.buffer[Spot(r, i)]
  <2>1. Spot(m, i) = Spot(r, i)
    BY <1>1, <1>6 DEF Spot
  <2> QED
    BY <1>6, <1>7, <2>1, ContentsIs
<1>9. ASSUME NEW i \in 1 .. u
      PROVE  Contents(m)[i] = Contents(r)[i]
  <2>1. i \in 1 .. u + n
    BY <1>2
  <2> QED
    BY <1>1, <1>8, <2>1, ContentsIs
<1>10. \A i \in 1 .. n : Contents(m)[u + i] = r.buffer[Spot(r, u + i)]
  <2>1. \A i \in 1 .. n : u + i \in 1 .. u + n
    BY <1>2
  <2> QED
    BY <1>8, <2>1
<1> QED
  BY <1>1, <1>5, <1>6, <1>7, <1>9, <1>10

\* Different elements have different places.
LEMMA SpotsDiffer ==
  ASSUME NEW r \in Rings, NEW i \in 1 .. Capacity, NEW j \in 1 .. Capacity
  PROVE  /\ Spot(r, i) \in Positions
         /\ i # j => Spot(r, i) # Spot(r, j)
<1>1. PICK g \in Int : g = r.front /\ g \in 0 .. Capacity - 1 /\ Capacity \in Nat \ {0}
  <2>1. r.front \in 0 .. Capacity - 1 /\ Capacity \in Nat \ {0}
    BY Sizes
  <2>2. r.front \in Int
    BY <2>1
  <2> QED
    BY <2>1, <2>2, Zenon
<1> QED
  BY <1>1 DEF Spot, Positions

\* The two buffers of a receive are the free places, in order.
LEMMA AreasAre ==
  ASSUME ring \in Rings, posted = Areas
  PROVE  /\ Room = FreeSize(ring)
         /\ \A i \in 1 .. FreeSize(ring) : Place(i) = Spot(ring, UseSize(ring) + i)
<1>1. PICK g \in Int, u \in Int, b \in Int, v \in Int :
        g = ring.front /\ u = UseSize(ring) /\ b = ring.rear /\ v = FreeSize(ring)
  <2>1. ring.front \in Int /\ UseSize(ring) \in Int /\ ring.rear \in Int /\ FreeSize(ring) \in Int
    BY Sizes
  <2> QED
    BY <2>1, Zenon
<1>2. /\ Capacity \in Nat \ {0} /\ g \in 0 .. Capacity - 1 /\ b \in 0 .. Capacity - 1
      /\ u \in 0 .. Capacity - 1 /\ v \in 0 .. Capacity - 1 /\ u + v = Capacity - 1
      /\ b = IF g + u < Capacity THEN g + u ELSE g + u - Capacity
  BY <1>1, Sizes
<1>3. PICK d \in Int : d = DirectEnqueueSize(ring)
                       /\ d = IF v <= 0 THEN 0
                              ELSE IF g <= b THEN Least(Capacity - b, v) ELSE g - b - 1
  <2>1. (IF v <= 0 THEN 0 ELSE IF g <= b THEN Least(Capacity - b, v) ELSE g - b - 1) \in Int
    BY <1>2 DEF Least
  <2>2. DirectEnqueueSize(ring)
          = IF v <= 0 THEN 0 ELSE IF g <= b THEN Least(Capacity - b, v) ELSE g - b - 1
    BY <1>1 DEF DirectEnqueueSize
  <2> QED
    BY <2>1, <2>2, Zenon
<1>4. posted[1].start = b /\ posted[1].len = d /\ posted[2].start = 0 /\ posted[2].len = v - d
  BY <1>1, <1>3 DEF Areas
<1>5. Room = v
  BY <1>2, <1>4 DEF Room
<1>6. ASSUME NEW i \in 1 .. v
      PROVE  Place(i) = Spot(ring, u + i)
  <2>1. Place(i) = IF i <= d THEN b + i - 1 ELSE 0 + i - d - 1
    BY <1>4 DEF Place
  <2>2. (IF i <= d THEN b + i - 1 ELSE 0 + i - d - 1)
          = IF g + (u + i) <= Capacity THEN g + (u + i) - 1 ELSE g + (u + i) - 1 - Capacity
    BY <1>2, <1>3 DEF Least
  <2> QED
    BY <1>1, <2>1, <2>2 DEF Spot
<1> QED
  BY <1>1, <1>5, <1>6

----------------------------------------------------------------------------
(***************************************************************************)
(* What a packet is when it has come.                                      *)
(***************************************************************************)

\* A packet with the elements of a frame in it, as CNetServer takes it.
Came(h, l) == MoveWritePos([Fresh EXCEPT !.buffer = Written(@, 0, h)], l)

RecForm(p, b, x, y, h, k) ==
  /\ p.buffer = b /\ p.readPos = x /\ p.writePos = y
  /\ \A c : [p EXCEPT !.buffer = c] = Rec(c, x, y, h, k)
  /\ \A z : [p EXCEPT !.writePos = z] = Rec(b, x, z, h, k)

LEMMA RecWith ==
  ASSUME NEW p, NEW b, NEW x, NEW y, NEW h, NEW k, p = Rec(b, x, y, h, k)
  PROVE  RecForm(p, b, x, y, h, k)
<1>1. p = [buffer |-> b, readPos |-> x, writePos |-> y, headerSize |-> h, encoded |-> k]
  BY DEF Rec
<1>2. p.buffer = b /\ p.readPos = x /\ p.writePos = y
  BY <1>1
<1>3. ASSUME NEW c
      PROVE  [p EXCEPT !.buffer = c] = Rec(c, x, y, h, k)
  <2>1. PICK t : t = [p EXCEPT !.buffer = c]
    BY Zenon
  <2>2. t = [buffer |-> c, readPos |-> x, writePos |-> y, headerSize |-> h, encoded |-> k]
    BY <1>1, <2>1
  <2> QED
    BY <2>1, <2>2 DEF Rec
<1>4. ASSUME NEW z
      PROVE  [p EXCEPT !.writePos = z] = Rec(b, x, z, h, k)
  <2>1. PICK t : t = [p EXCEPT !.writePos = z]
    BY Zenon
  <2>2. t = [buffer |-> b, readPos |-> x, writePos |-> z, headerSize |-> h, encoded |-> k]
    BY <1>1, <2>1
  <2> QED
    BY <2>1, <2>2 DEF Rec
<1> QED
  BY <1>2, <1>3, <1>4, Zenon DEF RecForm

\* The buffer of a packet nothing was put in yet.
LEMMA FreshIs ==
  \E b \in [Places -> Int] :
    Fresh = Rec(b, 4, 4, 0, FALSE)
<1>1. PICK b : b = [i \in Places |-> 0]
  BY Zenon
<1>2. b \in [Places -> Int]
  BY <1>1
<1>3. Reserve = 4
  BY DEF Reserve, NetHeaderSize
<1>4. Fresh = Rec(b, 4, 4, 0, FALSE)
  BY <1>1, <1>3 DEF Fresh, Places, Rec
<1> QED
  BY <1>2, <1>4

\* What a packet is when l elements were written into it.
LEMMA MovedIs ==
  ASSUME NEW d, NEW l \in Nat, l <= BufferSize
  PROVE  MoveWritePos([Fresh EXCEPT !.buffer = d], l) = Rec(d, 4, 4 + l, 0, FALSE)
<1>1. PICK B \in Nat : B = BufferSize
  BY PacketAssumption
<1>2. PICK b : RecForm(Fresh, b, 4, 4, 0, FALSE)
  BY FreshIs, RecWith
<1>3. PICK f : f = [Fresh EXCEPT !.buffer = d]
  BY Zenon
<1>4. RecForm(f, d, 4, 4, 0, FALSE)
  <2>1. f = Rec(d, 4, 4, 0, FALSE)
    BY <1>2, <1>3, Zenon DEF RecForm
  <2> QED
    BY <2>1, RecWith
<1>5. f.writePos = 4
  BY <1>4, Zenon DEF RecForm
<1>6. Fits(f, l) = l
  BY <1>1, <1>5 DEF Fits, Reserve, NetHeaderSize
<1>7. MoveWritePos(f, l) = [f EXCEPT !.writePos = f.writePos + l]
  BY <1>6 DEF MoveWritePos
<1>8. MoveWritePos(f, l) = [f EXCEPT !.writePos = 4 + l]
  BY <1>5, <1>7, Zenon
<1> QED
  BY <1>3, <1>4, <1>8, Zenon DEF RecForm

\* A packet from a client is refused exactly if the checksum it came with is not
\* that of the payload; otherwise the payload is read as it was before it was encoded.
LEMMA CameNet ==
  ASSUME NEW h \in Seq(Int), NEW code, NEW s \in Seq(Bytes), NEW key \in Bytes, NEW c \in Bytes,
         Len(s) <= BufferSize, NetForm(h, code, s, key, c)
  PROVE  /\ ChecksOut(Decoded(Came(h, Len(s)))) <=> c = CheckSum(s)
         /\ Read(Decoded(Came(h, Len(s)))) = s
<1>1. PICK l \in Nat, B \in Nat \ {0} : l = Len(s) /\ B = BufferSize /\ l <= B
  <2>1. Len(s) \in Nat /\ BufferSize \in Nat \ {0}
    BY PacketAssumption
  <2> QED
    BY <2>1
<1>2. Reserve = 4
  BY DEF Reserve, NetHeaderSize
<1>3. PICK b \in [Places -> Int] :
        Fresh = Rec(b, 4, 4, 0, FALSE)
  BY FreshIs
<1>4. PICK q \in Seq(Int) : /\ q = Encode(<<c>> \o s, key) /\ Len(q) = 1 + l
                            /\ Decode(q, key) = <<c>> \o s
  <2>1. PICK t \in Seq(Bytes) : t = <<c>> \o s /\ Len(t) = 1 + Len(s)
    <3>1. <<c>> \o s \in Seq(Bytes) /\ Len(<<c>> \o s) = 1 + Len(s)
      BY HeadJoined
    <3> QED
      BY <3>1, Zenon
  <2>2. Encode(t, key) \in Seq(Bytes) /\ Len(Encode(t, key)) = Len(t) /\ Decode(Encode(t, key), key) = t
    BY DecodeEncode
  <2>3. Encode(t, key) \in Seq(Int)
    BY <2>2, BytesInts
  <2> QED
    BY <1>1, <2>1, <2>2, <2>3
<1>5. /\ Len(h) = 4 + l /\ h[2] = l /\ h[3] = key
      /\ \A i \in 1 .. 1 + l : h[3 + i] = q[i]
  BY <1>1, <1>4 DEF NetForm
<1>6. PICK d \in [Places -> Int] :
        /\ d = Written(b, 0, h)
        /\ \A i \in 1 .. 4 + l : 0 + i - 1 \in Places /\ d[0 + i - 1] = h[i]
  <2>1. 0 + Len(h) <= Reserve + BufferSize /\ 0 \in Nat
    BY <1>1, <1>2, <1>5
  <2>2. /\ Written(b, 0, h) \in [Places -> Int]
        /\ \A i \in 1 .. Len(h) : 0 + i - 1 \in Places /\ Written(b, 0, h)[0 + i - 1] = h[i]
    BY <2>1, WrittenIs
  <2> QED
    BY <1>5, <2>2
<1>7. PICK p : p = Came(h, l) /\ p = Rec(d, 4, 4 + l, 0, FALSE)
  <2>1. Fresh.buffer = b
    <3>1. RecForm(Fresh, b, 4, 4, 0, FALSE)
      BY <1>3, RecWith
    <3> QED
      BY <3>1, Zenon DEF RecForm
  <2>2. Came(h, l) = MoveWritePos([Fresh EXCEPT !.buffer = d], l)
    BY <1>6, <2>1, Zenon DEF Came
  <2>3. MoveWritePos([Fresh EXCEPT !.buffer = d], l) = Rec(d, 4, 4 + l, 0, FALSE)
    BY <1>1, MovedIs
  <2> QED
    BY <2>2, <2>3, Zenon
<1>8. d[1] = l /\ d[2] = key /\ 1 \in Places /\ 2 \in Places
  <2>1. 2 \in 1 .. 4 + l /\ 3 \in 1 .. 4 + l /\ 0 + 2 - 1 = 1 /\ 0 + 3 - 1 = 2
    OBVIOUS
  <2>2. d[0 + 2 - 1] = h[2] /\ d[0 + 3 - 1] = h[3] /\ 0 + 2 - 1 \in Places /\ 0 + 3 - 1 \in Places
    BY <1>6, <2>1
  <2> QED
    BY <1>5, <2>1, <2>2
<1>9. Part(d, 3, l + 1) = q
  <2>1. ASSUME NEW i \in 1 .. 1 + l
        PROVE  3 + i - 1 \in Places /\ d[3 + i - 1] = q[i]
    <3>1. 3 + i \in 1 .. 4 + l /\ 0 + (3 + i) - 1 = 3 + i - 1
      OBVIOUS
    <3>2. 0 + (3 + i) - 1 \in Places /\ d[0 + (3 + i) - 1] = h[3 + i]
      BY <1>6, <3>1
    <3> QED
      BY <1>5, <3>1, <3>2
  <2>2. Holds(d, 3, q)
    BY <1>4, <2>1 DEF Holds
  <2>3. l + 1 = Len(q)
    BY <1>4
  <2> QED
    BY <2>2, <2>3, PartIs
<1>10. PICK t \in Seq(Int) : /\ t = <<c>> \o s /\ Len(t) = 1 + l /\ t[1] = c
                             /\ \A i \in 1 .. l : t[1 + i] = s[i]
  <2>1. c \in Int /\ s \in Seq(Int)
    BY BytesAre, BytesInts
  <2>2. /\ <<c>> \o s \in Seq(Int) /\ Len(<<c>> \o s) = 1 + Len(s) /\ (<<c>> \o s)[1] = c
        /\ \A i \in 1 .. Len(s) : (<<c>> \o s)[1 + i] = s[i]
    BY <2>1, HeadJoined
  <2> QED
    BY <1>1, <2>2, Zenon
<1>11. PICK e \in [Places -> Int] :
         /\ e = Written(d, 3, t)
         /\ \A i \in 1 .. 1 + l : 3 + i - 1 \in Places /\ e[3 + i - 1] = t[i]
         /\ \A j \in Places : j < 3 => e[j] = d[j]
  <2>1. 3 + Len(t) <= Reserve + BufferSize /\ 3 \in Nat
    BY <1>1, <1>2, <1>10
  <2>2. /\ Written(d, 3, t) \in [Places -> Int]
        /\ \A i \in 1 .. Len(t) : 3 + i - 1 \in Places /\ Written(d, 3, t)[3 + i - 1] = t[i]
        /\ \A j \in Places : j < 3 \/ 3 + Len(t) <= j => Written(d, 3, t)[j] = d[j]
    BY <2>1, WrittenIs, Zenon
  <2> QED
    BY <1>10, <2>2
<1>12. PICK r : r = Decoded(p) /\ r = Rec(e, 4, 4 + l, 0, FALSE)
  <2>0. RecForm(p, d, 4, 4 + l, 0, FALSE)
    BY <1>7, RecWith
  <2>1. p.buffer = d
    BY <2>0, Zenon DEF RecForm
  <2>2. Decoded(p) = [p EXCEPT !.buffer = Written(@, 3, Decode(Part(@, 3, l + 1), key))]
    <3>1. Reserve - 1 = 3
      BY <1>2
    <3> QED
      BY <1>8, <2>1, <3>1, Zenon DEF Decoded
  <2>3. Decoded(p) = [p EXCEPT !.buffer = e]
    BY <1>4, <1>9, <1>10, <1>11, <2>1, <2>2
  <2> QED
    BY <2>0, <2>3, Zenon DEF RecForm
<1>13. e[1] = l /\ e[3] = c
  <2>1. 1 < 3 /\ 1 \in 1 .. 1 + l /\ 3 + 1 - 1 = 3
    OBVIOUS
  <2>2. e[1] = d[1] /\ e[3 + 1 - 1] = t[1]
    BY <1>8, <1>11, <2>1
  <2> QED
    BY <1>8, <1>10, <2>1, <2>2
<1>14. Holds(e, 4, s)
  <2>1. ASSUME NEW i \in 1 .. l
        PROVE  4 + i - 1 \in Places /\ e[4 + i - 1] = s[i]
    <3>1. 1 + i \in 1 .. 1 + l /\ 3 + (1 + i) - 1 = 4 + i - 1
      OBVIOUS
    <3>2. 3 + (1 + i) - 1 \in Places /\ e[3 + (1 + i) - 1] = t[1 + i]
      BY <1>11, <3>1
    <3> QED
      BY <1>10, <3>1, <3>2
  <2> QED
    BY <1>1, <2>1 DEF Holds
<1>15. ChecksOut(r) <=> c = CheckSum(s)
  <2>0. r.buffer = e
    <3>1. RecForm(r, e, 4, 4 + l, 0, FALSE)
      BY <1>12, RecWith
    <3> QED
      BY <3>1, Zenon DEF RecForm
  <2>1. r.buffer = e /\ Reserve - 1 = 3
    BY <1>2, <2>0
  <2>2. Part(e, 4, l) = s
    <3>1. s \in Seq(Int)
      BY BytesInts
    <3> QED
      BY <1>1, <1>14, <3>1, PartIs
  <2>3. ChecksOut(r) <=> CheckSum(Part(e, 4, l)) = e[3]
    BY <1>2, <1>13, <2>1 DEF ChecksOut
  <2> QED
    BY <1>13, <2>2, <2>3
<1>16. Read(r) = s
  <2>1. r \in Records /\ r.readPos = 4 /\ r.writePos = 4 + Len(s) /\ Holds(r.buffer, 4, s)
    BY <1>1, <1>12, <1>14 DEF Records, Rec
  <2>2. s \in Seq(Int)
    BY BytesInts
  <2> QED
    BY <2>1, <2>2, ReadIs
<1> QED
  BY <1>1, <1>7, <1>12, <1>15, <1>16

\* A packet from a peer that is trusted is read as it came.
LEMMA CameLan ==
  ASSUME NEW s \in Seq(Int), Len(s) <= BufferSize
  PROVE  Read(MoveWritePos([Fresh EXCEPT !.buffer = Written(@, Reserve, s)], Len(s))) = s
<1>1. PICK l \in Nat, B \in Nat \ {0} : l = Len(s) /\ B = BufferSize /\ l <= B
  <2>1. Len(s) \in Nat /\ BufferSize \in Nat \ {0}
    BY PacketAssumption
  <2> QED
    BY <2>1
<1>2. Reserve = 4
  BY DEF Reserve, NetHeaderSize
<1>3. PICK b \in [Places -> Int] :
        Fresh = Rec(b, 4, 4, 0, FALSE)
  BY FreshIs
<1>4. PICK d \in [Places -> Int] : d = Written(b, 4, s) /\ Holds(d, 4, s)
  <2>1. 4 + Len(s) <= Reserve + BufferSize /\ 4 \in Nat
    BY <1>1, <1>2
  <2>2. /\ Written(b, 4, s) \in [Places -> Int]
        /\ \A i \in 1 .. Len(s) : 4 + i - 1 \in Places /\ Written(b, 4, s)[4 + i - 1] = s[i]
    BY <2>1, WrittenIs
  <2> QED
    BY <2>2, Zenon DEF Holds
<1>5. PICK p : p = MoveWritePos([Fresh EXCEPT !.buffer = d], l) /\ p = Rec(d, 4, 4 + l, 0, FALSE)
  BY <1>1, MovedIs
<1>6. p = MoveWritePos([Fresh EXCEPT !.buffer = Written(@, Reserve, s)], l)
  <2>1. Fresh.buffer = b
    <3>1. RecForm(Fresh, b, 4, 4, 0, FALSE)
      BY <1>3, RecWith
    <3> QED
      BY <3>1, Zenon DEF RecForm
  <2> QED
    <3>1. Written(Fresh.buffer, Reserve, s) = d
      BY <1>2, <1>4, <2>1
    <3> QED
      BY <1>5, <3>1, Zenon
<1>7. p = [buffer |-> d, readPos |-> 4, writePos |-> 4 + l, headerSize |-> 0, encoded |-> FALSE]
  BY <1>5 DEF Rec
<1>8. p \in Records /\ p.readPos = 4 /\ p.writePos = 4 + Len(s) /\ Holds(p.buffer, 4, s)
  BY <1>1, <1>4, <1>7 DEF Records
<1>9. Read(p) = s
  BY <1>8, ReadIs
<1> QED
  BY <1>1, <1>6, <1>9

----------------------------------------------------------------------------
(***************************************************************************)
(* What peers send.                                                        *)
(***************************************************************************)

Legal == {f \in Frame : f.kind = "long" <=> Len(f.payload) > BufferSize}

LEMMA LegalFits ==
  ASSUME NEW f \in Legal
  PROVE  /\ f.kind # "long" => Len(f.payload) <= BufferSize
         /\ Len(f.payload) <= BufferSize => f.kind # "long"
<1>1. PICK l \in Nat, B \in Nat : l = Len(f.payload) /\ B = BufferSize
  BY PacketAssumption DEF Legal, Frame
<1>2. f.kind = "long" <=> l > B
  BY <1>1 DEF Legal
<1>3. (f.kind # "long" => l <= B) /\ (l <= B => f.kind # "long")
  BY <1>2
<1> QED
  BY <1>1, <1>3

LenAt == IF server = "net" THEN 2 ELSE 1

\* The elements of a frame: where the length is and what it is, and which frames
\* pass for good ones.
FrameForm(f, e) ==
  /\ e \in Seq(Int) /\ e[LenAt] \in Nat /\ Len(e) = HeaderSize + e[LenAt]
  /\ e[LenAt] = Len(f.payload)
  /\ server = "net" /\ f.kind # "long" =>
       \E c \in Bytes : /\ NetForm(e, e[1], f.payload, f.key, c)
                        /\ e[1] = PacketCode => f.kind # "code"
                        /\ c = CheckSum(f.payload) => f.kind # "sum"
  /\ server = "lan" /\ f.kind # "long" => \A i \in 1 .. Len(f.payload) : e[1 + i] = f.payload[i]

\* The first element of a frame can be changed alone.
LEMMA OtherCode ==
  ASSUME NEW h, NEW code, NEW s \in Seq(Bytes), NEW key, NEW c, NEW x \in Int,
         NetForm(h, code, s, key, c), NEW e, e = [h EXCEPT ![1] = x]
  PROVE  NetForm(e, x, s, key, c)
<1>1. /\ h \in Seq(Int) /\ Len(h) = 4 + Len(s) /\ h[2] = Len(s) /\ h[3] = key
      /\ \A i \in 1 .. 1 + Len(s) : h[3 + i] = Encode(<<c>> \o s, key)[i]
  BY DEF NetForm
<1>2. PICK l \in Nat : l = Len(s)
  OBVIOUS
<1>4. e \in Seq(Int) /\ Len(e) = 4 + l
  BY <1>1, <1>2
<1>5. e[1] = x /\ \A i \in 2 .. 4 + l : e[i] = h[i]
  BY <1>1, <1>2
<1>6. e[2] = Len(s) /\ e[3] = key
  BY <1>1, <1>5
<1>7. \A i \in 1 .. 1 + l : e[3 + i] = h[3 + i]
  BY <1>5
<1> QED
  BY <1>1, <1>2, <1>4, <1>5, <1>6, <1>7 DEF NetForm

LEMMA NetElementsAre ==
  ASSUME NEW f \in Legal, server = "net"
  PROVE  FrameForm(f, NetElements(f))
<1>1. PICK s \in Seq(Bytes), key \in Bytes :
        /\ s = f.payload /\ key = f.key
        /\ f.kind # "long" => Len(s) <= BufferSize
  <2>1. f.payload \in Seq(Bytes) /\ f.key \in Bytes
    BY DEF Legal, Frame
  <2> QED
    BY <2>1, LegalFits
<1>2. PICK l \in Nat, B \in Nat : l = Len(s) /\ B = BufferSize
  BY PacketAssumption
<1>3. PICK code \in Bytes, sum \in Bytes : code = PacketCode /\ sum = CheckSum(s)
  BY SumIsByte, PacketAssumption
<1>4. code \in Int /\ key \in Int /\ Byte(code + 1) \in Int /\ \A b \in Bytes : b \in Int
  <2>1. \A b \in Bytes : b \in Int
    BY BytesAre
  <2>2. Byte(code + 1) \in Bytes
    BY NextByte
  <2> QED
    BY <2>1, <2>2
<1>5. PICK h : /\ h = NetFrame(code, s, key, sum)
               /\ f.kind # "long" => h = Sent(SetNetHeader(Filled(s), key))
  <2>1. f.kind # "long" => Sent(SetNetHeader(Filled(s), key)) = NetFrame(code, s, key, sum)
    BY <1>1, <1>3, SentNet
  <2> QED
    BY <2>1
<1>6. NetForm(h, code, s, key, sum)
  BY <1>4, <1>5, NetFrameIs
<1>7. /\ f.kind = "good" => NetElements(f) = h
      /\ f.kind = "code" => NetElements(f) = [h EXCEPT ![1] = Byte(@ + 1)]
      /\ f.kind = "sum"  => NetElements(f) = SubSeq(h, 1, 3)
                                             \o Encode(<<Byte(sum + 1)>> \o s, key)
      /\ f.kind = "long" => NetElements(f) = <<code, l, key, 0>> \o s
  BY <1>1, <1>2, <1>3, <1>5 DEF NetElements
<1>8. HeaderSize = 4 /\ LenAt = 2
  BY DEF HeaderSize, LenAt, NetHeaderSize
<1>9. ASSUME NEW e, NEW x, NEW c \in Bytes, NetForm(e, x, s, key, c), f.kind # "long",
             x = code => f.kind # "code", c = sum => f.kind # "sum"
      PROVE  FrameForm(f, e)
  <2>1. /\ e \in Seq(Int) /\ Len(e) = 4 + l /\ e[1] = x /\ e[2] = l /\ l \in Nat
    BY <1>2, <1>9 DEF NetForm
  <2>2. \E d \in Bytes : /\ NetForm(e, e[1], f.payload, f.key, d)
                         /\ e[1] = PacketCode => f.kind # "code"
                         /\ d = CheckSum(f.payload) => f.kind # "sum"
    BY <1>1, <1>3, <1>9, <2>1
  <2>3. server # "lan"
    OBVIOUS
  <2> QED
    BY <1>1, <1>2, <1>8, <1>9, <2>1, <2>2, <2>3 DEF FrameForm
<1>10. CASE f.kind = "good"
  BY <1>6, <1>7, <1>9, <1>10
<1>11. CASE f.kind = "code"
  <2>1. PICK x \in Int : x = Byte(code + 1) /\ x # code
    BY <1>4, NextByte
  <2>2. h[1] = code
    BY <1>6 DEF NetForm
  <2>3. NetElements(f) = [h EXCEPT ![1] = x]
    BY <1>7, <1>11, <2>1, <2>2
  <2>4. PICK e : e = NetElements(f)
    BY Zenon
  <2>5. NetForm(e, x, s, key, sum)
    BY <1>6, <2>3, <2>4, OtherCode
  <2> QED
    BY <1>9, <1>11, <2>1, <2>4, <2>5
<1>12. CASE f.kind = "sum"
  <2>1. PICK c \in Bytes : c = Byte(sum + 1) /\ c # sum
    BY NextByte
  <2>2. SubSeq(h, 1, 3) = <<code, l, key>>
    <3>1. /\ h \in Seq(Int) /\ Len(h) = 4 + l /\ h[1] = code /\ h[2] = l /\ h[3] = key
      BY <1>2, <1>6 DEF NetForm
    <3>2. PICK t \in Seq(Int) : t = SubSeq(h, 1, 3) /\ Len(t) = 3 /\ \A i \in 1 .. 3 : t[i] = h[i]
      <4>1. 3 \in 0 .. Len(h)
        BY <3>1
      <4>2. /\ SubSeq(h, 1, 3) \in Seq(Int) /\ Len(SubSeq(h, 1, 3)) = 3
            /\ \A i \in 1 .. 3 : SubSeq(h, 1, 3)[i] = h[i]
        BY <3>1, <4>1, Tails
      <4> QED
        BY <4>2, Zenon
    <3>3. t[1] = code /\ t[2] = l /\ t[3] = key
      BY <3>1, <3>2
    <3>4. PICK u \in Seq(Int) : u = <<code, l, key>> /\ Len(u) = 3
                                /\ u[1] = code /\ u[2] = l /\ u[3] = key
      <4>1. <<code, l, key>> \in Seq(Int)
        BY <1>4
      <4>2. /\ Len(<<code, l, key>>) = 3 /\ <<code, l, key>>[1] = code /\ <<code, l, key>>[2] = l
            /\ <<code, l, key>>[3] = key
        OBVIOUS
      <4> QED
        BY <4>1, <4>2, Zenon
    <3>5. \A i \in 1 .. 3 : t[i] = u[i]
      BY <3>3, <3>4
    <3>6. t = u
      BY <3>2, <3>4, <3>5, Alike
    <3> QED
      BY <3>2, <3>4, <3>6
  <2>3. NetElements(f) = NetFrame(code, s, key, c)
    BY <1>2, <1>7, <1>12, <2>1, <2>2 DEF NetFrame
  <2>4. NetForm(NetElements(f), code, s, key, c)
    BY <1>4, <2>3, NetFrameIs
  <2> QED
    BY <1>9, <1>12, <2>1, <2>4
<1>13. CASE f.kind = "long"
  <2>1. PICK e \in Seq(Int) : e = <<code, l, key, 0>> \o s /\ Len(e) = 4 + l /\ e[2] = l
    <3>1. s \in Seq(Int) /\ l \in Int /\ 0 \in Int
      BY BytesInts
    <3>2. /\ <<code, l, key, 0>> \o s \in Seq(Int) /\ Len(<<code, l, key, 0>> \o s) = 4 + Len(s)
          /\ (<<code, l, key, 0>> \o s)[2] = l
      BY <1>4, <3>1, FourJoined
    <3> QED
      BY <1>2, <3>2, Zenon
  <2>2. NetElements(f) = e
    BY <1>7, <1>13, <2>1
  <2>3. server # "lan"
    OBVIOUS
  <2> QED
    BY <1>1, <1>2, <1>8, <1>13, <2>1, <2>2, <2>3 DEF FrameForm
<1>14. f.kind \in {"good", "code", "sum", "long"}
  BY DEF Legal, Frame
<1> QED
  BY <1>10, <1>11, <1>12, <1>13, <1>14

LEMMA LanElementsAre ==
  ASSUME NEW f \in Legal, server = "lan"
  PROVE  FrameForm(f, LanElements(f))
<1>1. PICK s \in Seq(Bytes) : s = f.payload /\ (f.kind # "long" => Len(s) <= BufferSize)
  <2>1. f.payload \in Seq(Bytes)
    BY DEF Legal, Frame
  <2> QED
    BY <2>1, LegalFits
<1>2. PICK l \in Nat : l = Len(s)
  OBVIOUS
<1>3. HeaderSize = 1 /\ LenAt = 1
  BY DEF HeaderSize, LenAt, LanHeaderSize
<1>4. PICK e \in Seq(Int) : /\ e = <<l>> \o s /\ Len(e) = 1 + l /\ e[1] = l
                            /\ \A i \in 1 .. l : e[1 + i] = s[i]
  <2>1. s \in Seq(Int) /\ l \in Int
    BY BytesInts
  <2>2. /\ <<l>> \o s \in Seq(Int) /\ Len(<<l>> \o s) = 1 + Len(s) /\ (<<l>> \o s)[1] = l
        /\ \A i \in 1 .. Len(s) : (<<l>> \o s)[1 + i] = s[i]
    BY <2>1, HeadJoined
  <2> QED
    BY <1>2, <2>2, Zenon
<1>5. LanElements(f) = e
  <2>1. CASE f.kind = "long"
    BY <1>1, <1>2, <1>4, <2>1 DEF LanElements
  <2>2. CASE f.kind # "long"
    <3>1. LanElements(f) = Sent(SetLanHeader(Filled(s)))
      BY <1>1, <2>2 DEF LanElements
    <3>2. Sent(SetLanHeader(Filled(s))) = <<Len(s)>> \o s
      BY <1>1, <2>2, SentLan
    <3> QED
      BY <1>2, <1>4, <3>1, <3>2
  <2> QED
    BY <2>1, <2>2
<1>6. server # "net"
  OBVIOUS
<1> QED
  BY <1>1, <1>2, <1>3, <1>4, <1>5, <1>6 DEF FrameForm

LEMMA ElementsAre ==
  ASSUME NEW f \in Legal, server \in {"net", "lan"}
  PROVE  FrameForm(f, Elements(f))
<1>1. CASE server = "net"
  BY <1>1, NetElementsAre DEF Elements
<1>2. CASE server = "lan"
  BY <1>2, LanElementsAre DEF Elements
<1> QED
  BY <1>1, <1>2

----------------------------------------------------------------------------
(***************************************************************************)
(* Streams.                                                                *)
(***************************************************************************)

\* It does not matter which of three sequences are joined first.
Associate(a, b, c) == (a \o b) \o c = a \o (b \o c)

LEMMA Associates ==
  ASSUME NEW S, NEW a \in Seq(S), NEW b \in Seq(S), NEW c \in Seq(S)
  PROVE  Associate(a, b, c)
BY ConcatAssociative DEF Associate

\* How FlattenSeq joins: g[i] is the first i sequences of E in one.
FlatTo(E, g) == g = [i \in 1 .. Len(E) |-> IF i = 1 THEN E[i] ELSE g[i - 1] \o E[i]]

Flats(E, g) ==
  /\ g[1] = E[1] /\ FlattenSeq(E) = g[Len(E)]
  /\ \A i \in 2 .. Len(E) : g[i] = g[i - 1] \o E[i]
  /\ \A i \in 1 .. Len(E) : g[i] \in Seq(Int)

LEMMA FlatExists ==
  ASSUME NEW E \in Seq(Seq(Int)), E # <<>>
  PROVE  \E g : FlatTo(E, g)
<1>1. PICK N \in Nat : N = Len(E) /\ N >= 1
  <2>1. Len(E) \in Nat /\ Len(E) # 0
    BY EmptySeq
  <2> QED
    BY <2>1
<1>2. PICK X : X = Seq(Int)
  BY Zenon
<1>3. PICK F : F = [q \in (1 .. N) \X X |-> q[2] \o E[q[1]]]
  BY Zenon
<1>4. ASSUME NEW n \in 1 .. N, NEW y \in X
      PROVE  F[<<n, y>>] = y \o E[n] /\ y \o E[n] \in X
  <2>1. E[n] \in Seq(Int)
    BY <1>1
  <2>2. y \o E[n] \in Seq(Int)
    BY <1>2, <2>1, Joined
  <2> QED
    BY <1>2, <1>3, <2>2
<1>5. F \in [(1 .. N) \X X -> X]
  <2>1. \A q \in (1 .. N) \X X : q[1] \in 1 .. N /\ q[2] \in X
    OBVIOUS
  <2>2. \A q \in (1 .. N) \X X : q[2] \o E[q[1]] \in X
    BY <1>4, <2>1
  <2> QED
    BY <1>3, <2>2
<1>6. PICK x \in X : x = <<>>
  <2>1. <<>> \in Seq(Int)
    BY EmptySeq
  <2> QED
    BY <1>2, <2>1
<1>7. PICK g : Follows(g, N, X, x, F)
  BY <1>5, Recursion
<1>8. /\ g[0] = x
      /\ \A n \in 1 .. N : g[n - 1] \in X /\ g[n] = g[n - 1] \o E[n]
  <2>1. g \in [0 .. N -> X] /\ g[0] = x /\ \A n \in 1 .. N : g[n] = F[<<n, g[n - 1]>>]
    BY <1>7 DEF Follows
  <2>2. \A n \in 1 .. N : n - 1 \in 0 .. N
    OBVIOUS
  <2>3. \A n \in 1 .. N : g[n - 1] \in X
    BY <2>1, <2>2
  <2> QED
    BY <1>4, <2>1, <2>3
<1>9. PICK h : h = [i \in 1 .. N |-> g[i]]
  BY Zenon
<1>10. ASSUME NEW i \in 1 .. N
       PROVE  h[i] = IF i = 1 THEN E[i] ELSE h[i - 1] \o E[i]
  <2>1. CASE i = 1
    <3>1. g[1] = g[0] \o E[1]
      <4>1. 1 \in 1 .. N /\ 1 - 1 = 0
        BY <1>1
      <4>2. g[1] = g[1 - 1] \o E[1]
        BY <1>8, <4>1, Zenon
      <4> QED
        BY <4>1, <4>2, Zenon
    <3>2. <<>> \o E[1] = E[1]
      <4>1. E[1] \in Seq(Int)
        BY <1>1
      <4> QED
        BY <4>1, ConcatEmptySeq
    <3>3. g[1] = E[1]
      BY <1>6, <1>8, <3>1, <3>2
    <3> QED
      BY <1>9, <2>1, <3>3
  <2>2. CASE i # 1
    <3>1. i - 1 \in 1 .. N
      BY <2>2
    <3>2. h[i] = g[i] /\ h[i - 1] = g[i - 1]
      BY <1>9, <3>1
    <3> QED
      BY <1>8, <2>2, <3>2
  <2> QED
    BY <2>1, <2>2
<1>11. FlatTo(E, h)
  <2>1. h = [i \in 1 .. N |-> h[i]]
    BY <1>9
  <2>2. h = [i \in 1 .. N |-> IF i = 1 THEN E[i] ELSE h[i - 1] \o E[i]]
    BY <1>10, <2>1
  <2> QED
    BY <1>1, <2>2 DEF FlatTo
<1> QED
  BY <1>11

LEMMA FlatsAre ==
  ASSUME NEW E \in Seq(Seq(Int)), E # <<>>
  PROVE  \E g : Flats(E, g)
<1>1. PICK N \in Nat : N = Len(E) /\ N >= 1
  <2>1. Len(E) \in Nat /\ Len(E) # 0
    BY EmptySeq
  <2> QED
    BY <2>1
<1>2. PICK g : g = CHOOSE h : FlatTo(E, h)
  BY Zenon
<1>3. FlatTo(E, g)
  <2>1. \E h : FlatTo(E, h)
    BY FlatExists
  <2> HIDE DEF FlatTo
  <2> QED
    BY <1>2, <2>1
<1>4. FlattenSeq(E) = g[Len(E)]
  <2>1. Len(E) # 0
    BY <1>1
  <2>2. FlattenSeq(E) = (CHOOSE h : FlatTo(E, h))[Len(E)]
    BY <2>1 DEF FlattenSeq, FlatTo
  <2> QED
    BY <1>2, <2>2, Zenon
<1>5. ASSUME NEW i \in 1 .. N
      PROVE  g[i] = IF i = 1 THEN E[i] ELSE g[i - 1] \o E[i]
  <2>1. g = [j \in 1 .. N |-> IF j = 1 THEN E[j] ELSE g[j - 1] \o E[j]]
    BY <1>1, <1>3 DEF FlatTo
  <2>2. PICK f : f = [j \in 1 .. N |-> IF j = 1 THEN E[j] ELSE g[j - 1] \o E[j]]
    BY Zenon
  <2>3. f[i] = IF i = 1 THEN E[i] ELSE g[i - 1] \o E[i]
    BY <2>2
  <2> QED
    BY <2>1, <2>2, <2>3
<1>6. g[1] = E[1] /\ \A i \in 2 .. N : g[i] = g[i - 1] \o E[i]
  <2>1. 1 \in 1 .. N /\ \A i \in 2 .. N : i \in 1 .. N /\ i # 1
    BY <1>1
  <2> QED
    BY <1>5, <2>1, Zenon
<1> DEFINE S == {n \in 0 .. N : n = 0 \/ g[n] \in Seq(Int)}
<1>7. \A n \in 0 .. N : n \in S
  <2>1. 0 \in S
    BY <1>1
  <2>2. ASSUME NEW n \in 1 .. N, n - 1 \in S
        PROVE  n \in S
    <3>1. E[n] \in Seq(Int)
      BY <1>1
    <3>2. CASE n = 1
      BY <1>6, <3>1, <3>2
    <3>3. CASE n # 1
      <4>1. g[n - 1] \in Seq(Int) /\ g[n] = g[n - 1] \o E[n]
        <5>1. n \in 2 .. N /\ n - 1 # 0
          BY <3>3
        <5>2. g[n - 1] \in Seq(Int)
          BY <2>2, <5>1
        <5> QED
          BY <1>6, <5>1, <5>2, Zenon
      <4>2. g[n - 1] \o E[n] \in Seq(Int)
        BY <3>1, <4>1, Joined
      <4>3. g[n] \in Seq(Int)
        BY <4>1, <4>2, Zenon
      <4> QED
        BY <4>3
    <3> QED
      BY <3>2, <3>3
  <2> HIDE DEF S
  <2> QED
    BY <2>1, <2>2, UpTo
<1>8. \A i \in 1 .. N : g[i] \in Seq(Int)
  BY <1>7
<1> QED
  BY <1>1, <1>4, <1>6, <1>8 DEF Flats

\* The first of several sequences, and the others in one.
LEMMA FlattenHead ==
  ASSUME NEW E \in Seq(Seq(Int)), NEW D \in Seq(Seq(Int)), Len(E) = 1 + Len(D),
         \A i \in 1 .. Len(D) : D[i] = E[1 + i]
  PROVE  /\ E[1] \in Seq(Int) /\ FlattenSeq(D) \in Seq(Int)
         /\ FlattenSeq(E) = E[1] \o FlattenSeq(D)
<1>1. PICK N \in Nat : N = Len(D) /\ Len(E) = 1 + N
  OBVIOUS
<1>2. PICK x \in Seq(Int) : x = E[1]
  BY <1>1
<1>3. PICK g : Flats(E, g)
  <2>1. E # <<>>
    BY <1>1
  <2> QED
    BY <2>1, FlatsAre
<1>4. CASE N = 0
  <2>1. FlattenSeq(E) = x
    BY <1>1, <1>2, <1>3, <1>4 DEF Flats
  <2>2. FlattenSeq(D) = <<>>
    <3>1. Len(D) = 0
      BY <1>1, <1>4
    <3>2. D = <<>>
      BY <3>1, EmptySeq
    <3> QED
      BY <3>1, <3>2 DEF FlattenSeq
  <2>3. x \o <<>> = x /\ <<>> \in Seq(Int)
    BY ConcatEmptySeq, EmptySeq
  <2> QED
    BY <1>2, <2>1, <2>2, <2>3
<1>5. CASE N # 0
  <2>1. PICK h : Flats(D, h)
    <3>1. D # <<>>
      BY <1>1, <1>5
    <3> QED
      BY <3>1, FlatsAre
  <2> DEFINE S == {n \in 0 .. N : n = 0 \/ g[1 + n] = x \o h[n]}
  <2>2. ASSUME NEW n \in 1 .. N, n - 1 \in S
        PROVE  n \in S
    <3>1. PICK y \in Seq(Int) : y = D[n] /\ y = E[1 + n]
      BY <1>1
    <3>2. g[1 + n] = g[n] \o y
      <4>1. 1 + n \in 2 .. Len(E) /\ (1 + n) - 1 = n
        BY <1>1
      <4>2. g[1 + n] = g[(1 + n) - 1] \o E[1 + n]
        BY <1>3, <4>1 DEF Flats
      <4> QED
        BY <3>1, <4>1, <4>2
    <3>3. CASE n = 1
      <4>1. g[1] = x /\ h[1] = y
        BY <1>2, <1>3, <2>1, <3>1, <3>3 DEF Flats
      <4>2. g[1 + n] = x \o h[n]
        BY <3>2, <3>3, <4>1, Zenon
      <4> QED
        BY <4>2
    <3>4. CASE n # 1
      <4>1. n \in 2 .. N /\ n - 1 \in 1 .. N /\ 1 + (n - 1) = n
        BY <3>4
      <4>2. PICK z \in Seq(Int) : z = h[n - 1] /\ h[n] = z \o y
        BY <1>1, <2>1, <3>1, <4>1 DEF Flats
      <4>3. g[n] = x \o z
        <5>1. g[1 + (n - 1)] = x \o h[n - 1]
          BY <2>2, <4>1
        <5> QED
          BY <4>1, <4>2, <5>1
      <4>4. (x \o z) \o y = x \o (z \o y)
        <5>1. Associate(x, z, y)
          BY Associates
        <5> QED
          BY <5>1, Zenon DEF Associate
      <4>5. g[1 + n] = x \o h[n]
        BY <3>2, <4>2, <4>3, <4>4, Zenon
      <4> QED
        BY <4>5
    <3> QED
      BY <3>3, <3>4
  <2>3. N \in S
    <3>1. 0 \in S
      OBVIOUS
    <3>2. \A n \in 0 .. N : n \in S
      <4> HIDE DEF S
      <4> QED
        BY <2>2, <3>1, UpTo
    <3> HIDE DEF S
    <3> QED
      BY <3>2
  <2>4. FlattenSeq(E) = g[1 + N] /\ FlattenSeq(D) = h[N] /\ h[N] \in Seq(Int)
    BY <1>1, <1>3, <1>5, <2>1 DEF Flats
  <2> QED
    BY <1>2, <1>5, <2>3, <2>4
<1> QED
  BY <1>4, <1>5

\* What follows the first k frames of a stream: the frame behind them and what
\* follows that.
Rest(q, k) == Stream(SubSeq(q, k + 1, Len(q)))

LEMMA RestIs ==
  ASSUME NEW q \in Seq(Legal), server \in {"net", "lan"}, NEW k \in 0 .. Len(q)
  PROVE  /\ Rest(q, k) \in Seq(Int)
         /\ k = Len(q) => Rest(q, k) = <<>>
         /\ k < Len(q) =>
              /\ Elements(q[k + 1]) \in Seq(Int) /\ Rest(q, k + 1) \in Seq(Int)
              /\ Rest(q, k) = Elements(q[k + 1]) \o Rest(q, k + 1)
<1>1. PICK L \in Nat : L = Len(q)
  OBVIOUS
<1>2. \A i \in 1 .. L : Elements(q[i]) \in Seq(Int)
  <2>1. \A i \in 1 .. L : q[i] \in Legal
    BY <1>1
  <2>2. \A i \in 1 .. L : FrameForm(q[i], Elements(q[i]))
    BY <2>1, ElementsAre
  <2> QED
    BY <2>2 DEF FrameForm
<1> DEFINE Are(D, m) == /\ D \in Seq(Seq(Int)) /\ Len(D) = L - m
                        /\ \A i \in 1 .. L - m : D[i] = Elements(q[m + i])
<1>3. ASSUME NEW m \in 0 .. L
      PROVE  \E D : Are(D, m) /\ Rest(q, m) = FlattenSeq(D)
  <2>1. PICK s \in Seq(Legal) : /\ s = SubSeq(q, m + 1, Len(q)) /\ Len(s) = L - m
                                /\ \A i \in 1 .. L - m : s[i] = q[m + i]
    <3>1. m \in 0 .. Len(q)
      BY <1>1
    <3>2. /\ SubSeq(q, m + 1, Len(q)) \in Seq(Legal) /\ Len(SubSeq(q, m + 1, Len(q))) = Len(q) - m
          /\ \A i \in 1 .. Len(q) - m : SubSeq(q, m + 1, Len(q))[i] = q[m + i]
      BY <3>1, Tails
    <3> QED
      BY <1>1, <3>2, Zenon
  <2>2. PICK D : D = [i \in 1 .. Len(s) |-> Elements(s[i])]
    BY Zenon
  <2>3. \A i \in 1 .. L - m : D[i] = Elements(q[m + i]) /\ D[i] \in Seq(Int)
    <3>1. \A i \in 1 .. L - m : m + i \in 1 .. L
      OBVIOUS
    <3> QED
      BY <1>2, <2>1, <2>2, <3>1
  <2>4. D \in Seq(Seq(Int)) /\ Len(D) = L - m
    <3>0. PICK T : T = Seq(Int)
      BY Zenon
    <3>1. PICK M \in Nat : M = L - m
      OBVIOUS
    <3>2. D \in [1 .. M -> T]
      BY <2>1, <2>2, <2>3, <3>0, <3>1
    <3>3. D \in Seq(T) /\ Len(D) = M
      BY <3>2
    <3> QED
      BY <3>0, <3>1, <3>3
  <2>5. Rest(q, m) = FlattenSeq(D)
    BY <2>1, <2>2 DEF Rest, Stream
  <2> QED
    BY <2>3, <2>4, <2>5
<1>4. PICK E : Are(E, k) /\ Rest(q, k) = FlattenSeq(E)
  <2>1. k \in 0 .. L
    BY <1>1
  <2> HIDE DEF Are
  <2> QED
    BY <1>3, <2>1
<1>5. CASE k = L
  <2>1. E = <<>>
    <3>1. Len(E) = 0 /\ E \in Seq(Seq(Int))
      BY <1>4, <1>5
    <3> QED
      BY <3>1, EmptySeq
  <2>2. FlattenSeq(E) = <<>> /\ <<>> \in Seq(Int)
    <3>1. Len(E) = 0
      BY <1>4, <1>5
    <3>2. <<>> \in Seq(Int)
      BY EmptySeq
    <3> QED
      BY <2>1, <3>1, <3>2 DEF FlattenSeq
  <2> QED
    BY <1>1, <1>4, <1>5, <2>2
<1>6. CASE k # L
  <2>1. k + 1 \in 0 .. L /\ k < L
    BY <1>1, <1>6
  <2>2. PICK D : Are(D, k + 1) /\ Rest(q, k + 1) = FlattenSeq(D)
    <3> HIDE DEF Are
    <3> QED
      BY <1>3, <2>1
  <2>3. Len(E) = 1 + Len(D) /\ E[1] = Elements(q[k + 1])
    <3>1. Len(E) = L - k /\ Len(D) = L - (k + 1) /\ 1 \in 1 .. L - k
      BY <1>4, <2>1, <2>2
    <3> QED
      BY <1>4, <2>1, <3>1
  <2>4. ASSUME NEW i \in 1 .. Len(D)
        PROVE  D[i] = E[1 + i]
    <3>1. i \in 1 .. L - (k + 1) /\ 1 + i \in 1 .. L - k /\ (k + 1) + i = k + (1 + i)
      BY <2>1, <2>2
    <3> QED
      BY <1>4, <2>2, <3>1
  <2>5. /\ E[1] \in Seq(Int) /\ FlattenSeq(D) \in Seq(Int)
        /\ FlattenSeq(E) = E[1] \o FlattenSeq(D)
    BY <1>4, <2>2, <2>3, <2>4, FlattenHead
  <2>6. E[1] \o FlattenSeq(D) \in Seq(Int)
    BY <2>5, Joined
  <2> QED
    BY <1>1, <1>4, <1>6, <2>2, <2>3, <2>5, <2>6
<1> QED
  BY <1>5, <1>6

----------------------------------------------------------------------------
(***************************************************************************)
(* Taking a frame off the ring.                                            *)
(***************************************************************************)

TypeOK ==
  /\ server \in {"net", "lan"} /\ ring \in Rings /\ cb \in Nat /\ wire \in Seq(Int)
  /\ sent \in Seq(Legal) /\ MaySend(sent) /\ got \in Seq(Seq(Int))
  /\ pc \in {"RecvPost", "posted", "completed", "frames", "ended", "undefined"}

LEMMA InCells == ASSUME NEW s \in Seq(Int) PROVE s \in Seq(Cells)
<1>1. \A x \in Int : x \in Cells
  BY DEF Cells
<1> QED
  BY <1>1

\* Between receives what is pending is what is in the ring and on the wire.
LEMMA PendingCalm ==
  ASSUME TypeOK, cb = 0
  PROVE  Pending = Contents(ring) \o wire
<1>1. PICK c \in Seq(Cells), w \in Seq(Cells) : c = Contents(ring) /\ w = wire
  BY ContentsIs, InCells DEF TypeOK
<1>2. [i \in 1 .. cb |-> ring.buffer[Place(i)]] = <<>>
  OBVIOUS
<1>3. Pending = c \o <<>> \o w
  BY <1>1, <1>2 DEF Pending, Contents
<1>4. c \o <<>> = c
  BY ConcatEmptySeq
<1> QED
  BY <1>1, <1>3, <1>4

\* Where one sequence begins as another one, the shorter is the head of the longer.
Joint(c, w, e, t) == c \o w = e \o t

Matches(c, w, e, t) ==
  /\ \A i \in 1 .. Len(c) : i <= Len(e) => c[i] = e[i]
  /\ Len(c) + Len(w) = Len(e) + Len(t)
  /\ \A i \in 1 .. Len(w) : Len(e) < Len(c) + i => w[i] = t[Len(c) + i - Len(e)]
  /\ \A i \in 1 .. Len(c) : Len(e) < i => c[i] = t[i - Len(e)]

LEMMA SameHead ==
  ASSUME NEW c \in Seq(Cells), NEW w \in Seq(Cells), NEW e \in Seq(Int), NEW t \in Seq(Int),
         Joint(c, w, e, t)
  PROVE  Matches(c, w, e, t)
<1>1. PICK q \in Seq(Cells) : IsJoin(q, c, w)
  BY Joins
<1>2. PICK p \in Seq(Int) : IsJoin(p, e, t)
  BY Joins
<1>3. PICK k \in Nat, l \in Nat, m \in Nat, n \in Nat :
        k = Len(c) /\ l = Len(w) /\ m = Len(e) /\ n = Len(t)
  OBVIOUS
<1>4. /\ Len(q) = k + l /\ Len(p) = m + n /\ q = p
      /\ \A i \in 1 .. k : q[i] = c[i]
      /\ \A i \in 1 .. l : q[k + i] = w[i]
      /\ \A i \in 1 .. m : p[i] = e[i]
      /\ \A i \in 1 .. n : p[m + i] = t[i]
  <2>1. /\ q = c \o w /\ Len(q) = k + l
        /\ \A i \in 1 .. k : q[i] = c[i]
        /\ \A i \in 1 .. l : q[k + i] = w[i]
    BY <1>1, <1>3, Zenon DEF IsJoin
  <2>2. /\ p = e \o t /\ Len(p) = m + n
        /\ \A i \in 1 .. m : p[i] = e[i]
        /\ \A i \in 1 .. n : p[m + i] = t[i]
    BY <1>2, <1>3, Zenon DEF IsJoin
  <2>3. q = p
    BY <2>1, <2>2, Zenon DEF Joint
  <2> QED
    BY <2>1, <2>2, <2>3
<1>5. k + l = m + n
  BY <1>4
<1>6. \A i \in 1 .. k : i <= m => c[i] = e[i]
  <2>1. \A i \in 1 .. k : i <= m => i \in 1 .. m
    OBVIOUS
  <2> QED
    BY <1>4, <2>1, Zenon
<1>7. ASSUME NEW i \in 1 .. l, m < k + i
      PROVE  w[i] = t[k + i - m]
  <2>1. k + i - m \in 1 .. n /\ m + (k + i - m) = k + i
    BY <1>5, <1>7
  <2>2. p[m + (k + i - m)] = t[k + i - m] /\ q[k + i] = w[i]
    BY <1>4, <2>1
  <2> QED
    BY <1>4, <2>1, <2>2
<1>8. ASSUME NEW i \in 1 .. k, m < i
      PROVE  c[i] = t[i - m]
  <2>1. i - m \in 1 .. n /\ m + (i - m) = i
    BY <1>5, <1>8
  <2>2. p[m + (i - m)] = t[i - m] /\ q[i] = c[i]
    BY <1>4, <2>1
  <2> QED
    BY <1>4, <2>1, <2>2
<1> QED
  BY <1>3, <1>5, <1>6, <1>7, <1>8, Zenon DEF Matches

\* When the head is gone the rest is there.
Behind(c, e, d) == Len(c) = Len(e) + Len(d) /\ \A i \in 1 .. Len(d) : d[i] = c[Len(e) + i]

LEMMA HeadGone ==
  ASSUME NEW c \in Seq(Cells), NEW w \in Seq(Cells), NEW e \in Seq(Int), NEW t \in Seq(Int),
         NEW d \in Seq(Cells), Joint(c, w, e, t), Behind(c, e, d)
  PROVE  d \o w = t
<1>1. PICK k \in Nat, l \in Nat, m \in Nat, n \in Nat, o \in Nat :
        k = Len(c) /\ l = Len(w) /\ m = Len(e) /\ n = Len(t) /\ o = Len(d)
  OBVIOUS
<1>2. k = m + o /\ \A i \in 1 .. o : d[i] = c[m + i]
  BY <1>1 DEF Behind
<1>3. Matches(c, w, e, t)
  BY SameHead
<1>4. /\ k + l = m + n
      /\ \A i \in 1 .. l : m < k + i => w[i] = t[k + i - m]
      /\ \A i \in 1 .. k : m < i => c[i] = t[i - m]
  BY <1>1, <1>3, Zenon DEF Matches
<1>5. PICK q \in Seq(Cells) : IsJoin(q, d, w)
  BY Joins
<1>6. /\ q = d \o w /\ Len(q) = o + l
      /\ \A i \in 1 .. o : q[i] = d[i]
      /\ \A i \in 1 .. l : q[o + i] = w[i]
  BY <1>1, <1>5, Zenon DEF IsJoin
<1>7. ASSUME NEW i \in 1 .. n
      PROVE  q[i] = t[i]
  <2>1. CASE i <= o
    <3>1. i \in 1 .. o /\ m + i \in 1 .. k /\ m < m + i /\ (m + i) - m = i
      BY <1>2, <2>1
    <3>2. d[i] = c[m + i] /\ c[m + i] = t[(m + i) - m]
      BY <1>2, <1>4, <3>1, Zenon
    <3> QED
      BY <1>6, <3>1, <3>2
  <2>2. CASE ~(i <= o)
    <3>1. i - o \in 1 .. l /\ o + (i - o) = i /\ m < k + (i - o) /\ k + (i - o) - m = i
      BY <1>2, <1>4, <2>2
    <3>2. q[o + (i - o)] = w[i - o] /\ w[i - o] = t[k + (i - o) - m]
      BY <1>4, <1>6, <3>1, Zenon
    <3> QED
      BY <3>1, <3>2
  <2> QED
    BY <2>1, <2>2
<1>8. Len(q) = Len(t)
  BY <1>1, <1>2, <1>4, <1>6
<1>9. \A i \in 1 .. Len(q) : q[i] = t[i]
  <2>1. Len(q) = n
    BY <1>1, <1>8
  <2> QED
    BY <1>7, <2>1
<1>10. q = t
  BY <1>8, <1>9, Alike
<1> QED
  BY <1>6, <1>10

\* If anything is in the ring, it begins with the elements of the frame at hand.
Heads(f, e, t) ==
  /\ Len(got) < Len(sent) /\ f = sent[Len(got) + 1] /\ f \in Legal /\ e = Elements(f)
  /\ FrameForm(f, e) /\ t = Rest(sent, Len(got) + 1) /\ t \in Seq(Int)
  /\ Contents(ring) \o wire = e \o t

LEMMA FrameAtHand ==
  ASSUME TypeOK, cb = 0, Delivered, Pending = Rest(sent, Len(got)), UseSize(ring) # 0
  PROVE  \E f, e, t : Heads(f, e, t)
<1>1. PICK k \in Nat, L \in Nat : k = Len(got) /\ L = Len(sent) /\ k <= L
  BY DEF TypeOK, Delivered
<1>2. PICK c \in Seq(Cells), w \in Seq(Cells) :
        c = Contents(ring) /\ w = wire /\ Len(c) = UseSize(ring)
  BY ContentsIs, InCells DEF TypeOK
<1>3. c \o w = Rest(sent, k)
  BY <1>1, <1>2, PendingCalm
<1>4. k \in 0 .. Len(sent) /\ sent \in Seq(Legal) /\ server \in {"net", "lan"}
  BY <1>1 DEF TypeOK
<1>5. k # L
  <2>1. SUFFICES ASSUME k = L
                 PROVE  FALSE
    OBVIOUS
  <2>2. Rest(sent, k) = <<>>
    BY <1>1, <1>4, <2>1, RestIs
  <2>3. PICK q \in Seq(Cells) : IsJoin(q, c, w)
    BY Joins
  <2>4. q = <<>> /\ Len(q) = Len(c) + Len(w)
    BY <1>3, <2>2, <2>3 DEF IsJoin
  <2>5. Len(q) = 0
    BY <2>4, EmptySeq
  <2>6. Len(c) \in Nat /\ Len(w) \in Nat
    OBVIOUS
  <2>7. Len(c) = 0
    BY <2>4, <2>5, <2>6
  <2> QED
    BY <1>2, <2>7
<1>6. PICK f \in Legal : f = sent[k + 1]
  <2>1. k + 1 \in 1 .. Len(sent)
    BY <1>1, <1>5
  <2> QED
    BY <1>4, <2>1
<1>7. k < Len(sent)
  BY <1>1, <1>5
<1>8. /\ Rest(sent, k) = Elements(f) \o Rest(sent, k + 1)
      /\ Rest(sent, k + 1) \in Seq(Int)
  BY <1>4, <1>6, <1>7, RestIs
<1>9. FrameForm(f, Elements(f))
  BY <1>4, <1>6, ElementsAre
<1>10. Contents(ring) \o wire = Elements(f) \o Rest(sent, k + 1)
  BY <1>2, <1>3, <1>8
<1> QED
  BY <1>1, <1>6, <1>7, <1>8, <1>9, <1>10 DEF Heads

\* If its header is in the ring, the length of the frame's payload is where a server
\* looks for it; if the frame is complete, it is in the ring as a whole.
LEMMA FrameIsThere ==
  ASSUME TypeOK, NEW f, NEW e, NEW t, Heads(f, e, t), UseSize(ring) >= HeaderSize
  PROVE  /\ PeekedLen = e[LenAt] /\ e[LenAt] = Len(f.payload)
         /\ Peek(ring, HeaderSize)[1] = e[1]
         /\ Complete =>
              /\ HeaderSize + e[LenAt] <= UseSize(ring)
              /\ \A i \in 1 .. Len(e) : Contents(ring)[i] = e[i]
<1>1. ring \in Rings /\ server \in {"net", "lan"}
  BY DEF TypeOK
<1>2. PICK u \in Nat : u = UseSize(ring) /\ u < Capacity /\ Capacity \in Nat
  <2>1. UseSize(ring) \in 0 .. Capacity - 1 /\ Capacity \in Nat
    BY <1>1, Sizes
  <2>2. UseSize(ring) \in Nat /\ UseSize(ring) < Capacity
    BY <2>1
  <2> QED
    BY <2>1, <2>2, Zenon
<1>3. PICK h \in 1 .. 4, a \in 1 .. 4 : h = HeaderSize /\ a = LenAt /\ a \in 1 .. h
  <2>1. CASE server = "net"
    <3>1. HeaderSize = 4 /\ LenAt = 2 /\ 4 \in 1 .. 4 /\ 2 \in 1 .. 4
      BY <2>1 DEF HeaderSize, LenAt, NetHeaderSize
    <3> QED
      BY <3>1, Zenon
  <2>2. CASE server = "lan"
    <3>1. HeaderSize = 1 /\ LenAt = 1 /\ 1 \in 1 .. 4 /\ 1 \in 1 .. 1
      BY <2>2 DEF HeaderSize, LenAt, LanHeaderSize
    <3> QED
      BY <3>1, Zenon
  <2> QED
    BY <1>1, <2>1, <2>2
<1>4. PICK c \in Seq(Cells), w \in Seq(Cells) : c = Contents(ring) /\ w = wire /\ Len(c) = u
  BY <1>1, <1>2, ContentsIs, InCells DEF TypeOK
<1>5. /\ e \in Seq(Int) /\ t \in Seq(Int) /\ c \o w = e \o t /\ FrameForm(f, e)
  BY <1>4 DEF Heads, FrameForm
<1>6. PICK l \in Nat : l = e[a] /\ Len(e) = h + l
  BY <1>3, <1>5 DEF FrameForm
<1>7. l = Len(f.payload)
  BY <1>3, <1>5, <1>6 DEF FrameForm
<1>8. \A i \in 1 .. u : i <= h + l => c[i] = e[i]
  <2>0. Joint(c, w, e, t) /\ e \in Seq(Int) /\ t \in Seq(Int)
    BY <1>5 DEF Joint
  <2>1. \A i \in 1 .. Len(c) : i <= Len(e) => c[i] = e[i]
    BY <2>0, SameHead DEF Matches
  <2> QED
    BY <1>4, <1>6, <2>1
<1>9. h <= u
  BY <1>2, <1>3
<1>10. ASSUME NEW i \in 1 .. h
       PROVE  Peek(ring, h)[i] = e[i]
  <2>1. h \in 0 .. UseSize(ring)
    BY <1>2, <1>9
  <2>2. Peek(ring, h)[i] = c[i]
    BY <1>1, <1>4, <2>1, PeekFirst
  <2>3. i \in 1 .. u /\ i <= h + l
    BY <1>9
  <2> QED
    BY <1>8, <2>2, <2>3
<1>11. PeekedLen = l
  <2>1. PeekedLen = Peek(ring, h)[a]
    BY <1>1, <1>3 DEF PeekedLen, LenAt
  <2>2. Peek(ring, h)[a] = e[a]
    BY <1>3, <1>10
  <2> QED
    BY <1>6, <2>1, <2>2
<1>12. Peek(ring, h)[1] = e[1]
  BY <1>10
<1>13. ASSUME Complete
       PROVE  h + l <= u /\ \A i \in 1 .. Len(e) : c[i] = e[i]
  <2>1. h + l <= u
    BY <1>2, <1>3, <1>9, <1>11, <1>13 DEF Complete
  <2>2. \A i \in 1 .. Len(e) : c[i] = e[i]
    BY <1>6, <1>8, <2>1
  <2> QED
    BY <2>1, <2>2
<1> QED
  BY <1>2, <1>3, <1>4, <1>6, <1>7, <1>11, <1>12, <1>13

\* A frame that a packet takes is not a long one.
LEMMA ShortFrame ==
  ASSUME TypeOK, NEW f, NEW e, NEW t, Heads(f, e, t), UseSize(ring) >= HeaderSize
  PROVE  /\ PeekedLen <= BufferSize => f.kind # "long" /\ Len(f.payload) <= BufferSize
         /\ PeekedLen > BufferSize => f.kind = "long"
<1>1. f \in Legal
  BY DEF Heads
<1>2. PeekedLen = Len(f.payload)
  BY FrameIsThere
<1>3. PeekedLen > BufferSize => f.kind = "long"
  BY <1>1, <1>2 DEF Legal
<1>4. PeekedLen <= BufferSize => f.kind # "long" /\ Len(f.payload) <= BufferSize
  BY <1>1, <1>2, LegalFits
<1> QED
  BY <1>3, <1>4

\* What a server takes off the ring is the frame, and what it leaves is what follows.
Leaves(r, t) == r \in Rings /\ Contents(r) \o wire = t

LEMMA TakenNet ==
  ASSUME TypeOK, server = "net", NEW f, NEW e, NEW t, Heads(f, e, t), Complete,
         PeekedLen <= BufferSize
  PROVE  /\ Leaves(NetTaken.ring, t)
         /\ ~WrongCode /\ ChecksOut(Decoded(NetTaken.packet)) =>
              f.kind = "good" /\ Read(Decoded(NetTaken.packet)) = f.payload
<1>1. ring \in Rings /\ HeaderSize = 4 /\ LenAt = 2
  BY DEF TypeOK, HeaderSize, LenAt, NetHeaderSize
<1>2. /\ FrameForm(f, e) /\ f \in Legal /\ e \in Seq(Int) /\ t \in Seq(Int)
      /\ Contents(ring) \o wire = e \o t
  BY DEF Heads, FrameForm
<1>3. /\ PeekedLen = e[2] /\ e[2] = Len(f.payload) /\ f.kind # "long"
      /\ 4 + e[2] <= UseSize(ring)
      /\ \A i \in 1 .. Len(e) : Contents(ring)[i] = e[i]
      /\ Peek(ring, 4)[1] = e[1]
  BY <1>1, FrameIsThere, ShortFrame DEF Complete
<1>4. PICK s \in Seq(Bytes) : s = f.payload /\ Len(s) <= BufferSize /\ f.key \in Bytes
  <2>1. Len(f.payload) <= BufferSize
    BY ShortFrame DEF Complete
  <2> QED
    BY <1>2, <2>1 DEF Legal, Frame
<1>5. PICK l \in Nat : l = Len(s)
  OBVIOUS
<1>6. PICK n \in Nat : n = 4 + l /\ Len(e) = n
  BY <1>1, <1>2, <1>3, <1>4, <1>5 DEF FrameForm
<1>7. n \in 0 .. UseSize(ring) /\ ~(n > UseSize(ring)) /\ UseSize(ring) \in Nat
  <2>1. UseSize(ring) \in 0 .. Capacity - 1 /\ Capacity \in Nat
    BY <1>1, Sizes
  <2> QED
    BY <1>3, <1>4, <1>5, <1>6, <2>1
<1>8. Peek(ring, n) = e
  <2>1. Peek(ring, n) \in Seq(Cells) /\ Len(Peek(ring, n)) = n
    BY <1>1, <1>7, PeekIs
  <2>2. \A i \in 1 .. n : Peek(ring, n)[i] = e[i]
    BY <1>1, <1>3, <1>6, <1>7, PeekFirst
  <2> QED
    BY <1>2, <1>6, <2>1, <2>2, Alike
<1>9. NetHeaderSize + PeekedLen = n /\ PeekedLen = l
  BY <1>3, <1>4, <1>5, <1>6 DEF NetHeaderSize
<1>10. NetTaken.ring = Dequeue(ring, n) /\ NetTaken.packet = Came(e, l)
  BY <1>8, <1>9 DEF NetTaken, Came
<1>11. Leaves(Dequeue(ring, n), t)
  <2>1. PICK m : m = Dequeue(ring, n) /\ m = [ring EXCEPT !.front = (ring.front + n) % Capacity]
    BY <1>7 DEF Dequeue
  <2>2. /\ m \in Rings /\ UseSize(m) = UseSize(ring) - n
        /\ \A i \in 1 .. UseSize(m) : Contents(m)[i] = Contents(ring)[n + i]
    BY <1>1, <1>7, <2>1, FrontMoves
  <2>3. PICK c \in Seq(Cells), d \in Seq(Cells), w \in Seq(Cells) :
          /\ c = Contents(ring) /\ Len(c) = UseSize(ring)
          /\ d = Contents(m) /\ Len(d) = UseSize(m) /\ w = wire
    BY <1>1, <2>2, ContentsIs, InCells DEF TypeOK
  <2>4. Len(c) = Len(e) + Len(d)
    BY <1>6, <1>7, <2>2, <2>3
  <2>5. \A i \in 1 .. Len(d) : d[i] = c[Len(e) + i]
    BY <1>6, <2>2, <2>3
  <2>6. Joint(c, w, e, t) /\ e \in Seq(Int) /\ t \in Seq(Int)
    BY <1>2, <2>3 DEF Joint
  <2>7. Behind(c, e, d)
    BY <2>4, <2>5 DEF Behind
  <2>8. d \o w = t
    BY <2>6, <2>7, HeadGone
  <2> QED
    BY <2>1, <2>2, <2>3, <2>8 DEF Leaves
<1>12. ASSUME ~WrongCode, ChecksOut(Decoded(NetTaken.packet))
       PROVE  f.kind = "good" /\ Read(Decoded(NetTaken.packet)) = f.payload
  <2>1. PICK c \in Bytes : /\ NetForm(e, e[1], s, f.key, c)
                           /\ e[1] = PacketCode => f.kind # "code"
                           /\ c = CheckSum(s) => f.kind # "sum"
    BY <1>2, <1>3, <1>4 DEF FrameForm
  <2>2. e[1] = PacketCode
    BY <1>1, <1>3, <1>12 DEF WrongCode
  <2>3. /\ ChecksOut(Decoded(Came(e, Len(s)))) <=> c = CheckSum(s)
        /\ Read(Decoded(Came(e, Len(s)))) = s
    BY <1>2, <1>4, <2>1, CameNet
  <2>4. c = CheckSum(s)
    BY <1>5, <1>10, <1>12, <2>3
  <2>5. f.kind \in {"good", "code", "sum", "long"}
    BY <1>2 DEF Legal, Frame
  <2> QED
    BY <1>3, <1>4, <1>5, <1>10, <2>1, <2>2, <2>3, <2>4, <2>5
<1> QED
  BY <1>10, <1>11, <1>12

LEMMA TakenLan ==
  ASSUME TypeOK, server = "lan", NEW f, NEW e, NEW t, Heads(f, e, t), Complete,
         PeekedLen <= BufferSize
  PROVE  /\ Leaves(LanTaken.ring, t)
         /\ f.kind = "good" /\ Read(LanTaken.packet) = f.payload
<1>1. ring \in Rings /\ HeaderSize = 1 /\ LenAt = 1
  BY DEF TypeOK, HeaderSize, LenAt, LanHeaderSize
<1>2. /\ FrameForm(f, e) /\ f \in Legal /\ e \in Seq(Int) /\ t \in Seq(Int)
      /\ Contents(ring) \o wire = e \o t
  BY DEF Heads, FrameForm
<1>3. /\ PeekedLen = e[1] /\ e[1] = Len(f.payload) /\ f.kind # "long"
      /\ 1 + e[1] <= UseSize(ring)
      /\ \A i \in 1 .. Len(e) : Contents(ring)[i] = e[i]
  BY <1>1, FrameIsThere, ShortFrame DEF Complete
<1>4. PICK s \in Seq(Bytes) : s = f.payload /\ Len(s) <= BufferSize
  <2>1. Len(f.payload) <= BufferSize
    BY ShortFrame DEF Complete
  <2> QED
    BY <1>2, <2>1 DEF Legal, Frame
<1>5. PICK l \in Nat : l = Len(s) /\ Len(e) = 1 + l /\ PeekedLen = l
  BY <1>1, <1>2, <1>3, <1>4 DEF FrameForm
<1>6. PICK u \in Nat : u = UseSize(ring) /\ 1 + l <= u
  <2>1. UseSize(ring) \in 0 .. Capacity - 1 /\ Capacity \in Nat
    BY <1>1, Sizes
  <2> QED
    BY <1>3, <1>4, <1>5, <2>1
<1>7. \A i \in 1 .. l : e[1 + i] = s[i]
  BY <1>2, <1>3, <1>4, <1>5 DEF FrameForm
<1>8. PICK r : r = MoveFront(ring, LanHeaderSize)
               /\ r = [ring EXCEPT !.front = (ring.front + 1) % Capacity]
  <2>1. Least(LanHeaderSize, UseSize(ring)) = 1
    BY <1>6 DEF Least, LanHeaderSize
  <2> QED
    BY <2>1 DEF MoveFront
<1>9. /\ r \in Rings /\ UseSize(r) = u - 1
      /\ \A i \in 1 .. u - 1 : Contents(r)[i] = Contents(ring)[1 + i]
  <2>1. 1 \in 0 .. UseSize(ring)
    BY <1>6
  <2>2. /\ r \in Rings /\ UseSize(r) = UseSize(ring) - 1
        /\ \A i \in 1 .. UseSize(r) : Contents(r)[i] = Contents(ring)[1 + i]
    BY <1>1, <1>8, <2>1, FrontMoves
  <2> QED
    BY <1>6, <2>2
<1>10. l \in 0 .. UseSize(r) /\ ~(l > UseSize(r))
  BY <1>6, <1>9
<1>11. Peek(r, l) = s
  <2>1. Peek(r, l) \in Seq(Cells) /\ Len(Peek(r, l)) = l
    BY <1>9, <1>10, PeekIs
  <2>2. ASSUME NEW i \in 1 .. l
        PROVE  Peek(r, l)[i] = s[i]
    <3>1. Peek(r, l)[i] = Contents(r)[i]
      BY <1>9, <1>10, PeekFirst
    <3>2. i \in 1 .. u - 1 /\ 1 + i \in 1 .. 1 + l
      BY <1>6
    <3> QED
      BY <1>3, <1>5, <1>7, <1>9, <3>1, <3>2
  <2> QED
    BY <1>5, <2>1, <2>2, Alike
<1>12. /\ LanTaken.ring = Dequeue(r, l)
       /\ LanTaken.packet = MoveWritePos([Fresh EXCEPT !.buffer = Written(@, Reserve, s)], l)
  BY <1>5, <1>8, <1>11 DEF LanTaken
<1>13. Read(LanTaken.packet) = s
  <2>1. s \in Seq(Int)
    BY BytesInts
  <2>2. Read(MoveWritePos([Fresh EXCEPT !.buffer = Written(@, Reserve, s)], Len(s))) = s
    BY <1>4, <2>1, CameLan
  <2> QED
    BY <1>5, <1>12, <2>2
<1>14. Leaves(Dequeue(r, l), t)
  <2>1. PICK m : m = Dequeue(r, l) /\ m = [r EXCEPT !.front = (r.front + l) % Capacity]
    BY <1>10 DEF Dequeue
  <2>2. /\ m \in Rings /\ UseSize(m) = UseSize(r) - l
        /\ \A i \in 1 .. UseSize(m) : Contents(m)[i] = Contents(r)[l + i]
    BY <1>9, <1>10, <2>1, FrontMoves
  <2>3. PICK c \in Seq(Cells), d \in Seq(Cells), w \in Seq(Cells) :
          /\ c = Contents(ring) /\ Len(c) = u
          /\ d = Contents(m) /\ Len(d) = UseSize(m) /\ w = wire
    BY <1>1, <1>6, <2>2, ContentsIs, InCells DEF TypeOK
  <2>4. Len(c) = Len(e) + Len(d) /\ Len(d) = u - 1 - l
    <3>1. PICK o \in Nat : o = Len(d)
      OBVIOUS
    <3>2. UseSize(m) = UseSize(r) - l /\ UseSize(r) = u - 1
      BY <1>9, <2>2
    <3>3. o = u - 1 - l
      BY <2>3, <3>1, <3>2
    <3>4. Len(c) = u /\ Len(e) = 1 + l
      BY <1>5, <2>3
    <3> QED
      BY <1>6, <3>1, <3>3, <3>4
  <2>5. ASSUME NEW i \in 1 .. Len(d)
        PROVE  d[i] = c[Len(e) + i]
    <3>0. PICK o \in Nat : o = Len(d) /\ o = u - 1 - l /\ i \in 1 .. o
      BY <2>4
    <3>1. l + i \in 1 .. u - 1 /\ 1 + (l + i) = Len(e) + i
      BY <1>5, <1>6, <3>0
    <3>2. d[i] = Contents(r)[l + i]
      BY <2>2, <2>3
    <3>3. Contents(r)[l + i] = c[1 + (l + i)]
      BY <1>9, <2>3, <3>1
    <3> QED
      BY <3>1, <3>2, <3>3
  <2>6. Joint(c, w, e, t) /\ e \in Seq(Int) /\ t \in Seq(Int)
    BY <1>2, <2>3 DEF Joint
  <2>7. Behind(c, e, d)
    BY <2>4, <2>5 DEF Behind
  <2>8. d \o w = t
    BY <2>6, <2>7, HeadGone
  <2> QED
    BY <2>1, <2>2, <2>3, <2>8 DEF Leaves
<1>15. f.kind = "good"
  <2>1. f = sent[Len(got) + 1] /\ Len(got) \in Nat /\ Len(sent) \in Nat /\ Len(got) < Len(sent)
    BY DEF Heads, TypeOK
  <2>2. Len(got) + 1 \in 1 .. Len(sent)
    BY <2>1
  <2>3. f.kind \in {"good", "long"}
    BY <2>1, <2>2 DEF TypeOK, MaySend
  <2> QED
    BY <1>3, <2>3
<1> QED
  BY <1>4, <1>12, <1>13, <1>14, <1>15

----------------------------------------------------------------------------
(***************************************************************************)
(* The inductive invariant.                                                *)
(***************************************************************************)

\* Nothing of the stream is lost, a packet's buffer is overrun only by a frame that is
\* longer than a packet, the buffers posted are the free places of the ring, and a
\* receive is posted only when there is no whole frame in the ring.
FramingInv ==
  /\ TypeOK /\ Delivered
  /\ pc \notin {"ended", "undefined"} => Pending = Rest(sent, Len(got))
  /\ pc = "undefined" => Len(got) < Len(sent) /\ sent[Len(got) + 1].kind = "long"
  /\ pc # "completed" => cb = 0
  /\ pc \in {"posted", "completed"} => posted = Areas /\ cb <= FreeSize(ring)
  /\ pc \in {"RecvPost", "posted"} => ~ Complete

Calm == TypeOK /\ cb = 0

Plain == Pending = Contents(ring) \o wire

LEMMA CalmIsPlain == Calm => Plain
BY PendingCalm DEF Calm, Plain

\* What is left of a stream changes with the server, the stream and the number of
\* frames given out only.
LEMMA SameRest ==
  ASSUME UNCHANGED <<server, sent, got>>
  PROVE  Rest(sent, Len(got))' = Rest(sent, Len(got))
BY DEF Rest, Stream, Elements

\* A session that begins: an empty ring, and all of the stream on the wire.
Begins ==
  /\ server \in {"net", "lan"} /\ ring \in Rings /\ ring.front = ring.rear /\ cb = 0
  /\ sent \in Streams /\ MaySend(sent) /\ wire = Stream(sent) /\ got = <<>> /\ pc = "RecvPost"

LEMMA BeginsInv == Begins => FramingInv
<1> SUFFICES ASSUME Begins
             PROVE  FramingInv
  OBVIOUS
<1> USE DEF Begins
<1>1. sent \in Seq(Legal)
  <2>1. /\ sent \in Seq(Frame)
        /\ \A i \in 1 .. Len(sent) : sent[i].kind = "long" <=> Len(sent[i].payload) > BufferSize
    BY StreamAssumption
  <2>2. \A i \in 1 .. Len(sent) : sent[i] \in Frame
    BY <2>1
  <2>3. \A i \in 1 .. Len(sent) : sent[i] \in Legal
    BY <2>1, <2>2 DEF Legal
  <2>4. PICK X : X = Legal
    BY Zenon
  <2>5. \A i \in 1 .. Len(sent) : sent[i] \in X
    BY <2>3, <2>4
  <2>6. sent \in Seq(X)
    BY <2>1, <2>5
  <2> QED
    BY <2>4, <2>6
<1>2. PICK L \in Nat : L = Len(sent)
  BY <1>1
<1>3. Rest(sent, 0) = Stream(sent) /\ Rest(sent, 0) \in Seq(Int)
  <2>1. 0 \in 0 .. Len(sent)
    BY <1>2
  <2>2. SubSeq(sent, 0 + 1, Len(sent)) = sent
    <3>1. PICK s \in Seq(Legal) : /\ s = SubSeq(sent, 0 + 1, Len(sent)) /\ Len(s) = Len(sent) - 0
                                  /\ \A i \in 1 .. Len(sent) - 0 : s[i] = sent[0 + i]
      <4>1. /\ SubSeq(sent, 0 + 1, Len(sent)) \in Seq(Legal)
            /\ Len(SubSeq(sent, 0 + 1, Len(sent))) = Len(sent) - 0
            /\ \A i \in 1 .. Len(sent) - 0 : SubSeq(sent, 0 + 1, Len(sent))[i] = sent[0 + i]
        BY <1>1, <2>1, Tails
      <4> QED
        BY <4>1, Zenon
    <3>2. Len(s) = Len(sent) /\ \A i \in 1 .. Len(s) : s[i] = sent[i]
      BY <1>2, <3>1
    <3>3. s = sent
      BY <1>1, <3>2, Alike
    <3> QED
      BY <3>1, <3>3
  <2>3. Rest(sent, 0) \in Seq(Int)
    BY <1>1, <2>1, RestIs
  <2> QED
    BY <2>2, <2>3 DEF Rest
<1>4. TypeOK
  <2>1. got \in Seq(Seq(Int))
    BY EmptySeq
  <2> QED
    BY <1>1, <1>3, <2>1 DEF TypeOK
<1>5. Len(got) = 0 /\ Delivered
  <2>1. Len(got) = 0
    BY EmptySeq
  <2>2. 0 <= Len(sent) /\ \A i \in 1 .. 0 : FALSE
    BY <1>2
  <2> QED
    BY <2>1, <2>2 DEF Delivered
<1>6. UseSize(ring) = 0
  <2>1. ring.front \in 0 .. Capacity - 1 /\ ring.rear \in 0 .. Capacity - 1 /\ Capacity \in Nat
    BY Sizes
  <2> QED
    BY <2>1 DEF UseSize
<1>7. Pending = Rest(sent, Len(got))
  <2>1. Contents(ring) = <<>>
    <3>1. Contents(ring) \in Seq(Cells) /\ Len(Contents(ring)) = 0
      BY <1>6, ContentsIs
    <3> QED
      BY <3>1, EmptySeq
  <2>2. Pending = Contents(ring) \o wire
    BY <1>4, PendingCalm
  <2>3. <<>> \o wire = wire
    BY <1>3, ConcatEmptySeq
  <2> QED
    BY <1>3, <1>5, <2>1, <2>2, <2>3
<1>8. ~ Complete
  <2>1. HeaderSize \in 1 .. 4
    BY DEF HeaderSize, NetHeaderSize, LanHeaderSize
  <2> QED
    BY <1>6, <2>1 DEF Complete
<1> QED
  BY <1>4, <1>5, <1>7, <1>8 DEF FramingInv

LEMMA InitInv == Init => FramingInv
<1>1. Init => Begins
  <2> SUFFICES ASSUME Init
               PROVE  Begins
    OBVIOUS
  <2>1. ring \in Rings /\ ring.front = ring.rear
    BY RingAssumption DEF Init, Rings, Cells, Positions
  <2> QED
    BY <2>1 DEF Init, Begins
<1> QED
  BY <1>1, BeginsInv

LEMMA AcceptKeeps == FramingInv /\ Accept => FramingInv'
<1>1. FramingInv /\ Accept => Begins'
  <2> SUFFICES ASSUME FramingInv, Accept
               PROVE  Begins'
    OBVIOUS
  <2>1. ring' \in Rings /\ ring'.front = ring'.rear
    <3>1. ring \in Rings /\ 0 \in Positions
      BY RingAssumption DEF FramingInv, TypeOK, Positions
    <3>2. PICK r : r = ring' /\ r = [ring EXCEPT !.front = 0, !.rear = 0]
      BY DEF Accept, ClearBuffer
    <3>3. r \in Rings /\ r.front = 0 /\ r.rear = 0
      BY <3>1, <3>2 DEF Rings
    <3> QED
      BY <3>2, <3>3
  <2>2. cb' = 0 /\ server' \in {"net", "lan"}
    BY DEF FramingInv, TypeOK, Accept
  <2>3. /\ sent' \in Streams /\ MaySend(sent)' /\ wire' = Stream(sent)' /\ got' = <<>>
        /\ pc' = "RecvPost"
    BY DEF Accept, MaySend, Stream, Elements
  <2> QED
    BY <2>1, <2>2, <2>3 DEF Begins
<1> QED
  BY <1>1, BeginsInv, PTL

LEMMA RecvPostKeeps == FramingInv /\ RecvPost => FramingInv'
<1> SUFFICES ASSUME FramingInv, RecvPost
             PROVE  FramingInv'
  OBVIOUS
<1>1. TypeOK' /\ Delivered'
  BY DEF FramingInv, TypeOK, Delivered, MaySend, RecvPost
<1>2. Calm /\ Calm' /\ Plain
  BY <1>1, CalmIsPlain DEF FramingInv, RecvPost, Calm
<1>3. Plain'
  BY <1>2, CalmIsPlain, PTL
<1>4. Pending' = Rest(sent, Len(got))'
  <2>1. Contents(ring)' = Contents(ring) /\ wire' = wire
    BY DEF RecvPost
  <2>2. UNCHANGED <<server, sent, got>>
    BY DEF RecvPost
  <2>3. Pending = Rest(sent, Len(got))
    BY DEF FramingInv, RecvPost
  <2>4. Pending' = Contents(ring)' \o wire' /\ Pending = Contents(ring) \o wire
    BY <1>2, <1>3 DEF Plain
  <2> QED
    BY <2>1, <2>2, <2>3, <2>4, SameRest
<1>5. posted' = Areas' /\ cb' <= FreeSize(ring)' /\ cb' = 0
  <2>1. Areas' = Areas /\ FreeSize(ring)' = FreeSize(ring) /\ cb' = 0 /\ posted' = Areas
    BY DEF RecvPost, Areas, FramingInv
  <2>2. FreeSize(ring) \in 0 .. Capacity - 1 /\ Capacity \in Nat
    BY Sizes DEF FramingInv, TypeOK
  <2> QED
    BY <2>1, <2>2
<1>6. ~ Complete'
  BY DEF FramingInv, RecvPost, Complete, PeekedLen, HeaderSize
<1> QED
  BY <1>1, <1>4, <1>5, <1>6 DEF FramingInv, RecvPost

LEMMA ReceiveNothingKeeps == FramingInv /\ ReceiveNothing => FramingInv'
BY DEF FramingInv, TypeOK, Delivered, MaySend, ReceiveNothing

LEMMA NoMoreFramesKeeps == FramingInv /\ NoMoreFrames => FramingInv'
<1> SUFFICES ASSUME FramingInv, NoMoreFrames
             PROVE  FramingInv'
  OBVIOUS
<1>1. TypeOK' /\ Delivered'
  BY DEF FramingInv, TypeOK, Delivered, MaySend, NoMoreFrames
<1>2. Pending' = Rest(sent, Len(got))'
  <2>1. Pending' = Pending
    BY DEF NoMoreFrames, Pending, Place
  <2>2. UNCHANGED <<server, sent, got>>
    BY DEF NoMoreFrames
  <2>3. Pending = Rest(sent, Len(got))
    BY DEF FramingInv, NoMoreFrames
  <2> QED
    BY <2>1, <2>2, <2>3, SameRest
<1>3. ~ Complete' /\ cb' = 0
  BY DEF FramingInv, NoMoreFrames, Complete, PeekedLen, HeaderSize
<1> QED
  BY <1>1, <1>2, <1>3 DEF FramingInv, NoMoreFrames

LEMMA RefuseKeeps == FramingInv /\ Refuse => FramingInv'
BY DEF FramingInv, TypeOK, Delivered, MaySend, Refuse

LEMMA StutterKeeps == FramingInv /\ UNCHANGED vars => FramingInv'
<1> SUFFICES ASSUME FramingInv, UNCHANGED vars
             PROVE  FramingInv'
  OBVIOUS
<1> USE DEF vars
<1>1. TypeOK' /\ Delivered'
  BY DEF FramingInv, TypeOK, Delivered, MaySend
<1>2. pc' \notin {"ended", "undefined"} => Pending' = Rest(sent, Len(got))'
  <2>1. Pending' = Pending
    BY DEF Pending, Place
  <2>2. Rest(sent, Len(got))' = Rest(sent, Len(got))
    BY SameRest
  <2> QED
    BY <2>1, <2>2 DEF FramingInv
<1>3. /\ pc' # "completed" => cb' = 0
      /\ pc' \in {"RecvPost", "posted"} => ~ Complete'
      /\ pc' \in {"posted", "completed"} => posted' = Areas' /\ cb' <= FreeSize(ring)'
  BY DEF FramingInv, Complete, PeekedLen, HeaderSize, Areas
<1> QED
  BY <1>1, <1>2, <1>3 DEF FramingInv

\* The frame at hand, while the frames are taken out.
LEMMA Hand ==
  ASSUME FramingInv, pc = "frames", Complete
  PROVE  \E f, e, t : Heads(f, e, t)
<1>1. TypeOK /\ cb = 0 /\ Delivered /\ Pending = Rest(sent, Len(got)) /\ ring \in Rings
  BY DEF FramingInv, TypeOK
<1>2. HeaderSize \in 1 .. 4
  BY DEF HeaderSize, NetHeaderSize, LanHeaderSize
<1>3. UseSize(ring) # 0
  BY <1>2 DEF Complete
<1> QED
  BY <1>1, <1>3, FrameAtHand

\* A packet's buffer is overrun by a frame that is longer than a packet.
LEMMA OverrunKeeps == FramingInv /\ Overrun => FramingInv'
<1> SUFFICES ASSUME FramingInv, Overrun
             PROVE  FramingInv'
  OBVIOUS
<1>1. /\ TypeOK /\ pc = "frames" /\ Complete /\ PeekedLen > BufferSize
      /\ UseSize(ring) >= HeaderSize
  BY DEF FramingInv, Overrun, Complete
<1>2. PICK f, e, t : Heads(f, e, t)
  BY <1>1, Hand
<1>3. f.kind = "long"
  BY <1>1, <1>2, ShortFrame
<1>4. Len(got) < Len(sent) /\ sent[Len(got) + 1].kind = "long"
  BY <1>2, <1>3 DEF Heads
<1>5. TypeOK' /\ Delivered'
  BY DEF FramingInv, TypeOK, Delivered, MaySend, Overrun
<1> QED
  BY <1>4, <1>5 DEF FramingInv, Overrun

LEMMA RefuseSumKeeps == FramingInv /\ RefuseSum => FramingInv'
<1> SUFFICES ASSUME FramingInv, RefuseSum
             PROVE  FramingInv'
  OBVIOUS
<1>1. ring' \in Rings
  <2>1. /\ pc = "frames" /\ Complete /\ server = "net" /\ TypeOK /\ ring' = NetTaken.ring
        /\ PeekedLen <= BufferSize
    BY DEF RefuseSum, FramingInv
  <2>2. PICK f, e, t : Heads(f, e, t)
    BY <2>1, Hand
  <2>3. Leaves(NetTaken.ring, t)
    BY <2>1, <2>2, TakenNet
  <2> QED
    BY <2>1, <2>3 DEF Leaves
<1>2. TypeOK' /\ Delivered'
  BY <1>1 DEF FramingInv, TypeOK, Delivered, MaySend, RefuseSum
<1> QED
  BY <1>2 DEF FramingInv, RefuseSum

\* The bytes received go behind those in the ring and overwrite none of them.
LEMMA ReceiveKeeps ==
  ASSUME NEW n \in 1 .. Capacity, FramingInv, Receive(n)
  PROVE  FramingInv'
<1>1. ring \in Rings /\ wire \in Seq(Int) /\ posted = Areas /\ n \in Nat /\ cb = 0 /\ cb' = n
  BY RingAssumption DEF FramingInv, TypeOK, Receive
<1>2. PICK u \in Nat, v \in Nat : /\ u = UseSize(ring) /\ v = FreeSize(ring) /\ u + v = Capacity - 1
                                  /\ Capacity \in Nat
  <2>1. UseSize(ring) \in 0 .. Capacity - 1 /\ FreeSize(ring) \in 0 .. Capacity - 1 /\ Capacity \in Nat
        /\ UseSize(ring) + FreeSize(ring) = Capacity - 1
    BY <1>1, Sizes
  <2>2. UseSize(ring) \in Nat /\ FreeSize(ring) \in Nat
    BY <2>1
  <2> QED
    BY <2>1, <2>2, Zenon
<1>3. n <= v /\ n \in 0 .. Len(wire) /\ \A i \in 1 .. n : Place(i) = Spot(ring, u + i)
  <2>1. Room = FreeSize(ring) /\ \A i \in 1 .. FreeSize(ring) : Place(i) = Spot(ring, UseSize(ring) + i)
    BY <1>1, AreasAre
  <2>2. n <= v /\ n <= Len(wire)
    BY <1>2, <2>1 DEF Receive
  <2>3. \A i \in 1 .. n : i \in 1 .. v
    BY <2>2, <1>1, <1>2
  <2> QED
    BY <1>1, <1>2, <2>1, <2>2, <2>3
<1>4. PICK b : b = [p \in Positions |-> IF \E i \in 1 .. n : Place(i) = p
                                        THEN wire[CHOOSE i \in 1 .. n : Place(i) = p]
                                        ELSE ring.buffer[p]]
  BY Zenon
<1>5. PICK r : r = ring' /\ r = [ring EXCEPT !.buffer = b]
  BY <1>4 DEF Receive
<1>6. ASSUME NEW i \in 1 .. n
      PROVE  Place(i) \in Positions /\ b[Place(i)] = wire[i] /\ wire[i] \in Int
  <2>1. u + i \in 1 .. Capacity
    BY <1>2, <1>3
  <2>2. Place(i) \in Positions
    BY <1>1, <1>3, <2>1, SpotsDiffer
  <2>3. ASSUME NEW j \in 1 .. n, Place(j) = Place(i)
        PROVE  j = i
    <3>1. u + j \in 1 .. Capacity
      BY <1>2, <1>3
    <3>2. Spot(ring, u + i) = Spot(ring, u + j)
      BY <1>3, <2>3
    <3>3. u + i = u + j
      BY <1>1, <2>1, <3>1, <3>2, SpotsDiffer
    <3> QED
      BY <1>2, <3>3
  <2>4. (CHOOSE j \in 1 .. n : Place(j) = Place(i)) = i
    BY <2>3
  <2>5. b[Place(i)] = wire[i]
    BY <1>4, <2>2, <2>4
  <2>6. i \in 1 .. Len(wire)
    BY <1>3
  <2> QED
    BY <1>1, <2>2, <2>5, <2>6
<1>7. b \in [Positions -> Cells]
  <2>1. ring.buffer \in [Positions -> Cells]
    BY <1>1, Sizes
  <2>2. ASSUME NEW p \in Positions
        PROVE  b[p] \in Cells
    <3>1. CASE \E i \in 1 .. n : Place(i) = p
      <4>1. PICK i \in 1 .. n : Place(i) = p
        BY <3>1
      <4> QED
        BY <1>6, <4>1 DEF Cells
    <3>2. CASE ~ \E i \in 1 .. n : Place(i) = p
      BY <1>4, <2>1, <3>2
    <3> QED
      BY <3>1, <3>2
  <2>3. b = [p \in Positions |-> b[p]]
    BY <1>4
  <2> QED
    BY <2>2, <2>3
<1>8. r \in Rings /\ r.front = ring.front /\ r.rear = ring.rear /\ r.buffer = b
  BY <1>1, <1>5, <1>7 DEF Rings
<1>9. UseSize(r) = u /\ \A i : Spot(r, i) = Spot(ring, i)
  BY <1>2, <1>8 DEF UseSize, Spot
<1>10. PICK c \in Seq(Cells) : c = Contents(ring) /\ c = Contents(r) /\ Len(c) = u
  <2>1. ASSUME NEW i \in 1 .. u
        PROVE  Contents(r)[i] = Contents(ring)[i]
    <3>1. i \in 1 .. Capacity /\ \A j \in 1 .. n : u + j \in 1 .. Capacity /\ u + j # i
      BY <1>2, <1>3
    <3>2. Spot(ring, i) \in Positions /\ \A j \in 1 .. n : Spot(ring, u + j) # Spot(ring, i)
      BY <1>1, <3>1, SpotsDiffer
    <3>3. b[Spot(ring, i)] = ring.buffer[Spot(ring, i)]
      BY <1>3, <1>4, <3>2
    <3>4. Contents(r)[i] = r.buffer[Spot(r, i)]
      BY <1>8, <1>9, ContentsIs
    <3>5. Contents(ring)[i] = ring.buffer[Spot(ring, i)]
      BY <1>1, <1>2, ContentsIs
    <3> QED
      BY <1>8, <1>9, <3>3, <3>4, <3>5
  <2>2. /\ Contents(ring) \in Seq(Cells) /\ Len(Contents(ring)) = u
        /\ Contents(r) \in Seq(Cells) /\ Len(Contents(r)) = u
    BY <1>1, <1>2, <1>8, <1>9, ContentsIs
  <2>3. Contents(ring) = Contents(r)
    BY <2>1, <2>2, Alike
  <2> QED
    BY <2>2, <2>3
<1>11. PICK x \in Seq(Int), y \in Seq(Int) :
         /\ x = SubSeq(wire, 1, n) /\ Len(x) = n /\ \A i \in 1 .. n : x[i] = wire[i]
         /\ y = wire' /\ x \o y = wire
  <2>1. wire' = SubSeq(wire, n + 1, Len(wire))
    BY DEF Receive
  <2>2. /\ SubSeq(wire, 1, n) \in Seq(Int) /\ Len(SubSeq(wire, 1, n)) = n
        /\ \A i \in 1 .. n : SubSeq(wire, 1, n)[i] = wire[i]
        /\ SubSeq(wire, n + 1, Len(wire)) \in Seq(Int)
        /\ SubSeq(wire, 1, n) \o SubSeq(wire, n + 1, Len(wire)) = wire
    BY <1>1, <1>3, Tails
  <2> QED
    BY <2>1, <2>2, Zenon
<1>12. [i \in 1 .. cb |-> ring.buffer[Place(i)]]' = x
  <2>1. \A i : Place(i)' = Place(i)
    BY DEF Receive, Place
  <2>2. [i \in 1 .. cb |-> ring.buffer[Place(i)]]' = [i \in 1 .. n |-> b[Place(i)]]
    BY <1>1, <1>5, <1>8, <2>1
  <2>3. [i \in 1 .. n |-> b[Place(i)]] = [i \in 1 .. n |-> x[i]]
    BY <1>6, <1>11
  <2>4. [i \in 1 .. n |-> x[i]] = x
    BY <1>11
  <2> QED
    BY <2>2, <2>3, <2>4
<1>13. Pending' = Pending
  <2>1. Pending' = (c \o x) \o y
    BY <1>5, <1>10, <1>11, <1>12 DEF Pending, Contents
  <2>2. Pending = c \o (x \o y)
    <3>1. Pending = Contents(ring) \o wire
      BY <1>1, PendingCalm DEF FramingInv
    <3> QED
      BY <1>10, <1>11, <3>1
  <2>3. Associate(c, x, y)
    BY InCells, Associates
  <2> QED
    BY <2>1, <2>2, <2>3, Zenon DEF Associate
<1>14. Pending' = Rest(sent, Len(got))'
  <2>1. Pending = Rest(sent, Len(got))
    BY DEF FramingInv, Receive
  <2>2. UNCHANGED <<server, sent, got>>
    BY DEF Receive
  <2> QED
    BY <1>13, <2>1, <2>2, SameRest
<1>15. TypeOK' /\ Delivered'
  BY <1>1, <1>5, <1>8, <1>11 DEF FramingInv, TypeOK, Delivered, MaySend, Receive
<1>16. posted' = Areas' /\ cb' <= FreeSize(ring)'
  <2>1. FreeSize(r) = FreeSize(ring) /\ UseSize(r) = UseSize(ring)
    BY <1>2, <1>9 DEF FreeSize
  <2>2. DirectEnqueueSize(r) = DirectEnqueueSize(ring)
    BY <1>8, <2>1 DEF DirectEnqueueSize
  <2>3. Areas' = Areas
    BY <1>5, <1>8, <2>1, <2>2 DEF Areas
  <2>4. posted' = posted
    BY DEF Receive
  <2> QED
    BY <1>1, <1>2, <1>3, <1>5, <2>1, <2>3, <2>4
<1> QED
  BY <1>14, <1>15, <1>16 DEF FramingInv, Receive

\* The bytes of a completed receive become the last ones in the ring.
LEMMA RecvProcKeeps == FramingInv /\ RecvProc => FramingInv'
<1> SUFFICES ASSUME FramingInv, RecvProc
             PROVE  FramingInv'
  OBVIOUS
<1>1. /\ ring \in Rings /\ wire \in Seq(Int) /\ posted = Areas /\ cb \in Nat /\ cb <= FreeSize(ring)
      /\ UNCHANGED <<server, sent, got, wire>> /\ cb' = 0 /\ ring' = MoveRear(ring, cb)
  BY DEF FramingInv, TypeOK, RecvProc
<1>2. PICK u \in Nat, v \in Nat : u = UseSize(ring) /\ v = FreeSize(ring) /\ cb \in 0 .. v
  <2>1. UseSize(ring) \in 0 .. Capacity - 1 /\ FreeSize(ring) \in 0 .. Capacity - 1 /\ Capacity \in Nat
    BY <1>1, Sizes
  <2>2. UseSize(ring) \in Nat /\ FreeSize(ring) \in Nat
    BY <2>1
  <2>3. cb \in 0 .. FreeSize(ring)
    BY <1>1, <2>2
  <2> QED
    BY <2>2, <2>3, Zenon
<1>3. PICK r : /\ r = MoveRear(ring, cb) /\ r \in Rings /\ UseSize(r) = u + cb
               /\ \A i \in 1 .. u : Contents(r)[i] = Contents(ring)[i]
               /\ \A i \in 1 .. cb : Contents(r)[u + i] = ring.buffer[Spot(ring, u + i)]
  <2>1. cb \in 0 .. FreeSize(ring)
    BY <1>2
  <2>2. /\ MoveRear(ring, cb) \in Rings /\ UseSize(MoveRear(ring, cb)) = UseSize(ring) + cb
        /\ \A i \in 1 .. UseSize(ring) : Contents(MoveRear(ring, cb))[i] = Contents(ring)[i]
        /\ \A i \in 1 .. cb :
             Contents(MoveRear(ring, cb))[UseSize(ring) + i] = ring.buffer[Spot(ring, UseSize(ring) + i)]
    BY <1>1, <2>1, RearMoves
  <2> QED
    BY <1>2, <2>2, Zenon
<1>4. TypeOK' /\ Delivered'
  BY <1>1, <1>3 DEF FramingInv, TypeOK, Delivered, MaySend, RecvProc
<1>5. Calm'
  BY <1>1, <1>4 DEF Calm
<1>6. Plain'
  BY <1>5, CalmIsPlain, PTL
<1>7. \A i \in 1 .. cb : Place(i) = Spot(ring, u + i) /\ Spot(ring, u + i) \in Positions
  <2>1. \A i \in 1 .. FreeSize(ring) : Place(i) = Spot(ring, UseSize(ring) + i)
    BY <1>1, AreasAre
  <2>2. u + v = Capacity - 1 /\ Capacity \in Nat
    BY <1>1, <1>2, Sizes
  <2>3. \A i \in 1 .. cb : i \in 1 .. v /\ u + i \in 1 .. Capacity
    BY <1>2, <2>2
  <2>4. \A i \in 1 .. Capacity : Spot(ring, i) \in Positions
    BY <1>1, SpotsDiffer
  <2> QED
    BY <1>2, <2>1, <2>3, <2>4
<1>8. PICK x \in Seq(Cells) : /\ x = [i \in 1 .. cb |-> ring.buffer[Place(i)]] /\ Len(x) = cb
                              /\ \A i \in 1 .. cb : x[i] = Contents(r)[u + i]
  <2>1. PICK y : y = [i \in 1 .. cb |-> ring.buffer[Place(i)]]
    BY Zenon
  <2>2. ring.buffer \in [Positions -> Cells]
    BY <1>1, Sizes
  <2>3. \A i \in 1 .. cb : y[i] = ring.buffer[Spot(ring, u + i)] /\ y[i] \in Cells
    BY <1>7, <2>1, <2>2
  <2>4. y \in [1 .. cb -> Cells]
    BY <2>1, <2>3
  <2>5. y \in Seq(Cells) /\ Len(y) = cb
    BY <1>1, <2>4
  <2> QED
    BY <1>3, <2>1, <2>3, <2>5
<1>9. PICK c \in Seq(Cells), w \in Seq(Cells) : c = Contents(ring) /\ w = wire /\ Len(c) = u
  BY <1>1, <1>2, ContentsIs, InCells
<1>10. Contents(r) = c \o x
  <2>1. PICK q \in Seq(Cells) : IsJoin(q, c, x)
    BY Joins
  <2>2. /\ q = c \o x /\ Len(q) = u + cb
        /\ \A i \in 1 .. u : q[i] = c[i]
        /\ \A i \in 1 .. cb : q[u + i] = x[i]
    BY <1>8, <1>9, <2>1, Zenon DEF IsJoin
  <2>3. Contents(r) \in Seq(Cells) /\ Len(Contents(r)) = u + cb
    BY <1>3, ContentsIs
  <2>4. ASSUME NEW i \in 1 .. u + cb
        PROVE  Contents(r)[i] = q[i]
    <3>1. CASE i <= u
      <4>1. i \in 1 .. u
        BY <3>1
      <4> QED
        BY <1>3, <1>9, <2>2, <4>1
    <3>2. CASE ~(i <= u)
      <4>1. i - u \in 1 .. cb /\ u + (i - u) = i
        BY <1>1, <3>2
      <4>2. q[u + (i - u)] = x[i - u] /\ x[i - u] = Contents(r)[u + (i - u)]
        BY <1>8, <2>2, <4>1, Zenon
      <4> QED
        BY <4>1, <4>2
    <3> QED
      BY <3>1, <3>2
  <2>5. Contents(r) = q
    BY <2>2, <2>3, <2>4, Alike
  <2> QED
    BY <2>2, <2>5
<1>11. Pending' = Pending
  <2>1. Pending' = Contents(r) \o w
    BY <1>1, <1>3, <1>6, <1>9 DEF Plain, Contents
  <2>2. Pending = (c \o x) \o w
    BY <1>8, <1>9 DEF Pending, Contents
  <2> QED
    BY <1>10, <2>1, <2>2
<1>12. Pending' = Rest(sent, Len(got))'
  <2>1. Pending = Rest(sent, Len(got))
    BY DEF FramingInv, RecvProc
  <2> QED
    BY <1>1, <1>11, <2>1, SameRest
<1> QED
  BY <1>1, <1>4, <1>12 DEF FramingInv, RecvProc

\* A frame that is taken out is the good one sent next.
LEMMA OnRecvKeeps == FramingInv /\ OnRecv => FramingInv'
<1> SUFFICES ASSUME FramingInv, OnRecv
             PROVE  FramingInv'
  OBVIOUS
<1>1. /\ TypeOK /\ Delivered /\ cb = 0 /\ pc = "frames" /\ Complete /\ ~ WrongCode
      /\ server \in {"net", "lan"} /\ PeekedLen <= BufferSize
      /\ UNCHANGED <<server, sent, wire, cb, pc>>
  BY DEF FramingInv, TypeOK, OnRecv
<1>2. PICK f, e, t : Heads(f, e, t)
  BY <1>1, Hand
<1>3. PICK k \in Nat, L \in Nat :
        /\ k = Len(got) /\ L = Len(sent) /\ k < L /\ f = sent[k + 1] /\ f \in Legal
        /\ t = Rest(sent, k + 1)
  BY <1>1, <1>2 DEF Heads, TypeOK
<1>4. PICK r, s : /\ Leaves(r, t) /\ f.kind = "good" /\ s = f.payload
                  /\ ring' = r /\ got' = Append(got, s)
  <2>1. CASE server = "net"
    <3>1. /\ Leaves(NetTaken.ring, t)
          /\ ~WrongCode /\ ChecksOut(Decoded(NetTaken.packet)) =>
               f.kind = "good" /\ Read(Decoded(NetTaken.packet)) = f.payload
      BY <1>1, <1>2, <2>1, TakenNet
    <3>2. /\ ChecksOut(Decoded(NetTaken.packet)) /\ ring' = NetTaken.ring
          /\ got' = Append(got, Read(Decoded(NetTaken.packet)))
      BY <2>1 DEF OnRecv
    <3> QED
      BY <1>1, <3>1, <3>2
  <2>2. CASE server = "lan"
    <3>1. /\ Leaves(LanTaken.ring, t) /\ f.kind = "good" /\ Read(LanTaken.packet) = f.payload
      BY <1>1, <1>2, <2>2, TakenLan
    <3>2. ring' = LanTaken.ring /\ got' = Append(got, Read(LanTaken.packet))
      BY <2>2 DEF OnRecv
    <3> QED
      BY <3>1, <3>2
  <2> QED
    BY <1>1, <2>1, <2>2
<1>5. PICK g \in Seq(Seq(Int)) : /\ g = got' /\ Len(g) = k + 1 /\ g[k + 1] = s
                                 /\ \A i \in 1 .. k : g[i] = got[i]
  <2>1. s \in Seq(Int)
    <3>1. s \in Seq(Bytes)
      BY <1>3, <1>4 DEF Legal, Frame
    <3> QED
      BY <3>1, BytesInts
  <2>2. PICK X : X = Seq(Int)
    BY Zenon
  <2>3. got \in Seq(X) /\ s \in X
    BY <1>1, <2>1, <2>2 DEF TypeOK
  <2>4. PICK g \in Seq(X) : g = Append(got, s)
    <3>1. Append(got, s) \in Seq(X)
      BY <2>3
    <3> QED
      BY <3>1, Zenon
  <2>5. Len(g) = k + 1 /\ g[k + 1] = s /\ \A i \in 1 .. k : g[i] = got[i]
    BY <1>3, <2>3, <2>4
  <2> QED
    BY <1>4, <2>2, <2>4, <2>5
<1>6. TypeOK'
  BY <1>1, <1>4, <1>5 DEF TypeOK, Leaves, MaySend
<1>7. Delivered'
  <2>1. Len(g) <= L
    BY <1>3, <1>5
  <2>2. ASSUME NEW i \in 1 .. k + 1
        PROVE  sent[i].kind = "good" /\ g[i] = sent[i].payload
    <3>1. CASE i = k + 1
      BY <1>3, <1>4, <1>5, <3>1
    <3>2. CASE i # k + 1
      <4>1. i \in 1 .. k
        BY <3>2
      <4> QED
        BY <1>1, <1>3, <1>5, <4>1 DEF Delivered
    <3> QED
      BY <3>1, <3>2
  <2> QED
    BY <1>1, <1>3, <1>5, <2>1, <2>2 DEF Delivered
<1>8. Calm'
  BY <1>1, <1>6 DEF Calm
<1>9. Plain'
  BY <1>8, CalmIsPlain, PTL
<1>10. Pending' = Rest(sent, Len(got))'
  <2>1. Pending' = Contents(r) \o wire
    BY <1>1, <1>4, <1>9 DEF Plain, Contents
  <2>2. Contents(r) \o wire = Rest(sent, k + 1)
    BY <1>3, <1>4 DEF Leaves
  <2>3. Rest(sent, Len(got))' = Rest(sent, k + 1)
    <3>1. Len(got') = k + 1
      BY <1>5
    <3> QED
      BY <1>1, <3>1 DEF Rest, Stream, Elements
  <2> QED
    BY <2>1, <2>2, <2>3
<1> QED
  BY <1>1, <1>6, <1>7, <1>10 DEF FramingInv

\* Every step keeps the invariant.
LEMMA FramingStep == FramingInv /\ [Next]_vars => FramingInv'
<1> SUFFICES ASSUME FramingInv, [Next]_vars
             PROVE  FramingInv'
  OBVIOUS
<1>1. CASE Accept
  BY <1>1, AcceptKeeps
<1>2. CASE RecvPost
  BY <1>2, RecvPostKeeps
<1>3. CASE ReceiveNothing
  BY <1>3, ReceiveNothingKeeps
<1>4. CASE RecvProc
  BY <1>4, RecvProcKeeps
<1>5. CASE NoMoreFrames
  BY <1>5, NoMoreFramesKeeps
<1>6. CASE Refuse
  BY <1>6, RefuseKeeps
<1>7. CASE RefuseSum
  BY <1>7, RefuseSumKeeps
<1>8. CASE OnRecv
  BY <1>8, OnRecvKeeps
<1>9. CASE Overrun
  BY <1>9, OverrunKeeps
<1>10. ASSUME NEW n \in 1 .. Capacity, Receive(n)
       PROVE  FramingInv'
  BY <1>10, ReceiveKeeps
<1>11. CASE UNCHANGED vars
  BY <1>11, StutterKeeps
<1> QED
  BY <1>1, <1>2, <1>3, <1>4, <1>5, <1>6, <1>7, <1>8, <1>9, <1>10, <1>11 DEF Next

\* The invariant holds in every reachable state, for any size of the ring that takes
\* the largest packet, any width of a byte, keys and codes, and any streams of frames,
\* those among them that are longer than a packet or than the ring.
THEOREM FramingInvariant == Spec => []FramingInv
<1>1. Init => FramingInv
  BY InitInv
<1>2. FramingInv /\ [Next]_vars => FramingInv'
  BY FramingStep
<1> QED
  BY <1>1, <1>2, PTL DEF Spec

\* A peer's bytes come through: what OnRecv is called with are the payloads of the
\* good frames in order, decoded to what they were before they were encoded, nothing
\* behind a frame that is not good is given out, and what is pending is the rest of
\* the stream, however Windows cuts it (RecvPost, RecvProc, Packet::Decode); and the
\* copy out of the ring runs past the end of a packet only for a frame that its sender
\* made longer than a packet, never for one that went through a Packet on its way.
THEOREM StreamComesThrough == Spec => []StreamExact
<1>1. FramingInv => StreamExact
  BY DEF FramingInv, StreamExact, Rest
<1> QED
  BY <1>1, FramingInvariant, PTL

\* A receive with no room, which Windows completes with nothing and WorkerThreadMain
\* takes for the end of the session, is posted only when the ring is full with the
\* beginning of a frame that does not fit into it.
THEOREM RoomEnough == Spec => []RoomToRead
<1>1. ASSUME FramingInv, pc = "posted", Room = 0
      PROVE  HeaderSize + Len(sent[Len(got) + 1].payload) >= Capacity
  <2>1. /\ TypeOK /\ cb = 0 /\ Delivered /\ Pending = Rest(sent, Len(got)) /\ ring \in Rings
        /\ posted = Areas /\ ~ Complete /\ server \in {"net", "lan"}
    BY <1>1 DEF FramingInv, TypeOK
  <2>2. PICK u \in Nat, B \in Nat \ {0} :
          u = UseSize(ring) /\ B = BufferSize /\ u = Capacity - 1 /\ u >= 4 + B
    <3>1. Room = FreeSize(ring)
      BY <2>1, AreasAre
    <3>2. /\ UseSize(ring) \in 0 .. Capacity - 1 /\ FreeSize(ring) \in 0 .. Capacity - 1
          /\ UseSize(ring) + FreeSize(ring) = Capacity - 1 /\ Capacity \in Nat
      BY <2>1, Sizes
    <3>3. BufferSize \in Nat \ {0} /\ Capacity > 4 + BufferSize
      BY StreamAssumption, PacketAssumption DEF NetHeaderSize
    <3>4. UseSize(ring) \in Nat /\ UseSize(ring) = Capacity - 1 /\ UseSize(ring) >= 4 + BufferSize
      BY <1>1, <3>1, <3>2, <3>3
    <3> QED
      BY <3>3, <3>4, Zenon
  <2>3. PICK f, e, t : Heads(f, e, t)
    <3>1. UseSize(ring) # 0
      BY <2>2
    <3> QED
      BY <2>1, <3>1, FrameAtHand
  <2>4. PICK h \in 1 .. 4 : h = HeaderSize
    BY <2>1 DEF HeaderSize, NetHeaderSize, LanHeaderSize
  <2>5. UseSize(ring) >= HeaderSize
    BY <2>2, <2>4
  <2>6. PICK l \in Nat : l = PeekedLen /\ l = Len(f.payload)
    <3>1. PeekedLen = Len(f.payload)
      BY <2>1, <2>3, <2>5, FrameIsThere
    <3>2. f.payload \in Seq(Bytes)
      BY <2>3 DEF Heads, Legal, Frame
    <3> QED
      BY <3>1, <3>2
  <2>7. f = sent[Len(got) + 1]
    BY <2>3 DEF Heads
  <2>8. u < h + l
    BY <2>1, <2>2, <2>4, <2>5, <2>6 DEF Complete
  <2>9. Capacity \in Nat
    BY RingAssumption
  <2>10. h + l >= Capacity
    BY <2>2, <2>8, <2>9
  <2> QED
    BY <2>4, <2>6, <2>7, <2>10
<1>2. FramingInv => RoomToRead
  BY <1>1 DEF RoomToRead
<1> QED
  BY <1>2, FramingInvariant, PTL
=============================================================================
