----------------------------- MODULE QueueFacts -----------------------------
(***************************************************************************)
(* Facts about sequences used as queues, buffers and vectors, stated once    *)
(* for the proofs about the modules that use them.                          *)
(***************************************************************************)
EXTENDS Integers, SequencesExt, Lists, WellFoundedInduction, TLAPS

(* The elements of a sequence after Append.                                *)
LEMMA Appended ==
    ASSUME NEW S, NEW q \in Seq(S), NEW c \in S
    PROVE  /\ Append(q, c) \in Seq(S)
           /\ Len(q) \in Nat
           /\ Len(Append(q, c)) = Len(q) + 1
           /\ Append(q, c)[Len(q) + 1] = c
           /\ \A i \in 1 .. Len(q) : Append(q, c)[i] = q[i]
  OBVIOUS

(* The elements of a sequence without its first one.                       *)
LEMMA Dequeued ==
    ASSUME NEW S, NEW q \in Seq(S), q # << >>
    PROVE  /\ Tail(q) \in Seq(S)
           /\ Len(q) \in Nat \ {0}
           /\ Len(Tail(q)) = Len(q) - 1
           /\ Head(q) = q[1] /\ q[1] \in S
           /\ \A i \in 1 .. Len(q) - 1 : Tail(q)[i] = q[i + 1]
  OBVIOUS

(* The elements of a concatenation.                                        *)
LEMMA Concatenated ==
    ASSUME NEW S, NEW a \in Seq(S), NEW b \in Seq(S)
    PROVE  /\ a \o b \in Seq(S)
           /\ Len(a) \in Nat /\ Len(b) \in Nat
           /\ Len(a \o b) = Len(a) + Len(b)
           /\ \A j \in 1 .. Len(a) : (a \o b)[j] = a[j]
           /\ \A j \in 1 .. Len(b) : (a \o b)[Len(a) + j] = b[j]
  OBVIOUS

(* The elements of a sequence without its i-th one: RemoveAt of the        *)
(* community modules, erase of the code.                                   *)
LEMMA Removed ==
    ASSUME NEW S, NEW q \in Seq(S), NEW i \in 1 .. Len(q)
    PROVE  /\ RemoveAt(q, i) \in Seq(S)
           /\ Len(q) \in Nat
           /\ Len(RemoveAt(q, i)) = Len(q) - 1
           /\ \A j \in 1 .. Len(q) - 1 :
                 RemoveAt(q, i)[j] = q[IF j < i THEN j ELSE j + 1]
  <1> DEFINE a == SubSeq(q, 1, i - 1)
             b == SubSeq(q, i + 1, Len(q))
             r == RemoveAt(q, i)
             m == i - 1
             n == Len(q) - i
  <1>1. m \in Nat /\ n \in Nat /\ Len(q) = m + 1 + n /\ i = m + 1
    OBVIOUS
  <1>2. /\ a \in Seq(S) /\ Len(a) = m
        /\ \A j \in 1 .. m : a[j] = q[j]
    OBVIOUS
  <1>3. /\ b \in Seq(S) /\ Len(b) = n
        /\ \A j \in 1 .. n : b[j] = q[i + j]
    OBVIOUS
  <1>4. r = a \o b
    BY DEF RemoveAt
  <1> HIDE DEF a, b, r, m, n
  <1>5. /\ r \in Seq(S) /\ Len(r) = m + n
        /\ \A j \in 1 .. m : r[j] = a[j]
        /\ \A j \in 1 .. n : r[m + j] = b[j]
    <2>1. /\ a \o b \in Seq(S)
          /\ Len(a \o b) = Len(a) + Len(b)
          /\ \A j \in 1 .. Len(a) : (a \o b)[j] = a[j]
          /\ \A j \in 1 .. Len(b) : (a \o b)[Len(a) + j] = b[j]
      <3>1. a \in Seq(S) /\ b \in Seq(S)
        BY <1>2, <1>3
      <3> QED BY <3>1, Concatenated
    <2> QED BY <1>2, <1>3, <1>4, <2>1
  <1>6. Len(q) - 1 = m + n
    BY <1>1
  <1>7. ASSUME NEW j \in 1 .. m + n
        PROVE  r[j] = q[IF j < i THEN j ELSE j + 1]
    <2>1. CASE j <= m
      BY <1>1, <1>2, <1>5, <2>1
    <2>2. CASE ~(j <= m)
      <3>1. PICK k \in 1 .. n : j = m + k
        <4>1. j - m \in 1 .. n /\ j = m + (j - m)
          BY <1>1, <2>2
        <4> QED BY <4>1
      <3>2. i + k = j + 1 /\ ~(j < i)
        BY <1>1, <3>1
      <3> QED BY <1>3, <1>5, <3>1, <3>2
    <2> QED BY <1>1, <2>1, <2>2
  <1>8. /\ r \in Seq(S) /\ Len(r) = Len(q) - 1 /\ Len(q) \in Nat
        /\ \A j \in 1 .. Len(q) - 1 : r[j] = q[IF j < i THEN j ELSE j + 1]
    BY <1>1, <1>5, <1>6, <1>7
  <1> QED BY <1>8 DEF r

(* A sequence with an element put in at place i: InsertAt of the community   *)
(* modules, insertBefore of the code.                                      *)
LEMMA Inserted ==
    ASSUME NEW S, NEW q \in Seq(S), NEW i \in 1 .. Len(q) + 1, NEW c \in S
    PROVE  /\ InsertAt(q, i, c) \in Seq(S)
           /\ Len(q) \in Nat
           /\ Len(InsertAt(q, i, c)) = Len(q) + 1
           /\ InsertAt(q, i, c)[i] = c
           /\ \A j \in 1 .. Len(q) : InsertAt(q, i, c)[IF j < i THEN j ELSE j + 1] = q[j]
  <1> DEFINE a == SubSeq(q, 1, i - 1)
             b == SubSeq(q, i, Len(q))
             ac == Append(a, c)
             r == InsertAt(q, i, c)
             m == i - 1
             n == Len(q) + 1 - i
  <1>1. m \in Nat /\ n \in Nat /\ Len(q) = m + n /\ i = m + 1 /\ Len(q) \in Nat
    OBVIOUS
  <1>2. /\ a \in Seq(S) /\ Len(a) = m
        /\ \A j \in 1 .. m : a[j] = q[j]
    OBVIOUS
  <1>3. /\ b \in Seq(S) /\ Len(b) = n
        /\ \A j \in 1 .. n : b[j] = q[m + j]
    OBVIOUS
  <1>4. r = (a \o <<c>>) \o b
    BY DEF InsertAt
  <1> HIDE DEF a, b, r, m, n
  <1>5. /\ ac \in Seq(S) /\ Len(ac) = i /\ ac[i] = c
        /\ \A j \in 1 .. m : ac[j] = q[j]
    BY <1>1, <1>2
  <1>6. a \o <<c>> = ac
    <2>1. a \in Seq(S)
      BY <1>2
    <2> QED BY <2>1
  <1> HIDE DEF ac
  <1>7. /\ r \in Seq(S) /\ Len(r) = i + n
        /\ \A j \in 1 .. i : r[j] = ac[j]
        /\ \A j \in 1 .. n : r[i + j] = b[j]
    <2>1. /\ ac \o b \in Seq(S)
          /\ Len(ac \o b) = Len(ac) + Len(b)
          /\ \A j \in 1 .. Len(ac) : (ac \o b)[j] = ac[j]
          /\ \A j \in 1 .. Len(b) : (ac \o b)[Len(ac) + j] = b[j]
      <3>1. ac \in Seq(S) /\ b \in Seq(S)
        BY <1>3, <1>5
      <3> QED BY <3>1, Concatenated
    <2> QED BY <1>3, <1>4, <1>5, <1>6, <2>1
  <1>8. r[i] = c
    BY <1>1, <1>5, <1>7
  <1>9. ASSUME NEW j \in 1 .. Len(q)
        PROVE  r[IF j < i THEN j ELSE j + 1] = q[j]
    <2>1. CASE j < i
      BY <1>1, <1>5, <1>7, <2>1
    <2>2. CASE ~(j < i)
      <3>1. PICK k \in 1 .. n : j = m + k
        <4>1. j - m \in 1 .. n /\ j = m + (j - m)
          BY <1>1, <2>2
        <4> QED BY <4>1
      <3>2. j + 1 = i + k
        BY <1>1, <3>1
      <3> QED BY <1>3, <1>7, <2>2, <3>1, <3>2
    <2> QED BY <2>1, <2>2
  <1>10. Len(r) = Len(q) + 1
    BY <1>1, <1>7
  <1> QED BY <1>1, <1>7, <1>8, <1>9, <1>10 DEF r
-----------------------------------------------------------------------------
(* Natural numbers, if any, have a least one.                              *)
LEMMA LeastOf ==
    ASSUME NEW S \in SUBSET Nat, S # {}
    PROVE  \E n \in S : \A m \in S : n <= m
  <1> DEFINE R == {ss \in Nat \X Nat : ss[1] < ss[2]}
  <1>1. IsWellFoundedOn(R, Nat)
    BY NatLessThanWellFounded DEF OpToRel
  <1>2. \E x \in S : \A y \in S : ~ (<<y, x>> \in R)
    <2> HIDE DEF R
    <2> QED BY <1>1, WFMin
  <1>3. PICK x \in S : \A y \in S : ~ (<<y, x>> \in R)
    BY <1>2
  <1>4. \A y \in S : x <= y
    <2>1. TAKE y \in S
    <2>2. <<y, x>> \in Nat \X Nat /\ ~(<<y, x>> \in R)
      BY <1>3
    <2> QED BY <2>2
  <1> QED BY <1>4

(* Induction over the numbers, for a set in place of a predicate.          *)
LEMMA NatInd ==
    ASSUME NEW S, 0 \in S, \A n \in Nat : n \in S => n + 1 \in S
    PROVE  Nat \subseteq S
  <1> SUFFICES ASSUME Nat \ S # {} PROVE FALSE
    OBVIOUS
  <1>1. PICK n \in Nat \ S : \A m \in Nat \ S : n <= m
    BY LeastOf
  <1>2. n # 0 /\ n - 1 \in Nat
    BY <1>1
  <1>3. n - 1 \in S
    BY <1>1, <1>2
  <1>4. (n - 1) + 1 \in S
    BY <1>2, <1>3
  <1> QED BY <1>1, <1>4

(* left is the recursive function of Lefts.                                *)
IsLefts(s, W, left) ==
    left = [i \in 0 .. Len(s) |->
              IF i = 0 THEN <<>>
              ELSE IF s[i] \in W THEN left[i - 1] ELSE Append(left[i - 1], s[i])]

(* There is such a function,                                               *)
LEMMA LeftsExists ==
    ASSUME NEW S, NEW s \in Seq(S), NEW W
    PROVE  \E left : IsLefts(s, W, left)
  <1> DEFINE Good(n) == \E left : left = [i \in 0 .. n |->
              IF i = 0 THEN <<>> ELSE IF s[i] \in W THEN left[i - 1] ELSE Append(left[i - 1], s[i])]
             G == {n \in Nat : Good(n)}
  <1>1. 0 \in G
    <2> DEFINE g == [i \in 0 .. 0 |-> <<>>]
    <2>1. g = [i \in 0 .. 0 |->
              IF i = 0 THEN <<>> ELSE IF s[i] \in W THEN g[i - 1] ELSE Append(g[i - 1], s[i])]
      OBVIOUS
    <2> QED BY <2>1
  <1>2. ASSUME NEW n \in Nat, n \in G
        PROVE  n + 1 \in G
    <2>1. PICK g : g = [i \in 0 .. n |->
              IF i = 0 THEN <<>> ELSE IF s[i] \in W THEN g[i - 1] ELSE Append(g[i - 1], s[i])]
      BY <1>2
    <2> DEFINE h == [i \in 0 .. n + 1 |-> IF i = n + 1
                       THEN IF s[n + 1] \in W THEN g[n] ELSE Append(g[n], s[n + 1])
                       ELSE g[i]]
    <2>2. \A i \in 0 .. n : h[i] = g[i]
      OBVIOUS
    <2>3. ASSUME NEW i \in 0 .. n + 1
          PROVE  h[i] = IF i = 0 THEN <<>> ELSE IF s[i] \in W THEN h[i - 1] ELSE Append(h[i - 1], s[i])
      <3>1. CASE i = 0
        <4>1. g[0] = <<>>
          BY <2>1
        <4> QED BY <2>2, <3>1, <4>1
      <3>2. CASE i \in 1 .. n
        <4>1. i - 1 \in 0 .. n /\ i \in 0 .. n /\ i # 0
          BY <3>2
        <4>2. g[i] = IF s[i] \in W THEN g[i - 1] ELSE Append(g[i - 1], s[i])
          BY <2>1, <4>1
        <4> HIDE DEF h
        <4>3. h[i] = g[i] /\ h[i - 1] = g[i - 1]
          BY <2>2, <4>1
        <4> QED BY <4>1, <4>2, <4>3
      <3>3. CASE i = n + 1
        <4>1. h[i] = IF s[n + 1] \in W THEN g[n] ELSE Append(g[n], s[n + 1])
          BY <3>3
        <4>2. h[n] = g[n] /\ i # 0 /\ i - 1 = n
          BY <2>2, <3>3
        <4> HIDE DEF h
        <4> QED BY <3>3, <4>1, <4>2
      <3> QED BY <3>1, <3>2, <3>3
    <2>4. h = [i \in 0 .. n + 1 |-> h[i]]
      OBVIOUS
    <2> HIDE DEF h
    <2>5. h = [i \in 0 .. n + 1 |->
              IF i = 0 THEN <<>> ELSE IF s[i] \in W THEN h[i - 1] ELSE Append(h[i - 1], s[i])]
      BY <2>3, <2>4
    <2>6. Good(n + 1)
      BY <2>5
    <2> HIDE DEF Good
    <2> QED BY <2>6
  <1> HIDE DEF G
  <1>3. Nat \subseteq G
    BY <1>1, <1>2, NatInd
  <1>4. Len(s) \in G
    BY <1>3
  <1>5. Good(Len(s))
    BY <1>4 DEF G
  <1> QED BY <1>5 DEF IsLefts

(* and so it is what Lefts stands for.                                     *)
LEMMA LeftsIs ==
    ASSUME NEW S, NEW s \in Seq(S), NEW W
    PROVE  \A i \in 0 .. Len(s) : Lefts(s, W)[i] =
              IF i = 0 THEN <<>> ELSE IF s[i] \in W THEN Lefts(s, W)[i - 1] ELSE Append(Lefts(s, W)[i - 1], s[i])
  <1>1. \E left : IsLefts(s, W, left)
    BY LeftsExists
  <1>2. Lefts(s, W) = CHOOSE left : IsLefts(s, W, left)
    BY DEF Lefts, IsLefts
  <1>3. IsLefts(s, W, Lefts(s, W))
    <2>1. IsLefts(s, W, CHOOSE left : IsLefts(s, W, left))
      BY <1>1
    <2> QED BY <1>2, <2>1
  <1>4. Lefts(s, W) = [i \in 0 .. Len(s) |->
           IF i = 0 THEN <<>>
           ELSE IF s[i] \in W THEN Lefts(s, W)[i - 1]
           ELSE Append(Lefts(s, W)[i - 1], s[i])]
    BY <1>3 DEF IsLefts
  <1> DEFINE left == Lefts(s, W)
  <1> HIDE DEF left
  <1> QED BY <1>4

(* Induction over sequences: a set that has the empty one and is closed    *)
(* under Append has them all.                                              *)
LEMMA SeqInd ==
    ASSUME NEW S, NEW T, << >> \in T,
           \A q \in Seq(S), w \in S : q \in T => Append(q, w) \in T
    PROVE  Seq(S) \subseteq T
  <1> DEFINE N == {n \in Nat : \A q \in Seq(S) : Len(q) = n => q \in T}
  <1>1. 0 \in N
    <2>1. \A q \in Seq(S) : Len(q) = 0 => q = << >>
      OBVIOUS
    <2> QED BY <2>1
  <1>2. ASSUME NEW n \in Nat, n \in N
        PROVE  n + 1 \in N
    <2>1. ASSUME NEW q \in Seq(S), Len(q) = n + 1
          PROVE  q \in T
      <3> DEFINE r == SubSeq(q, 1, n)
      <3>1. r \in Seq(S) /\ Len(r) = n /\ q[n + 1] \in S /\ q = Append(r, q[n + 1])
        BY <2>1
      <3> HIDE DEF r
      <3>2. r \in T
        BY <1>2, <3>1
      <3> QED BY <3>1, <3>2
    <2> QED BY <2>1
  <1> HIDE DEF N
  <1>3. Nat \subseteq N
    BY <1>1, <1>2, NatInd
  <1> QED BY <1>3 DEF N

(* An element more at the end changes nothing before it.                   *)
LEMMA LeftsPrefix ==
    ASSUME NEW S, NEW s \in Seq(S), NEW w \in S, NEW W
    PROVE  \A i \in 0 .. Len(s) : Lefts(Append(s, w), W)[i] = Lefts(s, W)[i]
  <1> DEFINE a == Append(s, w)
             N == {n \in Nat : n <= Len(s) => Lefts(a, W)[n] = Lefts(s, W)[n]}
  <1>1. a \in Seq(S) /\ Len(a) = Len(s) + 1 /\ Len(s) \in Nat
        /\ \A i \in 1 .. Len(s) : a[i] = s[i]
    OBVIOUS
  <1> HIDE DEF a
  <1>2. \A i \in 0 .. Len(s) : Lefts(s, W)[i] =
           IF i = 0 THEN <<>>
           ELSE IF s[i] \in W THEN Lefts(s, W)[i - 1] ELSE Append(Lefts(s, W)[i - 1], s[i])
    BY LeftsIs
  <1>3. \A i \in 0 .. Len(a) : Lefts(a, W)[i] =
           IF i = 0 THEN <<>>
           ELSE IF a[i] \in W THEN Lefts(a, W)[i - 1] ELSE Append(Lefts(a, W)[i - 1], a[i])
    BY <1>1, LeftsIs
  <1>4. 0 \in N
    BY <1>1, <1>2, <1>3
  <1>5. ASSUME NEW n \in Nat, n \in N
        PROVE  n + 1 \in N
    <2>1. CASE n + 1 <= Len(s)
      <3>1. n + 1 \in 0 .. Len(s) /\ n + 1 \in 0 .. Len(a) /\ n + 1 # 0 /\ (n + 1) - 1 = n
            /\ n + 1 \in 1 .. Len(s) /\ n <= Len(s)
        BY <1>1, <2>1
      <3>2. Lefts(a, W)[n] = Lefts(s, W)[n] /\ a[n + 1] = s[n + 1]
        BY <1>1, <1>5, <3>1
      <3>3. Lefts(s, W)[n + 1] =
              IF s[n + 1] \in W THEN Lefts(s, W)[n] ELSE Append(Lefts(s, W)[n], s[n + 1])
        BY <1>2, <3>1
      <3>4. Lefts(a, W)[n + 1] =
              IF a[n + 1] \in W THEN Lefts(a, W)[n] ELSE Append(Lefts(a, W)[n], a[n + 1])
        BY <1>3, <3>1
      <3> QED BY <3>2, <3>3, <3>4
    <2>2. CASE ~(n + 1 <= Len(s))
      BY <2>2
    <2> QED BY <2>1, <2>2
  <1> HIDE DEF N
  <1>6. Nat \subseteq N
    BY <1>4, <1>5, NatInd
  <1> QED BY <1>1, <1>6 DEF a, N

(* Without, by the last element.                                           *)
LEMMA LeftsBegin ==
    ASSUME NEW S, NEW s \in Seq(S), NEW W
    PROVE  Len(s) = 0 => Without(s, W) = << >>
  <1>1. 0 \in 0 .. Len(s)
    OBVIOUS
  <1>2. \A i \in 0 .. Len(s) : Lefts(s, W)[i] =
           IF i = 0 THEN <<>>
           ELSE IF s[i] \in W THEN Lefts(s, W)[i - 1] ELSE Append(Lefts(s, W)[i - 1], s[i])
    BY LeftsIs
  <1>3. Lefts(s, W)[0] = << >>
    BY <1>1, <1>2
  <1> QED BY <1>3 DEF Without

(* Without of the empty sequence,                                          *)
LEMMA WithoutNone ==
    ASSUME NEW W
    PROVE  Without(<< >>, W) = << >>
  <1> DEFINE e == << >>
  <1>1. e \in Seq(Nat) /\ Len(e) = 0
    OBVIOUS
  <1> HIDE DEF e
  <1>2. Without(e, W) = << >>
    BY <1>1, LeftsBegin
  <1> QED BY <1>2 DEF e

(* and of one with an element more.                                        *)
LEMMA WithoutLast ==
    ASSUME NEW S, NEW s \in Seq(S), NEW w \in S, NEW W
    PROVE  Without(Append(s, w), W) =
              IF w \in W THEN Without(s, W) ELSE Append(Without(s, W), w)
  <1> DEFINE a == Append(s, w)
  <1>1. a \in Seq(S) /\ Len(a) = Len(s) + 1 /\ Len(s) \in Nat /\ a[Len(s) + 1] = w
    OBVIOUS
  <1>2. Lefts(a, W)[Len(s)] = Lefts(s, W)[Len(s)]
    BY LeftsPrefix
  <1> HIDE DEF a
  <1>3. Lefts(a, W)[Len(a)] =
           IF a[Len(a)] \in W THEN Lefts(a, W)[Len(a) - 1]
           ELSE Append(Lefts(a, W)[Len(a) - 1], a[Len(a)])
    <2>1. Len(a) \in 0 .. Len(a) /\ Len(a) # 0
      BY <1>1
    <2> QED BY <1>1, <2>1, LeftsIs
  <1>4. Len(a) - 1 = Len(s)
    BY <1>1
  <1> QED BY <1>1, <1>2, <1>3, <1>4 DEF Without, a

(* The elements of a sequence, one by one.                                 *)
LEMMA ElementsOf ==
    /\ ToSet(<< >>) = {}
    /\ \A S : \A q \in Seq(S), w \in S : ToSet(Append(q, w)) = ToSet(q) \union {w}
    /\ \A S : \A q \in Seq(S) : ToSet(q) \subseteq S
  <1>1. ASSUME NEW S, NEW q \in Seq(S), NEW w \in S
        PROVE  ToSet(Append(q, w)) = ToSet(q) \union {w}
    <2> DEFINE a == Append(q, w)
    <2>1. /\ Len(q) \in Nat /\ DOMAIN a = 1 .. Len(q) + 1 /\ DOMAIN q = 1 .. Len(q)
          /\ a[Len(q) + 1] = w /\ \A i \in 1 .. Len(q) : a[i] = q[i]
      OBVIOUS
    <2> HIDE DEF a
    <2>2. ToSet(a) \subseteq ToSet(q) \union {w}
      BY <2>1 DEF ToSet
    <2>3. w \in ToSet(a)
      BY <2>1 DEF ToSet
    <2>4. ToSet(q) \subseteq ToSet(a)
      BY <2>1 DEF ToSet
    <2> QED BY <2>2, <2>3, <2>4 DEF a
  <1>2. ToSet(<< >>) = {}
    BY DEF ToSet
  <1>3. \A S : \A q \in Seq(S) : ToSet(q) \subseteq S
    BY DEF ToSet
  <1> QED BY <1>1, <1>2, <1>3

(* Append to a sequence that has each element once.                        *)
LEMMA AppendOnce ==
    ASSUME NEW S, NEW q \in Seq(S), NEW w \in S
    PROVE  IsInjective(Append(q, w)) <=> IsInjective(q) /\ w \notin ToSet(q)
  <1> DEFINE a == Append(q, w)
  <1>1. /\ Len(q) \in Nat /\ DOMAIN a = 1 .. Len(q) + 1 /\ DOMAIN q = 1 .. Len(q)
        /\ a[Len(q) + 1] = w /\ \A i \in 1 .. Len(q) : a[i] = q[i]
    OBVIOUS
  <1> HIDE DEF a
  <1>2. ASSUME IsInjective(a)
        PROVE  IsInjective(q) /\ w \notin ToSet(q)
    <2>1. \A i, j \in 1 .. Len(q) + 1 : a[i] = a[j] => i = j
      BY <1>1, <1>2 DEF IsInjective
    <2>2. IsInjective(q)
      BY <1>1, <2>1 DEF IsInjective
    <2>3. \A i \in 1 .. Len(q) : q[i] # w
      BY <1>1, <2>1
    <2> QED BY <1>1, <2>2, <2>3 DEF ToSet
  <1>3. ASSUME IsInjective(q), w \notin ToSet(q)
        PROVE  IsInjective(a)
    <2>1. \A i \in 1 .. Len(q) : q[i] # w
      BY <1>1, <1>3 DEF ToSet
    <2>2. \A i, j \in 1 .. Len(q) : q[i] = q[j] => i = j
      BY <1>1, <1>3 DEF IsInjective
    <2>3. ASSUME NEW i \in 1 .. Len(q) + 1, NEW j \in 1 .. Len(q) + 1, a[i] = a[j]
          PROVE  i = j
      BY <1>1, <2>1, <2>2, <2>3
    <2> QED BY <1>1, <2>3 DEF IsInjective
  <1> QED BY <1>2, <1>3 DEF a

(* What is left, and that nothing else is.                                 *)
LEMMA WithoutLeaves ==
    ASSUME NEW S, NEW s \in Seq(S), NEW W
    PROVE  /\ Without(s, W) \in Seq(S)
           /\ Len(Without(s, W)) <= Len(s)
           /\ ToSet(Without(s, W)) = ToSet(s) \ W
  <1> DEFINE T == {q \in Seq(S) : /\ Without(q, W) \in Seq(S)
                                  /\ Len(Without(q, W)) <= Len(q)
                                  /\ ToSet(Without(q, W)) = ToSet(q) \ W}
  <1>1. << >> \in T
    <2>1. Without(<< >>, W) = << >>
      BY WithoutNone
    <2>2. ToSet(<< >>) = {}
      BY ElementsOf
    <2>3. << >> \in Seq(S) /\ Len(<< >>) <= Len(<< >>)
      OBVIOUS
    <2> QED BY <2>1, <2>2, <2>3
  <1>2. ASSUME NEW q \in Seq(S), NEW w \in S, q \in T
        PROVE  Append(q, w) \in T
    <2> DEFINE r == Without(q, W)
    <2>1. r \in Seq(S) /\ Len(r) <= Len(q) /\ ToSet(r) = ToSet(q) \ W
      BY <1>2
    <2>2. Without(Append(q, w), W) = IF w \in W THEN r ELSE Append(r, w)
      BY WithoutLast
    <2> HIDE DEF r
    <2>3. ToSet(Append(q, w)) = ToSet(q) \union {w} /\ ToSet(Append(r, w)) = ToSet(r) \union {w}
      BY <2>1, ElementsOf
    <2>4. /\ Append(q, w) \in Seq(S) /\ Len(Append(q, w)) = Len(q) + 1 /\ Len(q) \in Nat
          /\ Append(r, w) \in Seq(S) /\ Len(Append(r, w)) = Len(r) + 1 /\ Len(r) \in Nat
      BY <2>1
    <2>5. CASE w \in W
      <3>1. Without(Append(q, w), W) = r
        BY <2>2, <2>5
      <3>2. Len(r) <= Len(Append(q, w))
        BY <2>1, <2>4
      <3>3. ToSet(r) = ToSet(Append(q, w)) \ W
        BY <2>1, <2>3, <2>5
      <3> QED BY <2>1, <2>4, <3>1, <3>2, <3>3
    <2>6. CASE w \notin W
      <3>1. Without(Append(q, w), W) = Append(r, w)
        BY <2>2, <2>6
      <3>2. Len(Append(r, w)) <= Len(Append(q, w))
        BY <2>1, <2>4
      <3>3. ToSet(Append(r, w)) = ToSet(Append(q, w)) \ W
        BY <2>1, <2>3, <2>6
      <3> QED BY <2>1, <2>4, <3>1, <3>2, <3>3
    <2> QED BY <2>5, <2>6
  <1> HIDE DEF T
  <1>3. Seq(S) \subseteq T
    BY <1>1, <1>2, SeqInd
  <1> QED BY <1>3 DEF T

(* Only the elements of the sequence count.                                *)
LEMMA WithoutAgrees ==
    ASSUME NEW S, NEW s \in Seq(S), NEW W, NEW V, W \cap ToSet(s) = V \cap ToSet(s)
    PROVE  Without(s, W) = Without(s, V)
  <1> DEFINE T == {q \in Seq(S) : W \cap ToSet(q) = V \cap ToSet(q)
                                  => Without(q, W) = Without(q, V)}
  <1>1. << >> \in T
    BY WithoutNone
  <1>2. ASSUME NEW q \in Seq(S), NEW w \in S, q \in T
        PROVE  Append(q, w) \in T
    <2>1. ToSet(Append(q, w)) = ToSet(q) \union {w} /\ Append(q, w) \in Seq(S)
      BY ElementsOf
    <2>2. ASSUME W \cap ToSet(Append(q, w)) = V \cap ToSet(Append(q, w))
          PROVE  Without(Append(q, w), W) = Without(Append(q, w), V)
      <3>1. W \cap ToSet(q) = V \cap ToSet(q) /\ (w \in W <=> w \in V)
        BY <2>1, <2>2
      <3>2. Without(q, W) = Without(q, V)
        BY <1>2, <3>1
      <3>3. /\ Without(Append(q, w), W) = IF w \in W THEN Without(q, W) ELSE Append(Without(q, W), w)
            /\ Without(Append(q, w), V) = IF w \in V THEN Without(q, V) ELSE Append(Without(q, V), w)
        BY WithoutLast
      <3> QED BY <3>1, <3>2, <3>3
    <2> QED BY <2>1, <2>2
  <1> HIDE DEF T
  <1>3. Seq(S) \subseteq T
    BY <1>1, <1>2, SeqInd
  <1> QED BY <1>3 DEF T

(* One after the other or both at once.                                    *)
LEMMA WithoutTwice ==
    ASSUME NEW S, NEW s \in Seq(S), NEW W, NEW V
    PROVE  Without(Without(s, W), V) = Without(s, W \union V)
  <1> DEFINE T == {q \in Seq(S) : Without(Without(q, W), V) = Without(q, W \union V)}
  <1>1. << >> \in T
    BY WithoutNone
  <1>2. ASSUME NEW q \in Seq(S), NEW w \in S, q \in T
        PROVE  Append(q, w) \in T
    <2> DEFINE r == Without(q, W)
    <2>1. Without(Append(q, w), W) = (IF w \in W THEN r ELSE Append(r, w))
          /\ r \in Seq(S)
      BY WithoutLast, WithoutLeaves
    <2>2. Without(Append(q, w), W \union V) =
            IF w \in W \union V THEN Without(q, W \union V) ELSE Append(Without(q, W \union V), w)
      BY WithoutLast
    <2>3. Without(r, V) = Without(q, W \union V) /\ Append(q, w) \in Seq(S)
      BY <1>2
    <2> HIDE DEF r
    <2>4. Without(Append(r, w), V) = IF w \in V THEN Without(r, V) ELSE Append(Without(r, V), w)
      BY <2>1, WithoutLast
    <2>5. Without(Without(Append(q, w), W), V) = Without(Append(q, w), W \union V)
      <3>1. CASE w \in W
        BY <2>1, <2>2, <2>3, <3>1
      <3>2. CASE w \notin W
        BY <2>1, <2>2, <2>3, <2>4, <3>2
      <3> QED BY <3>1, <3>2
    <2> QED BY <2>3, <2>5
  <1> HIDE DEF T
  <1>3. Seq(S) \subseteq T
    BY <1>1, <1>2, SeqInd
  <1> QED BY <1>3 DEF T

(* A sequence that has each element once keeps that.                       *)
LEMMA WithoutInjective ==
    ASSUME NEW S, NEW s \in Seq(S), NEW W, IsInjective(s)
    PROVE  IsInjective(Without(s, W))
  <1> DEFINE T == {q \in Seq(S) : IsInjective(q) => IsInjective(Without(q, W))}
  <1>1. << >> \in T
    BY WithoutNone
  <1>2. ASSUME NEW q \in Seq(S), NEW w \in S, q \in T
        PROVE  Append(q, w) \in T
    <2>1. ASSUME IsInjective(Append(q, w))
          PROVE  IsInjective(Without(Append(q, w), W))
      <3>1. IsInjective(q) /\ w \notin ToSet(q)
        BY <2>1, AppendOnce
      <3>2. IsInjective(Without(q, W)) /\ Without(q, W) \in Seq(S)
            /\ w \notin ToSet(Without(q, W))
        BY <1>2, <3>1, WithoutLeaves
      <3>3. IsInjective(Append(Without(q, W), w))
        BY <3>2, AppendOnce
      <3>4. Without(Append(q, w), W) = IF w \in W THEN Without(q, W) ELSE Append(Without(q, W), w)
        BY WithoutLast
      <3> QED BY <3>2, <3>3, <3>4
    <2> QED BY <2>1
  <1> HIDE DEF T
  <1>3. Seq(S) \subseteq T
    BY <1>1, <1>2, SeqInd
  <1> QED BY <1>3 DEF T

(* Of finitely many numbers there is a greatest one.                       *)
LEMMA BoundOf ==
    ASSUME NEW q \in Seq(Nat)
    PROVE  \E b \in Nat : \A x \in ToSet(q) : x <= b
  <1> DEFINE T == {r \in Seq(Nat) : \E b \in Nat : \A x \in ToSet(r) : x <= b}
  <1>1. << >> \in T
    <2>1. ToSet(<< >>) = {} /\ << >> \in Seq(Nat) /\ 0 \in Nat
      BY ElementsOf
    <2> QED BY <2>1
  <1>2. ASSUME NEW r \in Seq(Nat), NEW w \in Nat, r \in T
        PROVE  Append(r, w) \in T
    <2>1. PICK b \in Nat : \A x \in ToSet(r) : x <= b
      BY <1>2
    <2>2. Append(r, w) \in Seq(Nat) /\ ToSet(Append(r, w)) = ToSet(r) \union {w}
          /\ ToSet(r) \subseteq Nat
      BY ElementsOf
    <2>3. PICK c \in Nat : b <= c /\ w <= c
      <3>1. b + w \in Nat /\ b <= b + w /\ w <= b + w
        OBVIOUS
      <3> QED BY <3>1
    <2>4. \A x \in ToSet(Append(r, w)) : x <= c
      BY <2>1, <2>2, <2>3
    <2> QED BY <2>2, <2>4
  <1> HIDE DEF T
  <1>3. Seq(Nat) \subseteq T
    BY <1>1, <1>2, SeqInd
  <1> QED BY <1>3 DEF T

(* The greatest of some of the numbers in a sequence,                      *)
LEMMA GreatestOf ==
    ASSUME NEW q \in Seq(Nat), NEW S, S \subseteq ToSet(q), S # {}
    PROVE  Max(S) \in S /\ \A x \in S : x <= Max(S)
  <1>1. S \subseteq Nat
    BY ElementsOf
  <1> DEFINE B == {b \in Nat : \A x \in S : x <= b}
  <1>2. B # {} /\ B \in SUBSET Nat
    BY BoundOf
  <1>3. PICK m \in B : \A b \in B : m <= b
    BY <1>2, LeastOf
  <1>4. m \in Nat /\ \A x \in S : x <= m
    BY <1>3
  <1>5. m \in S
    <2> SUFFICES ASSUME m \notin S PROVE FALSE
      OBVIOUS
    <2>1. \A x \in S : x < m
      BY <1>1, <1>4
    <2>2. m - 1 \in Nat /\ \A x \in S : x <= m - 1
      <3>1. PICK x \in S : TRUE
        OBVIOUS
      <3>2. x \in Nat /\ x < m
        BY <1>1, <2>1
      <3>3. m - 1 \in Nat
        BY <1>4, <3>2
      <3>4. ASSUME NEW y \in S
            PROVE  y <= m - 1
        <4>1. y \in Nat /\ y < m
          BY <1>1, <2>1
        <4> QED BY <1>4, <4>1
      <3> QED BY <3>3, <3>4
    <2>3. m - 1 \in B
      BY <2>2
    <2> QED BY <1>3, <1>4, <2>3
  <1>6. \E x \in S : \A y \in S : x >= y
    BY <1>1, <1>4, <1>5
  <1>7. Max(S) \in S /\ \A y \in S : Max(S) >= y
    BY <1>6 DEF Max
  <1> QED BY <1>1, <1>7

(* and of a finite set of numbers.                                         *)
LEMMA GreatestFinite ==
    ASSUME NEW S \in SUBSET Nat, S # {}, IsFiniteSet(S)
    PROVE  Max(S) \in S /\ \A x \in S : x <= Max(S)
  <1>1. PICK q \in Seq(S) : \A s \in S : \E n \in 1 .. Len(q) : q[n] = s
    BY DEF IsFiniteSet
  <1>2. q \in Seq(Nat) /\ S \subseteq ToSet(q)
    <2>1. q \in Seq(Nat) /\ DOMAIN q = 1 .. Len(q)
      <3>1. Len(q) \in Nat /\ DOMAIN q = 1 .. Len(q) /\ q = [i \in 1 .. Len(q) |-> q[i]]
        OBVIOUS
      <3>2. \A i \in 1 .. Len(q) : q[i] \in Nat
        <4>1. \A i \in 1 .. Len(q) : q[i] \in S
          OBVIOUS
        <4>2. \A x \in S : x \in Nat
          OBVIOUS
        <4> QED BY <4>1, <4>2
      <3> QED BY <3>1, <3>2
    <2>2. \A s \in S : s \in ToSet(q)
      BY <1>1, <2>1 DEF ToSet
    <2> QED BY <2>1, <2>2
  <1> QED BY <1>2, GreatestOf
=============================================================================
