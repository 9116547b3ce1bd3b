--------------------------- MODULE MarshallerProofs ---------------------------
(***************************************************************************)
(* Theorems about Marshaller, for any data lengths, any buffer that holds    *)
(* the longest packet, and any number of packets.                           *)
(***************************************************************************)
EXTENDS Marshaller, QueueFacts

-----------------------------------------------------------------------------
(* Cutting a sequence of bytes in two, and putting it together again.        *)
LEMMA CutInTwo ==
    ASSUME NEW T, NEW q \in Seq(T), NEW n \in 0 .. Len(q)
    PROVE  /\ Prefix(q, n) \in Seq(T)
           /\ Len(Prefix(q, n)) = n
           /\ \A k \in 1 .. n : Prefix(q, n)[k] = q[k]
           /\ After(q, n) \in Seq(T)
           /\ Len(After(q, n)) = Len(q) - n
           /\ \A k \in 1 .. Len(q) - n : After(q, n)[k] = q[n + k]
           /\ Len(q) \in Nat
  BY DEF Prefix, After

LEMMA SameSequence ==
    ASSUME NEW T, NEW p \in Seq(T), NEW q \in Seq(T), Len(p) = Len(q),
           \A i \in 1 .. Len(q) : p[i] = q[i]
    PROVE  p = q
  OBVIOUS

(* Read moves bytes from one to the other.                                  *)
LEMMA Regroup ==
    ASSUME NEW T, NEW a \in Seq(T), NEW b \in Seq(T), NEW n \in 0 .. Len(b)
    PROVE  (a \o Prefix(b, n)) \o After(b, n) = a \o b
  <1> DEFINE p == Prefix(b, n)
             r == After(b, n)
             ap == a \o p
             l == ap \o r
             ab == a \o b
             m == Len(a)
             o == Len(b) - n
  <1>1. /\ p \in Seq(T) /\ Len(p) = n /\ \A k \in 1 .. n : p[k] = b[k]
        /\ r \in Seq(T) /\ Len(r) = o /\ \A k \in 1 .. o : r[k] = b[n + k]
        /\ Len(b) \in Nat
    BY CutInTwo
  <1>2. m \in Nat /\ n \in Nat /\ o \in Nat /\ Len(b) = n + o
    BY <1>1
  <1> HIDE DEF p, r, o
  <1>3. /\ ap \in Seq(T) /\ Len(ap) = m + n
        /\ \A j \in 1 .. m : ap[j] = a[j]
        /\ \A j \in 1 .. n : ap[m + j] = p[j]
    <2>1. /\ a \o p \in Seq(T)
          /\ Len(a \o p) = Len(a) + Len(p)
          /\ \A j \in 1 .. Len(a) : (a \o p)[j] = a[j]
          /\ \A j \in 1 .. Len(p) : (a \o p)[Len(a) + j] = p[j]
      <3>1. a \in Seq(T) /\ p \in Seq(T)
        BY <1>1
      <3> QED BY <3>1, Concatenated
    <2> QED BY <1>1, <2>1
  <1>4. /\ ab \in Seq(T) /\ Len(ab) = m + Len(b)
        /\ \A j \in 1 .. m : ab[j] = a[j]
        /\ \A j \in 1 .. Len(b) : ab[m + j] = b[j]
    BY Concatenated
  <1> HIDE DEF ap, ab
  <1>5. /\ l \in Seq(T) /\ Len(l) = (m + n) + o
        /\ \A j \in 1 .. m + n : l[j] = ap[j]
        /\ \A j \in 1 .. o : l[(m + n) + j] = r[j]
    <2>1. /\ ap \o r \in Seq(T)
          /\ Len(ap \o r) = Len(ap) + Len(r)
          /\ \A j \in 1 .. Len(ap) : (ap \o r)[j] = ap[j]
          /\ \A j \in 1 .. Len(r) : (ap \o r)[Len(ap) + j] = r[j]
      <3>1. ap \in Seq(T) /\ r \in Seq(T)
        BY <1>1, <1>3
      <3> QED BY <3>1, Concatenated
    <2> QED BY <1>1, <1>3, <2>1
  <1> HIDE DEF l, m
  <1>6. ASSUME NEW i \in 1 .. Len(ab) PROVE l[i] = ab[i]
    <2>1. CASE i \in 1 .. m
      BY <1>2, <1>3, <1>4, <1>5, <2>1
    <2>2. CASE i > m /\ i <= m + n
      <3>1. i - m \in 1 .. n /\ i = m + (i - m)
        BY <1>2, <1>4, <2>2
      <3>2. PICK j \in 1 .. n : i = m + j
        BY <3>1
      <3>3. l[i] = b[j] /\ j \in 1 .. Len(b)
        BY <1>1, <1>2, <1>3, <1>5, <3>2
      <3> QED BY <1>4, <3>2, <3>3
    <2>3. CASE i > m + n
      <3>1. i - (m + n) \in 1 .. o /\ i = (m + n) + (i - (m + n))
        BY <1>2, <1>4, <2>3
      <3>2. PICK j \in 1 .. o : i = (m + n) + j
        BY <3>1
      <3>3. l[i] = b[n + j]
        BY <1>1, <1>5, <3>2
      <3>4. n + j \in 1 .. Len(b) /\ i = m + (n + j)
        BY <1>2, <3>2
      <3> QED BY <1>4, <3>3, <3>4
    <2> QED BY <1>2, <1>4, <2>1, <2>2, <2>3
  <1>7. Len(l) = Len(ab)
    BY <1>2, <1>4, <1>5
  <1>8. l = ab
    BY <1>4, <1>5, <1>6, <1>7, SameSequence
  <1> QED BY <1>8 DEF l, ab, ap, p, r

(* CutPacket takes bytes from the start.                                    *)
LEMMA AfterBoth ==
    ASSUME NEW T, NEW a \in Seq(T), NEW b \in Seq(T), NEW n \in 0 .. Len(a)
    PROVE  After(a, n) \o b = After(a \o b, n)
  <1> DEFINE r == After(a, n)
             l == r \o b
             ab == a \o b
             k == After(ab, n)
             m == Len(b)
             o == Len(a) - n
  <1>1. /\ r \in Seq(T) /\ Len(r) = o /\ \A i \in 1 .. o : r[i] = a[n + i]
        /\ Len(a) \in Nat
    BY CutInTwo
  <1>2. m \in Nat /\ n \in Nat /\ o \in Nat /\ Len(a) = n + o
    BY <1>1
  <1> HIDE DEF r, o
  <1>3. /\ l \in Seq(T) /\ Len(l) = o + m
        /\ \A j \in 1 .. o : l[j] = r[j]
        /\ \A j \in 1 .. m : l[o + j] = b[j]
    <2>1. /\ r \o b \in Seq(T)
          /\ Len(r \o b) = Len(r) + Len(b)
          /\ \A j \in 1 .. Len(r) : (r \o b)[j] = r[j]
          /\ \A j \in 1 .. Len(b) : (r \o b)[Len(r) + j] = b[j]
      <3>1. r \in Seq(T) /\ b \in Seq(T)
        BY <1>1
      <3> QED BY <3>1, Concatenated
    <2> QED BY <1>1, <2>1
  <1>4. /\ ab \in Seq(T) /\ Len(ab) = Len(a) + m
        /\ \A j \in 1 .. Len(a) : ab[j] = a[j]
        /\ \A j \in 1 .. m : ab[Len(a) + j] = b[j]
    BY Concatenated
  <1> HIDE DEF l, ab, m
  <1>5. /\ k \in Seq(T) /\ Len(k) = o + m
        /\ \A i \in 1 .. o + m : k[i] = ab[n + i]
    <2>1. n \in 0 .. Len(ab) /\ Len(ab) - n = o + m
      BY <1>2, <1>4
    <2> QED BY <1>4, <2>1, CutInTwo
  <1> HIDE DEF k
  <1>6. ASSUME NEW i \in 1 .. Len(k) PROVE l[i] = k[i]
    <2>1. CASE i \in 1 .. o
      <3>1. n + i \in 1 .. Len(a)
        BY <1>2, <2>1
      <3> QED BY <1>1, <1>3, <1>4, <1>5, <2>1, <3>1
    <2>2. CASE i > o
      <3>1. i - o \in 1 .. m /\ i = o + (i - o)
        BY <1>2, <1>5, <2>2
      <3>2. PICK j \in 1 .. m : i = o + j
        BY <3>1
      <3>3. n + i = Len(a) + j
        BY <1>2, <3>2
      <3> QED BY <1>3, <1>4, <1>5, <3>2, <3>3
    <2> QED BY <1>2, <1>5, <2>1, <2>2
  <1>7. l = k
    BY <1>3, <1>5, <1>6, SameSequence
  <1> QED BY <1>7 DEF l, k, ab, r

LEMMA Associative ==
    ASSUME NEW T, NEW a \in Seq(T), NEW b \in Seq(T), NEW c \in Seq(T)
    PROVE  a \o (b \o c) = (a \o b) \o c
  OBVIOUS

-----------------------------------------------------------------------------
(* Byte k of packet p, and how long packet p is if l are the lengths sent;   *)
(* the mark counts as packet 0.                                             *)
ByteOf(p, k) == [packet |-> p, at |-> k]

Size(p, l) == IF p = 0 THEN MarkSize ELSE HeaderSize + l[p]

(* Wherever a packet starts in the stream s, its bytes follow, as many as    *)
(* there are, and behind them the next packet starts.                       *)
Framed(s, l) ==
    \A i \in 1 .. Len(s) :
        /\ s[i].packet \in 0 .. Len(l)
        /\ s[i].at = 1 =>
              /\ \A k \in 1 .. Size(s[i].packet, l) :
                    i + k - 1 <= Len(s) => s[i + k - 1] = ByteOf(s[i].packet, k)
              /\ i + Size(s[i].packet, l) <= Len(s) =>
                    s[i + Size(s[i].packet, l)] = ByteOf(s[i].packet + 1, 1)

(* Every packet in s is whole, and the last one is the one before q.         *)
EndsBefore(s, l, q) ==
    \A i \in 1 .. Len(s) : s[i].at = 1 =>
        /\ i + Size(s[i].packet, l) <= Len(s) + 1
        /\ i + Size(s[i].packet, l) = Len(s) + 1 => s[i].packet + 1 = q

LEMMA SizeTyped ==
    ASSUME NEW l \in Seq(Nat)
    PROVE  \A p \in 0 .. Len(l) : Size(p, l) \in Nat \ {0}
  <1> SUFFICES ASSUME NEW p \in 0 .. Len(l) PROVE Size(p, l) \in Nat \ {0}
    OBVIOUS
  <1>1. p # 0 => l[p] \in Nat
    OBVIOUS
  <1>2. MarkSize \in Nat \ {0} /\ HeaderSize \in Nat \ {0}
    BY SizesAssumption
  <1> QED BY <1>1, <1>2 DEF Size

(* A Write appends the next packet, or a first part of it.                   *)
LEMMA Extend ==
    ASSUME NEW s \in Seq(Byte), NEW l \in Seq(Nat), NEW q \in 0 .. Len(l),
           Framed(s, l), EndsBefore(s, l, q),
           NEW t \in Seq(Byte), Len(t) <= Size(q, l),
           \A k \in 1 .. Len(t) : t[k] = ByteOf(q, k)
    PROVE  /\ Framed(s \o t, l)
           /\ Len(t) = Size(q, l) => EndsBefore(s \o t, l, q + 1)
  <1> DEFINE st == s \o t
             n == Len(s)
             w == Len(t)
  <1>1. /\ st \in Seq(Byte)
        /\ n \in Nat /\ w \in Nat
        /\ Len(st) = n + w
        /\ \A j \in 1 .. n : st[j] = s[j]
        /\ \A j \in 1 .. w : st[n + j] = t[j]
    BY Concatenated
  <1>2. /\ \A p \in 0 .. Len(l) : Size(p, l) \in Nat \ {0}
        /\ Len(l) \in Nat
    BY SizeTyped
  <1>3. /\ q \in Nat /\ ByteOf(q, 1).at = 1 /\ \A k : ByteOf(q, k).packet = q /\ ByteOf(q, k).at = k
    BY DEF ByteOf
  <1> HIDE DEF st, w
  <1>4. \A j \in 1 .. w : st[n + j] = ByteOf(q, j)
    BY <1>1 DEF w
  <1>5. Size(q, l) \in Nat \ {0} /\ w <= Size(q, l)
    BY <1>2 DEF w
  <1>6. ASSUME NEW i \in 1 .. Len(st)
        PROVE  \/ i \in 1 .. n
               \/ \E j \in 1 .. w : i = n + j
    <2>1. CASE i > n
      <3>1. i - n \in 1 .. w /\ i = n + (i - n)
        BY <1>1, <2>1
      <3> QED BY <3>1
    <2> QED BY <1>1, <2>1
  <1>7. ASSUME NEW i \in 1 .. n
        PROVE  /\ s[i].packet \in 0 .. Len(l)
               /\ s[i].at = 1 =>
                     /\ i + Size(s[i].packet, l) <= n + 1
                     /\ i + Size(s[i].packet, l) = n + 1 => s[i].packet + 1 = q
                     /\ \A k \in 1 .. Size(s[i].packet, l) : s[i + k - 1] = ByteOf(s[i].packet, k)
                     /\ i + Size(s[i].packet, l) <= n =>
                           s[i + Size(s[i].packet, l)] = ByteOf(s[i].packet + 1, 1)
    <2>1. s[i].packet \in 0 .. Len(l)
      BY DEF Framed
    <2>2. Size(s[i].packet, l) \in Nat \ {0}
      BY <1>2, <2>1
    <2>3. ASSUME s[i].at = 1
          PROVE  /\ i + Size(s[i].packet, l) <= n + 1
                 /\ i + Size(s[i].packet, l) = n + 1 => s[i].packet + 1 = q
      BY <2>3 DEF EndsBefore
    <2>4. ASSUME s[i].at = 1, NEW k \in 1 .. Size(s[i].packet, l)
          PROVE  s[i + k - 1] = ByteOf(s[i].packet, k)
      <3>1. i + k - 1 <= n
        BY <1>1, <2>2, <2>3, <2>4
      <3> QED BY <2>4, <3>1 DEF Framed
    <2>5. ASSUME s[i].at = 1, i + Size(s[i].packet, l) <= n
          PROVE  s[i + Size(s[i].packet, l)] = ByteOf(s[i].packet + 1, 1)
      BY <2>5 DEF Framed
    <2> QED BY <2>1, <2>3, <2>4, <2>5
  <1>8. Framed(st, l)
    <2> SUFFICES ASSUME NEW i \in 1 .. Len(st)
                 PROVE  /\ st[i].packet \in 0 .. Len(l)
                        /\ st[i].at = 1 =>
                           /\ \A k \in 1 .. Size(st[i].packet, l) :
                                 i + k - 1 <= Len(st) => st[i + k - 1] = ByteOf(st[i].packet, k)
                           /\ i + Size(st[i].packet, l) <= Len(st) =>
                                 st[i + Size(st[i].packet, l)] = ByteOf(st[i].packet + 1, 1)
      BY DEF Framed
    <2>1. CASE i \in 1 .. n
      <3>1. st[i] = s[i] /\ s[i].packet \in 0 .. Len(l)
        BY <1>1, <1>7, <2>1
      <3> DEFINE z == Size(s[i].packet, l)
      <3>2. z \in Nat \ {0}
        BY <1>2, <3>1
      <3>3. s[i].at = 1 =>
               /\ i + z <= n + 1
               /\ i + z = n + 1 => s[i].packet + 1 = q
               /\ \A k \in 1 .. z : s[i + k - 1] = ByteOf(s[i].packet, k)
               /\ i + z <= n => s[i + z] = ByteOf(s[i].packet + 1, 1)
        BY <1>7, <2>1
      <3> HIDE DEF z
      <3>4. ASSUME s[i].at = 1, NEW k \in 1 .. z
            PROVE  st[i + k - 1] = ByteOf(s[i].packet, k)
        <4>0. i + z <= n + 1
          BY <3>3, <3>4
        <4>1. i + k - 1 \in 1 .. n
          <5>1. n \in Nat /\ i \in 1 .. n
            BY <1>1, <2>1
          <5> HIDE DEF n
          <5> QED BY <3>2, <4>0, <5>1
        <4> QED BY <1>1, <3>3, <3>4, <4>1
      <3>5. ASSUME s[i].at = 1, i + z <= Len(st)
            PROVE  st[i + z] = ByteOf(s[i].packet + 1, 1)
        <4>1. CASE i + z <= n
          <5>1. i + z \in 1 .. n
            BY <1>1, <2>1, <3>2, <4>1
          <5> QED BY <1>1, <3>3, <3>5, <4>1, <5>1
        <4>2. CASE i + z = n + 1
          <5>1. 1 \in 1 .. w
            BY <1>1, <3>5, <4>2
          <5>2. st[n + 1] = ByteOf(q, 1) /\ s[i].packet + 1 = q
            BY <1>4, <3>3, <3>5, <4>2, <5>1
          <5> QED BY <4>2, <5>2
        <4>0. i + z <= n + 1
          BY <3>3, <3>5
        <4>3. i + z <= n \/ i + z = n + 1
          <5>1. n \in Nat /\ i \in 1 .. n
            BY <1>1, <2>1
          <5> HIDE DEF n
          <5> QED BY <3>2, <4>0, <5>1
        <4> QED BY <4>1, <4>2, <4>3
      <3> QED BY <3>1, <3>4, <3>5 DEF z
    <2>2. ASSUME NEW j \in 1 .. w, i = n + j
          PROVE  /\ st[i].packet \in 0 .. Len(l)
                 /\ st[i].at = 1 =>
                    /\ \A k \in 1 .. Size(st[i].packet, l) :
                          i + k - 1 <= Len(st) => st[i + k - 1] = ByteOf(st[i].packet, k)
                    /\ i + Size(st[i].packet, l) <= Len(st) =>
                          st[i + Size(st[i].packet, l)] = ByteOf(st[i].packet + 1, 1)
      <3>1. st[i] = ByteOf(q, j)
        BY <1>4, <2>2
      <3>2. st[i].packet = q /\ st[i].at = j
        BY <1>3, <3>1
      <3> DEFINE z == Size(q, l)
      <3>3. z \in Nat \ {0} /\ w <= z
        BY <1>5
      <3> HIDE DEF z
      <3>4. ASSUME j = 1, NEW k \in 1 .. z, i + k - 1 <= Len(st)
            PROVE  st[i + k - 1] = ByteOf(q, k)
        <4>1. k \in 1 .. w /\ i + k - 1 = n + k
          BY <1>1, <2>2, <3>3, <3>4
        <4> QED BY <1>4, <4>1
      <3>5. j = 1 => ~(i + z <= Len(st))
        BY <1>1, <2>2, <3>3
      <3>6. /\ q \in 0 .. Len(l)
            /\ j = 1 => /\ \A k \in 1 .. z : i + k - 1 <= Len(st) => st[i + k - 1] = ByteOf(q, k)
                        /\ i + z <= Len(st) => st[i + z] = ByteOf(q + 1, 1)
        BY <3>4, <3>5
      <3> QED BY <3>2, <3>6 DEF z
    <2> QED BY <1>6, <2>1, <2>2
  <1>9. ASSUME w = Size(q, l) PROVE EndsBefore(st, l, q + 1)
    <2> SUFFICES ASSUME NEW i \in 1 .. Len(st), st[i].at = 1
                 PROVE  /\ i + Size(st[i].packet, l) <= Len(st) + 1
                        /\ i + Size(st[i].packet, l) = Len(st) + 1 => st[i].packet + 1 = q + 1
      BY DEF EndsBefore
    <2>1. CASE i \in 1 .. n
      <3>1. st[i] = s[i] /\ s[i].packet \in 0 .. Len(l)
        BY <1>1, <1>7, <2>1
      <3>2. Size(s[i].packet, l) \in Nat
        BY <1>2, <3>1
      <3>3. i + Size(s[i].packet, l) <= n + 1
        BY <1>7, <2>1, <3>1
      <3>4. w > 0
        BY <1>2, <1>9
      <3> QED BY <1>1, <3>1, <3>2, <3>3, <3>4
    <2>2. ASSUME NEW j \in 1 .. w, i = n + j
          PROVE  /\ i + Size(st[i].packet, l) <= Len(st) + 1
                 /\ i + Size(st[i].packet, l) = Len(st) + 1 => st[i].packet + 1 = q + 1
      <3>1. st[i].packet = q /\ j = 1
        BY <1>3, <1>4, <2>2
      <3> QED BY <1>1, <1>9, <2>2, <3>1
    <2> QED BY <1>6, <2>1, <2>2
  <1> QED BY <1>8, <1>9 DEF st, w

(* What is left of a stream, and what came of it.                           *)
LEMMA Suffix ==
    ASSUME NEW s \in Seq(Byte), NEW l \in Seq(Nat), Framed(s, l), NEW n \in 0 .. Len(s)
    PROVE  /\ Framed(After(s, n), l)
           /\ \A q : EndsBefore(s, l, q) => EndsBefore(After(s, n), l, q)
  <1> DEFINE r == After(s, n)
             m == Len(s)
  <1>1. /\ r \in Seq(Byte) /\ m \in Nat /\ n \in Nat /\ n <= m
        /\ Len(r) = m - n
        /\ \A k \in 1 .. m - n : r[k] = s[n + k]
    BY CutInTwo
  <1>2. \A p \in 0 .. Len(l) : Size(p, l) \in Nat \ {0}
    BY SizeTyped
  <1> HIDE DEF r, m
  <1>3. ASSUME NEW i \in 1 .. Len(r)
        PROVE  /\ n + i \in 1 .. m /\ r[i] = s[n + i]
               /\ s[n + i].packet \in 0 .. Len(l)
               /\ Size(s[n + i].packet, l) \in Nat \ {0}
    <2>1. n + i \in 1 .. m /\ r[i] = s[n + i]
      BY <1>1
    <2>2. s[n + i].packet \in 0 .. Len(l)
      BY <2>1 DEF Framed, m
    <2> QED BY <1>2, <2>1, <2>2
  <1>4. Framed(r, l)
    <2> SUFFICES ASSUME NEW i \in 1 .. Len(r)
                 PROVE  /\ r[i].packet \in 0 .. Len(l)
                        /\ r[i].at = 1 =>
                           /\ \A k \in 1 .. Size(r[i].packet, l) :
                                 i + k - 1 <= Len(r) => r[i + k - 1] = ByteOf(r[i].packet, k)
                           /\ i + Size(r[i].packet, l) <= Len(r) =>
                                 r[i + Size(r[i].packet, l)] = ByteOf(r[i].packet + 1, 1)
      BY DEF Framed
    <2> DEFINE z == Size(s[n + i].packet, l)
               p == s[n + i].packet
    <2>1. n + i \in 1 .. m /\ r[i] = s[n + i] /\ p \in 0 .. Len(l) /\ z \in Nat \ {0}
      BY <1>3
    <2>2. s[n + i].at = 1 =>
             /\ \A k \in 1 .. z : n + i + k - 1 <= m => s[n + i + k - 1] = ByteOf(p, k)
             /\ n + i + z <= m => s[n + i + z] = ByteOf(p + 1, 1)
      BY <2>1 DEF Framed, m
    <2> HIDE DEF z, p
    <2>3. ASSUME s[n + i].at = 1, NEW k \in 1 .. z, i + k - 1 <= Len(r)
          PROVE  r[i + k - 1] = ByteOf(p, k)
      <3>1. i + k - 1 \in 1 .. m - n /\ n + (i + k - 1) = n + i + k - 1 /\ n + i + k - 1 <= m
        BY <1>1, <2>1, <2>3
      <3>2. r[i + k - 1] = s[n + i + k - 1]
        BY <1>1, <3>1
      <3> QED BY <2>2, <2>3, <3>1, <3>2
    <2>4. ASSUME s[n + i].at = 1, i + z <= Len(r)
          PROVE  r[i + z] = ByteOf(p + 1, 1)
      <3>1. i + z \in 1 .. m - n /\ n + (i + z) = n + i + z /\ n + i + z <= m
        BY <1>1, <2>1, <2>4
      <3>2. r[i + z] = s[n + i + z]
        BY <1>1, <3>1
      <3> QED BY <2>2, <2>4, <3>1, <3>2
    <2> QED BY <2>1, <2>3, <2>4 DEF z, p
  <1>5. ASSUME NEW q, EndsBefore(s, l, q) PROVE EndsBefore(r, l, q)
    <2> SUFFICES ASSUME NEW i \in 1 .. Len(r), r[i].at = 1
                 PROVE  /\ i + Size(r[i].packet, l) <= Len(r) + 1
                        /\ i + Size(r[i].packet, l) = Len(r) + 1 => r[i].packet + 1 = q
      BY DEF EndsBefore
    <2> DEFINE z == Size(s[n + i].packet, l)
    <2>1. n + i \in 1 .. m /\ r[i] = s[n + i] /\ z \in Nat \ {0}
      BY <1>3
    <2>2. /\ (n + i) + z <= m + 1
          /\ (n + i) + z = m + 1 => s[n + i].packet + 1 = q
      BY <1>5, <2>1 DEF EndsBefore, m
    <2> HIDE DEF z
    <2>3. /\ i + z <= Len(r) + 1
          /\ i + z = Len(r) + 1 => (n + i) + z = m + 1
      <3>1. /\ (n + i) + z <= m + 1
            /\ i \in 1 .. Len(r)
        BY <2>2
      <3>2. /\ m \in Nat /\ n \in Nat /\ Len(r) = m - n
            /\ z \in Nat
        BY <1>1, <2>1
      <3> QED BY <3>1, <3>2
    <2> QED BY <2>1, <2>2, <2>3 DEF z
  <1> QED BY <1>4, <1>5 DEF r

LEMMA FirstPart ==
    ASSUME NEW s \in Seq(Byte), NEW t \in Seq(Byte), NEW l \in Seq(Nat), Framed(s \o t, l)
    PROVE  Framed(s, l)
  <1> DEFINE st == s \o t
             n == Len(s)
  <1>1. /\ n \in Nat /\ Len(t) \in Nat /\ Len(st) = n + Len(t)
        /\ \A j \in 1 .. n : st[j] = s[j]
    BY Concatenated
  <1>2. \A p \in 0 .. Len(l) : Size(p, l) \in Nat \ {0}
    BY SizeTyped
  <1> HIDE DEF st, n
  <1> SUFFICES ASSUME NEW i \in 1 .. n
               PROVE  /\ s[i].packet \in 0 .. Len(l)
                      /\ s[i].at = 1 =>
                         /\ \A k \in 1 .. Size(s[i].packet, l) :
                               i + k - 1 <= n => s[i + k - 1] = ByteOf(s[i].packet, k)
                         /\ i + Size(s[i].packet, l) <= n =>
                               s[i + Size(s[i].packet, l)] = ByteOf(s[i].packet + 1, 1)
    BY DEF Framed, n
  <1> DEFINE p == s[i].packet
             z == Size(p, l)
  <1>3. i \in 1 .. Len(st) /\ st[i] = s[i]
    BY <1>1
  <1>4. /\ p \in 0 .. Len(l)
        /\ s[i].at = 1 =>
              /\ \A k \in 1 .. z : i + k - 1 <= Len(st) => st[i + k - 1] = ByteOf(p, k)
              /\ i + z <= Len(st) => st[i + z] = ByteOf(p + 1, 1)
    BY <1>3 DEF Framed, st
  <1>5. z \in Nat \ {0}
    BY <1>2, <1>4
  <1> HIDE DEF z, p
  <1>6. ASSUME s[i].at = 1, NEW k \in 1 .. z, i + k - 1 <= n
        PROVE  s[i + k - 1] = ByteOf(p, k)
    <2>1. i + k - 1 \in 1 .. n /\ i + k - 1 <= Len(st)
      BY <1>1, <1>5, <1>6
    <2> QED BY <1>1, <1>4, <1>6, <2>1
  <1>7. ASSUME s[i].at = 1, i + z <= n
        PROVE  s[i + z] = ByteOf(p + 1, 1)
    <2>1. i + z \in 1 .. n /\ i + z <= Len(st)
      BY <1>1, <1>5, <1>7
    <2> QED BY <1>1, <1>4, <1>7, <2>1
  <1> QED BY <1>4, <1>6, <1>7 DEF z, p

(* Packets that are sent later do not change the sizes of the earlier ones.  *)
LEMMA MoreSent ==
    ASSUME NEW s \in Seq(Byte), NEW l \in Seq(Nat), NEW n \in Nat, Framed(s, l)
    PROVE  /\ Framed(s, Append(l, n))
           /\ \A q : EndsBefore(s, l, q) => EndsBefore(s, Append(l, n), q)
  <1> DEFINE ln == Append(l, n)
  <1>1. Len(l) \in Nat /\ Len(ln) = Len(l) + 1 /\ \A p \in 1 .. Len(l) : ln[p] = l[p]
    BY Appended
  <1> HIDE DEF ln
  <1>2. \A p \in 0 .. Len(l) : Size(p, ln) = Size(p, l) /\ p \in 0 .. Len(ln)
    BY <1>1 DEF Size
  <1>3. \A i \in 1 .. Len(s) : s[i].packet \in 0 .. Len(l)
    BY DEF Framed
  <1>4. \A i \in 1 .. Len(s) : /\ s[i].packet \in 0 .. Len(ln)
                               /\ Size(s[i].packet, ln) = Size(s[i].packet, l)
    BY <1>2, <1>3
  <1>5. Framed(s, ln)
    BY <1>4 DEF Framed
  <1>6. \A q : EndsBefore(s, l, q) => EndsBefore(s, ln, q)
    BY <1>4 DEF EndsBefore
  <1> QED BY <1>5, <1>6 DEF ln

-----------------------------------------------------------------------------
(* The invariant.  What has left the sender and is not cut yet is one stream  *)
(* of bytes: it starts where Receive expects it to, and ends where the next  *)
(* Send goes on.                                                           *)
Stream == buffer \o wire

Expected == IF reader = "mark" THEN 0 ELSE Len(delivered) + Len(received) + 1

NextOut == IF loginSent THEN Len(sent) + 1 ELSE 0

Reading == reader \in {"mark", "loop", "cut"}

Streaming ==
    Reading =>
        /\ Framed(Stream, sent)
        /\ Stream # << >> => Stream[1] = ByteOf(Expected, 1)
        /\ link = "up" => /\ EndsBefore(Stream, sent, NextOut)
                          /\ Stream = << >> => Expected = NextOut

Login ==
    /\ ~loginSent => sent = << >> /\ wire = << >> /\ reader \notin {"loop", "cut"}
    /\ reader = "mark" => buffer = << >> /\ received = << >> /\ delivered = << >>
    /\ reader = "loop" => received = << >>
    /\ Len(sent) <= MaxPackets

Intact ==
    /\ Len(delivered) + Len(received) <= Len(sent)
    /\ \A i \in 1 .. Len(delivered) : delivered[i] = PacketBytes(i, sent[i])
    /\ \A i \in 1 .. Len(received) :
          received[i] = PacketBytes(Len(delivered) + i, sent[Len(delivered) + i])

StreamInv == TypeOK /\ Streaming /\ Login /\ Intact /\ RoomToRead

LEMMA BytesTyped ==
    /\ Mark \in Seq(Byte) /\ Len(Mark) = MarkSize
    /\ \A k \in 1 .. MarkSize : Mark[k] = ByteOf(0, k)
    /\ \A i \in 1 .. MaxPackets, n \in Nat :
          /\ PacketBytes(i, n) \in Seq(Byte)
          /\ Len(PacketBytes(i, n)) = HeaderSize + n
          /\ \A k \in 1 .. HeaderSize + n : PacketBytes(i, n)[k] = ByteOf(i, k)
  <1>1. MarkSize \in Nat /\ HeaderSize \in Nat /\ MaxPackets \in Nat
    BY SizesAssumption, MaxPacketsAssumption
  <1>2. \A p \in 0 .. MaxPackets, k \in Nat : [packet |-> p, at |-> k] \in Byte
    BY <1>1 DEF Byte
  <1>3. /\ Mark \in Seq(Byte) /\ Len(Mark) = MarkSize
        /\ \A k \in 1 .. MarkSize : Mark[k] = ByteOf(0, k)
    BY <1>1, <1>2 DEF Mark, ByteOf
  <1>4. ASSUME NEW i \in 1 .. MaxPackets, NEW n \in Nat
        PROVE  /\ PacketBytes(i, n) \in Seq(Byte)
               /\ Len(PacketBytes(i, n)) = HeaderSize + n
               /\ \A k \in 1 .. HeaderSize + n : PacketBytes(i, n)[k] = ByteOf(i, k)
    <2>1. i \in 0 .. MaxPackets /\ HeaderSize + n \in Nat
      BY <1>1
    <2>2. \A k \in 1 .. HeaderSize + n : [packet |-> i, at |-> k] \in Byte
      BY <1>2, <2>1
    <2> QED BY <2>1, <2>2 DEF PacketBytes, ByteOf
  <1> QED BY <1>3, <1>4

LEMMA LengthsTyped ==
    ASSUME TypeOK
    PROVE  /\ sent \in Seq(Nat) /\ Len(sent) \in Nat
           /\ \A i \in 1 .. Len(sent) : sent[i] \in Lengths /\ sent[i] \in Nat
           /\ buffer \in Seq(Byte) /\ wire \in Seq(Byte) /\ Stream \in Seq(Byte)
           /\ Len(buffer) \in Nat /\ Len(wire) \in Nat
           /\ Len(Stream) = Len(buffer) + Len(wire)
           /\ \A k \in 1 .. Len(buffer) : Stream[k] = buffer[k]
           /\ received \in Seq(Seq(Byte)) /\ Len(received) \in Nat
           /\ delivered \in Seq(Seq(Byte)) /\ Len(delivered) \in Nat
  <1>1. sent \in Seq(Lengths) /\ Lengths \subseteq Nat
    BY LengthsAssumption DEF TypeOK
  <1>2. Len(sent) \in Nat /\ \A i \in 1 .. Len(sent) : sent[i] \in Lengths
    <2>1. sent \in Seq(Lengths)
      BY <1>1
    <2> QED BY <2>1
  <1>3. /\ sent \in Seq(Nat)
        /\ \A i \in 1 .. Len(sent) : sent[i] \in Lengths /\ sent[i] \in Nat
    <2>1. \A i \in 1 .. Len(sent) : sent[i] \in Nat
      BY <1>1, <1>2
    <2>2. sent = [i \in 1 .. Len(sent) |-> sent[i]]
      BY <1>1
    <2>3. [i \in 1 .. Len(sent) |-> sent[i]] \in Seq(Nat)
      BY <1>2, <2>1
    <2>4. sent \in Seq(Nat)
      BY <2>2, <2>3, Zenon
    <2> QED BY <1>2, <2>1, <2>4
  <1>4. /\ buffer \in Seq(Byte) /\ wire \in Seq(Byte)
        /\ received \in Seq(Seq(Byte)) /\ delivered \in Seq(Seq(Byte))
    BY DEF TypeOK
  <1>5. /\ Stream \in Seq(Byte)
        /\ Len(buffer) \in Nat /\ Len(wire) \in Nat
        /\ Len(Stream) = Len(buffer) + Len(wire)
        /\ \A k \in 1 .. Len(buffer) : Stream[k] = buffer[k]
    BY <1>4, Concatenated DEF Stream
  <1> QED BY <1>2, <1>3, <1>4, <1>5

(* The first packet of the stream, when the loop looks at it.                *)
LEMMA FirstPacket ==
    ASSUME StreamInv, reader = "cut", Len(buffer) > 0,
           NEW p, p = Len(delivered) + Len(received) + 1
    PROVE  /\ p \in 1 .. Len(sent)
           /\ buffer[1] = ByteOf(p, 1)
           /\ PacketLength(buffer) = HeaderSize + sent[p]
           /\ PacketLength(buffer) = Size(p, sent)
           /\ \A k \in 1 .. Size(p, sent) : k <= Len(buffer) => buffer[k] = ByteOf(p, k)
  <1>1. /\ sent \in Seq(Nat) /\ Len(sent) \in Nat
        /\ buffer \in Seq(Byte) /\ wire \in Seq(Byte) /\ Stream \in Seq(Byte)
        /\ Len(buffer) \in Nat /\ Len(wire) \in Nat
        /\ Len(Stream) = Len(buffer) + Len(wire)
        /\ \A k \in 1 .. Len(buffer) : Stream[k] = buffer[k]
        /\ Len(received) \in Nat /\ Len(delivered) \in Nat
    BY LengthsTyped DEF StreamInv
  <1>2. p \in Nat /\ p > 0 /\ Expected = p
    BY <1>1 DEF Expected
  <1>3. 1 \in 1 .. Len(buffer) /\ 1 \in 1 .. Len(Stream)
    BY <1>1
  <1>4. Framed(Stream, sent) /\ (Stream # << >> => Stream[1] = ByteOf(Expected, 1))
    BY DEF StreamInv, Streaming, Reading
  <1>5. Stream # << >>
    BY <1>1, <1>3
  <1>6. Stream[1] = ByteOf(p, 1) /\ buffer[1] = ByteOf(p, 1)
    BY <1>1, <1>2, <1>3, <1>4, <1>5
  <1>7. ByteOf(p, 1).packet = p /\ ByteOf(p, 1).at = 1
    BY DEF ByteOf
  <1>8. /\ p \in 0 .. Len(sent)
        /\ \A k \in 1 .. Size(p, sent) : 1 + k - 1 <= Len(Stream) => Stream[1 + k - 1] = ByteOf(p, k)
    BY <1>3, <1>4, <1>6, <1>7 DEF Framed
  <1>9. p \in 1 .. Len(sent)
    BY <1>2, <1>8
  <1>10. PacketLength(buffer) = HeaderSize + sent[p] /\ PacketLength(buffer) = Size(p, sent)
    BY <1>2, <1>6, <1>7 DEF PacketLength, Size
  <1>11. ASSUME NEW k \in 1 .. Size(p, sent), k <= Len(buffer)
         PROVE  buffer[k] = ByteOf(p, k)
    <2>1. Size(p, sent) \in Nat
      BY <1>1, <1>8, SizeTyped
    <2>2. k \in 1 .. Len(buffer) /\ 1 + k - 1 = k /\ k <= Len(Stream)
      BY <1>1, <1>11, <2>1
    <2> QED BY <1>1, <1>8, <1>11, <2>2
  <1> QED BY <1>6, <1>9, <1>10, <1>11

LEMMA StreamInit == Init => StreamInv
  <1> HAVE Init
  <1>1. /\ sent = << >> /\ wire = << >> /\ buffer = << >> /\ received = << >>
        /\ delivered = << >> /\ loginSent = FALSE /\ reader = "mark" /\ link = "up"
    BY DEF Init
  <1>2. /\ << >> \in Seq(Lengths) /\ << >> \in Seq(Byte) /\ << >> \in Seq(Seq(Byte))
        /\ Len(<< >>) = 0 /\ << >> \o << >> = << >>
    OBVIOUS
  <1>3. TypeOK
    BY <1>1, <1>2 DEF TypeOK
  <1>4. Stream = << >> /\ Expected = 0 /\ NextOut = 0
    BY <1>1 DEF Stream, Expected, NextOut
  <1>5. Streaming
    BY <1>1, <1>2, <1>4 DEF Streaming, Framed, EndsBefore
  <1>6. Login
    BY <1>1, <1>2, MaxPacketsAssumption DEF Login
  <1>7. Intact /\ RoomToRead
    BY <1>1, <1>2 DEF Intact, RoomToRead
  <1> QED BY <1>3, <1>5, <1>6, <1>7 DEF StreamInv

(* The connection ends.                                                    *)
LEMMA CloseStep ==
    ASSUME StreamInv, Close
    PROVE  StreamInv'
  <1>1. /\ UNCHANGED <<loginSent, sent, wire, reader, buffer, received, delivered>>
        /\ link' = "closed"
    BY DEF Close
  <1>2. TypeOK' /\ Login' /\ Intact' /\ RoomToRead'
    BY <1>1 DEF StreamInv, TypeOK, Login, Intact, RoomToRead
  <1>3. Stream' = Stream /\ Expected' = Expected /\ (Reading' <=> Reading)
    BY <1>1 DEF Stream, Expected, Reading
  <1>4. Streaming'
    BY <1>1, <1>3 DEF StreamInv, Streaming
  <1> QED BY <1>2, <1>4 DEF StreamInv

LEMMA ResetStep ==
    ASSUME StreamInv, Reset
    PROVE  StreamInv'
  <1>1. /\ UNCHANGED <<loginSent, sent, reader, buffer, received, delivered>>
        /\ link' = "reset" /\ wire' = << >>
    BY DEF Reset
  <1>2. << >> \in Seq(Byte)
    OBVIOUS
  <1>3. TypeOK' /\ Login' /\ Intact' /\ RoomToRead'
    BY <1>1, <1>2 DEF StreamInv, TypeOK, Login, Intact, RoomToRead
  <1>4. /\ buffer \in Seq(Byte) /\ wire \in Seq(Byte) /\ sent \in Seq(Nat)
        /\ Len(buffer) \in Nat
        /\ \A k \in 1 .. Len(buffer) : Stream[k] = buffer[k]
        /\ Len(Stream) = Len(buffer) + Len(wire) /\ Len(wire) \in Nat
    BY LengthsTyped DEF StreamInv
  <1>5. Stream' = buffer
    BY <1>1, <1>4 DEF Stream
  <1>6. Expected' = Expected /\ (Reading' <=> Reading)
    BY <1>1 DEF Expected, Reading
  <1>7. ASSUME Reading
        PROVE  /\ Framed(buffer, sent)
               /\ buffer # << >> => buffer[1] = ByteOf(Expected, 1)
    <2>1. Framed(Stream, sent) /\ (Stream # << >> => Stream[1] = ByteOf(Expected, 1))
      BY <1>7 DEF StreamInv, Streaming
    <2>2. Framed(buffer, sent)
      BY <1>4, <2>1, FirstPart DEF Stream
    <2>3. ASSUME buffer # << >> PROVE buffer[1] = ByteOf(Expected, 1)
      <3>1. 1 \in 1 .. Len(buffer) /\ Len(Stream) > 0
        BY <1>4, <2>3
      <3>2. Stream # << >>
        BY <3>1
      <3> QED BY <1>4, <2>1, <3>1, <3>2
    <2> QED BY <2>2, <2>3
  <1>8. Streaming'
    BY <1>1, <1>5, <1>6, <1>7 DEF Streaming
  <1> QED BY <1>3, <1>8 DEF StreamInv

LEMMA ErrorStep ==
    ASSUME StreamInv, ReadError
    PROVE  StreamInv'
  <1>1. /\ UNCHANGED <<loginSent, sent, wire, link, buffer, received, delivered>>
        /\ reader' = "ended"
    BY DEF ReadError
  <1>2. TypeOK' /\ Login' /\ Intact' /\ RoomToRead'
    BY <1>1 DEF StreamInv, TypeOK, Login, Intact, RoomToRead
  <1>3. Streaming'
    BY <1>1 DEF Streaming, Reading
  <1> QED BY <1>2, <1>3 DEF StreamInv

LEMMA ReadableTyped ==
    ASSUME NEW room \in Nat, NEW n \in Readable(room), wire \in Seq(Byte)
    PROVE  /\ n \in 0 .. Len(wire)
           /\ Len(wire) \in Nat
  <1>1. Len(wire) \in Nat
    OBVIOUS
  <1>2. CASE wire = << >>
    <2>1. n = 0
      BY <1>2 DEF Readable
    <2> QED BY <1>1, <2>1
  <1>3. CASE wire # << >>
    BY <1>1, <1>3 DEF Readable, Least
  <1> QED BY <1>2, <1>3, <1>1

LEMMA ReadStep ==
    ASSUME StreamInv, NEW n, Read(n)
    PROVE  StreamInv'
  <1>1. /\ UNCHANGED <<loginSent, sent, link, received, delivered>>
        /\ reader = "loop" /\ reader' = "cut"
        /\ buffer' = buffer \o Prefix(wire, n) /\ wire' = After(wire, n)
        /\ n \in Readable(BufferSize - Len(buffer))
    BY DEF Read
  <1>2. buffer \in Seq(Byte) /\ wire \in Seq(Byte) /\ Len(buffer) \in Nat
    BY LengthsTyped DEF StreamInv
  <1>3. BufferSize - Len(buffer) \in Nat
    <2>1. Len(buffer) < BufferSize /\ BufferSize \in Nat
      BY <1>1, SizesAssumption DEF StreamInv, RoomToRead
    <2> QED BY <1>2, <2>1
  <1>4. n \in 0 .. Len(wire)
    BY <1>1, <1>2, <1>3, ReadableTyped
  <1>5. Prefix(wire, n) \in Seq(Byte) /\ After(wire, n) \in Seq(Byte)
    BY <1>2, <1>4, CutInTwo
  <1>6. buffer' \in Seq(Byte) /\ wire' \in Seq(Byte)
    BY <1>1, <1>2, <1>5, Concatenated
  <1>7. TypeOK'
    BY <1>1, <1>6 DEF StreamInv, TypeOK
  <1>8. Stream' = Stream
    BY <1>1, <1>2, <1>4, Regroup DEF Stream
  <1>9. Expected' = Expected /\ Reading /\ NextOut' = NextOut
    BY <1>1 DEF Expected, Reading, NextOut
  <1>10. Streaming'
    BY <1>1, <1>8, <1>9 DEF StreamInv, Streaming
  <1>11. Login' /\ RoomToRead'
    BY <1>1 DEF StreamInv, Login, RoomToRead
  <1>12. Intact'
    BY <1>1 DEF StreamInv, Intact
  <1> QED BY <1>7, <1>10, <1>11, <1>12 DEF StreamInv

LEMMA MarkStep ==
    ASSUME StreamInv, NEW n, ReadMark(n)
    PROVE  StreamInv'
  <1>1. /\ UNCHANGED <<loginSent, sent, link, buffer, received, delivered>>
        /\ reader = "mark" /\ wire' = After(wire, n)
        /\ reader' = IF Prefix(wire, n) = Mark THEN "loop" ELSE "asserted"
        /\ n \in Readable(MarkSize)
    BY DEF ReadMark
  <1>2. /\ buffer \in Seq(Byte) /\ wire \in Seq(Byte) /\ sent \in Seq(Nat)
        /\ MarkSize \in Nat \ {0} /\ BufferSize \in Nat \ {0}
    BY LengthsTyped, SizesAssumption DEF StreamInv
  <1>3. n \in 0 .. Len(wire) /\ Len(wire) \in Nat
    BY <1>1, <1>2, ReadableTyped
  <1>4. /\ Len(Prefix(wire, n)) = n
        /\ wire' \in Seq(Byte)
        /\ Len(wire') = Len(wire) - n
        /\ \A k \in 1 .. Len(wire) - n : wire'[k] = wire[n + k]
    BY <1>1, <1>2, <1>3, CutInTwo
  <1>5. /\ buffer = << >> /\ received = << >> /\ delivered = << >>
        /\ ~loginSent => sent = << >> /\ wire = << >>
    BY <1>1 DEF StreamInv, Login
  <1>6. TypeOK'
    BY <1>1, <1>4 DEF StreamInv, TypeOK
  <1>7. Intact'
    BY <1>1 DEF StreamInv, Intact
  <1>8. Len(<< >>) = 0 /\ 0 < BufferSize
    BY <1>2
  <1>9. RoomToRead'
    BY <1>1, <1>5, <1>8 DEF RoomToRead
  <1>10. CASE Prefix(wire, n) = Mark
    <2>1. n = MarkSize /\ reader' = "loop"
      BY <1>1, <1>4, <1>10, BytesTyped
    <2>2. wire # << >> /\ loginSent
      BY <1>2, <1>3, <1>5, <2>1
    <2>3. Login'
      BY <1>1, <1>5, <2>1, <2>2 DEF StreamInv, Login
    <2>4. Stream = wire /\ Stream' = wire'
      BY <1>1, <1>2, <1>4, <1>5 DEF Stream
    <2>5. Expected = 0 /\ Expected' = 1 /\ NextOut' = NextOut
      BY <1>1, <1>5, <2>1 DEF Expected, NextOut
    <2>6. /\ Framed(wire, sent)
          /\ wire[1] = ByteOf(0, 1)
          /\ link = "up" => EndsBefore(wire, sent, NextOut)
      BY <1>1, <2>2, <2>4, <2>5 DEF StreamInv, Streaming, Reading
    <2>7. /\ Framed(wire', sent)
          /\ \A q : EndsBefore(wire, sent, q) => EndsBefore(wire', sent, q)
      BY <1>1, <1>2, <1>3, <2>6, Suffix
    <2>8. 1 \in 1 .. Len(wire) /\ wire[1].packet = 0 /\ wire[1].at = 1 /\ Size(0, sent) = MarkSize
      BY <1>2, <1>3, <2>1, <2>6 DEF ByteOf, Size
    <2>9. ASSUME wire' # << >> PROVE wire'[1] = ByteOf(1, 1)
      <3>1. 1 \in 1 .. Len(wire) - n /\ 1 + MarkSize <= Len(wire)
        BY <1>3, <1>4, <2>1, <2>9
      <3>2. wire[1 + MarkSize] = ByteOf(0 + 1, 1)
        BY <2>6, <2>8, <3>1 DEF Framed
      <3>3. wire'[1] = wire[1 + MarkSize]
        BY <1>2, <1>4, <2>1, <3>1
      <3> QED BY <3>2, <3>3
    <2>10. ASSUME link = "up", wire' = << >> PROVE 1 = NextOut
      <3>1. 1 + MarkSize = Len(wire) + 1
        BY <1>2, <1>3, <1>4, <2>1, <2>10
      <3>2. 0 + 1 = NextOut
        BY <2>6, <2>8, <2>10, <3>1 DEF EndsBefore
      <3> QED BY <3>2
    <2>11. Streaming'
      BY <1>1, <2>4, <2>5, <2>6, <2>7, <2>9, <2>10 DEF Streaming
    <2> QED BY <1>6, <1>7, <1>9, <2>3, <2>11 DEF StreamInv
  <1>11. CASE Prefix(wire, n) # Mark
    <2>1. reader' = "asserted"
      BY <1>1, <1>11
    <2>2. Streaming'
      BY <2>1 DEF Streaming, Reading
    <2>3. ~loginSent => wire' = << >>
      <3>1. ASSUME ~loginSent PROVE wire' = << >>
        <4>1. wire = << >> /\ Len(wire) = 0
          BY <1>5, <3>1
        <4>2. Len(wire') = 0
          BY <1>3, <1>4, <4>1
        <4> QED BY <1>4, <4>2
      <3> QED BY <3>1
    <2>4. Login'
      BY <1>1, <1>5, <2>1, <2>3 DEF StreamInv, Login
    <2> QED BY <1>6, <1>7, <1>9, <2>2, <2>4 DEF StreamInv
  <1> QED BY <1>10, <1>11

(* The first packet of the buffer is there: it is cut off.                   *)
LEMMA CutStep ==
    ASSUME StreamInv, CutPacket
    PROVE  StreamInv'
  <1> DEFINE p == Len(delivered) + Len(received) + 1
             z == PacketLength(buffer)
             packet == Prefix(buffer, z)
  <1>1. /\ UNCHANGED <<loginSent, sent, wire, link, reader, delivered>>
        /\ reader = "cut"
        /\ Len(buffer) >= HeaderSize /\ Len(buffer) >= z
        /\ received' = Append(received, packet) /\ buffer' = After(buffer, z)
    BY DEF CutPacket, Complete
  <1>2. /\ sent \in Seq(Nat) /\ Len(sent) \in Nat
        /\ \A i \in 1 .. Len(sent) : sent[i] \in Nat
        /\ buffer \in Seq(Byte) /\ wire \in Seq(Byte) /\ Stream \in Seq(Byte)
        /\ Len(buffer) \in Nat /\ Len(wire) \in Nat
        /\ Len(Stream) = Len(buffer) + Len(wire)
        /\ received \in Seq(Seq(Byte)) /\ Len(received) \in Nat
        /\ Len(delivered) \in Nat
        /\ Len(sent) <= MaxPackets /\ MaxPackets \in Nat
        /\ HeaderSize \in Nat \ {0}
    BY LengthsTyped, SizesAssumption, MaxPacketsAssumption DEF StreamInv, Login
  <1>3. Len(buffer) > 0
    BY <1>1, <1>2
  <1>4. /\ p \in 1 .. Len(sent)
        /\ z = HeaderSize + sent[p]
        /\ z = Size(p, sent)
        /\ \A k \in 1 .. Size(p, sent) : k <= Len(buffer) => buffer[k] = ByteOf(p, k)
    BY <1>1, <1>3, FirstPacket
  <1>5. Expected = p
    BY <1>1 DEF Expected
  <1> HIDE DEF z, p
  <1>6. z \in Nat \ {0} /\ z \in 0 .. Len(buffer) /\ z \in 0 .. Len(Stream)
        /\ p \in 1 .. MaxPackets /\ sent[p] \in Nat
    BY <1>1, <1>2, <1>4
  <1>7. /\ packet \in Seq(Byte) /\ Len(packet) = z
        /\ \A k \in 1 .. z : packet[k] = buffer[k]
        /\ After(buffer, z) \in Seq(Byte)
    BY <1>2, <1>6, CutInTwo
  <1>8. packet = PacketBytes(p, sent[p])
    <2> DEFINE b == PacketBytes(p, sent[p])
    <2>1. /\ b \in Seq(Byte) /\ Len(b) = z
          /\ \A k \in 1 .. z : b[k] = ByteOf(p, k)
      BY <1>4, <1>6, BytesTyped
    <2> HIDE DEF b, packet
    <2>2. ASSUME NEW k \in 1 .. z PROVE packet[k] = b[k]
      <3>1. k <= Len(buffer)
        BY <1>1, <1>2, <1>6
      <3>2. buffer[k] = ByteOf(p, k)
        BY <1>4, <3>1
      <3> QED BY <1>7, <2>1, <3>2
    <2>3. packet = b
      BY <1>7, <2>1, <2>2, SameSequence
    <2> QED BY <2>3 DEF b
  <1> HIDE DEF packet
  <1>9. /\ received' \in Seq(Seq(Byte))
        /\ Len(received') = Len(received) + 1
        /\ received'[Len(received) + 1] = packet
        /\ \A i \in 1 .. Len(received) : received'[i] = received[i]
    BY <1>1, <1>2, <1>7, Appended
  <1>10. TypeOK'
    BY <1>1, <1>7, <1>9 DEF StreamInv, TypeOK
  <1>11. Intact'
    <2>1. Len(delivered) + Len(received') <= Len(sent)
      BY <1>2, <1>4, <1>9 DEF p
    <2>2. ASSUME NEW i \in 1 .. Len(received')
          PROVE  received'[i] = PacketBytes(Len(delivered) + i, sent[Len(delivered) + i])
      <3>1. CASE i \in 1 .. Len(received)
        BY <1>9, <3>1 DEF StreamInv, Intact
      <3>2. CASE i = Len(received) + 1
        <4>1. Len(delivered) + i = p
          BY <1>2, <3>2 DEF p
        <4> QED BY <1>8, <1>9, <3>2, <4>1
      <3> QED BY <1>2, <1>9, <2>2, <3>1, <3>2
    <2> QED BY <1>1, <2>1, <2>2 DEF StreamInv, Intact
  <1>12. Login' /\ RoomToRead'
    BY <1>1 DEF StreamInv, Login, RoomToRead
  <1>13. Stream' = After(Stream, z)
    BY <1>1, <1>2, <1>6, AfterBoth DEF Stream
  <1>14. /\ Framed(Stream, sent) /\ Stream[1] = ByteOf(p, 1)
         /\ link = "up" => EndsBefore(Stream, sent, NextOut)
    <2>1. Stream # << >>
      BY <1>2, <1>3
    <2> QED BY <1>1, <1>5, <2>1 DEF StreamInv, Streaming, Reading
  <1>15. /\ Framed(Stream', sent)
         /\ \A q : EndsBefore(Stream, sent, q) => EndsBefore(Stream', sent, q)
    BY <1>2, <1>6, <1>13, <1>14, Suffix
  <1>16. /\ Stream' \in Seq(Byte) /\ Len(Stream') = Len(Stream) - z
         /\ \A k \in 1 .. Len(Stream) - z : Stream'[k] = Stream[z + k]
    BY <1>2, <1>6, <1>13, CutInTwo
  <1>17. 1 \in 1 .. Len(Stream) /\ Stream[1].packet = p /\ Stream[1].at = 1
    BY <1>2, <1>3, <1>14 DEF ByteOf
  <1>18. Expected' = p + 1 /\ NextOut' = NextOut
    <2>1. Expected' = Len(delivered) + Len(received') + 1
      BY <1>1 DEF Expected
    <2>2. Expected' = p + 1
      BY <1>2, <1>9, <2>1 DEF p
    <2> QED BY <1>1, <2>2 DEF NextOut
  <1>19. ASSUME Stream' # << >> PROVE Stream'[1] = ByteOf(p + 1, 1)
    <2>1. Len(Stream') > 0
      BY <1>16, <1>19
    <2>2. 1 \in 1 .. Len(Stream) - z /\ 1 + z <= Len(Stream) /\ 1 + z = z + 1
      BY <1>2, <1>6, <1>16, <2>1
    <2>3. Stream[1 + z] = ByteOf(p + 1, 1)
      BY <1>4, <1>14, <1>17, <2>2 DEF Framed
    <2> QED BY <1>16, <2>2, <2>3
  <1>20. ASSUME link = "up", Stream' = << >> PROVE p + 1 = NextOut
    <2>1. Len(Stream') = 0
      BY <1>20
    <2>2. 1 + z = Len(Stream) + 1
      BY <1>2, <1>6, <1>16, <2>1
    <2> QED BY <1>4, <1>14, <1>17, <1>20, <2>2 DEF EndsBefore
  <1>21. Streaming'
    BY <1>1, <1>14, <1>15, <1>18, <1>19, <1>20 DEF Streaming
  <1> QED BY <1>10, <1>11, <1>12, <1>21 DEF StreamInv

(* What is left is part of a packet, so it does not fill the buffer.         *)
LEMMA DeliverStep ==
    ASSUME StreamInv, Deliver
    PROVE  StreamInv'
  <1> DEFINE p == Len(delivered) + Len(received) + 1
  <1>1. /\ UNCHANGED <<loginSent, sent, wire, link, buffer>>
        /\ reader = "cut" /\ reader' = "loop" /\ ~Complete(buffer)
        /\ received' = << >> /\ delivered' = delivered \o received
    BY DEF Deliver
  <1>2. /\ received \in Seq(Seq(Byte)) /\ Len(received) \in Nat
        /\ delivered \in Seq(Seq(Byte)) /\ Len(delivered) \in Nat
        /\ Len(buffer) \in Nat /\ Len(sent) \in Nat
        /\ \A i \in 1 .. Len(sent) : sent[i] \in Lengths /\ sent[i] \in Nat
    BY LengthsTyped DEF StreamInv
  <1>3. /\ delivered' \in Seq(Seq(Byte))
        /\ Len(delivered') = Len(delivered) + Len(received)
        /\ \A j \in 1 .. Len(delivered) : delivered'[j] = delivered[j]
        /\ \A j \in 1 .. Len(received) : delivered'[Len(delivered) + j] = received[j]
    BY <1>1, <1>2, Concatenated
  <1>4. << >> \in Seq(Seq(Byte)) /\ Len(<< >>) = 0 /\ 1 .. 0 = {}
    OBVIOUS
  <1>5. TypeOK'
    BY <1>1, <1>3, <1>4 DEF StreamInv, TypeOK
  <1>6. Intact'
    <2>1. Len(delivered') + Len(received') <= Len(sent)
      BY <1>1, <1>2, <1>3, <1>4 DEF StreamInv, Intact
    <2>2. ASSUME NEW i \in 1 .. Len(delivered')
          PROVE  delivered'[i] = PacketBytes(i, sent[i])
      <3>1. CASE i \in 1 .. Len(delivered)
        BY <1>3, <3>1 DEF StreamInv, Intact
      <3>2. CASE i > Len(delivered)
        <4>1. i - Len(delivered) \in 1 .. Len(received) /\ i = Len(delivered) + (i - Len(delivered))
          BY <1>2, <1>3, <2>2, <3>2
        <4>2. PICK j \in 1 .. Len(received) : i = Len(delivered) + j
          BY <4>1
        <4> QED BY <1>3, <4>2 DEF StreamInv, Intact
      <3> QED BY <1>2, <1>3, <2>2, <3>1, <3>2
    <2> QED BY <1>1, <1>4, <2>1, <2>2 DEF Intact
  <1>7. Login'
    BY <1>1 DEF StreamInv, Login
  <1>8. RoomToRead'
    <2>1. HeaderSize \in Nat \ {0} /\ BufferSize \in Nat \ {0}
          /\ \A n \in Lengths : HeaderSize + n <= BufferSize /\ n \in Nat
      BY SizesAssumption, LengthsAssumption
    <2>2. CASE Len(buffer) > 0
      <3>1. p \in 1 .. Len(sent) /\ PacketLength(buffer) = HeaderSize + sent[p]
        BY <1>1, <2>2, FirstPacket
      <3>2. sent[p] \in Lengths /\ sent[p] \in Nat
        BY <1>2, <3>1
      <3> DEFINE n == sent[p]
      <3>3. Len(buffer) < HeaderSize \/ Len(buffer) < HeaderSize + n
        <4>1. Len(buffer) >= HeaderSize => ~(Len(buffer) >= HeaderSize + n)
          BY <1>1, <3>1 DEF Complete
        <4> HIDE DEF n
        <4>2. n \in Nat
          BY <3>2 DEF n
        <4> QED BY <1>2, <2>1, <4>1, <4>2
      <3>4. HeaderSize + n <= BufferSize /\ n \in Nat
        BY <2>1, <3>2
      <3> HIDE DEF n
      <3>5. Len(buffer) < BufferSize
        BY <1>2, <2>1, <3>3, <3>4
      <3> QED BY <1>1, <3>5 DEF RoomToRead
    <2>3. CASE Len(buffer) = 0
      BY <1>1, <2>1, <2>3 DEF RoomToRead
    <2> QED BY <1>2, <2>2, <2>3
  <1>9. Expected' = Expected /\ Stream' = Stream /\ NextOut' = NextOut
    <2>1. Expected' = Len(delivered') + Len(received') + 1 /\ Expected = p
      BY <1>1 DEF Expected
    <2>2. Len(delivered') + Len(received') + 1 = p
      BY <1>1, <1>2, <1>3, <1>4
    <2>3. Stream' = Stream /\ NextOut' = NextOut
      BY <1>1 DEF Stream, NextOut
    <2> QED BY <2>1, <2>2, <2>3
  <1>10. Streaming'
    BY <1>1, <1>9 DEF StreamInv, Streaming, Reading
  <1> QED BY <1>5, <1>6, <1>7, <1>8, <1>10 DEF StreamInv

(* A first part of two sequences, one behind the other.                      *)
LEMMA PrefixBoth ==
    ASSUME NEW T, NEW a \in Seq(T), NEW b \in Seq(T), NEW n \in 0 .. Len(a) + Len(b)
    PROVE  /\ n <= Len(a) => Prefix(a \o b, n) = Prefix(a, n)
           /\ n > Len(a) => Prefix(a \o b, n) = a \o Prefix(b, n - Len(a))
  <1> DEFINE ab == a \o b
             pab == Prefix(ab, n)
             m == Len(a)
  <1>1. /\ ab \in Seq(T) /\ m \in Nat /\ Len(b) \in Nat /\ Len(ab) = m + Len(b)
        /\ \A j \in 1 .. m : ab[j] = a[j]
        /\ \A j \in 1 .. Len(b) : ab[m + j] = b[j]
    BY Concatenated
  <1> HIDE DEF ab
  <1>2. /\ pab \in Seq(T) /\ Len(pab) = n /\ \A k \in 1 .. n : pab[k] = ab[k]
        /\ n \in Nat
    <2>1. n \in 0 .. Len(ab)
      BY <1>1
    <2> QED BY <1>1, <2>1, CutInTwo
  <1> HIDE DEF pab, m
  <1>3. ASSUME n <= m PROVE pab = Prefix(a, n)
    <2> DEFINE r == Prefix(a, n)
    <2>1. /\ r \in Seq(T) /\ Len(r) = n /\ \A k \in 1 .. n : r[k] = a[k]
      <3>1. n \in 0 .. Len(a)
        BY <1>1, <1>2, <1>3 DEF m
      <3> QED BY <3>1, CutInTwo
    <2> HIDE DEF r
    <2>2. ASSUME NEW k \in 1 .. n PROVE pab[k] = r[k]
      <3>1. k \in 1 .. m
        BY <1>1, <1>2, <1>3
      <3> QED BY <1>1, <1>2, <2>1, <3>1
    <2>3. pab = r
      BY <1>2, <2>1, <2>2, SameSequence
    <2> QED BY <2>3 DEF r
  <1>4. ASSUME n > m PROVE pab = a \o Prefix(b, n - m)
    <2> DEFINE r == Prefix(b, n - m)
               ar == a \o r
               o == n - m
    <2>1. /\ r \in Seq(T) /\ Len(r) = o /\ \A k \in 1 .. o : r[k] = b[k]
          /\ o \in 0 .. Len(b)
      <3>1. n - m \in 0 .. Len(b)
        BY <1>1, <1>2, <1>4 DEF m
      <3> QED BY <3>1, CutInTwo
    <2> HIDE DEF r
    <2>2. /\ ar \in Seq(T) /\ Len(ar) = m + o
          /\ \A j \in 1 .. m : ar[j] = a[j]
          /\ \A j \in 1 .. o : ar[m + j] = r[j]
      <3>1. /\ a \o r \in Seq(T)
            /\ Len(a \o r) = Len(a) + Len(r)
            /\ \A j \in 1 .. Len(a) : (a \o r)[j] = a[j]
            /\ \A j \in 1 .. Len(r) : (a \o r)[Len(a) + j] = r[j]
        <4>1. a \in Seq(T) /\ r \in Seq(T)
          BY <2>1
        <4> QED BY <4>1, Concatenated
      <3> QED BY <2>1, <3>1 DEF m
    <2> HIDE DEF ar
    <2>3. m + o = n
      BY <1>1, <1>2
    <2>4. ASSUME NEW k \in 1 .. n PROVE pab[k] = ar[k]
      <3>1. CASE k \in 1 .. m
        BY <1>1, <1>2, <2>2, <3>1
      <3>2. CASE k > m
        <4>1. k - m \in 1 .. o /\ k = m + (k - m)
          BY <1>1, <1>2, <3>2
        <4>2. PICK j \in 1 .. o : k = m + j
          BY <4>1
        <4>3. j \in 1 .. Len(b)
          BY <1>1, <2>1, <4>2
        <4>4. ab[k] = b[j] /\ ar[k] = b[j]
          BY <1>1, <2>1, <2>2, <4>2, <4>3
        <4> QED BY <1>2, <4>4
      <3> QED BY <1>1, <1>2, <3>1, <3>2
    <2>5. pab = ar
      BY <1>2, <2>2, <2>3, <2>4, SameSequence
    <2> QED BY <2>5 DEF ar, r
  <1> QED BY <1>3, <1>4 DEF pab, ab, m

(* What a Write of the next packet does to the whole stream.                *)
LEMMA GoesOn ==
    ASSUME NEW s \in Seq(Byte), NEW l \in Seq(Nat), NEW q \in 0 .. Len(l), NEW e,
           Framed(s, l), EndsBefore(s, l, q),
           s # << >> => s[1] = ByteOf(e, 1),
           s = << >> => e = q,
           NEW t \in Seq(Byte), Len(t) <= Size(q, l),
           \A k \in 1 .. Len(t) : t[k] = ByteOf(q, k)
    PROVE  /\ s \o t \in Seq(Byte)
           /\ Framed(s \o t, l)
           /\ s \o t # << >> => (s \o t)[1] = ByteOf(e, 1)
           /\ Len(t) = Size(q, l) => /\ EndsBefore(s \o t, l, q + 1)
                                     /\ s \o t # << >>
  <1> DEFINE st == s \o t
  <1>1. /\ st \in Seq(Byte) /\ Len(s) \in Nat /\ Len(t) \in Nat
        /\ Len(st) = Len(s) + Len(t)
        /\ \A j \in 1 .. Len(s) : st[j] = s[j]
        /\ \A j \in 1 .. Len(t) : st[Len(s) + j] = t[j]
    BY Concatenated
  <1>2. /\ Framed(st, l)
        /\ Len(t) = Size(q, l) => EndsBefore(st, l, q + 1)
    BY Extend
  <1>3. Size(q, l) \in Nat \ {0}
    BY SizeTyped
  <1> HIDE DEF st
  <1>4. ASSUME st # << >> PROVE st[1] = ByteOf(e, 1)
    <2>1. CASE s # << >>
      <3>1. 1 \in 1 .. Len(s)
        BY <1>1, <2>1
      <3> QED BY <1>1, <2>1, <3>1
    <2>2. CASE s = << >>
      <3>1. Len(s) = 0 /\ Len(st) > 0
        BY <1>1, <1>4, <2>2
      <3>2. 1 \in 1 .. Len(t) /\ Len(s) + 1 = 1
        BY <1>1, <3>1
      <3> QED BY <1>1, <2>2, <3>2
    <2> QED BY <2>1, <2>2
  <1>5. ASSUME Len(t) = Size(q, l) PROVE st # << >>
    <2>1. Len(st) > 0
      BY <1>1, <1>3, <1>5
    <2> QED BY <2>1
  <1> QED BY <1>1, <1>2, <1>4, <1>5 DEF st

(* The lengths after a Send of a packet with n bytes of data.                *)
LEMMA SentTyped ==
    ASSUME TypeOK, NEW n \in Lengths
    PROVE  /\ Append(sent, n) \in Seq(Lengths) /\ Append(sent, n) \in Seq(Nat)
           /\ Len(Append(sent, n)) = Len(sent) + 1
           /\ Append(sent, n)[Len(sent) + 1] = n
           /\ \A i \in 1 .. Len(sent) : Append(sent, n)[i] = sent[i]
           /\ Size(0, Append(sent, n)) = MarkSize
           /\ Size(Len(sent) + 1, Append(sent, n)) = HeaderSize + n
  <1>1. sent \in Seq(Lengths) /\ sent \in Seq(Nat) /\ Len(sent) \in Nat /\ n \in Nat
    BY LengthsTyped, LengthsAssumption DEF TypeOK
  <1>2. /\ Append(sent, n) \in Seq(Lengths)
        /\ Len(Append(sent, n)) = Len(sent) + 1
        /\ Append(sent, n)[Len(sent) + 1] = n
        /\ \A i \in 1 .. Len(sent) : Append(sent, n)[i] = sent[i]
    BY <1>1, Appended
  <1>3. Append(sent, n) \in Seq(Nat)
    BY <1>1, Appended
  <1>4. Len(sent) + 1 # 0
    BY <1>1
  <1> QED BY <1>2, <1>3, <1>4 DEF Size

(* What a Send writes: the rest of the stream, as far as the Write gets.     *)
LEMMA SendStreams ==
    ASSUME StreamInv, NEW n \in Lengths, NEW w, Send(n, w), Reading
    PROVE  /\ Framed(Stream', sent')
           /\ Stream' # << >> => Stream'[1] = ByteOf(Expected, 1)
           /\ link' = "up" => /\ EndsBefore(Stream', sent', Len(sent) + 2)
                              /\ Stream' # << >>
  <1> DEFINE q == Len(sent) + 1
             l == Append(sent, n)
             b == PacketBytes(q, n)
             bytes == (IF loginSent THEN << >> ELSE Mark) \o b
             t == Prefix(bytes, w)
  <1>1. /\ link = "up" /\ Len(sent) < MaxPackets
        /\ w \in 0 .. Len(bytes)
        /\ sent' = l /\ wire' = wire \o t
        /\ link' = IF w = Len(bytes) THEN "up" ELSE "closed"
        /\ buffer' = buffer
    BY DEF Send
  <1>2. /\ Len(sent) \in Nat /\ Stream \in Seq(Byte)
        /\ buffer \in Seq(Byte) /\ wire \in Seq(Byte) /\ sent \in Seq(Nat)
    BY LengthsTyped DEF StreamInv
  <1>3. /\ n \in Nat /\ MaxPackets \in Nat
        /\ MarkSize \in Nat \ {0} /\ HeaderSize \in Nat \ {0}
    BY LengthsAssumption, MaxPacketsAssumption, SizesAssumption
  <1>4. /\ l \in Seq(Nat) /\ Len(l) = q
        /\ Size(0, l) = MarkSize /\ Size(q, l) = HeaderSize + n
    BY SentTyped DEF StreamInv
  <1>5. q \in 1 .. MaxPackets /\ q \in 0 .. Len(l) /\ 0 \in 0 .. Len(l)
        /\ q + 1 = Len(sent) + 2
    BY <1>1, <1>2, <1>3, <1>4
  <1>6. /\ b \in Seq(Byte) /\ Len(b) = HeaderSize + n
        /\ \A k \in 1 .. HeaderSize + n : b[k] = ByteOf(q, k)
    BY <1>3, <1>5, BytesTyped
  <1>7. /\ Framed(Stream, sent)
        /\ Stream # << >> => Stream[1] = ByteOf(Expected, 1)
        /\ EndsBefore(Stream, sent, NextOut)
        /\ Stream = << >> => Expected = NextOut
    BY <1>1 DEF StreamInv, Streaming
  <1>8. Framed(Stream, l) /\ EndsBefore(Stream, l, NextOut)
    BY <1>2, <1>3, <1>7, MoreSent
  <1> HIDE DEF l, b
  <1>9. CASE loginSent
    <2>1. bytes = b /\ NextOut = q
      BY <1>6, <1>9 DEF NextOut
    <2>2. w \in 0 .. Len(b) /\ t = Prefix(b, w)
      BY <1>1, <2>1
    <2>3. /\ t \in Seq(Byte) /\ Len(t) = w
          /\ \A k \in 1 .. w : t[k] = b[k]
      BY <1>6, <2>2, CutInTwo
    <2> HIDE DEF t, bytes, q
    <2>4. Len(t) <= Size(q, l)
      BY <1>3, <1>4, <1>6, <2>2, <2>3
    <2>5. ASSUME NEW k \in 1 .. Len(t) PROVE t[k] = ByteOf(q, k)
      <3>1. k \in 1 .. w /\ k \in 1 .. HeaderSize + n
        BY <1>3, <1>6, <2>2, <2>3
      <3> QED BY <1>6, <2>3, <3>1
    <2>6. /\ Framed(Stream \o t, l)
          /\ Stream \o t # << >> => (Stream \o t)[1] = ByteOf(Expected, 1)
          /\ Len(t) = Size(q, l) => /\ EndsBefore(Stream \o t, l, q + 1)
                                    /\ Stream \o t # << >>
      <3>1. EndsBefore(Stream, l, q) /\ (Stream = << >> => Expected = q)
        BY <1>7, <1>8, <2>1
      <3>2. /\ Stream \in Seq(Byte) /\ l \in Seq(Nat) /\ q \in 0 .. Len(l)
            /\ Framed(Stream, l) /\ EndsBefore(Stream, l, q)
            /\ Stream # << >> => Stream[1] = ByteOf(Expected, 1)
            /\ Stream = << >> => Expected = q
            /\ t \in Seq(Byte) /\ Len(t) <= Size(q, l)
            /\ \A k \in 1 .. Len(t) : t[k] = ByteOf(q, k)
        BY <1>2, <1>4, <1>5, <1>7, <1>8, <2>3, <2>4, <2>5, <3>1
      <3> QED BY <3>2, GoesOn, SMTT(60)
    <2>7. Stream' = Stream \o t
      BY <1>1, <1>2, <2>3, Associative, SMTT(30) DEF Stream
    <2>8. link' = "up" => Len(t) = Size(q, l)
      BY <1>1, <1>4, <1>6, <2>1, <2>3
    <2> QED BY <1>1, <1>5, <2>6, <2>7, <2>8
  <1>10. CASE ~loginSent
    <2>1. /\ Mark \in Seq(Byte) /\ Len(Mark) = MarkSize
          /\ \A k \in 1 .. MarkSize : Mark[k] = ByteOf(0, k)
      BY BytesTyped
    <2>2. bytes = Mark \o b /\ NextOut = 0 /\ q = 1
      <3>1. sent = << >>
        BY <1>10 DEF StreamInv, Login
      <3>2. Len(<< >>) = 0
        OBVIOUS
      <3> QED BY <1>10, <3>1, <3>2 DEF NextOut
    <2> HIDE DEF bytes, q
    <2>3. /\ Len(bytes) = MarkSize + (HeaderSize + n)
          /\ w \in 0 .. Len(Mark) + Len(b) /\ w \in Nat
          /\ bytes \in Seq(Byte)
      <3>1. /\ Mark \o b \in Seq(Byte) /\ Len(Mark \o b) = Len(Mark) + Len(b)
        BY <1>6, <2>1, Concatenated
      <3>2. Len(bytes) = MarkSize + (HeaderSize + n) /\ bytes \in Seq(Byte)
        BY <1>6, <2>1, <2>2, <3>1
      <3>3. w \in 0 .. MarkSize + (HeaderSize + n)
        BY <1>1, <3>2
      <3> QED BY <1>3, <1>6, <2>1, <3>2, <3>3
    <2>4. CASE w <= MarkSize
      <3>1. t = Prefix(Mark, w)
        BY <1>6, <2>1, <2>2, <2>3, <2>4, PrefixBoth
      <3> HIDE DEF t
      <3>2. /\ t \in Seq(Byte) /\ Len(t) = w
            /\ \A k \in 1 .. w : t[k] = Mark[k]
        <4>1. w \in 0 .. Len(Mark)
          BY <1>3, <2>1, <2>3, <2>4
        <4> QED BY <2>1, <3>1, <4>1, CutInTwo
      <3>3. ASSUME NEW k \in 1 .. Len(t) PROVE t[k] = ByteOf(0, k)
        <4>1. k \in 1 .. w /\ k \in 1 .. MarkSize
          BY <1>3, <2>3, <2>4, <3>2
        <4> QED BY <2>1, <3>2, <4>1
      <3>4. Len(t) <= Size(0, l)
        BY <1>4, <2>4, <3>2
      <3>5. /\ Framed(Stream \o t, l)
            /\ Stream \o t # << >> => (Stream \o t)[1] = ByteOf(Expected, 1)
        <4>1. EndsBefore(Stream, l, 0) /\ (Stream = << >> => Expected = 0)
          BY <1>7, <1>8, <2>2
        <4>2. /\ Stream \in Seq(Byte) /\ l \in Seq(Nat) /\ 0 \in 0 .. Len(l)
              /\ Framed(Stream, l)
              /\ Stream # << >> => Stream[1] = ByteOf(Expected, 1)
              /\ t \in Seq(Byte) /\ Len(t) <= Size(0, l)
              /\ \A k \in 1 .. Len(t) : t[k] = ByteOf(0, k)
          BY <1>2, <1>4, <1>5, <1>7, <1>8, <3>2, <3>3, <3>4
        <4> QED BY <4>1, <4>2, GoesOn
      <3>6. Stream' = Stream \o t
        BY <1>1, <1>2, <3>2, Associative, SMTT(30) DEF Stream
      <3>7. w # Len(bytes)
        BY <1>3, <2>3, <2>4
      <3> QED BY <1>1, <3>5, <3>6, <3>7
    <2>5. CASE w > MarkSize
      <3> DEFINE u == Prefix(b, w - MarkSize)
                 sm == Stream \o Mark
      <3>1. t = Mark \o u
        BY <1>6, <2>1, <2>2, <2>3, <2>5, PrefixBoth
      <3>2. /\ u \in Seq(Byte) /\ Len(u) = w - MarkSize
            /\ \A k \in 1 .. w - MarkSize : u[k] = b[k]
            /\ w - MarkSize \in 0 .. HeaderSize + n
        <4>1. w - MarkSize \in 0 .. Len(b)
          BY <1>3, <1>6, <2>1, <2>3, <2>5
        <4> QED BY <1>6, <4>1, CutInTwo
      <3> HIDE DEF t, u
      <3>3. /\ sm \in Seq(Byte) /\ Framed(sm, l)
            /\ sm # << >> => sm[1] = ByteOf(Expected, 1)
            /\ EndsBefore(sm, l, q) /\ sm # << >>
        <4>1. EndsBefore(Stream, l, 0) /\ (Stream = << >> => Expected = 0)
          BY <1>7, <1>8, <2>2
        <4>2. Len(Mark) <= Size(0, l) /\ Len(Mark) = Size(0, l) /\ 0 + 1 = q
          BY <1>3, <1>4, <2>1, <2>2
        <4>3. \A k \in 1 .. Len(Mark) : Mark[k] = ByteOf(0, k)
          BY <2>1
        <4>4. /\ sm \in Seq(Byte) /\ Framed(sm, l)
              /\ sm # << >> => sm[1] = ByteOf(Expected, 1)
              /\ EndsBefore(sm, l, 0 + 1) /\ sm # << >>
          BY <1>2, <1>4, <1>5, <1>7, <1>8, <2>1, <4>1, <4>2, <4>3, GoesOn
        <4> QED BY <4>2, <4>4
      <3> HIDE DEF sm
      <3>4. ASSUME NEW k \in 1 .. Len(u) PROVE u[k] = ByteOf(q, k)
        <4>1. k \in 1 .. w - MarkSize /\ k \in 1 .. HeaderSize + n
          BY <1>3, <2>3, <3>2
        <4> QED BY <1>6, <3>2, <4>1
      <3>5. Len(u) <= Size(q, l)
        BY <1>3, <1>4, <3>2
      <3>6. /\ Framed(sm \o u, l)
            /\ sm \o u # << >> => (sm \o u)[1] = ByteOf(Expected, 1)
            /\ Len(u) = Size(q, l) => /\ EndsBefore(sm \o u, l, q + 1)
                                      /\ sm \o u # << >>
        BY <1>4, <1>5, <3>2, <3>3, <3>4, <3>5, GoesOn
      <3>7. Stream' = sm \o u
        <4>1. Mark \o u \in Seq(Byte)
          BY <2>1, <3>2, Concatenated
        <4>2. Stream' = Stream \o (Mark \o u)
          <5>1. Stream' = buffer \o (wire \o (Mark \o u))
            BY <1>1, <3>1 DEF Stream
          <5> DEFINE mu == Mark \o u
          <5>2. Stream' = buffer \o (wire \o mu) /\ mu \in Seq(Byte)
            BY <4>1, <5>1
          <5> HIDE DEF mu
          <5>3. buffer \o (wire \o mu) = (buffer \o wire) \o mu
            BY <1>2, <5>2, Associative
          <5> QED BY <5>2, <5>3 DEF Stream, mu
        <4> QED BY <1>2, <2>1, <3>2, <4>2, Associative DEF sm
      <3>8. link' = "up" => Len(u) = Size(q, l)
        <4>1. link' = "up" => w = MarkSize + (HeaderSize + n)
          BY <1>1, <2>3
        <4> QED BY <1>3, <1>4, <2>3, <3>2, <4>1
      <3> QED BY <1>1, <1>5, <3>6, <3>7, <3>8
    <2> QED BY <1>3, <2>3, <2>4, <2>5
  <1> QED BY <1>9, <1>10

LEMMA SendStep ==
    ASSUME StreamInv, NEW n \in Lengths, NEW w, Send(n, w)
    PROVE  StreamInv'
  <1> DEFINE l == Append(sent, n)
             b == PacketBytes(Len(sent) + 1, n)
             bytes == (IF loginSent THEN << >> ELSE Mark) \o b
  <1>1. /\ Len(sent) < MaxPackets
        /\ w \in 0 .. Len(bytes)
        /\ sent' = l /\ wire' = wire \o Prefix(bytes, w)
        /\ link' = IF w = Len(bytes) THEN "up" ELSE "closed"
        /\ loginSent' = TRUE
        /\ UNCHANGED <<reader, buffer, received, delivered>>
    BY DEF Send
  <1>2. /\ Len(sent) \in Nat /\ Len(delivered) \in Nat /\ Len(received) \in Nat
        /\ wire \in Seq(Byte) /\ n \in Nat /\ MaxPackets \in Nat
    BY LengthsTyped, LengthsAssumption, MaxPacketsAssumption DEF StreamInv
  <1>3. /\ l \in Seq(Lengths) /\ Len(l) = Len(sent) + 1
        /\ \A i \in 1 .. Len(sent) : l[i] = sent[i]
    BY SentTyped DEF StreamInv
  <1>4. wire' \in Seq(Byte)
    <2>1. Len(sent) + 1 \in 1 .. MaxPackets
      BY <1>1, <1>2
    <2>2. b \in Seq(Byte) /\ Mark \in Seq(Byte)
      BY <1>2, <2>1, BytesTyped
    <2> HIDE DEF b
    <2>3. (IF loginSent THEN << >> ELSE Mark) \in Seq(Byte)
      BY <2>2
    <2>4. bytes \in Seq(Byte)
      BY <2>2, <2>3, Concatenated
    <2> HIDE DEF bytes
    <2>5. Prefix(bytes, w) \in Seq(Byte)
      BY <1>1, <2>4, CutInTwo
    <2> QED BY <1>1, <1>2, <2>5, Concatenated
  <1> HIDE DEF l, bytes
  <1>5. TypeOK'
    BY <1>1, <1>3, <1>4 DEF StreamInv, TypeOK
  <1>6. Login'
    <2>1. Len(l) <= MaxPackets
      BY <1>1, <1>2, <1>3
    <2> QED BY <1>1, <2>1 DEF StreamInv, Login
  <1>7. Intact'
    <2>1. /\ Len(delivered) + Len(received) <= Len(sent)
          /\ \A i \in 1 .. Len(delivered) : delivered[i] = PacketBytes(i, sent[i])
          /\ \A i \in 1 .. Len(received) :
                received[i] = PacketBytes(Len(delivered) + i, sent[Len(delivered) + i])
      BY DEF StreamInv, Intact
    <2>2. Len(delivered) + Len(received) <= Len(l)
      BY <1>2, <1>3, <2>1
    <2>3. \A i \in 1 .. Len(delivered) : l[i] = sent[i]
      BY <1>2, <1>3, <2>1
    <2>4. \A i \in 1 .. Len(received) : l[Len(delivered) + i] = sent[Len(delivered) + i]
      <3>1. \A i \in 1 .. Len(received) : Len(delivered) + i \in 1 .. Len(sent)
        BY <1>2, <2>1
      <3> QED BY <1>3, <3>1
    <2> QED BY <1>1, <2>1, <2>2, <2>3, <2>4 DEF Intact
  <1>8. RoomToRead'
    BY <1>1 DEF StreamInv, RoomToRead
  <1>9. Streaming'
    <2>1. CASE Reading
      <3>1. Expected' = Expected /\ NextOut' = Len(sent) + 2
        <4>1. NextOut' = Len(l) + 1
          BY <1>1 DEF NextOut
        <4> QED BY <1>1, <1>2, <1>3, <4>1 DEF Expected
      <3>2. /\ Framed(Stream', sent')
            /\ Stream' # << >> => Stream'[1] = ByteOf(Expected, 1)
            /\ link' = "up" => /\ EndsBefore(Stream', sent', Len(sent) + 2)
                               /\ Stream' # << >>
        BY <2>1, SendStreams
      <3> QED BY <3>1, <3>2 DEF Streaming
    <2>2. CASE ~Reading
      BY <1>1, <2>2 DEF Streaming, Reading
    <2> QED BY <2>1, <2>2
  <1> QED BY <1>5, <1>6, <1>7, <1>8, <1>9 DEF StreamInv

LEMMA StreamStep == StreamInv /\ [Next]_vars => StreamInv'
  <1> SUFFICES ASSUME StreamInv, [Next]_vars PROVE StreamInv'
    OBVIOUS
  <1>1. ASSUME NEW n \in Lengths, NEW w, Send(n, w) PROVE StreamInv'
    BY <1>1, SendStep
  <1>2. CASE Close
    BY <1>2, CloseStep
  <1>3. CASE Reset
    BY <1>3, ResetStep
  <1>4. ASSUME NEW n, ReadMark(n) PROVE StreamInv'
    BY <1>4, MarkStep
  <1>5. ASSUME NEW n, Read(n) PROVE StreamInv'
    BY <1>5, ReadStep
  <1>6. CASE CutPacket
    BY <1>6, CutStep
  <1>7. CASE Deliver
    BY <1>7, DeliverStep
  <1>8. CASE ReadError
    BY <1>8, ErrorStep
  <1>9. CASE UNCHANGED vars
    <2>1. UNCHANGED <<loginSent, sent, wire, link, reader, buffer, received, delivered>>
      BY <1>9 DEF vars
    <2>2. Stream' = Stream /\ Expected' = Expected /\ NextOut' = NextOut /\ (Reading' <=> Reading)
      BY <2>1 DEF Stream, Expected, NextOut, Reading
    <2>3. Streaming'
      BY <2>1, <2>2 DEF StreamInv, Streaming
    <2>4. TypeOK'
      BY <2>1 DEF StreamInv, TypeOK
    <2>5. Login' /\ RoomToRead'
      BY <2>1 DEF StreamInv, Login, RoomToRead
    <2>6. Intact'
      BY <2>1 DEF StreamInv, Intact
    <2> QED BY <2>3, <2>4, <2>5, <2>6 DEF StreamInv
  <1> QED BY <1>1, <1>2, <1>3, <1>4, <1>5, <1>6, <1>7, <1>8, <1>9, Zenon DEF Next, Receive

LEMMA StreamKept == Spec => []StreamInv
  BY StreamInit, StreamStep, PTL DEF Spec

-----------------------------------------------------------------------------
(* Every variable keeps its type: what is in the buffer are bytes of packets *)
(* that were sent.                                                         *)
THEOREM StreamTypes == Spec => []TypeOK
  <1>1. StreamInv => TypeOK
    BY DEF StreamInv
  <1> QED BY <1>1, StreamKept, PTL

(* However the stream is cut into reads, Receive delivers the packets that   *)
(* were sent, whole and in order.                                          *)
THEOREM PacketsStayIntact == Spec => []PacketsIntact
  <1>1. StreamInv => PacketsIntact
    <2> HAVE StreamInv
    <2>1. /\ Len(delivered) \in Nat /\ Len(received) \in Nat /\ Len(sent) \in Nat
          /\ DOMAIN delivered = 1 .. Len(delivered)
      <3>1. delivered \in Seq(Seq(Byte))
        BY DEF StreamInv, TypeOK
      <3> QED BY <3>1, LengthsTyped DEF StreamInv
    <2> QED BY <2>1 DEF StreamInv, Intact, PacketsIntact
  <1> QED BY <1>1, StreamKept, PTL

(* Receive never asks recv for 0 bytes: the packet it is waiting for fits    *)
(* into what is left of the buffer.                                        *)
THEOREM AlwaysRoom == Spec => []RoomToRead
  <1>1. StreamInv => RoomToRead
    BY DEF StreamInv
  <1> QED BY <1>1, StreamKept, PTL
=============================================================================
