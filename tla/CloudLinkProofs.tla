---------------------------- MODULE CloudLinkProofs ----------------------------
(* Proofs about the link to the cloud, for bytes of any width, any frames, any *)
(* cache and any number of tasks.                                              *)
EXTENDS CloudLink, FiniteSetTheorems, WellFoundedInduction, TLAPS

-----------------------------------------------------------------------------
(* The operators *)

\* The least element of a set of numbers.
LEMMA Least == ASSUME NEW S \in SUBSET Nat, S # {}
               PROVE  Min(S) \in S /\ \A m \in S : Min(S) <= m
<1>1. \E n \in S : \A m \in S : ~ (<<m, n>> \in OpToRel(<, Nat))
  BY NatLessThanWellFounded, WFMin
<1>2. \E n \in S : \A m \in S : n <= m
  <2>1. ASSUME NEW n \in S, NEW m \in S, ~ (<<m, n>> \in OpToRel(<, Nat))
        PROVE  n <= m
    BY <2>1 DEF OpToRel
  <2> QED
    BY <1>1, <2>1
<1> QED
  BY <1>2, Zenon DEF Min

\* Division with remainder.
LEMMA DivMod ==
    ASSUME NEW b \in Nat \ {0}, NEW n \in Nat
    PROVE  n \div b \in Int /\ n % b \in 0..(b - 1) /\ (n % b) + b * (n \div b) = n
<1>1. n \div b \in Int /\ b * (n \div b) <= n
  OBVIOUS
<1>2. b * (n \div b) >= n - b + 1
  OBVIOUS
<1>3. PICK q \in Int : q = n \div b
  BY <1>1
<1>4. b * q \in Int
  OBVIOUS
<1>5. PICK r \in 0..(b - 1) : n = b * q + r
  BY <1>1, <1>2, <1>3, <1>4
<1>6. n % b = r
  BY <1>5
<1>7. r + b * q = n /\ r = n % b /\ q = n \div b
  BY <1>3, <1>5, <1>6
<1>8. ASSUME NEW x, NEW y, x = r, y = q PROVE x + b * y = n
  BY <1>7, <1>8
<1>9. n % b \in 0..(b - 1)
  BY <1>6
<1>10. (n % b) + b * (n \div b) = n
  BY <1>7, <1>8
<1> QED
  BY <1>1, <1>9, <1>10

\* What the two bytes of a long frame say of its length.
LEMMA TwoBytes == ASSUME NEW n \in Nat, n < Base * Base
                  PROVE  /\ n % Base \in Byte /\ n \div Base \in Byte
                         /\ (n % Base) + Base * (n \div Base) = n
<1>1. Base \in Nat \ {0}
  BY BytesAssumption
<1>2. n \div Base \in Int /\ n % Base \in 0..(Base - 1) /\ (n % Base) + Base * (n \div Base) = n
  BY <1>1, DivMod
<1>3. PICK q \in Int, r \in 0..(Base - 1) : q = n \div Base /\ r = n % Base
  BY <1>2
<1>4. r + Base * q = n
  BY <1>2, <1>3
<1>5. q < Base
  <2> SUFFICES ASSUME q >= Base PROVE FALSE
    BY <1>1
  <2>1. Base * q >= Base * Base
    BY <1>1
  <2>2. Base * q \in Int /\ Base * Base \in Int
    BY <1>1
  <2> QED
    BY <1>1, <1>4, <2>1, <2>2
<1>6. q >= 0
  <2> SUFFICES ASSUME q <= -1 PROVE FALSE
    OBVIOUS
  <2>1. Base * q <= -Base
    BY <1>1
  <2>2. Base * q \in Int
    BY <1>1
  <2> QED
    BY <1>1, <1>4, <2>1, <2>2
<1> QED
  BY <1>1, <1>2, <1>3, <1>5, <1>6 DEF Byte

\* What two and three sequences are, end to end.
LEMMA One == ASSUME NEW S, NEW x \in S
             PROVE  <<x>> \in Seq(S) /\ Len(<<x>>) = 1 /\ <<x>>[1] = x
OBVIOUS

LEMMA Three ==
    ASSUME NEW S, NEW x \in S, NEW y \in S, NEW z \in S
    PROVE  /\ <<x, y, z>> \in Seq(S) /\ Len(<<x, y, z>>) = 3
           /\ <<x, y, z>>[1] = x /\ <<x, y, z>>[2] = y /\ <<x, y, z>>[3] = z
OBVIOUS

LEMMA Cat == ASSUME NEW S, NEW a \in Seq(S), NEW b \in Seq(S)
  PROVE /\ a \o b \in Seq(S) /\ Len(a \o b) = Len(a) + Len(b)
        /\ \A i \in 1..Len(a) : (a \o b)[i] = a[i]
        /\ \A i \in 1..Len(b) : (a \o b)[Len(a) + i] = b[i]
OBVIOUS

LEMMA Cat3 == ASSUME NEW S, NEW a \in Seq(S), NEW b \in Seq(S), NEW c \in Seq(S)
  PROVE LET s == a \o b \o c IN
        /\ s \in Seq(S) /\ Len(s) = Len(a) + Len(b) + Len(c)
        /\ \A i \in 1..Len(a) : s[i] = a[i]
        /\ \A i \in 1..Len(b) : s[Len(a) + i] = b[i]
        /\ \A i \in 1..Len(c) : s[Len(a) + Len(b) + i] = c[i]
<1>1. PICK u \in Seq(S) : u = a \o b
  BY Cat
<1>2. /\ Len(u) = Len(a) + Len(b) 
      /\ \A i \in 1..Len(a) : u[i] = a[i]
      /\ \A i \in 1..Len(b) : u[Len(a) + i] = b[i]
  BY <1>1, Cat
<1>3. PICK s \in Seq(S) : s = u \o c
  BY Cat
<1>4. /\ Len(s) = Len(u) + Len(c) 
      /\ \A i \in 1..Len(u) : s[i] = u[i]
      /\ \A i \in 1..Len(c) : s[Len(u) + i] = c[i]
  BY <1>3, Cat
<1>5. Len(a) \in Nat /\ Len(b) \in Nat /\ Len(c) \in Nat
  OBVIOUS
<1>6. ASSUME NEW i \in 1..Len(a) PROVE s[i] = a[i]
  BY <1>2, <1>4, <1>5
<1>7. ASSUME NEW i \in 1..Len(b) PROVE s[Len(a) + i] = b[i]
  BY <1>2, <1>4, <1>5
<1>8. ASSUME NEW i \in 1..Len(c) PROVE s[Len(a) + Len(b) + i] = c[i]
  BY <1>2, <1>4, <1>5
<1>9. Len(s) = Len(a) + Len(b) + Len(c)
  BY <1>2, <1>4
<1>10. s = a \o b \o c
  BY <1>1, <1>3
<1> QED
  BY <1>6, <1>7, <1>8, <1>9, <1>10

\* A part of a sequence, and when two sequences are the same.
LEMMA Part ==
    ASSUME NEW S, NEW s \in Seq(S), NEW m \in 1..(Len(s) + 1), NEW n \in (m - 1)..Len(s)
    PROVE  /\ SubSeq(s, m, n) \in Seq(S) /\ Len(SubSeq(s, m, n)) = n - m + 1
           /\ \A i \in 1..(n - m + 1) : SubSeq(s, m, n)[i] = s[m + i - 1]
OBVIOUS

LEMMA SameSeq ==
    ASSUME NEW S, NEW a \in Seq(S), NEW b \in Seq(S),
           Len(a) = Len(b), \A i \in 1..Len(a) : a[i] = b[i]
    PROVE  a = b
OBVIOUS

LEMMA FunSeq == ASSUME NEW S, NEW n \in Nat, NEW f \in [1..n -> S]
                PROVE  f \in Seq(S) /\ Len(f) = n
OBVIOUS

\* The bytes of a frame: where its parameter begins and how long it is.
Params == {p \in Seq(Byte) : p # <<>> /\ Len(p) < Base * Base}
Start0(p) == IF Len(p) < Long THEN 3 ELSE 5
LEMMA FramedBytes ==
    ASSUME NEW p \in Params
    PROVE  /\ Framed(p) \in Seq(Byte)
           /\ Len(Framed(p)) = Len(p) + Start0(p)
           /\ Framed(p)[1] = HeadByte
           /\ Framed(p)[2] = IF Len(p) < Long THEN Len(p) ELSE Long
           /\ Len(p) >= Long => Framed(p)[3] = Len(p) % Base /\ Framed(p)[4] = Len(p) \div Base
           /\ \A i \in 1..Len(p) : Framed(p)[Start0(p) + i - 1] = p[i]
           /\ Framed(p)[Start0(p) + Len(p)] = TailByte
<1>0. p \in Seq(Byte) /\ Len(p) \in Nat /\ Len(p) > 0 /\ Len(p) < Base * Base
  BY DEF Params
<1>1. HeadByte \in Byte /\ TailByte \in Byte /\ Long \in Byte /\ Base \in Nat
  BY BytesAssumption DEF Byte, Long
<1> DEFINE h == IF Len(p) < Long THEN <<Len(p)>> ELSE <<Long, Len(p) % Base, Len(p) \div Base>>
<1>4. /\ h \in Seq(Byte) /\ Len(h) + 2 = Start0(p) /\ Len(h) \in {1, 3}
      /\ h[1] = IF Len(p) < Long THEN Len(p) ELSE Long
      /\ Len(p) >= Long => Len(h) = 3 /\ h[2] = Len(p) % Base /\ h[3] = Len(p) \div Base
  <2>0. Long \in Int /\ Len(p) \in Int
    BY <1>0, BytesAssumption DEF Long
  <2>1. CASE Len(p) < Long
    <3>1. PICK x \in Byte : x = Len(p)
      BY <1>0, <1>1, <2>1 DEF Byte, Long
    <3>2. h = <<x>>
      BY <2>1, <3>1
    <3> HIDE DEF h
    <3>3. h \in Seq(Byte) /\ Len(h) = 1 /\ h[1] = x
      BY <3>2, One
    <3> QED
      BY <2>0, <2>1, <3>1, <3>3 DEF Start0
  <2>2. CASE ~(Len(p) < Long)
    <3>1. PICK x \in Byte, y \in Byte, z \in Byte :
                x = Long /\ y = Len(p) % Base /\ z = Len(p) \div Base
      BY <1>0, <1>1, TwoBytes
    <3>2. h = <<x, y, z>>
      BY <2>2, <3>1
    <3> HIDE DEF h
    <3>3. h \in Seq(Byte) /\ Len(h) = 3 /\ h[1] = x /\ h[2] = y /\ h[3] = z
      BY <3>2, Three
    <3> QED
      BY <2>0, <2>2, <3>1, <3>3 DEF Start0
  <2> QED
    BY <2>1, <2>2
<1> HIDE DEF h
<1> DEFINE a == <<HeadByte>>
           z == <<TailByte>>
<1>5. /\ a \in Seq(Byte) /\ Len(a) = 1 /\ a[1] = HeadByte
      /\ z \in Seq(Byte) /\ Len(z) = 1 /\ z[1] = TailByte
  BY <1>1, One
<1>51. a \in Seq(Byte) /\ h \in Seq(Byte) /\ p \in Seq(Byte) /\ z \in Seq(Byte)
  BY <1>0, <1>4, <1>5
<1> HIDE DEF a, z
<1> DEFINE u == a \o h \o p
<1>6. /\ u \in Seq(Byte) /\ Len(u) = Len(a) + Len(h) + Len(p)
      /\ \A i \in 1..Len(a) : u[i] = a[i]
      /\ \A i \in 1..Len(h) : u[Len(a) + i] = h[i]
      /\ \A i \in 1..Len(p) : u[Len(a) + Len(h) + i] = p[i]
  BY <1>51, Cat3
<1> HIDE DEF u
<1> DEFINE s == u \o z
<1>7. /\ s \in Seq(Byte) /\ Len(s) = Len(u) + Len(z)
      /\ \A i \in 1..Len(u) : s[i] = u[i]
      /\ \A i \in 1..Len(z) : s[Len(u) + i] = z[i]
  <2>1. u \in Seq(Byte)
    BY <1>6
  <2> QED
    BY <1>51, <2>1, Cat
<1>8. Framed(p) = s
  BY DEF Framed, s, u, a, h, z
<1> HIDE DEF s
<1>9. Len(s) = Len(p) + Start0(p)
  BY <1>0, <1>4, <1>5, <1>6, <1>7
<1>10. s[1] = HeadByte
  BY <1>0, <1>4, <1>5, <1>6, <1>7
<1>11. \A i \in 1..Len(h) : s[1 + i] = h[i]
  BY <1>0, <1>4, <1>5, <1>6, <1>7
<1>12. s[2] = (IF Len(p) < Long THEN Len(p) ELSE Long)
  BY <1>4, <1>11
<1>13. ASSUME Len(p) >= Long PROVE s[3] = Len(p) % Base /\ s[4] = Len(p) \div Base
  <2>1. Len(h) = 3
    BY <1>4, <1>13
  <2>2. s[1 + 2] = h[2] /\ s[1 + 3] = h[3]
    BY <1>11, <2>1
  <2>3. s[3] = h[2] /\ s[4] = h[3]
    BY <2>2
  <2> QED
    BY <1>4, <1>13, <2>3
<1>14. ASSUME NEW i \in 1..Len(p) PROVE s[Start0(p) + i - 1] = p[i]
  BY <1>0, <1>4, <1>5, <1>6, <1>7
<1>15. s[Start0(p) + Len(p)] = TailByte
  BY <1>0, <1>4, <1>5, <1>6, <1>7
<1> QED
  BY <1>7, <1>8, <1>9, <1>10, <1>12, <1>13, <1>14, <1>15

\* A head in the first place has nothing in front of it.
LEMMA HeadFirst == ASSUME NEW c, NEW n \in Nat \ {0}, c[1] = HeadByte
                   PROVE  BeforeHead(c, n) = 0
<1> DEFINE S == {i \in 1..n : c[i] = HeadByte} \cup {n + 1}
<1>1. S \in SUBSET Nat /\ 1 \in S /\ \A i \in S : i >= 1
  OBVIOUS
<1>2. BeforeHead(c, n) = Min(S) - 1
  BY DEF BeforeHead
<1> HIDE DEF S
<1>3. PICK m \in Nat : m = Min(S) /\ m \in S /\ m <= 1
  BY <1>1, Least
<1>4. m = 1
  BY <1>1, <1>3
<1> QED
  BY <1>2, <1>3, <1>4

\* Less than three bytes are never looked at.
LEMMA GetShort == ASSUME NEW c, NEW n \in Nat, n < 3 PROVE MiniDataGet(c, n) = NoFrame(0)
<1>1. ~(n >= 3 /\ BeforeHead(c, n) > 0)
  OBVIOUS
<1> QED
  BY <1>1 DEF MiniDataGet

\* What miniDataGet takes for the length, and where it looks for the parameter.
LengthIn(c) == IF c[2] = Long THEN c[3] + Base * c[4] ELSE c[2]
StartIn(c) == IF c[2] = Long THEN 5 ELSE 3
LEMMA GetAtHead ==
    ASSUME NEW c, NEW n \in Nat, n >= 3, c[1] = HeadByte
    PROVE  MiniDataGet(c, n) =
             IF LengthIn(c) = 0 THEN NoFrame(1)
             ELSE IF n < LengthIn(c) + StartIn(c) THEN NoFrame(0)
             ELSE IF c[StartIn(c) + LengthIn(c)] # TailByte THEN NoFrame(1)
             ELSE Frame(StartIn(c) + LengthIn(c), SubSeq(c, StartIn(c), StartIn(c) + LengthIn(c) - 1))
<1>1. BeforeHead(c, n) = 0
  BY HeadFirst
<1>2. ~(n < 3) /\ ~(n >= 3 /\ BeforeHead(c, n) > 0)
  BY <1>1
<1> QED
  BY <1>2 DEF MiniDataGet, LengthIn, StartIn

\* miniDataGet reads a whole frame at the beginning of the cache back.
LEMMA GetFrame ==
    ASSUME NEW p \in Params, NEW c \in Seq(Byte), NEW n \in 0..Len(c),
           Len(Framed(p)) <= n, \A i \in 1..Len(Framed(p)) : c[i] = Framed(p)[i]
    PROVE  MiniDataGet(c, n) = Frame(Len(Framed(p)), p)
<1>0. p \in Seq(Byte) /\ Len(p) \in Nat /\ Len(p) > 0 /\ Len(p) < Base * Base
  BY DEF Params
<1>1. PICK q \in Seq(Byte) : q = Framed(p)
  BY FramedBytes
<1>2. /\ Len(q) = Len(p) + Start0(p)
      /\ q[1] = HeadByte
      /\ q[2] = IF Len(p) < Long THEN Len(p) ELSE Long
      /\ q[Start0(p) + Len(p)] = TailByte
  BY <1>1, FramedBytes
<1>3. \A i \in 1..Len(p) : q[Start0(p) + i - 1] = p[i]
  BY <1>1, FramedBytes
<1>4. Len(p) >= Long => q[3] = Len(p) % Base /\ q[4] = Len(p) \div Base
  BY <1>1, FramedBytes
<1>5. Long \in Nat /\ Start0(p) \in {3, 5} /\ (Start0(p) = 5 <=> Len(p) >= Long)
  BY <1>0, BytesAssumption DEF Long, Start0
<1>6. n \in Nat /\ n <= Len(c) /\ Len(q) <= n /\ \A i \in 1..Len(q) : c[i] = q[i]
  BY <1>1
<1>7. c[1] = HeadByte /\ c[2] = (IF Len(p) < Long THEN Len(p) ELSE Long)
  BY <1>0, <1>2, <1>5, <1>6
<1>8. c[2] = Long <=> Len(p) >= Long
  BY <1>0, <1>5, <1>7
<1>9. StartIn(c) = Start0(p)
  BY <1>0, <1>5, <1>8 DEF StartIn, Start0
<1>10. LengthIn(c) = Len(p)
  <2>1. CASE Len(p) >= Long
    <3>1. c[3] = q[3] /\ c[4] = q[4]
      BY <1>0, <1>2, <1>5, <1>6, <2>1
    <3>2. c[3] + Base * c[4] = Len(p)
      BY <1>0, <1>4, <2>1, <3>1, TwoBytes
    <3> QED
      BY <1>8, <2>1, <3>2 DEF LengthIn
  <2>2. CASE ~(Len(p) >= Long)
    BY <1>0, <1>5, <1>7, <1>8, <2>2 DEF LengthIn
  <2> QED
    BY <2>1, <2>2
<1>11. c[Start0(p) + Len(p)] = TailByte
  BY <1>0, <1>2, <1>5, <1>6
<1>12. SubSeq(c, Start0(p), Start0(p) + Len(p) - 1) = p
  <2>0. Start0(p) \in 1..(Len(c) + 1) /\ Start0(p) + Len(p) - 1 \in (Start0(p) - 1)..Len(c)
    BY <1>0, <1>2, <1>5, <1>6
  <2>1. PICK b, e : b = Start0(p) /\ e = Start0(p) + Len(p) - 1
    OBVIOUS
  <2>11. b \in 1..(Len(c) + 1) /\ e \in (b - 1)..Len(c)
    BY <2>0, <2>1
  <2>12. /\ SubSeq(c, b, e) \in Seq(Byte) /\ Len(SubSeq(c, b, e)) = e - b + 1
         /\ \A i \in 1..(e - b + 1) : SubSeq(c, b, e)[i] = c[b + i - 1]
    BY <2>11, Part
  <2>2. PICK s \in Seq(Byte) : /\ s = SubSeq(c, b, e) /\ Len(s) = e - b + 1
                               /\ \A i \in 1..(e - b + 1) : s[i] = c[b + i - 1]
    BY <2>12
  <2>3. Len(s) = Len(p)
    BY <1>0, <1>5, <2>1, <2>2
  <2>4. ASSUME NEW i \in 1..Len(p) PROVE s[i] = p[i]
    <3>1. s[i] = c[b + i - 1] /\ q[b + i - 1] = p[i]
      BY <1>0, <1>3, <2>1, <2>2, <2>3
    <3>0. Len(q) = Len(p) + b /\ b \in {3, 5}
      BY <1>2, <1>5, <2>1
    <3>2. b + i - 1 \in 1..Len(q)
      BY <1>0, <3>0
    <3> QED
      BY <1>6, <3>1, <3>2
  <2>5. s = p
    BY <1>0, <2>3, <2>4, SameSeq
  <2> QED
    BY <2>1, <2>2, <2>5
<1>13. n >= 3 /\ LengthIn(c) # 0 /\ ~(n < LengthIn(c) + StartIn(c))
  BY <1>0, <1>2, <1>5, <1>6, <1>9, <1>10
<1>14. MiniDataGet(c, n) = Frame(Start0(p) + Len(p), p)
  BY <1>6, <1>7, <1>9, <1>10, <1>11, <1>12, <1>13, GetAtHead
<1>15. Start0(p) + Len(p) = Len(Framed(p))
  BY <1>0, <1>1, <1>2, <1>5
<1> QED
  BY <1>14, <1>15

\* Fewer bytes than that are left in the cache, unless a length is read too early.
LEMMA GetPart ==
    ASSUME NEW p \in Params, NEW c \in Seq(Byte), NEW n \in 0..Len(c),
           n < Len(Framed(p)), \A i \in 1..n : c[i] = Framed(p)[i], ~ReadsStale(c, n)
    PROVE  MiniDataGet(c, n) = NoFrame(0)
<1>0. p \in Seq(Byte) /\ Len(p) \in Nat /\ Len(p) > 0 /\ Len(p) < Base * Base
  BY DEF Params
<1>1. PICK q \in Seq(Byte) : q = Framed(p)
  BY FramedBytes
<1>2. /\ Len(q) = Len(p) + Start0(p)
      /\ q[1] = HeadByte
      /\ q[2] = IF Len(p) < Long THEN Len(p) ELSE Long
  BY <1>1, FramedBytes
<1>3. Len(p) >= Long => q[3] = Len(p) % Base /\ q[4] = Len(p) \div Base
  BY <1>1, FramedBytes
<1>4. Long \in Nat /\ Start0(p) \in {3, 5} /\ (Start0(p) = 5 <=> Len(p) >= Long)
  BY <1>0, BytesAssumption DEF Long, Start0
<1>5. n \in Nat /\ n < Len(q) /\ \A i \in 1..n : c[i] = q[i]
  BY <1>1
<1>6. CASE n < 3
  BY <1>5, <1>6, GetShort
<1>7. CASE n >= 3
  <2>1. c[1] = HeadByte /\ c[2] = q[2]
    BY <1>2, <1>5, <1>7
  <2>2. c[2] = Long <=> Len(p) >= Long
    BY <1>0, <1>2, <1>4, <2>1
  <2>3. StartIn(c) = Start0(p)
    BY <1>0, <1>4, <2>2 DEF StartIn, Start0
  <2>4. LengthIn(c) = Len(p)
    <3>1. CASE Len(p) >= Long
      <4>1. n # 3
        BY <2>1, <2>2, <3>1 DEF ReadsStale
      <4>2. c[3] = q[3] /\ c[4] = q[4]
        BY <1>5, <1>7, <4>1
      <4>3. c[3] + Base * c[4] = Len(p)
        BY <1>0, <1>3, <3>1, <4>2, TwoBytes
      <4> QED
        BY <2>2, <3>1, <4>3 DEF LengthIn
    <3>2. CASE ~(Len(p) >= Long)
      BY <1>0, <1>2, <1>4, <2>1, <2>2, <3>2 DEF LengthIn
    <3> QED
      BY <3>1, <3>2
  <2>5. LengthIn(c) # 0 /\ n < LengthIn(c) + StartIn(c)
    <3>1. Len(q) = Len(p) + Start0(p)
      BY <1>2
    <3> QED
      BY <1>0, <1>5, <2>3, <2>4, <3>1
  <2> QED
    BY <1>5, <1>7, <2>1, <2>5, GetAtHead
<1> QED
  BY <1>5, <1>6, <1>7

\* What miniDataGet takes out of the cache is there.
LEMMA InFront ==
    ASSUME NEW c, NEW n \in Nat
    PROVE  BeforeHead(c, n) \in 0..n /\ (n > 0 /\ BeforeHead(c, n) = 0 => c[1] = HeadByte)
<1> DEFINE S == {i \in 1..n : c[i] = HeadByte} \cup {n + 1}
<1>1. S \in SUBSET Nat /\ n + 1 \in S /\ \A i \in S : i >= 1
  OBVIOUS
<1>2. 1 \in S /\ n > 0 => c[1] = HeadByte
  OBVIOUS
<1>3. BeforeHead(c, n) = Min(S) - 1
  BY DEF BeforeHead
<1> HIDE DEF S
<1>4. PICK m \in Nat : m = Min(S) /\ m \in S /\ m <= n + 1 /\ m >= 1
  BY <1>1, Least
<1> QED
  BY <1>2, <1>3, <1>4

LEMMA GetTypes ==
    ASSUME NEW c \in Seq(Byte), Len(c) > 4, NEW n \in 0..Len(c)
    PROVE  LET g == MiniDataGet(c, n)
           IN  g.skip \in 0..n /\ (g.ok => g.parm \in Seq(Byte) /\ g.parm # <<>>)
<1> DEFINE g == MiniDataGet(c, n)
<1>1. CASE n < 3
  <2>1. g = NoFrame(0)
    BY <1>1, GetShort
  <2> QED
    BY <2>1 DEF NoFrame
<1>2. CASE n >= 3 /\ BeforeHead(c, n) > 0
  <2>1. BeforeHead(c, n) \in 0..n
    BY InFront
  <2>2. ~(n < 3)
    BY <1>2
  <2>3. g = NoFrame(BeforeHead(c, n))
    BY <1>2, <2>2 DEF MiniDataGet
  <2> QED
    BY <2>1, <2>3 DEF NoFrame
<1>3. CASE n >= 3 /\ ~(BeforeHead(c, n) > 0)
  <2>1. c[1] = HeadByte
    BY <1>3, InFront
  <2>2. c[2] \in Nat /\ c[3] \in Nat /\ c[4] \in Nat
    <3>1. \A x \in Byte : x \in Nat
      BY BytesAssumption DEF Byte
    <3>2. c[2] \in Byte /\ c[3] \in Byte /\ c[4] \in Byte
      OBVIOUS
    <3> QED
      BY <3>1, <3>2
  <2>3. StartIn(c) \in {3, 5} /\ LengthIn(c) \in Nat
    <3>1. Base * c[4] \in Nat
      BY <2>2, BytesAssumption
    <3> QED
      BY <2>2, <3>1 DEF StartIn, LengthIn
  <2>4. PICK b \in {3, 5}, k \in Nat : b = StartIn(c) /\ k = LengthIn(c)
    BY <2>3
  <2>5. g = IF k = 0 THEN NoFrame(1)
            ELSE IF n < k + b THEN NoFrame(0)
            ELSE IF c[b + k] # TailByte THEN NoFrame(1)
            ELSE Frame(b + k, SubSeq(c, b, b + k - 1))
    BY <1>3, <2>1, <2>4, GetAtHead
  <2>6. CASE k = 0 \/ n < k + b \/ c[b + k] # TailByte
    <3>1. g = NoFrame(1) \/ g = NoFrame(0)
      BY <2>5, <2>6
    <3> QED
      BY <1>3, <3>1 DEF NoFrame
  <2>7. CASE ~(k = 0 \/ n < k + b \/ c[b + k] # TailByte)
    <3>1. g = Frame(b + k, SubSeq(c, b, b + k - 1))
      BY <2>5, <2>7
    <3>2. PICK e : e = b + k - 1
      OBVIOUS
    <3>3. b \in 1..(Len(c) + 1) /\ e \in (b - 1)..Len(c) /\ e - b + 1 > 0 /\ b + k \in 0..n
      BY <2>7, <3>2
    <3>4. SubSeq(c, b, e) \in Seq(Byte) /\ Len(SubSeq(c, b, e)) = e - b + 1
      BY <3>3, Part
    <3>5. SubSeq(c, b, e) # <<>>
      BY <3>3, <3>4
    <3>6. g.skip = b + k /\ g.parm = SubSeq(c, b, e)
      BY <3>1, <3>2 DEF Frame
    <3> QED
      BY <3>3, <3>4, <3>5, <3>6
  <2> QED
    BY <2>6, <2>7
<1> QED
  BY <1>1, <1>2, <1>3

-----------------------------------------------------------------------------
(* What is sent can be read back *)

LEMMA SentBack == ReadBack
<1> SUFFICES ASSUME NEW buf \in Outgoing, Len(buf) + 1 < Base
             PROVE  LET out == Request(DataRet, buf)
                    IN  MiniDataGet(out \o <<0, 0, 0, 0>>, Len(out))
                           = Frame(Len(out), <<DataRet>> \o buf)
  BY DEF ReadBack
<1>1. buf \in Seq(Byte) /\ DataRet \in Byte /\ Base \in Nat /\ Base > 3
  BY LinkAssumption, BytesAssumption
<1>2. PICK a \in Seq(Byte) : a = <<DataRet>> /\ Len(a) = 1
  BY <1>1, One
<1>21. PICK p \in Seq(Byte) : p = a \o buf
  BY <1>1, Cat
<1>3. p = <<DataRet>> \o buf /\ Len(p) = Len(buf) + 1
  <2>1. Len(p) = Len(a) + Len(buf) /\ Len(buf) \in Nat
    BY <1>1, <1>21, Cat
  <2>2. Len(p) = Len(buf) + 1
    BY <1>2, <2>1
  <2>3. p = <<DataRet>> \o buf
    BY <1>2, <1>21
  <2> QED
    BY <2>2, <2>3
<1>4. Len(buf) \in Nat /\ Len(p) \in Nat /\ Len(p) > 0 /\ Len(p) < Base
  BY <1>1, <1>3
<1>5. Len(p) < Base * Base
  <2>1. PICK m : m = Base * Base
    OBVIOUS
  <2>2. m >= Base /\ m \in Nat
    BY <1>1, <2>1
  <2>3. PICK l \in Nat : l = Len(p) /\ l < Base
    BY <1>4
  <2>4. l < m
    BY <1>1, <2>2, <2>3
  <2> QED
    BY <2>1, <2>3, <2>4
<1>6. p \in Params
  <2>1. p # <<>>
    BY <1>4
  <2> QED
    BY <1>5, <2>1 DEF Params
<1>7. (Len(buf) + 1) % Base = Len(p)
  <2>1. \A k, b \in Nat : k < b => k % b = k
    OBVIOUS
  <2> QED
    BY <1>1, <1>3, <1>4, <2>1
<1>8. SubSeq(p, 1, Len(p)) = p
  OBVIOUS
<1>9. Request(DataRet, buf) = Framed(p)
  <2>1. Request(DataRet, buf) = MiniDataCreate(p, Len(buf) + 1)
    BY <1>3 DEF Request
  <2>2. PICK n : n = (Len(buf) + 1) % Base
    OBVIOUS
  <2>3. MiniDataCreate(p, Len(buf) + 1) = IF n = 0 THEN <<>> ELSE Framed(SubSeq(p, 1, n))
    BY <2>2 DEF MiniDataCreate
  <2>4. n = Len(p) /\ n # 0
    BY <1>4, <1>7, <2>2
  <2> QED
    BY <1>8, <2>1, <2>3, <2>4
<1>10. PICK q \in Seq(Byte) : q = Framed(p)
  BY <1>6, FramedBytes
<1>11. PICK z \in Seq(Byte) : z = <<0, 0, 0, 0>>
  <2>1. 0 \in Byte
    BY <1>1 DEF Byte
  <2>2. <<0, 0, 0, 0>> \in Seq(Byte)
    BY <2>1
  <2> QED
    BY <2>2
<1>12. PICK c \in Seq(Byte) : c = q \o z
  BY Cat
<1>13. Len(c) = Len(q) + Len(z) /\ \A i \in 1..Len(q) : c[i] = q[i]
  BY <1>12, Cat
<1>14. Len(q) \in 0..Len(c)
  BY <1>13
<1>141. Len(Framed(p)) <= Len(q) /\ \A i \in 1..Len(Framed(p)) : c[i] = Framed(p)[i]
  <2>1. \A i \in 1..Len(q) : c[i] = q[i]
    BY <1>13
  <2> QED
    BY <1>10, <2>1
<1>15. MiniDataGet(c, Len(q)) = Frame(Len(Framed(p)), p)
  BY <1>6, <1>14, <1>141, GetFrame
<1> QED
  BY <1>3, <1>9, <1>10, <1>11, <1>12, <1>15

\* THEOREM.  Whatever the application sends, with a length a byte can hold,
\* is framed so that miniDataGet finds it: the mark for a long length and the
\* one byte of a short one never mislead it.
THEOREM Readable == Spec => []ReadBack
BY SentBack, PTL

-----------------------------------------------------------------------------
(* Types *)

Socket == [srv : {"none", "dispatch", "transfer"},
           state : {"free", "opening", "failed", "up", "gone"},
           phase : {"new", "asked", "answered", "granted", "done"},
           wire : Seq(Byte)]

LinkTypes ==
    /\ link \in [Fds -> Socket]
    /\ sent \in Seq(Seq(Byte)) /\ got \in Seq(Seq(Byte))

Typed == TypeOK /\ LinkTypes

\* A pass over the actions of Next, for the proofs about its steps.
Acts ==
    \/ \E t \in Tasks :
         \/ Start(t) \/ LookupFails(t) \/ NoAddress(t) \/ NoSocket(t) \/ Connect(t)
         \/ ConnectFails(t) \/ Connected(t) \/ Recv(t) \/ RecvEnds(t) \/ CutFrame(t)
         \/ CloseSocket(t)
         \/ \E n \in 1..CacheSize :
              RecvAddress(t, n) \/ RecvAsked(t, n) \/ RecvGranted(t, n) \/ RecvData(t, n)
    \/ \E f \in Fds :
         \/ SendsAddress(f) \/ AsksLogin(f) \/ GrantsLogin(f)
         \/ \E p \in Frames : SendsFrame(f, p)
         \/ \E reset \in BOOLEAN : HangsUp(f, reset)
LEMMA NextActs == Next => Acts
BY DEF Next, Task, Server, Acts

LEMMA MinTwo == ASSUME NEW a \in Nat, NEW b \in Nat
                PROVE  Min({a, b}) \in {a, b} /\ Min({a, b}) <= a /\ Min({a, b}) <= b
<1>1. {a, b} \in SUBSET Nat /\ {a, b} # {} /\ a \in {a, b} /\ b \in {a, b}
  OBVIOUS
<1> QED
  BY <1>1, Least

\* The first free descriptor.
LEMMA FirstFree == ASSUME Free # {} PROVE Min(Free) \in Fds /\ link[Min(Free)] = Nothing
<1>1. Free \in SUBSET Nat /\ Free \in SUBSET Fds
  BY DEF Free, Fds
<1> QED
  BY <1>1, Least DEF Free

LEMMA NothingTyped == Nothing \in Socket
<1>1. <<>> \in Seq(Byte)
  OBVIOUS
<1> QED
  BY <1>1 DEF Nothing, Socket

LEMMA DataTyped == ASSUME NEW p \in Seq(Byte), p # <<>> PROVE DataOf(p) \in Seq(Seq(Byte))
<1>1. Tail(p) \in Seq(Byte)
  OBVIOUS
<1>2. PICK x \in Seq(Byte) : x = Tail(p)
  BY <1>1
<1>3. <<x>> \in Seq(Seq(Byte)) /\ <<>> \in Seq(Seq(Byte))
  BY One
<1>4. <<Tail(p)>> \in Seq(Seq(Byte))
  BY <1>2, <1>3
<1> QED
  BY <1>3, <1>4 DEF DataOf

LEMMA HistoryTyped ==
    ASSUME NEW c \in BOOLEAN, NEW s \in Seq(Seq(Byte)), NEW g \in Seq(Seq(Byte)), History(c, s, g)
    PROVE  clean' \in BOOLEAN /\ sent' \in Seq(Seq(Byte)) /\ got' \in Seq(Seq(Byte))
<1>1. <<>> \in Seq(Seq(Byte))
  OBVIOUS
<1> QED
  BY <1>1 DEF History

LEMMA CacheTyped ==
    ASSUME NEW bytes \in [1..CacheSize -> Byte], NEW n \in 0..(CacheSize - 1), Cache(bytes, n)
    PROVE  cache' \in [1..CacheSize -> Byte] /\ len' \in 0..(CacheSize - 1)
<1>1. 0 \in Byte
  BY BytesAssumption DEF Byte
<1> QED
  BY <1>1 DEF Cache

\* What a chunk leaves in the cache.
LEMMA StoreTyped ==
    ASSUME Typed, NEW chunk \in Seq(Byte), Len(chunk) < CacheSize, Store(chunk)
    PROVE  /\ cache' \in [1..CacheSize -> Byte] /\ len' \in 0..(CacheSize - 1)
           /\ clean' \in BOOLEAN /\ sent' \in Seq(Seq(Byte)) /\ got' \in Seq(Seq(Byte))
<1>0. /\ CacheSize \in Nat /\ len \in 0..(CacheSize - 1) /\ cache \in [1..CacheSize -> Byte]
      /\ Len(chunk) \in Nat /\ clean \in BOOLEAN
      /\ sent \in Seq(Seq(Byte)) /\ got \in Seq(Seq(Byte))
  BY LinkAssumption DEF Typed, TypeOK, LinkTypes
<1>1. PICK n \in Nat : n = (IF Fits(chunk) THEN len ELSE 0)
  BY <1>0
<1>2. n + Len(chunk) \in 0..(CacheSize - 1)
  BY <1>0, <1>1 DEF Fits
<1>3. Added(chunk, n) \in [1..CacheSize -> Byte]
  <2>1. ASSUME NEW i \in 1..CacheSize, i \in (n + 1)..(n + Len(chunk))
        PROVE  chunk[i - n] \in Byte
    BY <1>0, <2>1
  <2> QED
    BY <1>0, <2>1 DEF Added
<1>4. Cache(Added(chunk, n), n + Len(chunk)) /\ History(clean /\ (len = 0 \/ Fits(chunk)), sent, got)
  BY <1>1 DEF Store
<1>5. cache' \in [1..CacheSize -> Byte] /\ len' \in 0..(CacheSize - 1)
  BY <1>2, <1>3, <1>4, CacheTyped
<1>6. (clean /\ (len = 0 \/ Fits(chunk))) \in BOOLEAN
  BY <1>0
<1>7. clean' \in BOOLEAN /\ sent' \in Seq(Seq(Byte)) /\ got' \in Seq(Seq(Byte))
  BY <1>0, <1>4, <1>6, HistoryTyped
<1> QED
  BY <1>5, <1>7

\* The bytes a task takes off its descriptor, and those that stay there.
Rest(t, n) == SubSeq(link[on[t]].wire, n + 1, Len(link[on[t]].wire))
LEMMA ChunkTyped ==
    ASSUME Typed, NEW t \in Tasks, NEW n \in Nat, HasBytes(t, n)
    PROVE  /\ on[t] \in Fds /\ link[on[t]].wire \in Seq(Byte) /\ n \in 1..Len(link[on[t]].wire)
           /\ Chunk(t, n) \in Seq(Byte) /\ Len(Chunk(t, n)) = n
           /\ \A i \in 1..n : Chunk(t, n)[i] = link[on[t]].wire[i]
           /\ Rest(t, n) \in Seq(Byte) /\ Len(Rest(t, n)) = Len(link[on[t]].wire) - n
           /\ \A i \in 1..Len(Rest(t, n)) : Rest(t, n)[i] = link[on[t]].wire[n + i]
<1>1. on[t] \in Fds /\ n > 0
  BY LinkAssumption DEF Typed, TypeOK, HasBytes, Fds
<1>2. PICK w \in Seq(Byte) : w = link[on[t]].wire
  BY <1>1 DEF Typed, LinkTypes, Socket
<1>3. n \in 1..Len(w) /\ Len(w) \in Nat
  BY <1>2 DEF HasBytes
<1>4. /\ SubSeq(w, 1, n) \in Seq(Byte) /\ Len(SubSeq(w, 1, n)) = n
      /\ \A i \in 1..n : SubSeq(w, 1, n)[i] = w[i]
  BY <1>3, Part
<1>5. n + 1 \in 1..(Len(w) + 1) /\ Len(w) \in n..Len(w)
  BY <1>3
<1>6. PICK m : m = n + 1
  OBVIOUS
<1>7. m \in 1..(Len(w) + 1) /\ Len(w) \in (m - 1)..Len(w)
  BY <1>5, <1>6
<1>8. /\ SubSeq(w, m, Len(w)) \in Seq(Byte) /\ Len(SubSeq(w, m, Len(w))) = Len(w) - m + 1
      /\ \A i \in 1..(Len(w) - m + 1) : SubSeq(w, m, Len(w))[i] = w[m + i - 1]
  BY <1>7, Part
<1>9. PICK r \in Seq(Byte) : r = SubSeq(w, m, Len(w))
  BY <1>8
<1>10. Len(r) = Len(w) - n
  BY <1>3, <1>6, <1>8, <1>9
<1>11. ASSUME NEW i \in 1..Len(r) PROVE r[i] = w[n + i]
  <2>1. i \in 1..(Len(w) - m + 1)
    BY <1>3, <1>6, <1>10
  <2>2. r[i] = w[m + i - 1] /\ m + i - 1 = n + i
    BY <1>3, <1>6, <1>8, <1>9, <2>1
  <2> QED
    BY <2>2
<1>12. Rest(t, n) = r /\ Chunk(t, n) = SubSeq(w, 1, n)
  BY <1>2, <1>6, <1>9 DEF Rest, Chunk
<1> QED
  BY <1>1, <1>2, <1>3, <1>4, <1>10, <1>11, <1>12

LEMMA TakeTyped ==
    ASSUME Typed, NEW t \in Tasks, NEW n \in Nat, HasBytes(t, n), Take(t, n)
    PROVE  /\ link' \in [Fds -> Socket]
           /\ link' = [link EXCEPT ![on[t]] = [link[on[t]] EXCEPT !.wire = Rest(t, n)]]
<1>1. on[t] \in Fds /\ Rest(t, n) \in Seq(Byte)
  BY ChunkTyped
<1>2. link \in [Fds -> Socket]
  BY DEF Typed, LinkTypes
<1>3. link' = [link EXCEPT ![on[t]] = [link[on[t]] EXCEPT !.wire = Rest(t, n)]]
  BY DEF Take, Rest
<1>4. PICK r \in Seq(Byte) : r = Rest(t, n)
  BY <1>1
<1>5. [link[on[t]] EXCEPT !.wire = r] \in Socket
  BY <1>1, <1>2 DEF Socket
<1> QED
  BY <1>1, <1>2, <1>3, <1>4, <1>5

LEMMA TypeInit == Init => Typed
<1> SUFFICES ASSUME Init PROVE Typed
  OBVIOUS
<1>1. 0 \in Byte /\ <<>> \in Seq(Seq(Byte))
  BY BytesAssumption DEF Byte
<1>2. TypeOK
  BY <1>1, LinkAssumption DEF Init, TypeOK
<1>3. LinkTypes
  BY <1>1, NothingTyped DEF Init, LinkTypes
<1> QED
  BY <1>2, <1>3 DEF Typed

LEMMA TypeStep == Typed /\ [Next]_vars => Typed'
<1> SUFFICES ASSUME Typed, [Next]_vars PROVE Typed'
  OBVIOUS
<1>0. /\ MaxFds \in Nat \ {0} /\ Fds = 1..MaxFds /\ CacheSize \in Nat /\ CacheSize > 4
      /\ AddrLen \in Nat \ {0} /\ MaxEvents \in Nat
  BY LinkAssumption DEF Fds
<1>01. /\ link \in [Fds -> Socket] /\ sent \in Seq(Seq(Byte)) /\ got \in Seq(Seq(Byte))
       /\ clean \in BOOLEAN
  BY DEF Typed, LinkTypes, TypeOK
<1>02. (clean /\ Alone') \in BOOLEAN /\ (Alone /\ len = 0) \in BOOLEAN
       /\ (clean /\ ~ReadsStale(cache, len)) \in BOOLEAN /\ <<>> \in Seq(Seq(Byte)) /\ <<>> \in Seq(Byte)
  BY <1>01
<1>1. ASSUME NEW t \in Tasks, Start(t) PROVE Typed'
  <2>1. clean' \in BOOLEAN /\ sent' \in Seq(Seq(Byte)) /\ got' \in Seq(Seq(Byte))
    BY <1>1, <1>01, <1>02, HistoryTyped DEF Start
  <2>2. events' \in 0..MaxEvents
    BY <1>1, <1>0 DEF Typed, TypeOK, Start
  <2> QED
    BY <1>1, <2>1, <2>2 DEF Typed, TypeOK, LinkTypes, Start
<1>2. ASSUME NEW t \in Tasks, LookupFails(t) PROVE Typed'
  <2>1. 0 \in Byte
    BY BytesAssumption DEF Byte
  <2>2. clean' \in BOOLEAN /\ sent' \in Seq(Seq(Byte)) /\ got' \in Seq(Seq(Byte))
    BY <1>2, <1>02, HistoryTyped DEF LookupFails
  <2>3. TypeOK'
    BY <1>0, <1>2, <2>1, <2>2 DEF TypeOK, LookupFails
  <2>4. link' \in [Fds -> Socket]
    BY <1>2, NothingTyped DEF LookupFails
  <2> QED
    BY <2>2, <2>3, <2>4 DEF Typed, LinkTypes
<1>3. ASSUME NEW t \in Tasks, NoAddress(t) PROVE Typed'
  BY <1>3 DEF Typed, TypeOK, LinkTypes, NoAddress, Onward, history
<1>4. ASSUME NEW t \in Tasks, NoSocket(t) PROVE Typed'
  BY <1>0, <1>4 DEF Typed, TypeOK, LinkTypes, NoSocket, Onward, history
<1>5. ASSUME NEW t \in Tasks, Connect(t) PROVE Typed'
  <2>1. PICK f \in Fds : f = Min(Free)
    BY <1>5, FirstFree DEF Connect
  <2>2. /\ sock' = f /\ on' = [on EXCEPT ![t] = f]
        /\ link' = [link EXCEPT ![f] = [Nothing EXCEPT !.srv = at[t], !.state = "opening"]]
    BY <1>5, <2>1 DEF Connect
  <2>3. [Nothing EXCEPT !.srv = at[t], !.state = "opening"] \in Socket
    BY <1>02 DEF Nothing, Socket, Typed, TypeOK
  <2>4. link' \in [Fds -> Socket]
    BY <1>01, <2>2, <2>3
  <2>5. TypeOK'
    BY <1>0, <1>5, <2>2 DEF Typed, TypeOK, Connect, history
  <2> QED
    BY <1>01, <1>5, <2>4, <2>5 DEF Typed, LinkTypes, Connect, history
<1>6. ASSUME NEW t \in Tasks, ConnectFails(t) PROVE Typed'
  <2>1. on[t] \in 0..MaxFds
    BY DEF Typed, TypeOK
  <2>2. link' \in [Fds -> Socket]
    BY <1>0, <1>01, <1>6, <2>1 DEF ConnectFails, Socket
  <2>3. TypeOK'
    BY <1>0, <1>6 DEF Typed, TypeOK, ConnectFails, Onward, history
  <2> QED
    BY <1>01, <1>6, <2>2, <2>3 DEF Typed, LinkTypes, ConnectFails, history
<1>7. ASSUME NEW t \in Tasks, Connected(t) PROVE Typed'
  <2>1. on[t] \in Fds
    BY <1>0, <1>7 DEF Typed, TypeOK, Connected
  <2>2. link' \in [Fds -> Socket]
    BY <1>01, <1>7, <2>1 DEF Connected, Socket
  <2>3. clean' \in BOOLEAN /\ sent' \in Seq(Seq(Byte)) /\ got' \in Seq(Seq(Byte))
    <3>1. CASE at[t] = "transfer"
      BY <1>02, <1>7, <3>1, HistoryTyped DEF Connected
    <3>2. CASE at[t] # "transfer"
      BY <1>01, <1>7, <3>2 DEF Connected, history
    <3> QED
      BY <3>1, <3>2
  <2>4. TypeOK'
    BY <1>7, <2>3 DEF Typed, TypeOK, Connected
  <2> QED
    BY <2>2, <2>3, <2>4 DEF Typed, LinkTypes
<1>8. ASSUME NEW t \in Tasks, Recv(t) PROVE Typed'
  BY <1>0, <1>8 DEF Typed, TypeOK, LinkTypes, Recv, Open, history
<1>9. ASSUME NEW t \in Tasks, RecvEnds(t) PROVE Typed'
  BY <1>9 DEF Typed, TypeOK, LinkTypes, RecvEnds, history
<1>10. ASSUME NEW t \in Tasks, CutFrame(t) PROVE Typed'
  <2> DEFINE g == MiniDataGet(cache, len)
             moved == [i \in 1..CacheSize |-> cache[IF i <= len - g.skip THEN g.skip + i ELSE i]]
             given == IF g.ok THEN got \o DataOf(g.parm) ELSE got
  <2>1. cache \in [1..CacheSize -> Byte] /\ len \in 0..(CacheSize - 1)
    BY DEF Typed, TypeOK
  <2>2. cache \in Seq(Byte) /\ Len(cache) = CacheSize /\ len \in 0..Len(cache)
    BY <1>0, <2>1, FunSeq
  <2>3. g.skip \in 0..len /\ (g.ok => g.parm \in Seq(Byte) /\ g.parm # <<>>)
    BY <1>0, <2>2, GetTypes
  <2>4. /\ Cache(moved, len - g.skip)
        /\ History(clean /\ ~ReadsStale(cache, len), sent, given)
        /\ pc' = [pc EXCEPT ![t] = IF g.skip > 0 THEN "frames" ELSE "loop"]
        /\ UNCHANGED <<at, on, rvlen, addr, login, sock, link, events>>
    BY <1>10 DEF CutFrame
  <2>5. given \in Seq(Seq(Byte))
    <3>1. CASE g.ok
      <4>1. PICK p \in Seq(Byte) : p = g.parm /\ p # <<>>
        BY <2>3, <3>1
      <4>2. DataOf(p) \in Seq(Seq(Byte))
        BY <4>1, DataTyped
      <4>3. got \o DataOf(p) \in Seq(Seq(Byte))
        BY <1>01, <4>2, Cat
      <4> QED
        BY <3>1, <4>1, <4>3
    <3>2. CASE ~g.ok
      BY <1>01, <3>2
    <3> QED
      BY <3>1, <3>2
  <2> HIDE DEF given
  <2>6. clean' \in BOOLEAN /\ sent' \in Seq(Seq(Byte)) /\ got' \in Seq(Seq(Byte))
    BY <1>01, <1>02, <2>4, <2>5, HistoryTyped
  <2> HIDE DEF g
  <2>7. moved \in [1..CacheSize -> Byte] /\ len - g.skip \in 0..(CacheSize - 1)
    BY <1>0, <2>1, <2>3
  <2> HIDE DEF moved
  <2>8. cache' \in [1..CacheSize -> Byte] /\ len' \in 0..(CacheSize - 1)
    BY <2>4, <2>7, CacheTyped
  <2>9. TypeOK'
    BY <2>4, <2>6, <2>8 DEF Typed, TypeOK
  <2> QED
    BY <1>01, <2>4, <2>6, <2>9 DEF Typed, LinkTypes
<1>11. ASSUME NEW t \in Tasks, CloseSocket(t) PROVE Typed'
  <2>1. link' \in [Fds -> Socket]
    BY <1>01, <1>11, NothingTyped DEF CloseSocket
  <2>2. TypeOK'
    BY <1>0, <1>11 DEF Typed, TypeOK, CloseSocket, Onward, history
  <2> QED
    BY <1>01, <1>11, <2>1, <2>2 DEF Typed, LinkTypes, CloseSocket, history
<1>12. ASSUME NEW t \in Tasks, NEW n \in 1..CacheSize, RecvAddress(t, n) PROVE Typed'
  <2>1. n \in Nat /\ HasBytes(t, n) /\ Take(t, n)
    BY <1>0, <1>12 DEF RecvAddress
  <2>2. link' \in [Fds -> Socket]
    BY <2>1, TakeTyped
  <2>3. rvlen[t] \in Nat /\ rvlen \in [Tasks -> 0..AddrLen]
    BY <1>0 DEF Typed, TypeOK
  <2>4. PICK a \in Nat : a = rvlen[t] + n
    BY <2>1, <2>3
  <2>5. PICK m : m = Min({a, AddrLen})
    OBVIOUS
  <2>6. m \in 0..AddrLen
    BY <1>0, <2>5, MinTwo
  <2>7. rvlen' = [rvlen EXCEPT ![t] = m]
    BY <1>12, <2>4, <2>5 DEF RecvAddress
  <2>8. rvlen' \in [Tasks -> 0..AddrLen]
    BY <2>3, <2>6, <2>7
  <2>9. TypeOK'
    BY <1>12, <2>8 DEF Typed, TypeOK, RecvAddress, history
  <2> QED
    BY <1>01, <1>12, <2>2, <2>9 DEF Typed, LinkTypes, RecvAddress, history
<1>13. ASSUME NEW t \in Tasks, NEW n \in 1..CacheSize, RecvAsked(t, n) PROVE Typed'
  <2>0. HasBytes(t, n)
    BY <1>13, Zenon DEF RecvAsked
  <2>1. n \in Nat /\ HasBytes(t, n)
    BY <1>0, <2>0
  <2>2. on[t] \in Fds /\ Rest(t, n) \in Seq(Byte)
    BY <2>1, ChunkTyped
  <2>3. PICK r \in Seq(Byte) : r = Rest(t, n)
    BY <2>2
  <2>4. link' = [f \in Fds |-> [link[f] EXCEPT
                  !.wire = IF f = on[t] THEN r ELSE @,
                  !.phase = IF f = sock /\ Chunk(t, n)[1] = 0 THEN HxtcpSend(@) ELSE @]]
    BY <1>13, <2>2, <2>3 DEF RecvAsked, Rest
  <2>5. ASSUME NEW f \in Fds PROVE link'[f] \in Socket
    <3>1. link[f] \in Socket
      BY <1>01
    <3>2. HxtcpSend(link[f].phase) \in {"new", "asked", "answered", "granted", "done"}
      BY <3>1 DEF HxtcpSend, Socket
    <3> QED
      BY <2>3, <2>4, <3>1, <3>2 DEF Socket
  <2>6. link' \in [Fds -> Socket]
    BY <2>4, <2>5
  <2>7. TypeOK'
    BY <1>13 DEF Typed, TypeOK, RecvAsked, history
  <2> QED
    BY <1>01, <1>13, <2>6, <2>7 DEF Typed, LinkTypes, RecvAsked, history
<1>14. ASSUME NEW t \in Tasks, NEW n \in 1..CacheSize, RecvGranted(t, n) PROVE Typed'
  <2>1. n \in Nat /\ HasBytes(t, n) /\ Take(t, n) /\ Store(Tail(Chunk(t, n)))
    BY <1>0, <1>14 DEF RecvGranted
  <2>2. link' \in [Fds -> Socket]
    BY <2>1, TakeTyped
  <2>3. PICK c \in Seq(Byte) : c = Chunk(t, n) /\ Len(c) = n
    BY <2>1, ChunkTyped
  <2>4. Tail(c) \in Seq(Byte) /\ Len(Tail(c)) = n - 1
    BY <2>3
  <2>5. Len(Tail(c)) < CacheSize
    BY <1>0, <2>4
  <2>6. /\ cache' \in [1..CacheSize -> Byte] /\ len' \in 0..(CacheSize - 1)
        /\ clean' \in BOOLEAN /\ sent' \in Seq(Seq(Byte)) /\ got' \in Seq(Seq(Byte))
    BY <2>1, <2>3, <2>4, <2>5, StoreTyped
  <2>7. TypeOK'
    BY <1>14, <2>6 DEF Typed, TypeOK, RecvGranted
  <2> QED
    BY <2>2, <2>6, <2>7 DEF Typed, LinkTypes
<1>15. ASSUME NEW t \in Tasks, NEW n \in 1..CacheSize, RecvData(t, n) PROVE Typed'
  <2>1. n \in Nat /\ n < CacheSize /\ HasBytes(t, n) /\ Take(t, n) /\ Store(Chunk(t, n))
    BY <1>0, <1>15 DEF RecvData
  <2>2. link' \in [Fds -> Socket]
    BY <2>1, TakeTyped
  <2>3. PICK c \in Seq(Byte) : c = Chunk(t, n) /\ Len(c) = n
    BY <2>1, ChunkTyped
  <2>4. /\ cache' \in [1..CacheSize -> Byte] /\ len' \in 0..(CacheSize - 1)
        /\ clean' \in BOOLEAN /\ sent' \in Seq(Seq(Byte)) /\ got' \in Seq(Seq(Byte))
    BY <2>1, <2>3, StoreTyped
  <2>5. TypeOK'
    BY <1>15, <2>4 DEF Typed, TypeOK, RecvData
  <2> QED
    BY <2>2, <2>4, <2>5 DEF Typed, LinkTypes
<1>16. ASSUME NEW f \in Fds, SendsAddress(f) PROVE Typed'
  <2>1. PICK w \in Seq(Byte) : w = [i \in 1..AddrLen |-> 0]
    <3>1. 0 \in Byte
      BY BytesAssumption DEF Byte
    <3>2. [i \in 1..AddrLen |-> 0] \in [1..AddrLen -> Byte]
      BY <3>1
    <3>3. [i \in 1..AddrLen |-> 0] \in Seq(Byte)
      BY <1>0, <3>2, FunSeq
    <3> QED
      BY <3>3
  <2>2. link' = [link EXCEPT ![f].phase = "done", ![f].wire = w]
    BY <1>16, <2>1 DEF SendsAddress
  <2>3. link' \in [Fds -> Socket]
    BY <1>01, <2>2 DEF Socket
  <2> QED
    BY <1>16, <2>3 DEF Typed, TypeOK, LinkTypes, SendsAddress, ServerUnchanged, taskVars, history
<1>17. ASSUME NEW f \in Fds, AsksLogin(f) \/ GrantsLogin(f) PROVE Typed'
  <2>1. PICK x \in {0, 1}, ph \in {"asked", "granted"} :
             link' = [link EXCEPT ![f].phase = ph, ![f].wire = Append(@, x)]
    BY <1>17 DEF AsksLogin, GrantsLogin
  <2>2. link[f].wire \in Seq(Byte)
    BY <1>01 DEF Socket
  <2>3. 0 \in Byte /\ 1 \in Byte
    BY BytesAssumption DEF Byte
  <2>4. PICK w \in Seq(Byte) : w = Append(link[f].wire, x)
    <3>1. PICK v \in Seq(Byte) : v = link[f].wire
      BY <2>2
    <3>2. x \in Byte
      BY <2>3
    <3>3. Append(v, x) \in Seq(Byte)
      BY <3>2
    <3> QED
      BY <3>1, <3>3
  <2>5. link' = [link EXCEPT ![f].phase = ph, ![f].wire = w]
    BY <1>01, <2>1, <2>4
  <2>6. link' \in [Fds -> Socket]
    BY <1>01, <2>5 DEF Socket
  <2> QED
    BY <1>17, <2>6 DEF Typed, TypeOK, LinkTypes, AsksLogin, GrantsLogin, ServerUnchanged, taskVars, history
<1>18. ASSUME NEW f \in Fds, NEW p \in Frames, SendsFrame(f, p) PROVE Typed'
  <2>1. p \in Params /\ p \in Seq(Byte) /\ p # <<>>
    BY LinkAssumption DEF Params
  <2>2. PICK q \in Seq(Byte) : q = Framed(p)
    BY <2>1, FramedBytes
  <2>3. PICK w \in Seq(Byte) : w = link[f].wire
    BY <1>01 DEF Socket
  <2>4. PICK v \in Seq(Byte) : v = w \o q
    BY Cat
  <2>5. link' = [link EXCEPT ![f].wire = v]
    BY <1>01, <1>18, <2>2, <2>3, <2>4 DEF SendsFrame
  <2>6. link' \in [Fds -> Socket]
    BY <1>01, <2>5 DEF Socket
  <2>7. sent \o DataOf(p) \in Seq(Seq(Byte))
    BY <1>01, <2>1, DataTyped, Cat
  <2>8. clean' \in BOOLEAN /\ sent' \in Seq(Seq(Byte)) /\ got' \in Seq(Seq(Byte))
    BY <1>01, <1>18, <2>7, HistoryTyped DEF SendsFrame
  <2>9. /\ events' \in 0..MaxEvents
        /\ UNCHANGED <<pc, at, on, rvlen, addr, login, sock, cache, len>>
    BY <1>0, <1>18 DEF Typed, TypeOK, SendsFrame, taskVars
  <2>10. TypeOK'
    BY <2>8, <2>9 DEF Typed, TypeOK
  <2> QED
    BY <2>6, <2>8, <2>10 DEF Typed, LinkTypes
<1>19. ASSUME NEW f \in Fds, NEW reset \in BOOLEAN, HangsUp(f, reset) PROVE Typed'
  <2>1. link' \in [Fds -> Socket]
    <3>1. PICK w \in Seq(Byte) : w = IF reset THEN <<>> ELSE link[f].wire
      BY <1>01, <1>02 DEF Socket
    <3>2. link' = [link EXCEPT ![f].state = "gone", ![f].wire = w]
      BY <1>01, <1>19, <3>1 DEF HangsUp
    <3> QED
      BY <1>01, <3>2 DEF Socket
  <2> QED
    BY <1>19, <2>1 DEF Typed, TypeOK, LinkTypes, HangsUp, ServerUnchanged, taskVars, history
<1>20. CASE UNCHANGED vars
  BY <1>20 DEF Typed, TypeOK, LinkTypes, vars, taskVars, history
<1> QED
  BY <1>1, <1>2, <1>3, <1>4, <1>5, <1>6, <1>7, <1>8, <1>9, <1>10, <1>11, <1>12, <1>13, <1>14,
     <1>15, <1>16, <1>17, <1>18, <1>19, <1>20, NextActs DEF Acts

LEMMA TypedAlways == Spec => []Typed
BY TypeInit, TypeStep, PTL DEF Spec

\* THEOREM.  Every variable keeps its type, for any cache and any frames: what is
\* in use of the cache never reaches its end.
THEOREM TypeCorrect == Spec => []TypeOK
<1>1. Typed => TypeOK
  BY DEF Typed
<1> QED
  BY <1>1, TypedAlways, PTL

-----------------------------------------------------------------------------
(* One task alone has one socket *)

AtWork == {"loop", "recv", "frames", "close"}

Single == \A t, u \in Running : t = u

\* A free descriptor has nothing behind it; before the grant a server sends
\* nothing but zeros, and the dispatch server never grants a login.
Sound(s) ==
    /\ s.state = "free" => s = Nothing
    /\ s.phase # "granted" => \A i \in 1..Len(s.wire) : s.wire[i] = 0
    /\ s.srv = "dispatch" => s.phase # "granted"

Sockets == \A f \in Fds : Sound(link[f])

\* Before the first task nothing is open, and only a task at work is logged in.
Quiet ==
    /\ Running = {} => \A f \in Fds : link[f] = Nothing
    /\ \A t \in Tasks : login[t] => pc[t] \in AtWork /\ at[t] = "transfer"

\* The task that is alone: what it holds of the shared socket in each place.
LoneTask(t) ==
    /\ pc[t] = "create" => \A f \in Fds : link[f].state \in {"free", "failed"}
    /\ pc[t] # "create" =>
          /\ sock \in Fds /\ link[sock].srv = at[t]
          /\ \A f \in Fds \ {sock} : link[f].state \in {"free", "failed"}
    /\ pc[t] = "connect" =>
          on[t] = sock /\ link[sock] = [Nothing EXCEPT !.srv = at[t], !.state = "opening"]
    /\ pc[t] \in AtWork => link[sock].state \in {"up", "gone"}
    /\ pc[t] = "recv" => on[t] = sock
    /\ pc[t] = "frames" => login[t]
    /\ login[t] => link[sock].phase = "granted"

LinkInv ==
    /\ IsFiniteSet(Running)
    /\ Sockets
    /\ Quiet
    /\ Single => \A t \in Running : LoneTask(t)

LEMMA AloneSingle == ASSUME IsFiniteSet(Running) PROVE Alone <=> Single
<1>1. ASSUME Alone, NEW t \in Running, NEW u \in Running, t # u PROVE FALSE
  <2>1. {t, u} \subseteq Running
    OBVIOUS
  <2>2. Cardinality({t, u}) <= Cardinality(Running)
    BY <2>1, FS_Subset
  <2>3. Cardinality({t, u}) = 2
    <3>1. IsFiniteSet({t}) /\ Cardinality({t}) = 1
      BY FS_Singleton
    <3>2. Cardinality({t} \cup {u}) = Cardinality({t}) + 1
      BY <1>1, <3>1, FS_AddElement
    <3>3. {t} \cup {u} = {t, u}
      OBVIOUS
    <3> QED
      BY <3>1, <3>2, <3>3
  <2>4. Cardinality(Running) \in Nat
    BY FS_CardinalityType
  <2> QED
    BY <1>1, <2>2, <2>3, <2>4 DEF Alone
<1>2. ASSUME Single PROVE Alone
  <2>1. CASE Running = {}
    BY <2>1, FS_EmptySet DEF Alone
  <2>2. CASE Running # {}
    <3>1. PICK t \in Running : TRUE
      BY <2>2
    <3>2. Running = {t}
      BY <1>2, <3>1 DEF Single
    <3>3. Cardinality({t}) = 1
      BY FS_Singleton
    <3> QED
      BY <3>2, <3>3 DEF Alone
  <2> QED
    BY <2>1, <2>2
<1> QED
  BY <1>1, <1>2 DEF Single

LEMMA NothingSound == Sound(Nothing)
BY DEF Sound, Nothing

\* Every step but a restart and RecvAsked touches one socket at most.
LEMMA OneSocket ==
    ASSUME Typed, Sockets, NEW f \in Fds, NEW s, Sound(s), link' = [link EXCEPT ![f] = s]
    PROVE  Sockets'
BY DEF Typed, LinkTypes, Sockets

LEMMA SocketsStep == Typed /\ Sockets /\ [Next]_vars => Sockets'
<1> SUFFICES ASSUME Typed, Sockets, [Next]_vars PROVE Sockets'
  OBVIOUS
<1>0. /\ link \in [Fds -> Socket] /\ Fds = 1..MaxFds /\ MaxFds \in Nat /\ CacheSize \in Nat
      /\ \A f \in Fds : Sound(link[f])
  BY LinkAssumption DEF Typed, LinkTypes, Sockets, Fds
<1>1. ASSUME NEW t \in Tasks, LookupFails(t) PROVE Sockets'
  BY <1>1, NothingSound DEF LookupFails, Sockets
<1>2. ASSUME NEW t \in Tasks, Connect(t) PROVE Sockets'
  <2>1. PICK f \in Fds : f = Min(Free)
    BY <1>2, FirstFree DEF Connect
  <2>2. PICK s : s = [Nothing EXCEPT !.srv = at[t], !.state = "opening"]
    OBVIOUS
  <2>3. link' = [link EXCEPT ![f] = s]
    BY <1>2, <2>1, <2>2 DEF Connect
  <2>4. Sound(s)
    BY <2>2 DEF Sound, Nothing
  <2> QED
    BY <2>3, <2>4, OneSocket
<1>3. ASSUME NEW t \in Tasks, ConnectFails(t) PROVE Sockets'
  <2>1. CASE on[t] = 0
    BY <1>0, <1>3, <2>1 DEF ConnectFails, Sockets
  <2>2. CASE on[t] # 0
    <3>1. on[t] \in Fds
      BY <1>0, <2>2 DEF Typed, TypeOK
    <3>2. PICK s : s = [link[on[t]] EXCEPT !.state = "failed"]
      OBVIOUS
    <3>3. link' = [link EXCEPT ![on[t]] = s]
      BY <1>0, <1>3, <2>2, <3>1, <3>2 DEF ConnectFails
    <3>4. Sound(s)
      BY <1>0, <3>1, <3>2 DEF Sound, Socket
    <3> QED
      BY <3>1, <3>3, <3>4, OneSocket
  <2> QED
    BY <2>1, <2>2
<1>4. ASSUME NEW t \in Tasks, Connected(t) PROVE Sockets'
  <2>1. on[t] \in Fds
    BY <1>0, <1>4 DEF Typed, TypeOK, Connected
  <2>2. PICK s : s = [link[on[t]] EXCEPT !.state = "up"]
    OBVIOUS
  <2>3. link' = [link EXCEPT ![on[t]] = s]
    BY <1>0, <1>4, <2>1, <2>2 DEF Connected
  <2>4. Sound(s)
    BY <1>0, <2>1, <2>2 DEF Sound, Socket
  <2> QED
    BY <2>1, <2>3, <2>4, OneSocket
<1>5. ASSUME NEW t \in Tasks, CloseSocket(t) PROVE Sockets'
  BY <1>0, <1>5, NothingSound, OneSocket DEF CloseSocket, Open, Sockets
<1>6. ASSUME NEW t \in Tasks, NEW n \in Nat, HasBytes(t, n), Take(t, n) PROVE Sockets'
  <2>1. PICK s : s = [link[on[t]] EXCEPT !.wire = Rest(t, n)]
    OBVIOUS
  <2>2. on[t] \in Fds /\ link' = [link EXCEPT ![on[t]] = s]
    BY <1>6, <2>1, TakeTyped, ChunkTyped
  <2>3. /\ Rest(t, n) \in Seq(Byte) /\ link[on[t]].wire \in Seq(Byte) /\ n \in 1..Len(link[on[t]].wire)
        /\ Len(Rest(t, n)) = Len(link[on[t]].wire) - n
        /\ \A i \in 1..Len(Rest(t, n)) : Rest(t, n)[i] = link[on[t]].wire[n + i]
    BY <1>6, ChunkTyped
  <2>4. /\ s.srv = link[on[t]].srv /\ s.state = link[on[t]].state
        /\ s.phase = link[on[t]].phase /\ s.wire = Rest(t, n)
    BY <1>0, <2>1, <2>2 DEF Socket
  <2>5. link[on[t]] # Nothing
    BY <2>3 DEF Nothing
  <2>6. Sound(link[on[t]])
    BY <1>0, <2>2
  <2>7. s.state # "free"
    BY <2>4, <2>5, <2>6 DEF Sound
  <2>8. ASSUME s.phase # "granted", NEW i \in 1..Len(s.wire) PROVE s.wire[i] = 0
    <3>1. n + i \in 1..Len(link[on[t]].wire)
      BY <2>3, <2>4
    <3>2. link[on[t]].wire[n + i] = 0
      BY <2>4, <2>6, <2>8, <3>1 DEF Sound
    <3> QED
      BY <2>3, <2>4, <3>2
  <2>9. Sound(s)
    BY <2>4, <2>6, <2>7, <2>8 DEF Sound
  <2> QED
    BY <2>2, <2>9, OneSocket
<1>7. ASSUME NEW t \in Tasks, NEW n \in 1..CacheSize, RecvAsked(t, n) PROVE Sockets'
  <2>0. HasBytes(t, n)
    BY <1>7, Zenon DEF RecvAsked
  <2>1. n \in Nat
    BY <1>0
  <2>2. PICK r \in Seq(Byte) : r = Rest(t, n)
    BY <2>0, <2>1, ChunkTyped
  <2>3. link' = [f \in Fds |-> [link[f] EXCEPT
                  !.wire = IF f = on[t] THEN r ELSE @,
                  !.phase = IF f = sock /\ Chunk(t, n)[1] = 0 THEN HxtcpSend(@) ELSE @]]
    <3>1. SubSeq(link[on[t]].wire, n + 1, Len(link[on[t]].wire)) = r
      BY <2>2 DEF Rest
    <3> QED
      BY <1>7, <3>1 DEF RecvAsked
  <2>4. /\ on[t] \in Fds /\ n \in 1..Len(link[on[t]].wire) /\ link[on[t]].wire \in Seq(Byte)
        /\ Len(r) = Len(link[on[t]].wire) - n
        /\ \A i \in 1..Len(r) : r[i] = link[on[t]].wire[n + i]
    BY <2>0, <2>1, <2>2, ChunkTyped
  <2>5. ASSUME NEW f \in Fds PROVE Sound(link'[f])
    <3>1. link[f] \in Socket /\ Sound(link[f])
      BY <1>0
    <3>2. PICK w, ph : /\ w = IF f = on[t] THEN r ELSE link[f].wire
                       /\ ph = IF f = sock /\ Chunk(t, n)[1] = 0
                               THEN HxtcpSend(link[f].phase) ELSE link[f].phase
      OBVIOUS
    <3>3. link'[f] = [link[f] EXCEPT !.wire = w, !.phase = ph]
      BY <2>3, <3>1, <3>2 DEF Socket
    <3>4. /\ link'[f].srv = link[f].srv /\ link'[f].state = link[f].state
          /\ link'[f].wire = w /\ link'[f].phase = ph
      BY <3>1, <3>3 DEF Socket
    <3>5. /\ ph = "granted" <=> link[f].phase = "granted"
          /\ link[f].phase = "new" => ph = "new"
      BY <3>2 DEF HxtcpSend
    <3>6. CASE link[f].state = "free"
      <4>1. link[f] = Nothing /\ f # on[t]
        BY <2>4, <3>1, <3>6 DEF Sound, Nothing
      <4>2. w = link[f].wire /\ ph = link[f].phase
        BY <3>2, <3>5, <4>1 DEF Nothing
      <4>3. link'[f] = link[f]
        BY <3>1, <3>3, <4>2 DEF Socket
      <4> QED
        BY <3>1, <4>3
    <3>7. CASE link[f].state # "free"
      <4>1. ASSUME ph # "granted", NEW i \in 1..Len(w) PROVE w[i] = 0
        <5>1. link[f].phase # "granted"
          BY <3>5, <4>1
        <5>2. \A j \in 1..Len(link[f].wire) : link[f].wire[j] = 0
          BY <3>1, <5>1 DEF Sound
        <5>3. CASE f = on[t]
          <6>1. w = r /\ n + i \in 1..Len(link[f].wire)
            BY <2>4, <3>2, <4>1, <5>3
          <6> QED
            BY <2>4, <4>1, <5>2, <5>3, <6>1
        <5>4. CASE f # on[t]
          BY <3>2, <4>1, <5>2, <5>4
        <5> QED
          BY <5>3, <5>4
      <4> QED
        BY <3>1, <3>4, <3>5, <3>7, <4>1 DEF Sound
    <3> QED
      BY <3>6, <3>7
  <2> QED
    BY <2>5 DEF Sockets
<1>8. ASSUME NEW t \in Tasks, NEW n \in 1..CacheSize,
             RecvAddress(t, n) \/ RecvGranted(t, n) \/ RecvData(t, n)
      PROVE  Sockets'
  <2>1. n \in Nat /\ HasBytes(t, n) /\ Take(t, n)
    BY <1>0, <1>8 DEF RecvAddress, RecvGranted, RecvData
  <2> QED
    BY <1>6, <2>1
<1>9. ASSUME NEW f \in Fds, SendsAddress(f) PROVE Sockets'
  <2>1. PICK w : w = [i \in 1..AddrLen |-> 0]
    OBVIOUS
  <2>2. \A i \in 1..Len(w) : w[i] = 0
    <3>1. AddrLen \in Nat /\ w \in [1..AddrLen -> {0}]
      BY <2>1, LinkAssumption
    <3>2. Len(w) = AddrLen
      BY <3>1, FunSeq
    <3> QED
      BY <3>1, <3>2
  <2>3. PICK s : s = [link[f] EXCEPT !.phase = "done", !.wire = w]
    OBVIOUS
  <2>4. link' = [link EXCEPT ![f] = s]
    BY <1>0, <1>9, <2>1, <2>3 DEF SendsAddress
  <2>5. Sound(s)
    BY <1>0, <1>9, <2>2, <2>3 DEF Sound, Socket, SendsAddress
  <2> QED
    BY <2>4, <2>5, OneSocket
<1>10. ASSUME NEW f \in Fds, AsksLogin(f) PROVE Sockets'
  <2>1. PICK w \in Seq(Byte) : w = link[f].wire
    BY <1>0 DEF Socket
  <2>2. PICK v : v = Append(w, 0)
    OBVIOUS
  <2>3. \A i \in 1..Len(w) : w[i] = 0
    BY <1>0, <1>10, <2>1 DEF AsksLogin, Sound
  <2>4. \A i \in 1..Len(v) : v[i] = 0
    <3>1. Len(v) = Len(w) + 1 /\ Len(w) \in Nat
      BY <2>2
    <3>2. ASSUME NEW i \in 1..Len(v) PROVE v[i] = 0
      BY <2>2, <2>3, <3>1
    <3> QED
      BY <3>2
  <2>5. PICK s : s = [link[f] EXCEPT !.phase = "asked", !.wire = v]
    OBVIOUS
  <2>6. link' = [link EXCEPT ![f] = s]
    BY <1>0, <1>10, <2>1, <2>2, <2>5 DEF AsksLogin
  <2>7. s.state = "up" /\ s.wire = v /\ s.phase = "asked"
    BY <1>0, <1>10, <2>5 DEF Socket, AsksLogin
  <2>8. Sound(s)
    BY <2>4, <2>7 DEF Sound
  <2> QED
    BY <2>6, <2>8, OneSocket
<1>11. ASSUME NEW f \in Fds, GrantsLogin(f) PROVE Sockets'
  <2>1. PICK s : s = [link[f] EXCEPT !.phase = "granted", !.wire = Append(@, 1)]
    OBVIOUS
  <2>2. link' = [link EXCEPT ![f] = s]
    BY <1>0, <1>11, <2>1 DEF GrantsLogin
  <2>3. s.state = "up" /\ s.srv = "transfer" /\ s.phase = "granted"
    BY <1>0, <1>11, <2>1 DEF Socket, GrantsLogin
  <2>4. Sound(s)
    BY <2>3 DEF Sound
  <2> QED
    BY <2>2, <2>4, OneSocket
<1>12. ASSUME NEW f \in Fds, NEW p \in Frames, SendsFrame(f, p) PROVE Sockets'
  <2>1. PICK s : s = [link[f] EXCEPT !.wire = @ \o Framed(p)]
    OBVIOUS
  <2>2. link' = [link EXCEPT ![f] = s]
    BY <1>0, <1>12, <2>1 DEF SendsFrame
  <2>3. s.state = "up" /\ s.srv = link[f].srv /\ s.phase = "granted" /\ link[f].phase = "granted"
    BY <1>0, <1>12, <2>1 DEF Socket, SendsFrame
  <2>4. Sound(s)
    BY <1>0, <2>3 DEF Sound
  <2> QED
    BY <2>2, <2>4, OneSocket
<1>13. ASSUME NEW f \in Fds, NEW reset \in BOOLEAN, HangsUp(f, reset) PROVE Sockets'
  <2>1. PICK w : w = IF reset THEN <<>> ELSE link[f].wire
    OBVIOUS
  <2>2. PICK s : s = [link[f] EXCEPT !.state = "gone", !.wire = w]
    OBVIOUS
  <2>3. link' = [link EXCEPT ![f] = s]
    BY <1>0, <1>13, <2>1, <2>2 DEF HangsUp
  <2>4. s.state = "gone" /\ s.wire = w /\ s.srv = link[f].srv /\ s.phase = link[f].phase
    BY <1>0, <2>2 DEF Socket
  <2>5. link[f].phase # "granted" => \A i \in 1..Len(w) : w[i] = 0
    BY <1>0, <2>1 DEF Sound
  <2>6. Sound(s)
    BY <1>0, <2>4, <2>5 DEF Sound
  <2> QED
    BY <2>3, <2>6, OneSocket
<1>14. ASSUME UNCHANGED link PROVE Sockets'
  BY <1>14 DEF Sockets
<1>15. ASSUME NEW t \in Tasks, \/ Start(t) \/ NoAddress(t) \/ NoSocket(t) \/ Recv(t) \/ RecvEnds(t)
                               \/ CutFrame(t)
       PROVE  Sockets'
  <2>1. UNCHANGED link
    BY <1>15, Zenon DEF Start, NoAddress, NoSocket, Recv, RecvEnds, CutFrame
  <2> QED
    BY <1>14, <2>1
<1>16. CASE UNCHANGED vars
  BY <1>14, <1>16 DEF vars
<1> QED
  BY <1>1, <1>2, <1>3, <1>4, <1>5, <1>7, <1>8, <1>9, <1>10, <1>11, <1>12, <1>13, <1>15, <1>16,
     NextActs DEF Acts

\* A task at work moves on alone: it is enough to follow it.
LEMMA LoneMove ==
    ASSUME Typed, LinkInv, NEW t \in Tasks, pc[t] # "off",
           NEW place \in {"create", "connect", "loop", "recv", "frames", "close"},
           pc' = [pc EXCEPT ![t] = place], Sockets',
           login'[t] => pc'[t] \in AtWork /\ at'[t] = "transfer",
           \A u \in Tasks \ {t} : login'[u] = login[u] /\ at'[u] = at[u],
           Single => LoneTask(t)'
    PROVE  LinkInv'
<1>1. pc \in [Tasks -> {"off", "create", "connect", "loop", "recv", "frames", "close"}]
  BY DEF Typed, TypeOK
<1>2. t \in Running /\ Running' = Running
  BY <1>1 DEF Running
<1>3. Single' <=> Single
  BY <1>2 DEF Single
<1>4. Single => \A u \in Running' : u = t
  BY <1>2 DEF Single
<1>5. (Single => \A u \in Running : LoneTask(u))'
  BY <1>3, <1>4
<1>6. Quiet'
  <2>1. Running' # {}
    BY <1>2
  <2>2. ASSUME NEW u \in Tasks, login'[u] PROVE pc'[u] \in AtWork /\ at'[u] = "transfer"
    BY <1>1, <2>2 DEF LinkInv, Quiet
  <2> QED
    BY <2>1, <2>2 DEF Quiet
<1> QED
  BY <1>2, <1>5, <1>6 DEF LinkInv

\* So does a server, of which nothing can be heard before a task runs.
LEMMA LoneServer ==
    ASSUME Typed, LinkInv, NEW f \in Fds, link[f].state = "up", NEW s \in Socket,
           s.srv = link[f].srv, s.state \in {"up", "gone"},
           link[f].phase = "granted" => s.phase = "granted",
           link' = [link EXCEPT ![f] = s], UNCHANGED <<pc, at, on, login, sock>>, Sockets'
    PROVE  LinkInv'
<1>0. link \in [Fds -> Socket] /\ pc \in [Tasks -> {"off", "create", "connect", "loop", "recv", "frames", "close"}]
  BY DEF Typed, LinkTypes, TypeOK
<1>1. Running' = Running /\ (Single' <=> Single)
  BY DEF Running, Single
<1>2. Running # {}
  BY DEF LinkInv, Quiet, Nothing
<1>3. ASSUME Single, NEW t \in Running PROVE LoneTask(t)'
  <2>0. LoneTask(t) /\ pc[t] # "off"
    BY <1>3 DEF LinkInv, Running
  <2>1. pc[t] # "create" /\ f = sock /\ sock \in Fds /\ link[sock].srv = at[t]
    BY <2>0 DEF LoneTask
  <2>2. pc[t] # "connect"
    BY <2>0, <2>1 DEF LoneTask, Nothing
  <2>3. link'[sock] = s /\ \A g \in Fds \ {sock} : link'[g] = link[g]
    BY <1>0, <2>1
  <2>4. \A g \in Fds \ {sock} : link[g].state \in {"free", "failed"}
    BY <2>0, <2>1 DEF LoneTask
  <2>5. /\ pc[t] = "recv" => on[t] = sock
        /\ pc[t] = "frames" => login[t]
        /\ login[t] => link[sock].phase = "granted"
    BY <2>0 DEF LoneTask
  <2> QED
    BY <2>1, <2>2, <2>3, <2>4, <2>5 DEF LoneTask
<1>4. Quiet'
  BY <1>1, <1>2 DEF LinkInv, Quiet
<1> QED
  BY <1>1, <1>3, <1>4 DEF LinkInv

LEMMA LinkInit == Init => LinkInv
<1> SUFFICES ASSUME Init PROVE LinkInv
  OBVIOUS
<1>1. Running = {}
  BY DEF Init, Running
<1>2. IsFiniteSet(Running)
  BY <1>1, FS_EmptySet
<1>3. Sockets
  BY NothingSound DEF Init, Sockets
<1>4. Quiet
  BY <1>1 DEF Init, Quiet
<1> QED
  BY <1>1, <1>2, <1>3, <1>4 DEF LinkInv

LEMMA LinkStep == Typed /\ LinkInv /\ [Next]_vars => LinkInv'
<1> SUFFICES ASSUME Typed, LinkInv, [Next]_vars PROVE LinkInv'
  OBVIOUS
<1>0. /\ link \in [Fds -> Socket] /\ Fds = 1..MaxFds /\ MaxFds \in Nat /\ CacheSize \in Nat
      /\ \A f \in Fds : Sound(link[f])
      /\ pc \in [Tasks -> {"off", "create", "connect", "loop", "recv", "frames", "close"}]
      /\ at \in [Tasks -> {"dispatch", "transfer"}] /\ on \in [Tasks -> 0..MaxFds]
      /\ login \in [Tasks -> BOOLEAN]
  BY LinkAssumption DEF Typed, LinkTypes, TypeOK, LinkInv, Sockets, Fds
<1>01. Sockets'
  BY SocketsStep DEF LinkInv
<1>02. ASSUME NEW t \in Tasks, pc[t] # "off", Single PROVE LoneTask(t)
  BY <1>02 DEF LinkInv, Running
<1>03. \A t \in Tasks : login[t] => pc[t] \in AtWork /\ at[t] = "transfer"
  BY DEF LinkInv, Quiet
<1>1. ASSUME NEW t \in Tasks, Start(t) PROVE LinkInv'
  <2>0. pc[t] = "off" /\ pc' = [pc EXCEPT ![t] = "create"] /\ UNCHANGED <<at, on, login, sock, link>>
    BY <1>1 DEF Start
  <2>1. t \notin Running /\ Running' = Running \cup {t}
    BY <1>0, <2>0 DEF Running
  <2>2. IsFiniteSet(Running')
    BY <2>1, FS_AddElement DEF LinkInv
  <2>3. Quiet'
    BY <1>0, <1>03, <2>0, <2>1 DEF Quiet, AtWork
  <2>4. ASSUME Single', NEW u \in Running' PROVE LoneTask(u)'
    <3>1. u = t /\ Running = {}
      BY <2>1, <2>4 DEF Single
    <3>2. \A f \in Fds : link[f].state = "free"
      BY <3>1 DEF LinkInv, Quiet, Nothing
    <3>3. ~login[t]
      BY <1>03, <2>0 DEF AtWork
    <3> QED
      BY <1>0, <2>0, <3>1, <3>2, <3>3 DEF LoneTask, AtWork
  <2> QED
    BY <1>01, <2>2, <2>3, <2>4 DEF LinkInv
<1>2. ASSUME NEW t \in Tasks, LookupFails(t) PROVE LinkInv'
  <2>1. Running' = {}
    BY <1>2 DEF LookupFails, Running
  <2>2. IsFiniteSet(Running')
    BY <2>1, FS_EmptySet
  <2>3. Quiet'
    BY <1>2 DEF LookupFails, Quiet
  <2> QED
    BY <1>01, <2>1, <2>2, <2>3 DEF LinkInv
<1>3. ASSUME NEW t \in Tasks, NoAddress(t) \/ NoSocket(t) PROVE LinkInv'
  <2>1. /\ pc[t] = "create" /\ pc' = [pc EXCEPT ![t] = "create"]
        /\ at' = [at EXCEPT ![t] = IF @ = "dispatch" THEN "transfer" ELSE "dispatch"]
        /\ UNCHANGED <<on, login, link>>
    BY <1>3 DEF NoAddress, NoSocket, Onward
  <2>2. ~login[t]
    BY <1>03, <2>1 DEF AtWork
  <2>3. Single => LoneTask(t)'
    BY <1>0, <1>02, <2>1, <2>2 DEF LoneTask, AtWork
  <2> QED
    BY <1>0, <1>01, <2>1, <2>2, <2>3, LoneMove
<1>4. ASSUME NEW t \in Tasks, Connect(t) PROVE LinkInv'
  <2>1. PICK f \in Fds : f = Min(Free) /\ link[f] = Nothing
    BY <1>4, FirstFree DEF Connect
  <2>2. PICK s : s = [Nothing EXCEPT !.srv = at[t], !.state = "opening"]
    OBVIOUS
  <2>3. /\ pc[t] = "create" /\ pc' = [pc EXCEPT ![t] = "connect"]
        /\ link' = [link EXCEPT ![f] = s] /\ sock' = f /\ on' = [on EXCEPT ![t] = f]
        /\ UNCHANGED <<at, login>>
    BY <1>4, <2>1, <2>2 DEF Connect
  <2>4. ~login[t]
    BY <1>03, <2>3 DEF AtWork
  <2>5. ASSUME Single PROVE LoneTask(t)'
    <3>1. \A g \in Fds : link[g].state \in {"free", "failed"}
      BY <1>02, <2>3, <2>5 DEF LoneTask
    <3>2. link'[f] = s /\ \A g \in Fds \ {f} : link'[g] = link[g]
      BY <1>0, <2>3
    <3>3. s.srv = at[t]
      BY <2>2 DEF Nothing
    <3>4. on'[t] = f /\ pc'[t] = "connect" /\ s = [Nothing EXCEPT !.srv = at'[t], !.state = "opening"]
      BY <1>0, <2>2, <2>3
    <3> QED
      BY <2>3, <2>4, <3>1, <3>2, <3>3, <3>4 DEF LoneTask, AtWork
  <2> QED
    BY <1>0, <1>01, <2>3, <2>4, <2>5, LoneMove
<1>5. ASSUME NEW t \in Tasks, ConnectFails(t) PROVE LinkInv'
  <2>1. /\ pc[t] = "connect" /\ pc' = [pc EXCEPT ![t] = "create"]
        /\ at' = [at EXCEPT ![t] = IF @ = "dispatch" THEN "transfer" ELSE "dispatch"]
        /\ link' = IF on[t] = 0 THEN link ELSE [link EXCEPT ![on[t]].state = "failed"]
        /\ UNCHANGED login
    BY <1>5 DEF ConnectFails, Onward
  <2>2. ~login[t]
    BY <1>03, <2>1 DEF AtWork
  <2>3. ASSUME Single PROVE LoneTask(t)'
    <3>1. on[t] = sock /\ sock \in Fds /\ \A g \in Fds \ {sock} : link[g].state \in {"free", "failed"}
      BY <1>02, <2>1, <2>3 DEF LoneTask
    <3>2. link' = [link EXCEPT ![sock].state = "failed"]
      BY <1>0, <2>1, <3>1
    <3>3. \A g \in Fds : link'[g].state \in {"free", "failed"}
      BY <1>0, <3>1, <3>2 DEF Socket
    <3> QED
      BY <1>0, <2>1, <2>2, <3>3 DEF LoneTask, AtWork
  <2> QED
    BY <1>0, <1>01, <2>1, <2>2, <2>3, LoneMove
<1>6. ASSUME NEW t \in Tasks, Connected(t) PROVE LinkInv'
  <2>1. /\ pc[t] = "connect" /\ pc' = [pc EXCEPT ![t] = "loop"]
        /\ link' = [link EXCEPT ![on[t]].state = "up"]
        /\ UNCHANGED <<at, on, login, sock>>
    BY <1>6, Zenon DEF Connected
  <2>2. ~login[t]
    BY <1>03, <2>1 DEF AtWork
  <2>3. ASSUME Single PROVE LoneTask(t)'
    <3>1. /\ on[t] = sock /\ sock \in Fds /\ link[sock].srv = at[t]
          /\ \A g \in Fds \ {sock} : link[g].state \in {"free", "failed"}
      BY <1>02, <2>1, <2>3 DEF LoneTask
    <3>2. link'[sock].state = "up" /\ link'[sock].srv = at[t] /\ \A g \in Fds \ {sock} : link'[g] = link[g]
      BY <1>0, <2>1, <3>1 DEF Socket
    <3> QED
      BY <1>0, <2>1, <2>2, <3>1, <3>2 DEF LoneTask, AtWork
  <2> QED
    BY <1>0, <1>01, <2>1, <2>2, <2>3, LoneMove
<1>7. ASSUME NEW t \in Tasks, Recv(t) PROVE LinkInv'
  <2>1. /\ pc[t] = "loop" /\ pc' = [pc EXCEPT ![t] = "recv"]
        /\ on' = [on EXCEPT ![t] = IF Open(sock) THEN sock ELSE 0]
        /\ UNCHANGED <<at, login, sock, link>>
    BY <1>7, Zenon DEF Recv
  <2>2. ASSUME Single PROVE LoneTask(t)'
    <3>1. LoneTask(t) /\ sock \in Fds /\ link[sock].state \in {"up", "gone"}
      BY <1>02, <2>1, <2>2 DEF LoneTask, AtWork
    <3>2. Open(sock)
      BY <3>1 DEF Open, Nothing
    <3> QED
      BY <1>0, <2>1, <3>1, <3>2 DEF LoneTask, AtWork
  <2> QED
    BY <1>0, <1>01, <1>03, <2>1, <2>2, LoneMove DEF AtWork
<1>8. ASSUME NEW t \in Tasks, RecvEnds(t) PROVE LinkInv'
  <2>1. pc[t] = "recv" /\ pc' = [pc EXCEPT ![t] = "close"] /\ UNCHANGED <<at, on, login, sock, link>>
    BY <1>8, Zenon DEF RecvEnds
  <2>2. Single => LoneTask(t)'
    BY <1>0, <1>02, <2>1 DEF LoneTask, AtWork
  <2> QED
    BY <1>0, <1>01, <1>03, <2>1, <2>2, LoneMove DEF AtWork
<1>9. ASSUME NEW t \in Tasks, CutFrame(t) PROVE LinkInv'
  <2>1. PICK place \in {"frames", "loop"} :
          pc[t] = "frames" /\ pc' = [pc EXCEPT ![t] = place] /\ UNCHANGED <<at, on, login, sock, link>>
    BY <1>9 DEF CutFrame
  <2>2. Single => LoneTask(t)'
    BY <1>0, <1>02, <2>1 DEF LoneTask, AtWork
  <2> QED
    BY <1>0, <1>01, <1>03, <2>1, <2>2, LoneMove DEF AtWork
<1>10. ASSUME NEW t \in Tasks, CloseSocket(t) PROVE LinkInv'
  <2>1. /\ pc[t] = "close" /\ pc' = [pc EXCEPT ![t] = "create"]
        /\ at' = [at EXCEPT ![t] = IF @ = "dispatch" THEN "transfer" ELSE "dispatch"]
        /\ link' = IF Open(sock) THEN [link EXCEPT ![sock] = Nothing] ELSE link
        /\ login' = [login EXCEPT ![t] = FALSE] /\ UNCHANGED sock
    BY <1>10 DEF CloseSocket, Onward
  <2>2. ASSUME Single PROVE LoneTask(t)'
    <3>1. /\ sock \in Fds /\ link[sock].state \in {"up", "gone"}
          /\ \A g \in Fds \ {sock} : link[g].state \in {"free", "failed"}
      BY <1>02, <2>1, <2>2 DEF LoneTask, AtWork
    <3>2. Open(sock)
      BY <3>1 DEF Open, Nothing
    <3>3. \A g \in Fds : link'[g].state \in {"free", "failed"}
      BY <1>0, <2>1, <3>1, <3>2 DEF Nothing
    <3> QED
      BY <1>0, <2>1, <3>3 DEF LoneTask, AtWork
  <2> QED
    BY <1>0, <1>01, <2>1, <2>2, LoneMove
<1>11. ASSUME NEW t \in Tasks, NEW n \in Nat, HasBytes(t, n),
              link' \in [Fds -> Socket],
              \A f \in Fds : /\ link'[f].srv = link[f].srv /\ link'[f].state = link[f].state
                             /\ link[f].phase = "granted" => link'[f].phase = "granted",
              NEW place \in {"loop", "frames", "close"}, pc' = [pc EXCEPT ![t] = place],
              login'[t] => at[t] = "transfer" /\ link[on[t]].phase = "granted",
              place = "frames" => login'[t],
              \A u \in Tasks \ {t} : login'[u] = login[u],
              UNCHANGED <<at, on, sock>>
       PROVE  LinkInv'
  <2>1. pc[t] = "recv" /\ pc'[t] = place
    BY <1>0, <1>11 DEF HasBytes
  <2>2. ASSUME Single PROVE LoneTask(t)'
    <3>1. /\ sock \in Fds /\ link[sock].state \in {"up", "gone"} /\ link[sock].srv = at[t]
          /\ \A g \in Fds \ {sock} : link[g].state \in {"free", "failed"}
          /\ on[t] = sock
      BY <1>02, <2>1, <2>2 DEF LoneTask, AtWork
    <3>2. /\ link'[sock].state \in {"up", "gone"} /\ link'[sock].srv = at[t]
          /\ \A g \in Fds \ {sock} : link'[g].state \in {"free", "failed"}
      BY <1>11, <3>1
    <3>3. login'[t] => link'[sock].phase = "granted"
      BY <1>11, <3>1
    <3> QED
      BY <1>11, <2>1, <3>1, <3>2, <3>3 DEF LoneTask, AtWork
  <2>3. login'[t] => pc'[t] \in AtWork /\ at'[t] = "transfer"
    BY <1>11, <2>1 DEF AtWork
  <2> QED
    BY <1>0, <1>01, <1>11, <2>1, <2>2, <2>3, LoneMove
<1>12. ASSUME NEW t \in Tasks, NEW n \in Nat, HasBytes(t, n), Take(t, n)
       PROVE  \A f \in Fds : /\ link'[f].srv = link[f].srv /\ link'[f].state = link[f].state
                             /\ link'[f].phase = link[f].phase
  <2>1. link' = [link EXCEPT ![on[t]] = [link[on[t]] EXCEPT !.wire = Rest(t, n)]]
    BY <1>12, TakeTyped
  <2>2. link' = [link EXCEPT ![on[t]].wire = Rest(t, n)]
    BY <1>0, <2>1
  <2> QED
    BY <1>0, <2>2 DEF Socket
<1>13. ASSUME NEW t \in Tasks, NEW n \in 1..CacheSize, RecvAddress(t, n) PROVE LinkInv'
  <2>1. n \in Nat /\ HasBytes(t, n) /\ Take(t, n) /\ at[t] = "dispatch" /\ UNCHANGED <<at, on, login, sock>>
    BY <1>0, <1>13 DEF RecvAddress
  <2>2. PICK place \in {"loop", "close"} : pc' = [pc EXCEPT ![t] = place]
    BY <1>13 DEF RecvAddress
  <2>3. ~login[t]
    BY <1>03, <2>1
  <2>4. link' \in [Fds -> Socket]
    BY <2>1, TakeTyped
  <2>5. \A f \in Fds : /\ link'[f].srv = link[f].srv /\ link'[f].state = link[f].state
                       /\ link'[f].phase = link[f].phase
    BY <1>12, <2>1
  <2> QED
    BY <1>11, <2>1, <2>2, <2>3, <2>4, <2>5
<1>14. ASSUME NEW t \in Tasks, NEW n \in 1..CacheSize, RecvAsked(t, n) PROVE LinkInv'
  <2>1. HasBytes(t, n) /\ ~login[t] /\ pc' = [pc EXCEPT ![t] = "loop"] /\ UNCHANGED <<at, on, login, sock>>
    BY <1>14, Zenon DEF RecvAsked
  <2>2. n \in Nat
    BY <1>0
  <2>3. link' \in [Fds -> Socket]
    BY TypeStep DEF Typed, LinkTypes
  <2>4. PICK r : r = Rest(t, n)
    OBVIOUS
  <2>5. link' = [f \in Fds |-> [link[f] EXCEPT
                  !.wire = IF f = on[t] THEN SubSeq(@, n + 1, Len(@)) ELSE @,
                  !.phase = IF f = sock /\ Chunk(t, n)[1] = 0 THEN HxtcpSend(@) ELSE @]]
    BY <1>14, Zenon DEF RecvAsked
  <2>6. ASSUME NEW f \in Fds
        PROVE  /\ link'[f].srv = link[f].srv /\ link'[f].state = link[f].state
               /\ link[f].phase = "granted" => link'[f].phase = "granted"
    <3>1. PICK w, ph : /\ w = IF f = on[t] THEN SubSeq(link[f].wire, n + 1, Len(link[f].wire))
                                 ELSE link[f].wire
                       /\ ph = IF f = sock /\ Chunk(t, n)[1] = 0
                               THEN HxtcpSend(link[f].phase) ELSE link[f].phase
      OBVIOUS
    <3>2. link[f] \in Socket
      BY <1>0
    <3>3. link'[f] = [link[f] EXCEPT !.wire = w, !.phase = ph]
      BY <2>5, <3>1, <3>2 DEF Socket
    <3>4. link[f].phase = "granted" => ph = "granted"
      BY <3>1 DEF HxtcpSend
    <3> QED
      BY <3>2, <3>3, <3>4 DEF Socket
  <2> QED
    BY <1>11, <2>1, <2>2, <2>3, <2>6
<1>15. ASSUME NEW t \in Tasks, NEW n \in 1..CacheSize, RecvGranted(t, n) PROVE LinkInv'
  <2>1. /\ n \in Nat /\ HasBytes(t, n) /\ Take(t, n) /\ at[t] = "transfer" /\ Chunk(t, n)[1] = 1
        /\ pc' = [pc EXCEPT ![t] = "frames"] /\ login' = [login EXCEPT ![t] = TRUE]
        /\ UNCHANGED <<at, on, sock>>
    BY <1>0, <1>15 DEF RecvGranted
  <2>2. link' \in [Fds -> Socket]
    BY <2>1, TakeTyped
  <2>3. \A f \in Fds : /\ link'[f].srv = link[f].srv /\ link'[f].state = link[f].state
                       /\ link'[f].phase = link[f].phase
    BY <1>12, <2>1
  <2>4. /\ on[t] \in Fds /\ n \in 1..Len(link[on[t]].wire)
        /\ \A i \in 1..n : Chunk(t, n)[i] = link[on[t]].wire[i]
    BY <2>1, ChunkTyped
  <2>5. link[on[t]].wire[1] = 1 /\ 1 \in 1..Len(link[on[t]].wire)
    BY <2>1, <2>4
  <2>6. link[on[t]].phase = "granted"
    BY <1>0, <2>4, <2>5 DEF Sound
  <2>7. login'[t] /\ \A u \in Tasks \ {t} : login'[u] = login[u]
    BY <1>0, <2>1
  <2> QED
    BY <1>11, <2>1, <2>2, <2>3, <2>6, <2>7
<1>16. ASSUME NEW t \in Tasks, NEW n \in 1..CacheSize, RecvData(t, n) PROVE LinkInv'
  <2>1. /\ n \in Nat /\ HasBytes(t, n) /\ Take(t, n) /\ at[t] = "transfer" /\ login[t]
        /\ pc' = [pc EXCEPT ![t] = "frames"] /\ UNCHANGED <<at, on, login, sock>>
    BY <1>0, <1>16 DEF RecvData
  <2>2. link' \in [Fds -> Socket]
    BY <2>1, TakeTyped
  <2>3. \A f \in Fds : /\ link'[f].srv = link[f].srv /\ link'[f].state = link[f].state
                       /\ link'[f].phase = link[f].phase
    BY <1>12, <2>1
  <2>4. ASSUME Single PROVE LoneTask(t)'
    <3>1. pc[t] = "recv" /\ pc'[t] = "frames"
      BY <1>0, <2>1 DEF HasBytes
    <3>2. LoneTask(t)
      BY <1>02, <2>4, <3>1
    <3>3. /\ sock \in Fds /\ link[sock].srv = at[t] /\ link[sock].state \in {"up", "gone"}
          /\ link[sock].phase = "granted"
          /\ \A g \in Fds \ {sock} : link[g].state \in {"free", "failed"}
      BY <2>1, <3>1, <3>2 DEF LoneTask, AtWork
    <3> QED
      BY <2>1, <2>3, <3>1, <3>3 DEF LoneTask, AtWork
  <2>5. pc[t] # "off"
    BY <2>1 DEF HasBytes
  <2>6. login'[t] => pc'[t] \in AtWork /\ at'[t] = "transfer"
    BY <1>0, <2>1 DEF AtWork
  <2> QED
    BY <1>01, <2>1, <2>4, <2>5, <2>6, LoneMove
<1>17. ASSUME NEW f \in Fds, link[f].state = "up", NEW s \in Socket, s.srv = link[f].srv,
              s.state \in {"up", "gone"}, link[f].phase = "granted" => s.phase = "granted",
              link' = [link EXCEPT ![f] = s], UNCHANGED taskVars, UNCHANGED sock
       PROVE  LinkInv'
  BY <1>01, <1>17, LoneServer DEF taskVars
<1>18. link' \in [Fds -> Socket]
  BY TypeStep DEF Typed, LinkTypes
<1>19. ASSUME NEW f \in Fds, SendsAddress(f) \/ AsksLogin(f) PROVE LinkInv'
  <2>1. PICK ph, w : link' = [link EXCEPT ![f].phase = ph, ![f].wire = w]
    <3>1. CASE SendsAddress(f)
      BY <3>1 DEF SendsAddress
    <3>2. CASE AsksLogin(f)
      BY <1>0, <3>2 DEF AsksLogin
    <3> QED
      BY <1>19, <3>1, <3>2
  <2>2. /\ link[f].state = "up" /\ link[f].phase = "new" /\ UNCHANGED taskVars /\ UNCHANGED sock
    BY <1>19 DEF SendsAddress, AsksLogin, ServerUnchanged
  <2>3. PICK s : s = link'[f]
    OBVIOUS
  <2>4. s \in Socket
    BY <1>18, <2>3
  <2>5. link' = [link EXCEPT ![f] = s] /\ s.srv = link[f].srv /\ s.state = "up"
    BY <1>0, <2>1, <2>2, <2>3 DEF Socket
  <2> QED
    BY <1>17, <2>2, <2>4, <2>5
<1>20. ASSUME NEW f \in Fds, GrantsLogin(f) PROVE LinkInv'
  <2>1. PICK w : link' = [link EXCEPT ![f].phase = "granted", ![f].wire = w]
    BY <1>0, <1>20 DEF GrantsLogin
  <2>2. link[f].state = "up" /\ UNCHANGED taskVars /\ UNCHANGED sock
    BY <1>20 DEF GrantsLogin, ServerUnchanged
  <2>3. PICK s : s = link'[f]
    OBVIOUS
  <2>4. s \in Socket
    BY <1>18, <2>3
  <2>5. link' = [link EXCEPT ![f] = s] /\ s.srv = link[f].srv /\ s.state = "up" /\ s.phase = "granted"
    BY <1>0, <2>1, <2>2, <2>3 DEF Socket
  <2> QED
    BY <1>17, <2>2, <2>4, <2>5
<1>21. ASSUME NEW f \in Fds, NEW p \in Frames, SendsFrame(f, p) PROVE LinkInv'
  <2>1. PICK w : link' = [link EXCEPT ![f].wire = w]
    BY <1>0, <1>21 DEF SendsFrame
  <2>2. link[f].state = "up" /\ UNCHANGED taskVars /\ UNCHANGED sock
    BY <1>21 DEF SendsFrame, taskVars
  <2>3. PICK s : s = link'[f]
    OBVIOUS
  <2>4. s \in Socket
    BY <1>18, <2>3
  <2>5. /\ link' = [link EXCEPT ![f] = s] /\ s.srv = link[f].srv /\ s.state = "up"
        /\ s.phase = link[f].phase
    BY <1>0, <2>1, <2>2, <2>3 DEF Socket
  <2> QED
    BY <1>17, <2>2, <2>4, <2>5
<1>22. ASSUME NEW f \in Fds, NEW reset \in BOOLEAN, HangsUp(f, reset) PROVE LinkInv'
  <2>1. PICK w : link' = [link EXCEPT ![f].state = "gone", ![f].wire = w]
    BY <1>0, <1>22 DEF HangsUp
  <2>2. link[f].state = "up" /\ UNCHANGED taskVars /\ UNCHANGED sock
    BY <1>22 DEF HangsUp, ServerUnchanged
  <2>3. PICK s : s = link'[f]
    OBVIOUS
  <2>4. s \in Socket
    BY <1>18, <2>3
  <2>5. /\ link' = [link EXCEPT ![f] = s] /\ s.srv = link[f].srv /\ s.state = "gone"
        /\ s.phase = link[f].phase
    BY <1>0, <2>1, <2>2, <2>3 DEF Socket
  <2> QED
    BY <1>17, <2>2, <2>4, <2>5
<1>23. CASE UNCHANGED vars
  <2>1. UNCHANGED <<pc, at, on, login, sock, link>>
    BY <1>23 DEF vars, taskVars
  <2>2. Running' = Running /\ (Single' <=> Single)
    BY <2>1 DEF Running, Single
  <2> QED
    BY <1>01, <2>1, <2>2 DEF LinkInv, Quiet, LoneTask
<1> QED
  BY <1>1, <1>2, <1>3, <1>4, <1>5, <1>6, <1>7, <1>8, <1>9, <1>10, <1>13, <1>14, <1>15, <1>16,
     <1>19, <1>20, <1>21, <1>22, <1>23, NextActs DEF Acts

LEMMA LinkAlways == Spec => [](Typed /\ LinkInv)
<1>1. Init => Typed /\ LinkInv
  BY TypeInit, LinkInit
<1>2. Typed /\ LinkInv /\ [Next]_vars => (Typed /\ LinkInv)'
  BY TypeStep, LinkStep
<1> QED
  BY <1>1, <1>2, PTL DEF Spec

\* THEOREM.  A task that is alone looks for frames only on a link whose server has
\* granted the login.
THEOREM OnlyGrantedCorrect == Spec => []OnlyGranted
<1>1. Typed /\ LinkInv => OnlyGranted
  <2> SUFFICES ASSUME LinkInv, NEW t \in Tasks, Alone, pc[t] = "frames"
               PROVE  Open(sock) /\ link[sock].phase = "granted"
    BY DEF OnlyGranted
  <2>1. Single /\ t \in Running
    BY AloneSingle DEF LinkInv, Running
  <2>2. LoneTask(t)
    BY <2>1 DEF LinkInv
  <2> QED
    BY <2>2 DEF LoneTask, AtWork, Open, Nothing
<1> QED
  BY <1>1, LinkAlways, PTL

\* THEOREM.  As long as no connect fails, a task that is alone leaves no socket
\* open behind it.
THEOREM NoLeakCorrect == Spec => []NoLeak
<1>1. Typed /\ LinkInv => NoLeak
  <2> SUFFICES ASSUME LinkInv, Alone, \A f \in Fds : link[f].state # "failed", NEW f \in Fds \ Free
               PROVE  f = sock
    BY DEF NoLeak
  <2>1. Single
    BY AloneSingle DEF LinkInv
  <2>2. link[f] # Nothing /\ link[f].state \notin {"free", "failed"}
    BY DEF Free, LinkInv, Sockets, Sound
  <2>3. PICK t \in Running : TRUE
    BY <2>2 DEF LinkInv, Quiet
  <2>4. LoneTask(t)
    BY <2>1, <2>3 DEF LinkInv
  <2> QED
    BY <2>2, <2>4 DEF LoneTask
<1> QED
  BY <1>1, LinkAlways, PTL

-----------------------------------------------------------------------------
(* The frames come out in order *)

LEMMA Associative ==
    ASSUME NEW S, NEW a \in Seq(S), NEW b \in Seq(S), NEW c \in Seq(S)
    PROVE  (a \o b) \o c = a \o (b \o c)
OBVIOUS

LEMMA DataAssociative ==
    ASSUME NEW a \in Seq(Seq(Byte)), NEW b \in Seq(Seq(Byte)), NEW c \in Seq(Seq(Byte))
    PROVE  (a \o b) \o c = a \o (b \o c)
OBVIOUS

\* What a server may have sent: bytes, and the data in their frames.  It is the
\* least set with nothing in it that another frame can be added to.
Pairs == Seq(Byte) \X Seq(Seq(Byte))
WithFrame(x, p) == <<x[1] \o Framed(p), x[2] \o DataOf(p)>>
Closed(P) == << <<>>, <<>> >> \in P /\ \A x \in P, p \in Frames : WithFrame(x, p) \in P
Streams == {x \in Pairs : \A P \in SUBSET Pairs : Closed(P) => x \in P}

LEMMA FrameTyped == ASSUME NEW p \in Frames
                    PROVE  /\ p \in Params /\ p \in Seq(Byte) /\ p # <<>>
                           /\ Framed(p) \in Seq(Byte) /\ DataOf(p) \in Seq(Seq(Byte))
<1>1. p \in Params /\ p \in Seq(Byte) /\ p # <<>>
  BY LinkAssumption DEF Params
<1> QED
  BY <1>1, FramedBytes, DataTyped

LEMMA StreamsEmpty == << <<>>, <<>> >> \in Streams
<1>1. <<>> \in Seq(Byte) /\ <<>> \in Seq(Seq(Byte))
  OBVIOUS
<1> QED
  BY <1>1 DEF Streams, Pairs, Closed

LEMMA StreamsAppend == ASSUME NEW x \in Streams, NEW p \in Frames PROVE WithFrame(x, p) \in Streams
<1>1. x \in Pairs /\ x[1] \in Seq(Byte) /\ x[2] \in Seq(Seq(Byte))
  BY DEF Streams, Pairs
<1>2. x[1] \o Framed(p) \in Seq(Byte) /\ x[2] \o DataOf(p) \in Seq(Seq(Byte))
  BY <1>1, FrameTyped, Cat
<1>3. WithFrame(x, p) \in Pairs
  BY <1>2 DEF WithFrame, Pairs
<1>4. ASSUME NEW P \in SUBSET Pairs, Closed(P) PROVE WithFrame(x, p) \in P
  BY <1>4 DEF Streams, Closed
<1> QED
  BY <1>3, <1>4 DEF Streams

\* The first frame of a stream, with what follows it.
Follows(x, p, y) == x[1] = Framed(p) \o y[1] /\ x[2] = DataOf(p) \o y[2]
LEMMA StreamsFirst ==
    ASSUME NEW x \in Streams
    PROVE  x = << <<>>, <<>> >> \/ \E p \in Frames, y \in Streams : Follows(x, p, y)
<1> DEFINE P == {z \in Pairs : \/ z = << <<>>, <<>> >>
                               \/ \E p \in Frames, y \in Streams : Follows(z, p, y)}
<1>1. << <<>>, <<>> >> \in P
  BY StreamsEmpty DEF Streams
<1>2. ASSUME NEW z \in P, NEW q \in Frames PROVE WithFrame(z, q) \in P
  <2>1. z[1] \in Seq(Byte) /\ z[2] \in Seq(Seq(Byte))
    BY DEF Pairs
  <2>2. PICK f \in Seq(Byte), e \in Seq(Seq(Byte)) : f = Framed(q) /\ e = DataOf(q)
    BY FrameTyped
  <2>3. PICK w : w = WithFrame(z, q)
    OBVIOUS
  <2>4. w[1] = z[1] \o f /\ w[2] = z[2] \o e
    BY <2>2, <2>3 DEF WithFrame
  <2>5. w \in Pairs
    <3>1. z[1] \o f \in Seq(Byte) /\ z[2] \o e \in Seq(Seq(Byte))
      BY <2>1, <2>2, Cat
    <3> QED
      BY <2>2, <2>3, <3>1 DEF Pairs, WithFrame
  <2>6. CASE z = << <<>>, <<>> >>
    <3>1. w[1] = f /\ w[2] = e
      <4>1. z[1] = <<>> /\ z[2] = <<>>
        BY <2>6
      <4>2. <<>> \o f = f /\ <<>> \o e = e
        BY <2>2
      <4> QED
        BY <2>4, <4>1, <4>2
    <3>2. f \o <<>> = f /\ e \o <<>> = e
      BY <2>2
    <3>3. PICK y : y = << <<>>, <<>> >>
      OBVIOUS
    <3>4. y \in Streams /\ y[1] = <<>> /\ y[2] = <<>>
      BY <3>3, StreamsEmpty
    <3>5. Follows(w, q, y)
      BY <2>2, <3>1, <3>2, <3>4 DEF Follows
    <3> QED
      BY <2>3, <2>5, <3>4, <3>5
  <2>7. CASE z # << <<>>, <<>> >>
    <3>1. PICK p \in Frames, y \in Streams : Follows(z, p, y)
      BY <2>7
    <3>2. PICK g \in Seq(Byte), h \in Seq(Seq(Byte)) : g = Framed(p) /\ h = DataOf(p)
      BY FrameTyped
    <3>3. y[1] \in Seq(Byte) /\ y[2] \in Seq(Seq(Byte))
      BY DEF Streams, Pairs
    <3>4. PICK v : v = WithFrame(y, q)
      OBVIOUS
    <3>5. v \in Streams /\ v[1] = y[1] \o f /\ v[2] = y[2] \o e
      BY <2>2, <3>4, StreamsAppend DEF WithFrame
    <3>6. z[1] = g \o y[1] /\ z[2] = h \o y[2]
      BY <3>1, <3>2 DEF Follows
    <3>7. w[1] = g \o v[1]
      <4>1. PICK m \in Seq(Byte) : m = y[1]
        BY <3>3
      <4>2. (g \o m) \o f = g \o (m \o f)
        BY Associative
      <4> QED
        BY <2>4, <3>5, <3>6, <4>1, <4>2
    <3>8. w[2] = h \o v[2]
      <4>1. PICK m \in Seq(Seq(Byte)) : m = y[2]
        BY <3>3
      <4>2. (h \o m) \o e = h \o (m \o e)
        BY Associative
      <4> QED
        BY <2>4, <3>5, <3>6, <4>1, <4>2
    <3>9. Follows(w, p, v)
      BY <3>2, <3>7, <3>8 DEF Follows
    <3> QED
      BY <2>3, <2>5, <3>5, <3>9
  <2> QED
    BY <2>6, <2>7
<1>3. P \in SUBSET Pairs
  OBVIOUS
<1>4. Closed(P)
  BY <1>1, <1>2 DEF Closed
<1> HIDE DEF P
<1>5. x \in P
  BY <1>3, <1>4 DEF Streams
<1> QED
  BY <1>5 DEF P

\* The bytes b are still to be given on: n of them are in the cache c, and the
\* others on the wire w, unless the peer has gone and taken them along.
Holds(b, c, n, w, state) ==
    /\ n + Len(w) <= Len(b)
    /\ \A i \in 1..n : c[i] = b[i]
    /\ \A i \in 1..Len(w) : w[i] = b[n + i]
    /\ state = "up" => Len(b) = n + Len(w)

LEMMA HoldsChunk ==
    ASSUME NEW b \in Seq(Byte), NEW c, NEW d, NEW n \in Nat, NEW w \in Seq(Byte), NEW state,
           NEW k \in 1..Len(w), NEW r \in Seq(Byte), Len(r) = Len(w) - k,
           \A i \in 1..Len(r) : r[i] = w[k + i],
           \A i \in 1..n : d[i] = c[i], \A i \in 1..k : d[n + i] = w[i],
           Holds(b, c, n, w, state)
    PROVE  Holds(b, d, n + k, r, state)
<1>0. Len(w) \in Nat /\ Len(b) \in Nat /\ k \in Nat /\ k <= Len(w)
  OBVIOUS
<1>1. /\ n + Len(w) <= Len(b)
      /\ \A i \in 1..n : c[i] = b[i]
      /\ \A i \in 1..Len(w) : w[i] = b[n + i]
      /\ state = "up" => Len(b) = n + Len(w)
  BY DEF Holds
<1>2. ASSUME NEW i \in 1..(n + k) PROVE d[i] = b[i]
  <2>1. CASE i <= n
    BY <1>0, <1>1, <2>1
  <2>2. CASE i > n
    <3>1. PICK j : j = i - n
      OBVIOUS
    <3>2. j \in 1..k /\ j \in 1..Len(w) /\ n + j = i
      BY <1>0, <2>2, <3>1
    <3> QED
      BY <1>1, <3>2
  <2> QED
    BY <1>0, <2>1, <2>2
<1>3. ASSUME NEW i \in 1..Len(r) PROVE r[i] = b[n + k + i]
  <2>1. PICK j : j = k + i
    OBVIOUS
  <2>2. j \in 1..Len(w) /\ n + j = n + k + i
    BY <1>0, <2>1
  <2>3. r[i] = w[j] /\ w[j] = b[n + j]
    BY <1>1, <2>1, <2>2
  <2> QED
    BY <2>2, <2>3
<1>4. n + k + Len(r) = n + Len(w)
  BY <1>0
<1> QED
  BY <1>0, <1>1, <1>2, <1>3, <1>4 DEF Holds

LEMMA HoldsCut ==
    ASSUME NEW q \in Seq(Byte), NEW y \in Seq(Byte), NEW c, NEW d, NEW n \in Nat,
           NEW w \in Seq(Byte), NEW state, Len(q) <= n,
           \A i \in 1..(n - Len(q)) : d[i] = c[Len(q) + i],
           Holds(q \o y, c, n, w, state)
    PROVE  Holds(y, d, n - Len(q), w, state)
<1>0. Len(w) \in Nat /\ Len(q) \in Nat /\ Len(y) \in Nat
  OBVIOUS
<1>1. PICK b \in Seq(Byte) : b = q \o y
  BY Cat
<1>2. Len(b) = Len(q) + Len(y) /\ \A i \in 1..Len(y) : b[Len(q) + i] = y[i]
  BY <1>1, Cat
<1>3. /\ n + Len(w) <= Len(b)
      /\ \A i \in 1..n : c[i] = b[i]
      /\ \A i \in 1..Len(w) : w[i] = b[n + i]
      /\ state = "up" => Len(b) = n + Len(w)
  BY <1>1 DEF Holds
<1>4. PICK m : m = n - Len(q)
  OBVIOUS
<1>5. m \in Nat /\ n = Len(q) + m
  BY <1>0, <1>4
<1>6. m + Len(w) <= Len(y) /\ (state = "up" => Len(y) = m + Len(w))
  BY <1>0, <1>2, <1>3, <1>5
<1>7. ASSUME NEW i \in 1..m PROVE d[i] = y[i]
  <2>1. PICK j : j = Len(q) + i
    OBVIOUS
  <2>2. j \in 1..n /\ i \in 1..Len(y)
    BY <1>0, <1>5, <1>6, <2>1
  <2>3. d[i] = c[j] /\ c[j] = b[j] /\ b[j] = y[i]
    BY <1>2, <1>3, <1>4, <2>1, <2>2
  <2> QED
    BY <2>3
<1>8. ASSUME NEW i \in 1..Len(w) PROVE w[i] = y[m + i]
  <2>1. PICK j : j = m + i
    OBVIOUS
  <2>2. j \in 1..Len(y) /\ Len(q) + j = n + i
    BY <1>0, <1>5, <1>6, <2>1
  <2>3. w[i] = b[n + i] /\ b[Len(q) + j] = y[j]
    BY <1>2, <1>3, <2>2
  <2> QED
    BY <2>1, <2>2, <2>3
<1> QED
  BY <1>4, <1>6, <1>7, <1>8 DEF Holds

LEMMA HoldsMore ==
    ASSUME NEW b \in Seq(Byte), NEW c, NEW n \in Nat, NEW w \in Seq(Byte), NEW q \in Seq(Byte),
           Holds(b, c, n, w, "up")
    PROVE  Holds(b \o q, c, n, w \o q, "up")
<1>0. Len(w) \in Nat /\ Len(b) \in Nat /\ Len(q) \in Nat
  OBVIOUS
<1>1. /\ Len(b) = n + Len(w)
      /\ \A i \in 1..n : c[i] = b[i]
      /\ \A i \in 1..Len(w) : w[i] = b[n + i]
  BY DEF Holds
<1>2. PICK u \in Seq(Byte), v \in Seq(Byte) : u = b \o q /\ v = w \o q
  BY Cat
<1>3. /\ Len(u) = Len(b) + Len(q) /\ Len(v) = Len(w) + Len(q)
      /\ \A i \in 1..Len(b) : u[i] = b[i]
      /\ \A i \in 1..Len(q) : u[Len(b) + i] = q[i]
      /\ \A i \in 1..Len(w) : v[i] = w[i]
      /\ \A i \in 1..Len(q) : v[Len(w) + i] = q[i]
  BY <1>2, Cat
<1>4. Len(u) = n + Len(v)
  BY <1>0, <1>1, <1>3
<1>5. ASSUME NEW i \in 1..n PROVE c[i] = u[i]
  BY <1>0, <1>1, <1>3
<1>6. ASSUME NEW i \in 1..Len(v) PROVE v[i] = u[n + i]
  <2>0. i \in Int /\ i >= 1 /\ i <= Len(w) + Len(q)
    BY <1>0, <1>3
  <2>1. CASE i <= Len(w)
    <3>1. PICK j : j = n + i
      OBVIOUS
    <3>2. j \in 1..Len(b) /\ i \in 1..Len(w)
      BY <1>0, <1>1, <2>0, <2>1, <3>1
    <3>3. v[i] = w[i] /\ w[i] = b[j] /\ u[j] = b[j]
      BY <1>1, <1>3, <3>1, <3>2
    <3> QED
      BY <3>1, <3>3
  <2>2. CASE i > Len(w)
    <3>1. PICK j : j = i - Len(w)
      OBVIOUS
    <3>2. j \in 1..Len(q) /\ i = Len(w) + j /\ n + i = Len(b) + j
      BY <1>0, <1>1, <2>0, <2>2, <3>1
    <3>3. v[Len(w) + j] = q[j] /\ u[Len(b) + j] = q[j]
      BY <1>3, <3>2
    <3> QED
      BY <3>2, <3>3
  <2> QED
    BY <1>0, <2>0, <2>1, <2>2
<1>7. Holds(u, c, n, v, "up")
  BY <1>4, <1>5, <1>6 DEF Holds
<1> QED
  BY <1>2, <1>7

LEMMA HoldsGone ==
    ASSUME NEW b \in Seq(Byte), NEW c, NEW n \in Nat, NEW w \in Seq(Byte), NEW state,
           Holds(b, c, n, w, state)
    PROVE  Holds(b, c, n, w, "gone") /\ Holds(b, c, n, <<>>, "gone")
<1>1. Len(w) \in Nat /\ Len(b) \in Nat
  OBVIOUS
<1>2. Holds(b, c, n, w, "gone")
  BY DEF Holds
<1>3. PICK e \in Seq(Byte) : e = <<>> /\ Len(e) = 0
  <2>1. <<>> \in Seq(Byte) /\ Len(<<>>) = 0
    OBVIOUS
  <2> QED
    BY <2>1
<1>4. Holds(b, c, n, e, "gone")
  BY <1>1, <1>3 DEF Holds
<1> QED
  BY <1>2, <1>3, <1>4

\* The grant is taken off the wire with the first bytes behind it.
LEMMA HoldsGrant ==
    ASSUME NEW b \in Seq(Byte), NEW c, NEW d, NEW w \in Seq(Byte), NEW state,
           NEW k \in 1..Len(w), NEW r \in Seq(Byte), Len(r) = Len(w) - k,
           \A i \in 1..Len(r) : r[i] = w[k + i],
           \A i \in 1..(k - 1) : d[i] = w[1 + i],
           1 \in Byte, Holds(<< 1 >> \o b, c, 0, w, state)
    PROVE  Holds(b, d, k - 1, r, state)
<1>0. Len(w) \in Nat /\ Len(b) \in Nat /\ k \in Nat /\ k >= 1 /\ k <= Len(w)
  OBVIOUS
<1>1. PICK o \in Seq(Byte) : o = << 1 >> /\ Len(o) = 1
  BY One
<1>2. PICK u \in Seq(Byte) : u = o \o b
  BY Cat
<1>3. Len(u) = 1 + Len(b) /\ \A i \in 1..Len(b) : u[1 + i] = b[i]
  <2>1. Len(u) = Len(o) + Len(b) /\ \A i \in 1..Len(b) : u[Len(o) + i] = b[i]
    BY <1>2, Cat
  <2> QED
    BY <1>1, <2>1
<1>4. Holds(u, c, 0, w, state)
  BY <1>1, <1>2
<1>5. /\ Len(w) <= Len(u)
      /\ \A i \in 1..Len(w) : w[i] = u[i]
      /\ state = "up" => Len(u) = Len(w)
  <2>1. /\ 0 + Len(w) <= Len(u)
        /\ \A i \in 1..Len(w) : w[i] = u[0 + i]
        /\ state = "up" => Len(u) = 0 + Len(w)
    BY <1>4 DEF Holds
  <2>2. \A i \in 1..Len(w) : 0 + i = i
    BY <1>0
  <2>3. 0 + Len(w) = Len(w)
    BY <1>0
  <2> QED
    BY <2>1, <2>2, <2>3
<1>51. PICK m : m = k - 1
  OBVIOUS
<1>6. m \in Nat /\ m = k - 1 /\ k = m + 1
  BY <1>0, <1>51
<1>7. m + Len(r) <= Len(b) /\ (state = "up" => Len(b) = m + Len(r))
  <2>1. Len(u) = 1 + Len(b) /\ Len(w) <= Len(u) /\ (state = "up" => Len(u) = Len(w))
    BY <1>3, <1>5
  <2>2. m + Len(r) = Len(w) - 1
    BY <1>0, <1>6
  <2>3. Len(w) - 1 <= Len(b) /\ (state = "up" => Len(b) = Len(w) - 1)
    BY <1>0, <2>1
  <2> QED
    BY <2>2, <2>3
<1>8. ASSUME NEW i \in 1..m PROVE d[i] = b[i]
  <2>1. PICK j : j = 1 + i
    OBVIOUS
  <2>2. j \in 1..Len(w) /\ i \in 1..Len(b)
    BY <1>0, <1>6, <1>7, <2>1
  <2>3. d[i] = w[j] /\ w[j] = u[j] /\ u[j] = b[i]
    BY <1>3, <1>5, <1>6, <2>1, <2>2
  <2> QED
    BY <2>3
<1>9. ASSUME NEW i \in 1..Len(r) PROVE r[i] = b[m + i]
  <2>1. PICK j, h : j = k + i /\ h = m + i
    OBVIOUS
  <2>2. j \in 1..Len(w) /\ h \in 1..Len(b) /\ 1 + h = j
    BY <1>0, <1>6, <1>7, <2>1
  <2>3. r[i] = w[j] /\ w[j] = u[j] /\ u[1 + h] = b[h]
    BY <1>3, <1>5, <2>1, <2>2
  <2> QED
    BY <2>1, <2>2, <2>3
<1> QED
  BY <1>6, <1>7, <1>8, <1>9 DEF Holds

\* A sequence begins with what it was put together from.
LEMMA PrefixCat ==
    ASSUME NEW S, NEW a \in Seq(S), NEW b \in Seq(S)
    PROVE  IsPrefix(a, a \o b)
<1>1. PICK u \in Seq(S) : u = a \o b
  BY Cat
<1>2. Len(u) = Len(a) + Len(b) /\ \A i \in 1..Len(a) : u[i] = a[i]
  BY <1>1, Cat
<1>3. Len(a) \in Nat /\ Len(b) \in Nat
  OBVIOUS
<1>4. Len(a) <= Len(u) /\ Len(a) \in 0..Len(u)
  BY <1>2, <1>3
<1>41. PICK n : n = Len(a)
  OBVIOUS
<1>42. 1 \in 1..(Len(u) + 1) /\ n \in (1 - 1)..Len(u)
  BY <1>3, <1>4, <1>41
<1>43. /\ SubSeq(u, 1, n) \in Seq(S) /\ Len(SubSeq(u, 1, n)) = n - 1 + 1
       /\ \A i \in 1..(n - 1 + 1) : SubSeq(u, 1, n)[i] = u[1 + i - 1]
  BY <1>42, Part
<1>5. PICK s \in Seq(S) : s = SubSeq(u, 1, Len(a))
  BY <1>41, <1>43
<1>6. Len(s) = Len(a) /\ \A i \in 1..Len(a) : s[i] = u[i]
  BY <1>3, <1>41, <1>43, <1>5
<1>7. s = a
  BY <1>2, <1>6, SameSeq
<1> QED
  BY <1>1, <1>4, <1>5, <1>7 DEF IsPrefix

LEMMA MaxTwo == ASSUME NEW a \in Nat, NEW b \in Nat PROVE Max({a, b}) >= a
<1>1. \E x \in {a, b} : \A y \in {a, b} : x >= y
  OBVIOUS
<1>2. Max({a, b}) \in {a, b} /\ \A y \in {a, b} : Max({a, b}) >= y
  BY <1>1, Zenon DEF Max
<1> QED
  BY <1>2

LEMMA CacheKeeps ==
    ASSUME NEW bytes, NEW n \in 0..(CacheSize - 1), Cache(bytes, n)
    PROVE  len' = n /\ \A i \in 1..n : cache'[i] = bytes[i]
<1>1. n \in Nat /\ n < CacheSize /\ CacheSize \in Nat
  BY LinkAssumption
<1>2. PICK m : m = Max({n, 4})
  OBVIOUS
<1>3. m >= n /\ m \in Nat
  <2>1. Max({n, 4}) >= n /\ Max({n, 4}) \in {n, 4}
    <3>1. \E x \in {n, 4} : \A y \in {n, 4} : x >= y
      BY <1>1
    <3>2. Max({n, 4}) \in {n, 4}
      BY <3>1, Zenon DEF Max
    <3> QED
      BY <1>1, <3>2, MaxTwo
  <2> QED
    BY <1>1, <1>2, <2>1
<1>4. len' = n /\ cache' = [i \in 1..CacheSize |-> IF i <= m THEN bytes[i] ELSE 0]
  BY <1>2 DEF Cache
<1> QED
  BY <1>1, <1>3, <1>4

\* A chunk that leaves the history of the link intact is behind what was there.
LEMMA StoreKeeps ==
    ASSUME Typed, NEW chunk \in Seq(Byte), Len(chunk) < CacheSize, Store(chunk), clean'
    PROVE  /\ clean /\ sent' = sent /\ got' = got /\ len' = len + Len(chunk)
           /\ \A i \in 1..len : cache'[i] = cache[i]
           /\ \A i \in 1..Len(chunk) : cache'[len + i] = chunk[i]
<1>0. /\ CacheSize \in Nat /\ len \in Nat /\ len < CacheSize /\ Len(chunk) \in Nat
      /\ cache \in [1..CacheSize -> Byte]
  BY LinkAssumption DEF Typed, TypeOK
<1>1. clean' = (clean /\ (len = 0 \/ Fits(chunk))) /\ sent' = sent /\ got' = got
  BY DEF Store, History
<1>2. (IF Fits(chunk) THEN len ELSE 0) = len
  BY <1>1
<1>3. Cache(Added(chunk, len), len + Len(chunk))
  BY <1>2 DEF Store
<1>4. PICK k : k = len + Len(chunk)
  OBVIOUS
<1>5. k \in 0..(CacheSize - 1)
  <2>1. len = 0 \/ Fits(chunk)
    BY <1>1
  <2>2. len = 0 \/ len + Len(chunk) <= CacheSize - 1
    BY <2>1 DEF Fits
  <2> QED
    BY <1>0, <1>4, <2>2
<1>6. len' = k /\ \A i \in 1..k : cache'[i] = Added(chunk, len)[i]
  BY <1>3, <1>4, <1>5, CacheKeeps
<1>7. ASSUME NEW i \in 1..len PROVE cache'[i] = cache[i]
  <2>1. i \in 1..k /\ i \in 1..CacheSize /\ i \notin (len + 1)..(len + Len(chunk))
    BY <1>0, <1>4
  <2> QED
    BY <1>6, <2>1 DEF Added
<1>8. ASSUME NEW i \in 1..Len(chunk) PROVE cache'[len + i] = chunk[i]
  <2>1. PICK j : j = len + i
    OBVIOUS
  <2>2. j \in 1..k /\ j \in 1..CacheSize /\ j \in (len + 1)..(len + Len(chunk)) /\ j - len = i
    BY <1>0, <1>4, <1>5, <2>1
  <2>3. Added(chunk, len)[j] = chunk[j - len]
    BY <2>2 DEF Added
  <2> QED
    BY <1>6, <2>1, <2>2, <2>3
<1> QED
  BY <1>1, <1>4, <1>6, <1>7, <1>8

\* What a task that is logged in has still to give on: what was sent is what it
\* has given and what the stream in the cache and on the wire holds.
Following ==
    \E x \in Streams :
        /\ sent = got \o x[2]
        /\ Holds(x[1], cache, len, link[sock].wire, link[sock].state)

\* A task that asks for the login: until the grant nothing is sent but what asks
\* for it, and then the grant stands before the stream.
Asking ==
    /\ len = 0 /\ got = <<>>
    /\ link[sock].phase # "granted" => sent = <<>> /\ Len(link[sock].wire) <= 1
    /\ link[sock].phase \in {"new", "answered"} => link[sock].wire = <<>>
    /\ link[sock].phase = "granted" =>
          \E x \in Streams :
              /\ sent = x[2]
              /\ Holds(<< 1 >> \o x[1], cache, 0, link[sock].wire, link[sock].state)

InTurn(t) ==
    /\ login[t] => Following
    /\ ~login[t] /\ pc[t] \in AtWork /\ at[t] = "transfer" => Asking

OrderInv == clean => Single /\ IsPrefix(got, sent) /\ \A t \in Running : InTurn(t)

LEMMA FollowingPrefix ==
    ASSUME NEW g \in Seq(Seq(Byte)), NEW x \in Streams PROVE IsPrefix(g, g \o x[2])
<1>1. PICK y \in Seq(Seq(Byte)) : y = x[2]
  BY DEF Streams, Pairs
<1> QED
  BY <1>1, PrefixCat

LEMMA EmptyPrefix == ASSUME NEW S, NEW s \in Seq(S) PROVE IsPrefix(<<>>, s)
<1>1. <<>> \in Seq(S) /\ <<>> \o s = s
  OBVIOUS
<1> QED
  BY <1>1, PrefixCat

\* A task that is alone moves on.
LEMMA OrderMove ==
    ASSUME Typed, NEW t \in Tasks, pc[t] # "off", Single,
           NEW place \in {"create", "connect", "loop", "recv", "frames", "close"},
           pc' = [pc EXCEPT ![t] = place], IsPrefix(got', sent'), InTurn(t)'
    PROVE  OrderInv'
<1>1. t \in Running /\ Running' = Running
  BY DEF Running, Typed, TypeOK
<1>2. Single' /\ \A u \in Running' : u = t
  BY <1>1 DEF Single
<1> QED
  BY <1>2 DEF OrderInv

\* Only the server of the task that is alone can do anything.
LEMMA OneServer ==
    ASSUME Typed, LinkInv, Single, NEW f \in Fds, link[f].state = "up"
    PROVE  f = sock /\ \E t \in Running : Running = {t} /\ pc[t] \in AtWork /\ link[sock].srv = at[t]
                                          /\ LoneTask(t)
<1>1. Running # {}
  BY DEF LinkInv, Quiet, Nothing
<1>2. PICK t \in Running : Running = {t}
  BY <1>1 DEF Single
<1>3. LoneTask(t) /\ pc[t] # "off"
  BY DEF LinkInv, Running
<1>4. pc[t] # "create" /\ f = sock
  BY <1>3 DEF LoneTask
<1>5. pc[t] # "connect"
  BY <1>3, <1>4 DEF LoneTask, Nothing
<1>6. pc[t] \in AtWork
  BY <1>3, <1>4, <1>5 DEF Typed, TypeOK, Running, AtWork
<1> QED
  BY <1>2, <1>3, <1>4, <1>6 DEF LoneTask

LEMMA OrderInit == Init => OrderInv
<1> SUFFICES ASSUME Init PROVE OrderInv
  OBVIOUS
<1>1. Running = {} /\ got = <<>> /\ sent = <<>>
  BY DEF Init, Running
<1>2. IsPrefix(got, sent)
  <2>1. <<>> \in Seq(Byte)
    OBVIOUS
  <2> QED
    BY <1>1, <2>1, EmptyPrefix
<1> QED
  BY <1>1, <1>2 DEF OrderInv, Single

\* One pass of _nnc takes the first frame that is there out of the cache, or
\* leaves the cache as it is.
LEMMA CutInTurn ==
    ASSUME Typed, NEW t \in Tasks, CutFrame(t), clean', sock \in Fds, Following
    PROVE  clean /\ Following'
<1>0. /\ CacheSize \in Nat /\ CacheSize > 4 /\ len \in 0..(CacheSize - 1)
      /\ cache \in [1..CacheSize -> Byte] /\ got \in Seq(Seq(Byte))
  BY LinkAssumption DEF Typed, TypeOK, LinkTypes
<1>01. /\ cache \in Seq(Byte) /\ Len(cache) = CacheSize /\ len \in 0..Len(cache)
       /\ len \in Nat /\ len < CacheSize
  BY <1>0, FunSeq
<1> DEFINE g == MiniDataGet(cache, len)
           moved == [i \in 1..CacheSize |-> cache[IF i <= len - g.skip THEN g.skip + i ELSE i]]
           given == IF g.ok THEN got \o DataOf(g.parm) ELSE got
<1>1. /\ Cache(moved, len - g.skip)
      /\ History(clean /\ ~ReadsStale(cache, len), sent, given)
      /\ UNCHANGED <<sock, link>>
  BY DEF CutFrame
<1> HIDE DEF g
<1>2. clean /\ ~ReadsStale(cache, len) /\ sent' = sent /\ got' = given
  BY <1>1 DEF History
<1>3. PICK x \in Streams : /\ sent = got \o x[2]
                           /\ Holds(x[1], cache, len, link[sock].wire, link[sock].state)
  BY DEF Following
<1>41. link[sock].wire \in Seq(Byte)
  BY DEF Typed, LinkTypes, Socket
<1>42. PICK w \in Seq(Byte) : w = link[sock].wire
  BY <1>41
<1>43. PICK state : state = link[sock].state
  OBVIOUS
<1>4. w = link[sock].wire /\ state = link[sock].state
  BY <1>42, <1>43
<1>5. PICK b \in Seq(Byte), d \in Seq(Seq(Byte)) : b = x[1] /\ d = x[2]
  BY DEF Streams, Pairs
<1>6. Holds(b, cache, len, w, state)
  BY <1>3, <1>4, <1>5
<1>7. /\ len + Len(w) <= Len(b)
      /\ \A i \in 1..len : cache[i] = b[i]
  BY <1>6 DEF Holds
<1>8. ASSUME g = NoFrame(0) PROVE Following'
  <2>1. g.skip = 0 /\ ~g.ok
    BY <1>8 DEF NoFrame
  <2>2. given = got
    BY <2>1
  <2>3. len - g.skip = len /\ len \in 0..(CacheSize - 1)
    BY <1>0, <2>1
  <2>4. Cache(moved, len)
    BY <1>1, <2>3
  <2>5. ASSUME NEW i \in 1..len PROVE moved[i] = cache[i]
    <3>1. i \in 1..CacheSize /\ i <= len - g.skip /\ g.skip + i = i
      BY <1>01, <2>1
    <3> QED
      BY <3>1
  <2> HIDE DEF moved
  <2>6. len' = len /\ \A i \in 1..len : cache'[i] = moved[i]
    BY <2>3, <2>4, CacheKeeps
  <2>7. Holds(b, cache', len', w, state)
    BY <1>6, <2>5, <2>6 DEF Holds
  <2>8. link'[sock'].wire = w /\ link'[sock'].state = state
    BY <1>1, <1>4
  <2>9. sent' = got' \o x[2]
    BY <1>2, <1>3, <2>2
  <2> QED
    BY <1>5, <2>7, <2>8, <2>9 DEF Following
<1>9. CASE x = << <<>>, <<>> >>
  <2>1. Len(b) = 0 /\ Len(w) \in Nat
    BY <1>5, <1>9
  <2>2. len < 3
    BY <1>01, <1>7, <2>1
  <2>3. g = NoFrame(0)
    BY <1>01, <2>2, GetShort DEF g
  <2> QED
    BY <1>2, <1>8, <2>3
<1>10. CASE x # << <<>>, <<>> >>
  <2>1. PICK p \in Frames, y \in Streams : Follows(x, p, y)
    BY <1>10, StreamsFirst
  <2>2. PICK q \in Seq(Byte), e \in Seq(Seq(Byte)) : q = Framed(p) /\ e = DataOf(p)
    BY FrameTyped
  <2>3. PICK z \in Seq(Byte), h \in Seq(Seq(Byte)) : z = y[1] /\ h = y[2]
    BY DEF Streams, Pairs
  <2>4. b = q \o z /\ d = e \o h
    BY <1>5, <2>1, <2>2, <2>3 DEF Follows
  <2>5. Len(q) \in Nat /\ \A i \in 1..Len(q) : b[i] = q[i]
    BY <2>4, Cat
  <2>6. CASE Len(q) <= len
    <3>1. ASSUME NEW i \in 1..Len(q) PROVE cache[i] = q[i]
      <4>1. i \in 1..len
        BY <1>01, <2>5, <2>6
      <4> QED
        BY <1>7, <2>5, <4>1
    <3>2. Len(Framed(p)) <= len /\ \A i \in 1..Len(Framed(p)) : cache[i] = Framed(p)[i]
      BY <2>2, <2>6, <3>1
    <3>3. g = Frame(Len(Framed(p)), p)
      BY <1>01, <3>2, FrameTyped, GetFrame DEF g
    <3>4. g.skip = Len(q) /\ g.ok /\ g.parm = p
      BY <2>2, <3>3 DEF Frame
    <3>5. given = got \o e
      BY <2>2, <3>4
    <3>6. PICK m : m = len - g.skip
      OBVIOUS
    <3>7. m \in Nat /\ m = len - Len(q) /\ m \in 0..(CacheSize - 1)
      BY <1>0, <1>01, <2>5, <2>6, <3>4, <3>6
    <3>8. ASSUME NEW i \in 1..m PROVE moved[i] = cache[Len(q) + i]
      <4>1. i \in 1..CacheSize /\ i <= len - g.skip
        BY <1>01, <2>5, <3>6, <3>7
      <4> QED
        BY <3>4, <4>1
    <3> HIDE DEF moved
    <3>9. Cache(moved, m)
      BY <1>1, <3>6
    <3>10. len' = m /\ \A i \in 1..m : cache'[i] = moved[i]
      BY <3>7, <3>9, CacheKeeps
    <3>11. PICK c, n : c = cache' /\ n = len'
      OBVIOUS
    <3>12. \A i \in 1..(len - Len(q)) : c[i] = cache[Len(q) + i]
      BY <3>7, <3>8, <3>10, <3>11
    <3>13. Holds(q \o z, cache, len, w, state)
      BY <1>6, <2>4
    <3>14. Holds(z, c, len - Len(q), w, state)
      BY <1>01, <2>6, <3>12, <3>13, HoldsCut
    <3>15. Holds(z, cache', len', w, state)
      BY <3>7, <3>10, <3>11, <3>14
    <3>16. link'[sock'].wire = w /\ link'[sock'].state = state
      BY <1>1, <1>4
    <3>17. sent' = got' \o h
      <4>1. PICK u \in Seq(Seq(Byte)) : u = got
        BY <1>0
      <4>2. (u \o e) \o h = u \o (e \o h)
        BY DataAssociative
      <4> QED
        BY <1>2, <1>3, <1>5, <2>4, <3>5, <4>1, <4>2
    <3> QED
      BY <1>2, <2>3, <3>15, <3>16, <3>17 DEF Following
  <2>7. CASE ~(Len(q) <= len)
    <3>1. ASSUME NEW i \in 1..len PROVE cache[i] = q[i]
      <4>1. i \in 1..Len(q)
        BY <1>01, <2>5, <2>7
      <4> QED
        BY <1>7, <2>5, <4>1
    <3>2. len < Len(Framed(p)) /\ \A i \in 1..len : cache[i] = Framed(p)[i]
      BY <1>01, <2>2, <2>5, <2>7, <3>1
    <3>3. g = NoFrame(0)
      BY <1>01, <1>2, <3>2, FrameTyped, GetPart DEF g
    <3> QED
      BY <1>2, <1>8, <3>3
  <2> QED
    BY <2>6, <2>7
<1> QED
  BY <1>2, <1>9, <1>10

\* The login is asked for and answered: nothing else is on the wire.
LEMMA AskInTurn ==
    ASSUME Typed, LinkInv, NEW t \in Tasks, NEW n \in Nat, RecvAsked(t, n), sock \in Fds, on[t] = sock,
           Asking
    PROVE  Asking'
<1>0. /\ HasBytes(t, n) /\ Chunk(t, n)[1] # 1
      /\ link' = [f \in Fds |-> [link[f] EXCEPT
                  !.wire = IF f = on[t] THEN SubSeq(@, n + 1, Len(@)) ELSE @,
                  !.phase = IF f = sock /\ Chunk(t, n)[1] = 0 THEN HxtcpSend(@) ELSE @]]
      /\ UNCHANGED <<sock, cache, len, sent, got>>
  BY Zenon DEF RecvAsked, history
<1>1. link \in [Fds -> Socket] /\ link[sock] \in Socket /\ Sound(link[sock])
  BY DEF Typed, LinkTypes, LinkInv, Sockets
<1>2. PICK w \in Seq(Byte) : w = link[sock].wire
  BY <1>1 DEF Socket
<1>3. PICK r \in Seq(Byte) : /\ r = Rest(t, n) /\ n \in 1..Len(w) /\ Len(r) = Len(w) - n
                             /\ Chunk(t, n)[1] = w[1]
  <2>1. /\ Rest(t, n) \in Seq(Byte) /\ n \in 1..Len(w) /\ Len(Rest(t, n)) = Len(w) - n
        /\ \A i \in 1..n : Chunk(t, n)[i] = w[i]
    BY <1>0, <1>2, ChunkTyped
  <2>2. 1 \in 1..n
    BY <2>1
  <2> QED
    BY <2>1, <2>2
<1>4. link[sock].phase # "granted"
  <2>1. SUFFICES ASSUME link[sock].phase = "granted" PROVE FALSE
    OBVIOUS
  <2>2. PICK x \in Streams : Holds(<< 1 >> \o x[1], cache, 0, w, link[sock].state)
    BY <1>2, <2>1 DEF Asking
  <2>3. PICK b \in Seq(Byte) : b = x[1]
    BY DEF Streams, Pairs
  <2>4. PICK u \in Seq(Byte) : u = << 1 >> \o b /\ u[1] = 1
    <3>1. 1 \in Byte
      BY BytesAssumption DEF Byte
    <3>2. PICK o \in Seq(Byte) : o = << 1 >> /\ Len(o) = 1 /\ o[1] = 1
      BY <3>1, One
    <3>3. o \o b \in Seq(Byte) /\ \A i \in 1..Len(o) : (o \o b)[i] = o[i]
      BY Cat
    <3>4. 1 \in 1..Len(o)
      BY <3>2
    <3> QED
      BY <3>2, <3>3, <3>4
  <2>5. w[1] = u[0 + 1]
    <3>1. 1 \in 1..Len(w)
      BY <1>3
    <3> QED
      BY <2>2, <2>3, <2>4, <3>1 DEF Holds
  <2>6. 0 + 1 = 1
    OBVIOUS
  <2>7. w[1] = 1
    BY <2>4, <2>5, <2>6
  <2> QED
    BY <1>0, <1>3, <2>7
<1>5. Len(w) <= 1 /\ sent = <<>> /\ len = 0 /\ got = <<>>
  BY <1>2, <1>4 DEF Asking
<1>6. Len(r) = 0 /\ r = <<>> /\ n = 1 /\ Len(w) = 1
  <2>1. Len(w) \in Nat
    OBVIOUS
  <2>2. Len(w) = 1 /\ n = 1 /\ Len(r) = 0
    BY <1>3, <1>5, <2>1
  <2>3. r = <<>>
    BY <2>2
  <2> QED
    BY <2>2, <2>3
<1>7. link'[sock].wire = r
  <2>1. SubSeq(link[sock].wire, n + 1, Len(link[sock].wire)) = r
    BY <1>3 DEF Rest
  <2>2. PICK ph : link'[sock] = [link[sock] EXCEPT !.wire = r, !.phase = ph]
    BY <1>0, <1>1, <2>1 DEF Socket
  <2> QED
    BY <1>1, <2>2 DEF Socket
<1>8. link'[sock].phase # "granted"
  <2>1. PICK ph, v : /\ ph = IF sock = sock /\ Chunk(t, n)[1] = 0 THEN HxtcpSend(link[sock].phase)
                                                                  ELSE link[sock].phase
                     /\ link'[sock] = [link[sock] EXCEPT !.wire = v, !.phase = ph]
    BY <1>0, <1>1 DEF Socket
  <2>2. ph # "granted"
    BY <1>4, <2>1 DEF HxtcpSend
  <2> QED
    BY <1>1, <2>1, <2>2 DEF Socket
<1>9. sock' = sock /\ len' = 0 /\ got' = <<>> /\ sent' = <<>>
  BY <1>0, <1>5
<1>10. link'[sock'].wire = <<>> /\ Len(link'[sock'].wire) <= 1 /\ link'[sock'].phase # "granted"
  <2>1. Len(<<>>) <= 1
    OBVIOUS
  <2> QED
    BY <1>6, <1>7, <1>8, <1>9, <2>1
<1> QED
  BY <1>9, <1>10 DEF Asking

\* A chunk behind the grant goes into the cache, one of a stream behind the rest
\* of it.
LEMMA ChunkInTurn ==
    ASSUME Typed, NEW t \in Tasks, NEW n \in Nat, HasBytes(t, n), Take(t, n),
           sock \in Fds, on[t] = sock, UNCHANGED sock, clean',
           \/ Asking /\ link[sock].phase = "granted" /\ Store(Tail(Chunk(t, n))) /\ n <= CacheSize
           \/ Following /\ Store(Chunk(t, n)) /\ n < CacheSize
    PROVE  Following'
<1>0. CacheSize \in Nat /\ len \in Nat
  BY LinkAssumption DEF Typed, TypeOK
<1>11. link[sock].wire \in Seq(Byte)
  BY DEF Typed, LinkTypes, Socket
<1>12. PICK w \in Seq(Byte) : w = link[sock].wire
  BY <1>11
<1>13. PICK state : state = link[sock].state
  OBVIOUS
<1>1. w = link[sock].wire /\ state = link[sock].state
  BY <1>12, <1>13
<1>2. PICK r \in Seq(Byte), c \in Seq(Byte) :
             /\ r = Rest(t, n) /\ c = Chunk(t, n) /\ n \in 1..Len(w)
             /\ Len(c) = n /\ Len(r) = Len(w) - n
             /\ \A i \in 1..n : c[i] = w[i]
             /\ \A i \in 1..Len(r) : r[i] = w[n + i]
  BY <1>1, ChunkTyped
<1>3. link'[sock'].wire = r /\ link'[sock'].state = state
  <2>1. link' = [link EXCEPT ![sock] = [link[sock] EXCEPT !.wire = r]]
    BY <1>2, TakeTyped
  <2>2. link[sock] \in Socket /\ link \in [Fds -> Socket]
    BY DEF Typed, LinkTypes
  <2> QED
    BY <1>1, <2>1, <2>2 DEF Socket
<1>4. PICK d, k : d = cache' /\ k = len'
  OBVIOUS
<1>5. CASE Asking /\ link[sock].phase = "granted" /\ Store(Tail(Chunk(t, n))) /\ n <= CacheSize
  <2>1. PICK x \in Streams : sent = x[2] /\ Holds(<< 1 >> \o x[1], cache, 0, w, state)
    BY <1>1, <1>5 DEF Asking
  <2>2. PICK b \in Seq(Byte), e \in Seq(Seq(Byte)) : b = x[1] /\ e = x[2]
    BY DEF Streams, Pairs
  <2>3. len = 0 /\ got = <<>>
    BY <1>5 DEF Asking
  <2>4. PICK h \in Seq(Byte) : h = Tail(c)
    <3>1. c # <<>>
      BY <1>2
    <3>2. Tail(c) \in Seq(Byte)
      BY <3>1
    <3> QED
      BY <3>2
  <2>5. Len(h) = n - 1 /\ \A i \in 1..(n - 1) : h[i] = c[i + 1]
    BY <1>2, <2>4
  <2>6. Store(h) /\ Len(h) < CacheSize
    BY <1>0, <1>2, <1>5, <2>4, <2>5
  <2>7. /\ sent' = sent /\ got' = got /\ len' = len + Len(h)
        /\ \A i \in 1..Len(h) : cache'[len + i] = h[i]
    BY <2>6, StoreKeeps
  <2>8. k = n - 1
    BY <1>2, <1>4, <2>3, <2>5, <2>7
  <2>9. ASSUME NEW i \in 1..(n - 1) PROVE d[i] = w[1 + i]
    <3>1. i \in Int /\ i \in 1..Len(h) /\ i + 1 \in 1..n /\ 0 + i = i /\ i + 1 = 1 + i
      BY <1>2, <2>5
    <3>2. d[i] = h[i]
      BY <1>4, <2>3, <2>7, <3>1
    <3>3. h[i] = c[i + 1] /\ c[i + 1] = w[i + 1]
      BY <1>2, <2>5, <3>1
    <3> QED
      BY <3>1, <3>2, <3>3
  <2>10. 1 \in Byte
    BY BytesAssumption DEF Byte
  <2>11. Holds(<< 1 >> \o b, cache, 0, w, state)
    BY <2>1, <2>2
  <2>12. Holds(b, d, n - 1, r, state)
    <3>1. PICK g : g = cache
      OBVIOUS
    <3>2. Holds(<< 1 >> \o b, g, 0, w, state)
      BY <2>11, <3>1
    <3> QED
      BY <1>2, <2>9, <2>10, <3>2, HoldsGrant
  <2>13. sent' = got' \o x[2]
    <3>1. <<>> \o e = e
      OBVIOUS
    <3> QED
      BY <2>1, <2>2, <2>3, <2>7, <3>1
  <2> QED
    BY <1>3, <1>4, <2>2, <2>8, <2>12, <2>13 DEF Following
<1>6. CASE Following /\ Store(Chunk(t, n)) /\ n < CacheSize
  <2>1. PICK x \in Streams : sent = got \o x[2] /\ Holds(x[1], cache, len, w, state)
    BY <1>1, <1>6 DEF Following
  <2>2. PICK b \in Seq(Byte) : b = x[1]
    BY DEF Streams, Pairs
  <2>3. /\ sent' = sent /\ got' = got /\ len' = len + n
        /\ \A i \in 1..len : cache'[i] = cache[i]
        /\ \A i \in 1..n : cache'[len + i] = w[i]
    BY <1>2, <1>6, StoreKeeps
  <2>41. PICK g, m : g = cache /\ m = len
    OBVIOUS
  <2>4. g = cache /\ m = len /\ m \in Nat
    BY <1>0, <2>41
  <2>5. /\ \A i \in 1..m : d[i] = g[i]
        /\ \A i \in 1..n : d[m + i] = w[i]
    BY <1>4, <2>3, <2>4
  <2>6. Holds(b, g, m, w, state)
    BY <2>1, <2>2, <2>4
  <2>7. Holds(b, d, m + n, r, state)
    BY <1>2, <2>4, <2>5, <2>6, HoldsChunk
  <2>8. Holds(x[1], cache', len', r, state)
    BY <1>4, <2>2, <2>3, <2>4, <2>7
  <2> QED
    BY <1>3, <2>1, <2>3, <2>8 DEF Following
<1> QED
  BY <1>5, <1>6

\* A frame that is sent lengthens the stream.
LEMMA SendInTurn ==
    ASSUME Typed, NEW p \in Frames, SendsFrame(sock, p), sock \in Fds, clean'
    PROVE  (Following => Following') /\ (Asking => Asking')
<1>0. link \in [Fds -> Socket] /\ link[sock] \in Socket /\ len \in Nat /\ got \in Seq(Seq(Byte))
      /\ sent \in Seq(Seq(Byte))
  BY LinkAssumption DEF Typed, LinkTypes, TypeOK
<1>1. PICK w \in Seq(Byte) : w = link[sock].wire
  BY <1>0 DEF Socket
<1>2. PICK q \in Seq(Byte), e \in Seq(Seq(Byte)) : q = Framed(p) /\ e = DataOf(p)
  BY FrameTyped
<1>3. /\ link[sock].state = "up" /\ link[sock].phase = "granted"
      /\ link' = [link EXCEPT ![sock].wire = w \o q]
      /\ sent' = sent \o e /\ got' = got /\ UNCHANGED <<sock, cache, len>>
  BY <1>0, <1>1, <1>2 DEF SendsFrame, History
<1>4. link'[sock'].wire = w \o q /\ link'[sock'].state = "up" /\ link'[sock'].phase = "granted"
  BY <1>0, <1>3 DEF Socket
<1>51. PICK c, n : c = cache /\ n = len
  OBVIOUS
<1>5. c = cache /\ n = len /\ n \in Nat
  BY <1>0, <1>51
<1>6. ASSUME Following PROVE Following'
  <2>1. PICK x \in Streams : sent = got \o x[2] /\ Holds(x[1], c, n, w, "up")
    BY <1>1, <1>3, <1>5, <1>6 DEF Following
  <2>2. PICK b \in Seq(Byte), d \in Seq(Seq(Byte)) : b = x[1] /\ d = x[2]
    BY DEF Streams, Pairs
  <2>3. PICK y \in Streams : y = WithFrame(x, p)
    BY StreamsAppend
  <2>4. y[1] = b \o q /\ y[2] = d \o e
    BY <1>2, <2>2, <2>3 DEF WithFrame
  <2>5. Holds(b, c, n, w, "up")
    BY <2>1, <2>2
  <2>6. Holds(b \o q, c, n, w \o q, "up")
    BY <1>5, <2>5, HoldsMore
  <2>7. PICK u \in Seq(Seq(Byte)) : u = got
    BY <1>0
  <2>8. (u \o d) \o e = u \o (d \o e)
    BY DataAssociative
  <2>9. sent' = got' \o y[2]
    BY <1>3, <2>1, <2>2, <2>4, <2>7, <2>8
  <2>10. Holds(y[1], cache', len', link'[sock'].wire, link'[sock'].state)
    BY <1>3, <1>4, <1>5, <2>4, <2>6
  <2> QED
    BY <2>9, <2>10 DEF Following
<1>7. ASSUME Asking PROVE Asking'
  <2>1. PICK x \in Streams : sent = x[2] /\ Holds(<< 1 >> \o x[1], c, 0, w, "up")
    BY <1>1, <1>3, <1>5, <1>7 DEF Asking
  <2>2. PICK b \in Seq(Byte), d \in Seq(Seq(Byte)) : b = x[1] /\ d = x[2]
    BY DEF Streams, Pairs
  <2>3. PICK y \in Streams : y = WithFrame(x, p)
    BY StreamsAppend
  <2>4. y[1] = b \o q /\ y[2] = d \o e
    BY <1>2, <2>2, <2>3 DEF WithFrame
  <2>5. PICK o \in Seq(Byte) : o = << 1 >>
    <3>1. 1 \in Byte
      BY BytesAssumption DEF Byte
    <3> QED
      BY <3>1, One
  <2>6. PICK v \in Seq(Byte) : v = o \o b
    BY Cat
  <2>7. Holds(v, c, 0, w, "up")
    BY <2>1, <2>2, <2>5, <2>6
  <2>8. Holds(v \o q, c, 0, w \o q, "up")
    BY <2>7, HoldsMore
  <2>9. (o \o b) \o q = o \o (b \o q)
    OBVIOUS
  <2>10. v \o q = << 1 >> \o y[1]
    BY <2>4, <2>5, <2>6, <2>9
  <2>11. Holds(<< 1 >> \o y[1], cache', 0, link'[sock'].wire, link'[sock'].state)
    BY <1>3, <1>4, <1>5, <2>8, <2>10
  <2>12. sent' = y[2] /\ len' = 0 /\ got' = <<>>
    BY <1>3, <1>7, <2>1, <2>2, <2>4 DEF Asking
  <2> QED
    BY <1>4, <2>11, <2>12 DEF Asking
<1> QED
  BY <1>6, <1>7
\* A step of a server changes nothing but what the task that is alone has to
\* give on.
LEMMA OrderServer ==
    ASSUME NEW t \in Running, Running = {t}, UNCHANGED <<pc, at, login>>, IsPrefix(got', sent'),
           login[t] => Following', ~login[t] /\ at[t] = "transfer" => Asking'
    PROVE  OrderInv'
<1>1. Running' = {t} /\ Single'
  BY DEF Running, Single
<1>2. InTurn(t)'
  BY DEF InTurn
<1> QED
  BY <1>1, <1>2 DEF OrderInv

\* The link ends: what has come through can still be given on.
LEMMA HangInTurn ==
    ASSUME Typed, NEW reset \in BOOLEAN, HangsUp(sock, reset), sock \in Fds
    PROVE  (Following => Following') /\ (Asking => Asking')
<1>0. link \in [Fds -> Socket] /\ link[sock] \in Socket /\ len \in Nat
  BY LinkAssumption DEF Typed, LinkTypes, TypeOK
<1>1. PICK w \in Seq(Byte) : w = link[sock].wire
  BY <1>0 DEF Socket
<1>2. PICK v : v = IF reset THEN <<>> ELSE w
  OBVIOUS
<1>3. /\ link' = [link EXCEPT ![sock].state = "gone", ![sock].wire = v]
      /\ UNCHANGED <<sock, cache, len, sent, got>>
  BY <1>1, <1>2 DEF HangsUp, ServerUnchanged, history
<1>4. /\ link'[sock'].wire = v /\ link'[sock'].state = "gone"
      /\ link'[sock'].phase = link[sock].phase
  BY <1>0, <1>3 DEF Socket
<1>51. PICK c, n : c = cache /\ n = len
  OBVIOUS
<1>52. PICK state : state = link[sock].state
  OBVIOUS
<1>5. c = cache /\ n = len /\ n \in Nat
  BY <1>0, <1>51
<1>6. ASSUME Following PROVE Following'
  <2>1. PICK x \in Streams : sent = got \o x[2] /\ Holds(x[1], c, n, w, state)
    BY <1>1, <1>5, <1>52, <1>6 DEF Following
  <2>2. PICK b \in Seq(Byte) : b = x[1]
    BY DEF Streams, Pairs
  <2>3. Holds(b, c, n, w, state)
    BY <2>1, <2>2
  <2>4. Holds(b, c, n, w, "gone") /\ Holds(b, c, n, <<>>, "gone")
    BY <1>5, <2>3, HoldsGone
  <2>5. Holds(x[1], c, n, v, "gone")
    BY <1>2, <2>2, <2>4
  <2>6. Holds(x[1], cache', len', link'[sock'].wire, link'[sock'].state)
    BY <1>3, <1>4, <1>5, <2>5
  <2> QED
    BY <1>3, <2>1, <2>6 DEF Following
<1>7. ASSUME Asking PROVE Asking'
  <2>1. len' = 0 /\ got' = <<>>
    BY <1>3, <1>7 DEF Asking
  <2>2. link'[sock'].phase # "granted" => sent' = <<>> /\ Len(link'[sock'].wire) <= 1
    <3>1. Len(<<>>) <= 1
      OBVIOUS
    <3> QED
      BY <1>1, <1>2, <1>3, <1>4, <1>7, <3>1 DEF Asking
  <2>3. link'[sock'].phase \in {"new", "answered"} => link'[sock'].wire = <<>>
    BY <1>1, <1>2, <1>4, <1>7 DEF Asking
  <2>4. ASSUME link'[sock'].phase = "granted"
        PROVE  \E x \in Streams :
                 /\ sent' = x[2]
                 /\ Holds(<< 1 >> \o x[1], cache', 0, link'[sock'].wire, link'[sock'].state)
    <3>1. PICK x \in Streams : sent = x[2] /\ Holds(<< 1 >> \o x[1], c, 0, w, state)
      BY <1>1, <1>4, <1>5, <1>52, <1>7, <2>4 DEF Asking
    <3>2. PICK b \in Seq(Byte) : b = x[1]
      BY DEF Streams, Pairs
    <3>3. PICK o \in Seq(Byte) : o = << 1 >>
      <4>1. 1 \in Byte
        BY BytesAssumption DEF Byte
      <4> QED
        BY <4>1, One
    <3>4. PICK u \in Seq(Byte) : u = o \o b
      BY Cat
    <3>5. Holds(u, c, 0, w, state)
      BY <3>1, <3>2, <3>3, <3>4
    <3>6. Holds(u, c, 0, w, "gone") /\ Holds(u, c, 0, <<>>, "gone")
      BY <3>5, HoldsGone
    <3>7. Holds(<< 1 >> \o x[1], c, 0, v, "gone")
      BY <1>2, <3>2, <3>3, <3>4, <3>6
    <3> QED
      BY <1>3, <1>4, <1>5, <3>1, <3>7
  <2> QED
    BY <2>1, <2>2, <2>3, <2>4 DEF Asking
<1> QED
  BY <1>6, <1>7

\* The server asks for the login ...
LEMMA AsksInTurn ==
    ASSUME Typed, AsksLogin(sock), sock \in Fds, Asking
    PROVE  Asking'
<1>0. link \in [Fds -> Socket] /\ link[sock] \in Socket
  BY DEF Typed, LinkTypes
<1>1. len = 0 /\ got = <<>> /\ sent = <<>> /\ link[sock].wire = <<>>
  BY DEF AsksLogin, Asking
<1>2. link' = [link EXCEPT ![sock].phase = "asked", ![sock].wire = Append(<<>>, 0)]
  BY <1>0, <1>1 DEF AsksLogin
<1>3. UNCHANGED <<sock, len, sent, got>>
  BY DEF AsksLogin, ServerUnchanged, history
<1>4. link'[sock'].phase = "asked" /\ link'[sock'].wire = Append(<<>>, 0)
  BY <1>0, <1>2, <1>3 DEF Socket
<1>5. Len(Append(<<>>, 0)) <= 1
  OBVIOUS
<1>6. /\ len' = 0 /\ got' = <<>> /\ sent' = <<>> /\ Len(link'[sock'].wire) <= 1
      /\ link'[sock'].phase \notin {"new", "answered", "granted"}
  BY <1>1, <1>3, <1>4, <1>5
<1> QED
  BY <1>6 DEF Asking

\* ... and grants it: the stream behind the grant is still empty.
LEMMA GrantsInTurn ==
    ASSUME Typed, GrantsLogin(sock), sock \in Fds, Asking
    PROVE  Asking'
<1>0. link \in [Fds -> Socket] /\ link[sock] \in Socket
  BY DEF Typed, LinkTypes
<1>1. len = 0 /\ got = <<>> /\ sent = <<>> /\ link[sock].wire = <<>> /\ link[sock].state = "up"
  BY DEF GrantsLogin, Asking
<1>2. PICK o \in Seq(Byte) : o = << 1 >> /\ Len(o) = 1
  <2>1. 1 \in Byte
    BY BytesAssumption DEF Byte
  <2> QED
    BY <2>1, One
<1>3. Append(<<>>, 1) = o
  BY <1>2
<1>4. link' = [link EXCEPT ![sock].phase = "granted", ![sock].wire = o]
  BY <1>0, <1>1, <1>3 DEF GrantsLogin
<1>5. UNCHANGED <<sock, cache, len, sent, got>>
  BY DEF GrantsLogin, ServerUnchanged, history
<1>6. link'[sock'].phase = "granted" /\ link'[sock'].wire = o /\ link'[sock'].state = "up"
  BY <1>0, <1>1, <1>4, <1>5 DEF Socket
<1>7. Holds(o, cache, 0, o, "up")
  <2>1. \A i \in 1..0 : cache[i] = o[i]
    OBVIOUS
  <2>2. 0 + Len(o) = Len(o) /\ \A i \in 1..Len(o) : 0 + i = i
    BY <1>2
  <2>3. \A i \in 1..Len(o) : o[i] = o[0 + i]
    BY <2>2
  <2>4. 0 + Len(o) <= Len(o)
    BY <1>2
  <2> QED
    BY <2>1, <2>2, <2>3, <2>4 DEF Holds
<1>8. PICK x \in Streams : x = << <<>>, <<>> >>
  BY StreamsEmpty
<1>9. << 1 >> \o x[1] = o
  <2>1. o \o <<>> = o
    OBVIOUS
  <2> QED
    BY <1>2, <1>8, <2>1
<1>10. sent' = x[2] /\ Holds(<< 1 >> \o x[1], cache', 0, link'[sock'].wire, link'[sock'].state)
  BY <1>1, <1>5, <1>6, <1>7, <1>8, <1>9
<1> QED
  BY <1>1, <1>5, <1>6, <1>10 DEF Asking

LEMMA OrderStep == Typed /\ LinkInv /\ OrderInv /\ [Next]_vars => OrderInv'
<1> SUFFICES ASSUME Typed, LinkInv, OrderInv, [Next]_vars, clean' PROVE OrderInv'
  BY DEF OrderInv
<1>0. /\ pc \in [Tasks -> {"off", "create", "connect", "loop", "recv", "frames", "close"}]
      /\ at \in [Tasks -> {"dispatch", "transfer"}] /\ login \in [Tasks -> BOOLEAN]
      /\ link \in [Fds -> Socket] /\ CacheSize \in Nat
      /\ sent \in Seq(Seq(Byte)) /\ got \in Seq(Seq(Byte))
  BY LinkAssumption DEF Typed, LinkTypes, TypeOK
<1>01. clean => Single /\ IsPrefix(got, sent) /\ \A t \in Running : InTurn(t)
  BY DEF OrderInv
<1>02. \A t \in Tasks : login[t] => pc[t] \in AtWork /\ at[t] = "transfer"
  BY DEF LinkInv, Quiet
<1>03. ASSUME NEW t \in Tasks, pc[t] # "off", Single PROVE LoneTask(t)
  BY <1>03 DEF LinkInv, Running
<1>04. Alone <=> Single
  BY AloneSingle DEF LinkInv
<1>1. ASSUME NEW t \in Tasks, Start(t) PROVE OrderInv'
  <2>1. pc[t] = "off" /\ pc' = [pc EXCEPT ![t] = "create"] /\ UNCHANGED <<at, login>>
    BY <1>1 DEF Start
  <2>2. clean /\ Alone' /\ sent' = sent /\ got' = got
    BY <1>1 DEF Start, History
  <2>3. t \notin Running /\ Running' = Running \cup {t}
    BY <1>0, <2>1 DEF Running
  <2>4. IsFiniteSet(Running')
    BY <2>3, FS_AddElement DEF LinkInv
  <2>5. Cardinality(Running') = Cardinality(Running) + 1 /\ Cardinality(Running) \in Nat
    BY <2>3, FS_AddElement, FS_CardinalityType DEF LinkInv
  <2>6. Cardinality(Running) = 0
    BY <2>2, <2>5 DEF Alone
  <2>7. Running = {}
    BY <2>6, FS_EmptySet DEF LinkInv
  <2>8. Running' = {t}
    BY <2>3, <2>7
  <2>9. ~login'[t] /\ pc'[t] = "create"
    BY <1>0, <1>02, <2>1 DEF AtWork
  <2>10. InTurn(t)'
    BY <2>9 DEF InTurn, AtWork
  <2>11. Single'
    BY <2>8 DEF Single
  <2> QED
    BY <1>01, <2>2, <2>8, <2>10, <2>11 DEF OrderInv
<1>2. ASSUME NEW t \in Tasks, LookupFails(t) PROVE OrderInv'
  <2>1. Running' = {} /\ got' = <<>> /\ sent' = <<>>
    BY <1>2 DEF LookupFails, Running, History
  <2>2. IsPrefix(got', sent')
    <3>1. <<>> \in Seq(Byte)
      OBVIOUS
    <3> QED
      BY <2>1, <3>1, EmptyPrefix
  <2> QED
    BY <2>1, <2>2 DEF OrderInv, Single
\* Outside the loop nothing is given on.
<1>3. ASSUME NEW t \in Tasks, pc[t] # "off", NEW place \in {"create", "connect"},
             pc' = [pc EXCEPT ![t] = place], ~login'[t], UNCHANGED history
      PROVE  OrderInv'
  <2>1. clean /\ sent' = sent /\ got' = got
    BY <1>3 DEF history
  <2>2. InTurn(t)'
    BY <1>0, <1>3 DEF InTurn, AtWork
  <2> QED
    BY <1>01, <1>3, <2>1, <2>2, OrderMove
<1>4. ASSUME NEW t \in Tasks, NoAddress(t) \/ NoSocket(t) \/ Connect(t) \/ ConnectFails(t)
      PROVE  OrderInv'
  <2>1. /\ pc[t] \in {"create", "connect"} /\ UNCHANGED login /\ UNCHANGED history
    BY <1>4, Zenon DEF NoAddress, NoSocket, Connect, ConnectFails
  <2>2. PICK place \in {"create", "connect"} : pc' = [pc EXCEPT ![t] = place]
    BY <1>4 DEF NoAddress, NoSocket, Connect, ConnectFails, Onward
  <2>3. ~login'[t]
    BY <1>02, <2>1 DEF AtWork
  <2> QED
    BY <1>3, <2>1, <2>2, <2>3
<1>5. ASSUME NEW t \in Tasks, CloseSocket(t) PROVE OrderInv'
  <2>1. /\ pc[t] = "close" /\ pc' = [pc EXCEPT ![t] = "create"]
        /\ login' = [login EXCEPT ![t] = FALSE] /\ UNCHANGED history
    BY <1>5 DEF CloseSocket, Onward
  <2> QED
    BY <1>0, <1>3, <2>1
<1>6. ASSUME NEW t \in Tasks, Connected(t) PROVE OrderInv'
  <2>1. /\ pc[t] = "connect" /\ pc' = [pc EXCEPT ![t] = "loop"]
        /\ link' = [link EXCEPT ![on[t]].state = "up"]
        /\ UNCHANGED <<at, on, login, sock, cache, len>>
        /\ IF at[t] = "transfer" THEN History(Alone /\ len = 0, <<>>, <<>>) ELSE UNCHANGED history
    BY <1>6, Zenon DEF Connected
  <2>2. ~login'[t]
    BY <1>02, <2>1 DEF AtWork
  <2>3. CASE at[t] = "dispatch"
    <3>1. clean /\ sent' = sent /\ got' = got
      BY <2>1, <2>3 DEF history
    <3>2. InTurn(t)'
      BY <2>1, <2>2, <2>3 DEF InTurn
    <3> QED
      BY <1>01, <2>1, <3>1, <3>2, OrderMove
  <2>4. CASE at[t] = "transfer"
    <3>1. Single /\ len = 0 /\ sent' = <<>> /\ got' = <<>>
      BY <1>04, <2>1, <2>4 DEF History
    <3>2. LoneTask(t)
      BY <1>03, <2>1, <3>1
    <3>3. /\ on[t] = sock /\ sock \in Fds
          /\ link[sock] = [Nothing EXCEPT !.srv = at[t], !.state = "opening"]
      BY <2>1, <3>2 DEF LoneTask
    <3>4. link[sock].phase = "new" /\ link[sock].wire = <<>>
      BY <3>3 DEF Nothing
    <3>5. link'[sock'].phase = "new" /\ link'[sock'].wire = <<>>
      BY <1>0, <2>1, <3>3, <3>4 DEF Socket
    <3>6. Len(<<>>) <= 1
      OBVIOUS
    <3>7. Asking'
      BY <2>1, <3>1, <3>5, <3>6 DEF Asking
    <3>8. InTurn(t)'
      BY <2>2, <3>7 DEF InTurn
    <3>9. IsPrefix(got', sent')
      <4>1. <<>> \in Seq(Byte)
        OBVIOUS
      <4> QED
        BY <3>1, <4>1, EmptyPrefix
    <3> QED
      BY <2>1, <3>1, <3>8, <3>9, OrderMove
  <2> QED
    BY <1>0, <2>3, <2>4
<1>7. ASSUME NEW t \in Tasks, Recv(t) \/ RecvEnds(t) PROVE OrderInv'
  <2>1. /\ pc[t] \in AtWork /\ UNCHANGED <<at, login, sock, link, cache, len>>
        /\ UNCHANGED <<sent, got, clean>>
    BY <1>7, Zenon DEF Recv, RecvEnds, AtWork, history
  <2>2. PICK place \in {"recv", "close"} : pc' = [pc EXCEPT ![t] = place]
    BY <1>7 DEF Recv, RecvEnds
  <2>3. pc[t] # "off"
    BY <2>1 DEF AtWork
  <2>4. Single /\ IsPrefix(got, sent) /\ InTurn(t)
    BY <1>01, <2>1, <2>3 DEF Running
  <2>5. Following' <=> Following
    BY <2>1 DEF Following
  <2>6. Asking' <=> Asking
    BY <2>1 DEF Asking
  <2>7. InTurn(t)'
    BY <2>1, <2>4, <2>5, <2>6 DEF InTurn
  <2> QED
    BY <2>1, <2>2, <2>3, <2>4, <2>7, OrderMove
\* A task that receives something or looks for frames works on the shared socket.
<1>8. ASSUME NEW t \in Tasks, pc[t] \in {"recv", "frames"}, clean
      PROVE  /\ Single /\ IsPrefix(got, sent) /\ InTurn(t) /\ sock \in Fds
             /\ pc[t] = "recv" => on[t] = sock
             /\ pc[t] = "frames" => login[t]
  <2>1. pc[t] # "off" /\ pc[t] # "create"
    BY <1>8
  <2>2. Single /\ IsPrefix(got, sent) /\ InTurn(t)
    BY <1>01, <1>8, <2>1 DEF Running
  <2>3. LoneTask(t)
    BY <1>03, <2>1, <2>2
  <2> QED
    BY <2>1, <2>2, <2>3 DEF LoneTask
<1>9. ASSUME NEW t \in Tasks, CutFrame(t) PROVE OrderInv'
  <2>1. pc[t] = "frames" /\ UNCHANGED login
    BY <1>9 DEF CutFrame
  <2>2. PICK place \in {"frames", "loop"} : pc' = [pc EXCEPT ![t] = place]
    BY <1>9 DEF CutFrame
  <2>3. clean
    BY <1>9 DEF CutFrame, History
  <2>4. Single /\ sock \in Fds /\ login[t] /\ InTurn(t)
    BY <1>8, <2>1, <2>3
  <2>5. Following
    BY <2>4 DEF InTurn
  <2>6. Following'
    BY <1>9, <2>4, <2>5, CutInTurn
  <2>7. IsPrefix(got', sent')
    <3>1. PICK x \in Streams : sent' = got' \o x[2]
      BY <2>6 DEF Following
    <3>2. PICK g \in Seq(Seq(Byte)) : g = got'
      BY TypeStep DEF Typed, LinkTypes
    <3>3. IsPrefix(g, g \o x[2])
      BY FollowingPrefix
    <3> QED
      BY <3>1, <3>2, <3>3
  <2>8. InTurn(t)'
    BY <2>1, <2>4, <2>6 DEF InTurn
  <2> QED
    BY <2>1, <2>2, <2>4, <2>7, <2>8, OrderMove
<1>10. ASSUME NEW t \in Tasks, NEW n \in 1..CacheSize, RecvAddress(t, n) PROVE OrderInv'
  <2>1. /\ pc[t] = "recv" /\ at[t] = "dispatch" /\ UNCHANGED <<at, login>>
        /\ UNCHANGED <<sent, got, clean>>
    BY <1>10, Zenon DEF RecvAddress, HasBytes, history
  <2>2. PICK place \in {"loop", "close"} : pc' = [pc EXCEPT ![t] = place]
    BY <1>10 DEF RecvAddress
  <2>3. ~login'[t] /\ at'[t] = "dispatch"
    BY <1>02, <2>1
  <2>4. InTurn(t)'
    BY <2>3 DEF InTurn
  <2>5. Single /\ IsPrefix(got, sent)
    BY <1>8, <2>1
  <2> QED
    BY <2>1, <2>2, <2>4, <2>5, OrderMove
<1>11. ASSUME NEW t \in Tasks, NEW n \in 1..CacheSize, RecvAsked(t, n) PROVE OrderInv'
  <2>1. /\ pc[t] = "recv" /\ at[t] = "transfer" /\ ~login[t] /\ pc' = [pc EXCEPT ![t] = "loop"]
        /\ UNCHANGED <<at, login>> /\ UNCHANGED <<sent, got, clean>>
    BY <1>11, Zenon DEF RecvAsked, HasBytes, history
  <2>2. Single /\ IsPrefix(got, sent) /\ InTurn(t) /\ sock \in Fds /\ on[t] = sock
    BY <1>8, <2>1
  <2>3. Asking
    BY <2>1, <2>2 DEF InTurn, AtWork
  <2>4. n \in Nat
    BY <1>0
  <2>5. Asking'
    BY <1>11, <2>2, <2>3, <2>4, AskInTurn
  <2>6. InTurn(t)'
    BY <2>1, <2>5 DEF InTurn
  <2> QED
    BY <2>1, <2>2, <2>6, OrderMove
<1>12. ASSUME NEW t \in Tasks, NEW n \in Nat, HasBytes(t, n), Take(t, n), clean, UNCHANGED sock,
              pc' = [pc EXCEPT ![t] = "frames"], login'[t], sent' = sent, got' = got,
              \/ Asking /\ link[sock].phase = "granted" /\ Store(Tail(Chunk(t, n))) /\ n <= CacheSize
              \/ Following /\ Store(Chunk(t, n)) /\ n < CacheSize
       PROVE  OrderInv'
  <2>1. pc[t] = "recv"
    BY <1>12 DEF HasBytes
  <2>2. Single /\ IsPrefix(got, sent) /\ sock \in Fds /\ on[t] = sock
    BY <1>8, <1>12, <2>1
  <2>3. Following'
    BY <1>12, <2>2, ChunkInTurn
  <2>4. InTurn(t)'
    BY <1>12, <2>3 DEF InTurn
  <2> QED
    BY <1>12, <2>1, <2>2, <2>4, OrderMove
<1>13. ASSUME NEW t \in Tasks, NEW n \in 1..CacheSize, RecvGranted(t, n) PROVE OrderInv'
  <2>1. /\ n \in Nat /\ HasBytes(t, n) /\ Take(t, n) /\ at[t] = "transfer" /\ ~login[t]
        /\ Chunk(t, n)[1] = 1 /\ n <= CacheSize /\ Store(Tail(Chunk(t, n)))
        /\ pc' = [pc EXCEPT ![t] = "frames"] /\ login' = [login EXCEPT ![t] = TRUE]
        /\ UNCHANGED sock
    BY <1>0, <1>13 DEF RecvGranted
  <2>2. clean /\ sent' = sent /\ got' = got
    BY <2>1 DEF Store, History
  <2>3. pc[t] = "recv"
    BY <2>1 DEF HasBytes
  <2>4. InTurn(t) /\ sock \in Fds /\ on[t] = sock
    BY <1>8, <2>2, <2>3
  <2>5. Asking
    BY <2>1, <2>3, <2>4 DEF InTurn, AtWork
  <2>6. n \in 1..Len(link[on[t]].wire) /\ \A i \in 1..n : Chunk(t, n)[i] = link[on[t]].wire[i]
    BY <2>1, ChunkTyped
  <2>7. link[sock].wire[1] = 1 /\ 1 \in 1..Len(link[sock].wire)
    BY <2>1, <2>4, <2>6
  <2>8. link[sock].phase = "granted"
    BY <2>4, <2>7 DEF LinkInv, Sockets, Sound
  <2>9. login'[t]
    BY <1>0, <2>1
  <2> QED
    BY <1>12, <2>1, <2>2, <2>5, <2>8, <2>9
<1>14. ASSUME NEW t \in Tasks, NEW n \in 1..CacheSize, RecvData(t, n) PROVE OrderInv'
  <2>1. /\ n \in Nat /\ HasBytes(t, n) /\ Take(t, n) /\ login[t] /\ n < CacheSize
        /\ Store(Chunk(t, n)) /\ pc' = [pc EXCEPT ![t] = "frames"] /\ UNCHANGED <<login, sock>>
    BY <1>0, <1>14 DEF RecvData
  <2>2. clean /\ sent' = sent /\ got' = got
    BY <2>1 DEF Store, History
  <2>3. pc[t] = "recv"
    BY <2>1 DEF HasBytes
  <2>4. Following
    BY <1>8, <2>1, <2>2, <2>3 DEF InTurn
  <2> QED
    BY <1>12, <2>1, <2>2, <2>4
\* A server that does something is that of the task that is alone.
<1>15. ASSUME NEW f \in Fds, link[f].state = "up", clean
       PROVE  f = sock /\ IsPrefix(got, sent) /\
              \E t \in Running : /\ Running = {t} /\ link[sock].srv = at[t]
                                 /\ login[t] => Following /\ link[sock].phase = "granted"
                                 /\ ~login[t] /\ at[t] = "transfer" => Asking
  <2>1. Single /\ IsPrefix(got, sent)
    BY <1>01, <1>15
  <2>2. PICK t \in Running : f = sock /\ Running = {t} /\ pc[t] \in AtWork
                             /\ link[sock].srv = at[t] /\ LoneTask(t)
    BY <1>15, <2>1, OneServer
  <2>3. InTurn(t)
    BY <1>01, <1>15, <2>2
  <2>4. /\ login[t] => Following /\ link[sock].phase = "granted"
        /\ ~login[t] /\ at[t] = "transfer" => Asking
    BY <2>2, <2>3 DEF InTurn, LoneTask
  <2> QED
    BY <2>1, <2>2, <2>4
<1>16. ASSUME NEW f \in Fds, SendsAddress(f) PROVE OrderInv'
  <2>1. /\ link[f].state = "up" /\ link[f].srv = "dispatch" /\ clean
        /\ UNCHANGED <<pc, at, login>> /\ UNCHANGED <<sent, got>>
    BY <1>16 DEF SendsAddress, ServerUnchanged, taskVars, history
  <2>2. PICK t \in Running : Running = {t} /\ at[t] = "dispatch" /\ IsPrefix(got, sent)
    BY <1>15, <2>1
  <2>3. ~login[t]
    BY <1>02, <2>2 DEF Running
  <2> QED
    BY <2>1, <2>2, <2>3, OrderServer
<1>17. ASSUME NEW f \in Fds, AsksLogin(f) \/ GrantsLogin(f) PROVE OrderInv'
  <2>1. /\ link[f].state = "up" /\ link[f].srv = "transfer" /\ link[f].phase # "granted"
        /\ clean /\ UNCHANGED <<pc, at, login>> /\ UNCHANGED <<sent, got>>
    BY <1>17 DEF AsksLogin, GrantsLogin, ServerUnchanged, taskVars, history
  <2>2. PICK t \in Running : Running = {t} /\ ~login[t] /\ IsPrefix(got, sent) /\ Asking /\ f = sock
    BY <1>15, <2>1
  <2>3. Asking'
    BY <1>17, <2>2, AsksInTurn, GrantsInTurn
  <2> QED
    BY <2>1, <2>2, <2>3, OrderServer
<1>18. ASSUME NEW f \in Fds, NEW p \in Frames, SendsFrame(f, p) PROVE OrderInv'
  <2>1. /\ link[f].state = "up" /\ link[f].phase = "granted" /\ clean
        /\ UNCHANGED <<pc, at, login>>
    BY <1>18 DEF SendsFrame, taskVars, History
  <2>2. PICK t \in Running : /\ Running = {t} /\ f = sock /\ link[sock].srv = at[t]
                             /\ login[t] => Following
                             /\ ~login[t] /\ at[t] = "transfer" => Asking
    BY <1>15, <2>1
  <2>3. at[t] = "transfer"
    <3>1. Sound(link[f])
      BY DEF LinkInv, Sockets
    <3>2. link[f].srv # "dispatch"
      BY <2>1, <3>1 DEF Sound
    <3> QED
      BY <1>0, <2>2, <3>2 DEF Running
  <2>4. (Following => Following') /\ (Asking => Asking')
    BY <1>18, <2>2, SendInTurn
  <2>5. PICK g \in Seq(Seq(Byte)) : g = got'
    BY TypeStep DEF Typed, LinkTypes
  <2>6. ASSUME Following' PROVE IsPrefix(got', sent')
    <3>1. PICK x \in Streams : sent' = got' \o x[2]
      BY <2>6 DEF Following
    <3>2. IsPrefix(g, g \o x[2])
      BY FollowingPrefix
    <3> QED
      BY <2>5, <3>1, <3>2
  <2>7. ASSUME Asking' PROVE IsPrefix(got', sent')
    <3>1. got' = <<>>
      BY <2>7 DEF Asking
    <3>2. PICK s \in Seq(Seq(Byte)) : s = sent'
      BY TypeStep DEF Typed, LinkTypes
    <3>3. IsPrefix(<<>>, s)
      BY EmptyPrefix
    <3> QED
      BY <3>1, <3>2, <3>3
  <2>8. IsPrefix(got', sent')
    BY <2>2, <2>3, <2>4, <2>6, <2>7
  <2> QED
    BY <2>1, <2>2, <2>4, <2>8, OrderServer
<1>19. ASSUME NEW f \in Fds, NEW reset \in BOOLEAN, HangsUp(f, reset) PROVE OrderInv'
  <2>1. /\ link[f].state = "up" /\ clean
        /\ UNCHANGED <<pc, at, login>> /\ UNCHANGED <<sent, got>>
    BY <1>19 DEF HangsUp, ServerUnchanged, taskVars, history
  <2>2. PICK t \in Running : /\ Running = {t} /\ f = sock /\ IsPrefix(got, sent)
                             /\ login[t] => Following
                             /\ ~login[t] /\ at[t] = "transfer" => Asking
    BY <1>15, <2>1
  <2>3. (Following => Following') /\ (Asking => Asking')
    BY <1>19, <2>2, HangInTurn
  <2> QED
    BY <2>1, <2>2, <2>3, OrderServer
<1>20. CASE UNCHANGED vars
  <2>1. /\ UNCHANGED <<pc, at, login>> /\ UNCHANGED <<sock, link, cache, len>>
        /\ UNCHANGED <<sent, got, clean>>
    BY <1>20 DEF vars, taskVars, history
  <2>2. Running' = Running
    BY <2>1 DEF Running
  <2>3. (Following' <=> Following) /\ (Asking' <=> Asking)
    BY <2>1 DEF Following, Asking
  <2> QED
    BY <1>01, <2>1, <2>2, <2>3 DEF OrderInv, InTurn, Single
<1> QED
  BY <1>1, <1>2, <1>4, <1>5, <1>6, <1>7, <1>9, <1>10, <1>11, <1>13, <1>14, <1>16, <1>17, <1>18,
     <1>19, <1>20, NextActs DEF Acts

\* THEOREM.  With one task, and as long as no chunk overran the cache and no
\* length was read too early, what the cloud sent is given on in its order,
\* whole and without anything else, however the stream was cut into chunks.
THEOREM InOrderCorrect == Spec => []InOrder
<1>1. Init => Typed /\ LinkInv /\ OrderInv
  BY TypeInit, LinkInit, OrderInit
<1>2. Typed /\ LinkInv /\ OrderInv /\ [Next]_vars => (Typed /\ LinkInv /\ OrderInv)'
  BY TypeStep, LinkStep, OrderStep
<1>3. OrderInv => InOrder
  BY DEF OrderInv, InOrder
<1> QED
  BY <1>1, <1>2, <1>3, PTL DEF Spec


=============================================================================
