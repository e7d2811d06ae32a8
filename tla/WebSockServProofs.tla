-------------------------- MODULE WebSockServProofs --------------------------
(* Proofs about the WebSocket server, for bytes of any width, any messages, any *)
(* cache and any number of clients and descriptors.                             *)
EXTENDS WebSockServ, FiniteSetTheorems, WellFoundedInduction, TLAPS

-----------------------------------------------------------------------------
(* The operators *)

\* The least element of a set of numbers.
LEMMA Least == ASSUME NEW S \in SUBSET Nat, S # {}
               PROVE  Min(S) \in S /\ \A m \in S : Min(S) <= m
<1>1. \E n \in S : \A m \in S : ~ (<<m, n>> \in OpToRel(<, Nat))
  BY NatLessThanWellFounded, WFMin, ZenonT(30)
<1>2. \E n \in S : \A m \in S : n <= m
  <2>1. ASSUME NEW n \in S, NEW m \in S, ~ (<<m, n>> \in OpToRel(<, Nat))
        PROVE  n <= m
    BY <2>1 DEF OpToRel
  <2> QED
    BY <1>1, <2>1, ZenonT(30)
<1> QED
  BY <1>2, Zenon DEF Min

LEMMA MinTwo == ASSUME NEW a \in Nat, NEW b \in Nat
                PROVE  Min({a, b}) \in {a, b} /\ Min({a, b}) <= a /\ Min({a, b}) <= b
<1>1. {a, b} \in SUBSET Nat /\ {a, b} # {} /\ a \in {a, b} /\ b \in {a, b}
  OBVIOUS
<1> QED
  BY <1>1, Least

\* Division with remainder.
LEMMA DivMod ==
    ASSUME NEW b \in Nat \ {0}, NEW n \in Nat
    PROVE  n \div b \in Int /\ n % b \in 0..(b - 1) /\ (n % b) + b * (n \div b) = n
<1>1. n \div b \in Int /\ b * (n \div b) <= n
  OBVIOUS
<1>2. b * (n \div b) >= n - b + 1
  OBVIOUS
<1>3. PICK q \in Int : q = n \div b
  BY <1>1
<1>4. b * q \in Int
  OBVIOUS
<1>5. PICK r \in 0..(b - 1) : n = b * q + r
  BY <1>1, <1>2, <1>3, <1>4
<1>6. n % b = r
  BY <1>5
<1>7. r + b * q = n /\ r = n % b /\ q = n \div b
  BY <1>3, <1>5, <1>6
<1>8. ASSUME NEW x, NEW y, x = r, y = q PROVE x + b * y = n
  BY <1>7, <1>8
<1>9. n % b \in 0..(b - 1)
  BY <1>6
<1>10. (n % b) + b * (n \div b) = n
  BY <1>7, <1>8
<1> QED
  BY <1>1, <1>9, <1>10

\* What the two bytes of a long frame say of its length.
LEMMA TwoBytes == ASSUME NEW n \in Nat, n < Base * Base
                  PROVE  /\ n % Base \in Byte /\ n \div Base \in Byte
                         /\ (n % Base) + Base * (n \div Base) = n
<1>1. Base \in Nat \ {0}
  BY FramesAssumption
<1>2. n \div Base \in Int /\ n % Base \in 0..(Base - 1) /\ (n % Base) + Base * (n \div Base) = n
  BY <1>1, DivMod
<1>3. PICK q \in Int, r \in 0..(Base - 1) : q = n \div Base /\ r = n % Base
  BY <1>2
<1>4. r + Base * q = n
  BY <1>2, <1>3
<1>5. q < Base
  <2> SUFFICES ASSUME q >= Base PROVE FALSE
    BY <1>1
  <2>1. Base * q >= Base * Base
    BY <1>1
  <2>2. Base * q \in Int /\ Base * Base \in Int
    BY <1>1
  <2> QED
    BY <1>1, <1>4, <2>1, <2>2
<1>6. q >= 0
  <2> SUFFICES ASSUME q <= -1 PROVE FALSE
    OBVIOUS
  <2>1. Base * q <= -Base
    BY <1>1
  <2>2. Base * q \in Int
    BY <1>1
  <2> QED
    BY <1>1, <1>4, <2>1, <2>2
<1> QED
  BY <1>1, <1>2, <1>3, <1>5, <1>6 DEF Byte

\* What two and three sequences are, end to end.
LEMMA One == ASSUME NEW S, NEW x \in S
             PROVE  <<x>> \in Seq(S) /\ Len(<<x>>) = 1 /\ <<x>>[1] = x
OBVIOUS

LEMMA Cat == ASSUME NEW S, NEW a \in Seq(S), NEW b \in Seq(S)
  PROVE /\ a \o b \in Seq(S) /\ Len(a \o b) = Len(a) + Len(b)
        /\ \A i \in 1..Len(a) : (a \o b)[i] = a[i]
        /\ \A i \in 1..Len(b) : (a \o b)[Len(a) + i] = b[i]
OBVIOUS

LEMMA Cat3 == ASSUME NEW S, NEW a \in Seq(S), NEW b \in Seq(S), NEW c \in Seq(S)
  PROVE LET s == a \o b \o c IN
        /\ s \in Seq(S) /\ Len(s) = Len(a) + Len(b) + Len(c)
        /\ \A i \in 1..Len(a) : s[i] = a[i]
        /\ \A i \in 1..Len(b) : s[Len(a) + i] = b[i]
        /\ \A i \in 1..Len(c) : s[Len(a) + Len(b) + i] = c[i]
<1>1. PICK u \in Seq(S) : u = a \o b
  BY Cat
<1>2. /\ Len(u) = Len(a) + Len(b) 
      /\ \A i \in 1..Len(a) : u[i] = a[i]
      /\ \A i \in 1..Len(b) : u[Len(a) + i] = b[i]
  BY <1>1, Cat
<1>3. PICK s \in Seq(S) : s = u \o c
  BY Cat
<1>4. /\ Len(s) = Len(u) + Len(c) 
      /\ \A i \in 1..Len(u) : s[i] = u[i]
      /\ \A i \in 1..Len(c) : s[Len(u) + i] = c[i]
  BY <1>3, Cat
<1>5. Len(a) \in Nat /\ Len(b) \in Nat /\ Len(c) \in Nat
  OBVIOUS
<1>6. ASSUME NEW i \in 1..Len(a) PROVE s[i] = a[i]
  BY <1>2, <1>4, <1>5
<1>7. ASSUME NEW i \in 1..Len(b) PROVE s[Len(a) + i] = b[i]
  BY <1>2, <1>4, <1>5
<1>8. ASSUME NEW i \in 1..Len(c) PROVE s[Len(a) + Len(b) + i] = c[i]
  BY <1>2, <1>4, <1>5
<1>9. Len(s) = Len(a) + Len(b) + Len(c)
  BY <1>2, <1>4
<1>10. s = a \o b \o c
  BY <1>1, <1>3
<1> QED
  BY <1>6, <1>7, <1>8, <1>9, <1>10

\* A part of a sequence, and when two sequences are the same.
LEMMA SubPart ==
    ASSUME NEW S, NEW s \in Seq(S), NEW m \in 1..(Len(s) + 1), NEW n \in (m - 1)..Len(s)
    PROVE  /\ SubSeq(s, m, n) \in Seq(S) /\ Len(SubSeq(s, m, n)) = n - m + 1
           /\ \A i \in 1..(n - m + 1) : SubSeq(s, m, n)[i] = s[m + i - 1]
OBVIOUS

LEMMA SameSeq ==
    ASSUME NEW S, NEW a \in Seq(S), NEW b \in Seq(S),
           Len(a) = Len(b), \A i \in 1..Len(a) : a[i] = b[i]
    PROVE  a = b
OBVIOUS

LEMMA FunSeq == ASSUME NEW S, NEW n \in Nat, NEW f \in [1..n -> S]
                PROVE  f \in Seq(S) /\ Len(f) = n
OBVIOUS

\* A remainder, and a byte with its mask taken off again.
LEMMA Remainder == ASSUME NEW b \in Nat \ {0}, NEW q \in {-1, 0, 1}, NEW r \in 0..(b - 1)
                   PROVE  (b * q + r) % b = r
<1>1. ASSUME NEW n \in Int, NEW k \in Int, n = b * k + r PROVE n % b = r
  BY <1>1
<1> QED
  BY <1>1

LEMMA Unmasked == ASSUME NEW x \in Byte, NEW y \in Byte
                  PROVE  (x + y) % Base \in Byte /\ (((x + y) % Base) - y) % Base = x
<1>1. Base \in Nat \ {0} /\ x \in 0..(Base - 1) /\ y \in 0..(Base - 1)
  BY FramesAssumption DEF Byte
<1>2. CASE x + y < Base
  <2>1. (x + y) % Base = x + y
    <3>1. Base * 0 + (x + y) = x + y /\ x + y \in 0..(Base - 1)
      BY <1>1, <1>2
    <3> QED
      BY <1>1, <3>1, Remainder
  <2>2. x % Base = x
    <3>1. Base * 0 + x = x
      BY <1>1
    <3> QED
      BY <1>1, <3>1, Remainder
  <2>3. (x + y) - y = x
    BY <1>1
  <2> QED
    BY <1>1, <1>2, <2>1, <2>2, <2>3 DEF Byte
<1>3. CASE x + y >= Base
  <2>1. (x + y) % Base = x + y - Base
    <3>1. Base * 1 + (x + y - Base) = x + y /\ x + y - Base \in 0..(Base - 1)
      BY <1>1, <1>3
    <3> QED
      BY <1>1, <3>1, Remainder
  <2>2. (x - Base) % Base = x
    <3>1. Base * (-1) + x = x - Base
      BY <1>1
    <3> QED
      BY <1>1, <3>1, Remainder
  <2>3. (x + y - Base) - y = x - Base
    BY <1>1
  <2> QED
    BY <1>1, <1>3, <2>1, <2>2, <2>3 DEF Byte
<1> QED
  BY <1>1, <1>2, <1>3

-----------------------------------------------------------------------------
(* A client's frames *)

Frames == {m \in Seq(Byte \ {Begin1, End1}) : Len(m) < Base * Base}

LEMMA FrameOf ==
    ASSUME NEW m \in Frames
    PROVE  /\ m \in Seq(Byte) /\ Len(m) \in Nat /\ Len(m) < Base * Base
           /\ \A i \in 1..Len(m) : m[i] \in Byte /\ m[i] # Begin1 /\ m[i] # End1
BY DEF Frames

\* A frame of the old protocol.
LEMMA FrameBytes_1 ==
    ASSUME NEW m \in Frames
    PROVE  LET q == ClientFrame(1, m, Mask) IN
           /\ q \in Seq(Byte) /\ Len(q) = Len(m) + 2
           /\ q[1] = Begin1 /\ q[Len(m) + 2] = End1
           /\ \A i \in 1..Len(m) : q[1 + i] = m[i]
<1>0. m \in Seq(Byte) /\ Len(m) \in Nat
  BY FrameOf
<1>1. Begin1 \in Byte /\ End1 \in Byte
  BY FramesAssumption DEF Begin1, End1, Byte
<1>2. PICK a \in Seq(Byte) : a = <<Begin1>> /\ Len(a) = 1 /\ a[1] = Begin1
  BY <1>1, One
<1>3. PICK z \in Seq(Byte) : z = <<End1>> /\ Len(z) = 1 /\ z[1] = End1
  BY <1>1, One
<1>4. PICK q : q = a \o m \o z
  OBVIOUS
<1>5. /\ q \in Seq(Byte) /\ Len(q) = Len(a) + Len(m) + Len(z)
      /\ \A i \in 1..Len(a) : q[i] = a[i]
      /\ \A i \in 1..Len(m) : q[Len(a) + i] = m[i]
      /\ \A i \in 1..Len(z) : q[Len(a) + Len(m) + i] = z[i]
  BY <1>0, <1>4, Cat3
<1>6. ClientFrame(1, m, Mask) = q
  BY <1>2, <1>3, <1>4 DEF ClientFrame
<1>7. q[1] = Begin1
  BY <1>2, <1>5
<1>8. q[Len(m) + 2] = End1
  <2>1. q[1 + Len(m) + 1] = z[1]
    BY <1>2, <1>3, <1>5
  <2>2. 1 + Len(m) + 1 = Len(m) + 2
    BY <1>0
  <2> QED
    BY <1>3, <2>1, <2>2
<1>9. Len(q) = Len(m) + 2
  BY <1>0, <1>2, <1>3, <1>5
<1> QED
  BY <1>2, <1>5, <1>6, <1>7, <1>8, <1>9

\* The byte of the mask a byte of the payload is masked with.
MaskAt(i) == Mask[((i - 1) % MaskLen) + 1]
LEMMA MaskByte ==
    ASSUME NEW i \in Nat \ {0}
    PROVE  /\ MaskAt(i) \in Byte
           /\ \E j \in 1..MaskLen : j = ((i - 1) % MaskLen) + 1 /\ MaskAt(i) = Mask[j]
<1>1. MaskLen \in Nat \ {0} /\ Mask \in [1..MaskLen -> Byte] /\ i - 1 \in Nat
  BY FramesAssumption, ServAssumption
<1>2. PICK r \in 0..(MaskLen - 1) : r = (i - 1) % MaskLen
  BY <1>1, DivMod
<1>3. PICK j : j = r + 1
  OBVIOUS
<1>4. j \in 1..MaskLen
  BY <1>1, <1>2, <1>3
<1>5. MaskAt(i) = Mask[j] /\ j = ((i - 1) % MaskLen) + 1
  BY <1>2, <1>3 DEF MaskAt
<1> QED
  BY <1>1, <1>4, <1>5

\* A frame of the new protocol: where its payload begins and what it holds.
Start(m) == IF Len(m) < Code16 THEN 2 + MaskLen ELSE 4 + MaskLen
LEMMA FrameBytes_2 ==
    ASSUME NEW m \in Frames
    PROVE  LET q == ClientFrame(2, m, Mask) IN
           /\ q \in Seq(Byte) /\ Len(q) = Start(m) + Len(m)
           /\ q[1] = Text
           /\ q[2] = IF Len(m) < Code16 THEN Len(m) ELSE Code16
           /\ Len(m) >= Code16 => q[3] = Len(m) \div Base /\ q[4] = Len(m) % Base
           /\ \A i \in 1..MaskLen : q[Start(m) - MaskLen + i] = Mask[i]
           /\ \A i \in 1..Len(m) : q[Start(m) + i] = (m[i] + MaskAt(i)) % Base
<1>0. m \in Seq(Byte) /\ Len(m) \in Nat /\ Len(m) < Base * Base /\ Mask \in [1..MaskLen -> Byte]
  BY FrameOf, ServAssumption
<1>1. /\ Text \in Byte /\ Code16 \in Byte /\ Base \in Nat /\ MaskLen \in Nat /\ MaskLen > 0
      /\ Code16 \in Nat /\ \A n \in Nat : n < Code16 => n \in Byte
  BY FramesAssumption DEF Byte
<1>2. PICK h \in Seq(Byte) :
        /\ h = IF Len(m) < Code16 THEN <<Text, Len(m)>>
               ELSE <<Text, Code16, Len(m) \div Base, Len(m) % Base>>
        /\ Len(h) + MaskLen = Start(m) /\ Len(h) >= 2 /\ h[1] = Text
        /\ h[2] = IF Len(m) < Code16 THEN Len(m) ELSE Code16
        /\ Len(m) >= Code16 => Len(h) = 4 /\ h[3] = Len(m) \div Base /\ h[4] = Len(m) % Base
  <2>1. CASE Len(m) < Code16
    <3>1. PICK x \in Byte, y \in Byte : x = Text /\ y = Len(m)
      BY <1>0, <1>1, <2>1
    <3>2. PICK h : h = <<x, y>>
      OBVIOUS
    <3>3. h \in Seq(Byte) /\ Len(h) = 2 /\ h[1] = x /\ h[2] = y
      BY <3>2
    <3>4. h = <<Text, Len(m)>> /\ h[1] = Text /\ h[2] = Len(m)
      BY <3>1, <3>2, <3>3
    <3>5. Len(h) + MaskLen = Start(m)
      BY <2>1, <3>3 DEF Start
    <3>6. ~(Len(m) >= Code16)
      BY <1>0, <1>1, <2>1
    <3> QED
      <4>1. Len(h) >= 2
        BY <3>3
      <4> QED
        BY <2>1, <3>3, <3>4, <3>5, <3>6, <4>1, Zenon
  <2>2. CASE ~(Len(m) < Code16)
    <3>1. PICK w \in Byte, x \in Byte, y \in Byte, z \in Byte :
            w = Text /\ x = Code16 /\ y = Len(m) \div Base /\ z = Len(m) % Base
      BY <1>0, <1>1, TwoBytes
    <3>2. PICK h : h = <<w, x, y, z>>
      OBVIOUS
    <3>3. h \in Seq(Byte) /\ Len(h) = 4 /\ h[1] = w /\ h[2] = x /\ h[3] = y /\ h[4] = z
      BY <3>2
    <3>4. h = <<Text, Code16, Len(m) \div Base, Len(m) % Base>>
      BY <3>1, <3>2
    <3>5. Len(h) + MaskLen = Start(m)
      BY <2>2, <3>3 DEF Start
    <3> QED
      <4>1. Len(h) >= 2
        BY <3>3
      <4>2. h[1] = Text /\ h[2] = Code16 /\ h[3] = Len(m) \div Base /\ h[4] = Len(m) % Base
        BY <3>1, <3>3, Zenon
      <4> QED
        BY <2>2, <3>3, <3>4, <3>5, <4>1, <4>2, Zenon
  <2> QED
    BY <2>1, <2>2
<1>3. PICK k \in Seq(Byte) : k = Mask /\ Len(k) = MaskLen
  BY <1>0, <1>1, FunSeq
<1>4. PICK d \in Seq(Byte) : d = [i \in 1..Len(m) |-> (m[i] + MaskAt(i)) % Base] /\ Len(d) = Len(m)
                             /\ \A i \in 1..Len(m) : d[i] = (m[i] + MaskAt(i)) % Base
  <2>1. \A i \in 1..Len(m) : (m[i] + MaskAt(i)) % Base \in Byte
    <3>1. \A i \in 1..Len(m) : i \in Nat \ {0} /\ m[i] \in Byte
      BY <1>0, FrameOf
    <3>2. \A i \in 1..Len(m) : MaskAt(i) \in Byte
      BY <3>1, MaskByte
    <3> QED
      BY <3>1, <3>2, Unmasked
  <2>2. PICK d : d = [i \in 1..Len(m) |-> (m[i] + MaskAt(i)) % Base]
    OBVIOUS
  <2>3. d \in [1..Len(m) -> Byte] /\ \A i \in 1..Len(m) : d[i] = (m[i] + MaskAt(i)) % Base
    BY <2>1, <2>2, Zenon
  <2>4. d \in Seq(Byte) /\ Len(d) = Len(m)
    BY <1>0, <2>3, FunSeq
  <2> QED
    BY <2>2, <2>3, <2>4, Zenon
<1>5. PICK q : q = h \o k \o d
  OBVIOUS
<1>6. /\ q \in Seq(Byte) /\ Len(q) = Len(h) + Len(k) + Len(d)
      /\ \A i \in 1..Len(h) : q[i] = h[i]
      /\ \A i \in 1..Len(k) : q[Len(h) + i] = k[i]
      /\ \A i \in 1..Len(d) : q[Len(h) + Len(k) + i] = d[i]
  BY <1>5, Cat3
<1>7. ClientFrame(2, m, Mask) = q
  <2>1. CASE Len(m) < Code16
    <3>1. h = <<Text, Len(m)>> /\ k = Mask
      BY <1>2, <1>3, <2>1
    <3>2. d = [i \in 1..Len(m) |-> (m[i] + MaskAt(i)) % Base]
      BY <1>4
    <3>3. ~(Len(m) >= Code16) /\ 2 # 1
      BY <1>0, <1>1, <2>1
    <3>4. ClientFrame(2, m, Mask) = <<Text, Len(m)>> \o Mask
                                        \o [i \in 1..Len(m) |-> (m[i] + MaskAt(i)) % Base]
      BY <2>1, <3>3, Zenon DEF ClientFrame, MaskAt
    <3> QED
      BY <1>5, <3>1, <3>2, <3>4, Zenon
  <2>2. CASE ~(Len(m) < Code16)
    <3>1. h = <<Text, Code16, Len(m) \div Base, Len(m) % Base>> /\ k = Mask
      BY <1>2, <1>3, <2>2, Zenon
    <3>2. d = [i \in 1..Len(m) |-> (m[i] + MaskAt(i)) % Base]
      BY <1>4
    <3>3. Len(m) >= Code16 /\ 2 # 1
      BY <1>0, <1>1, <2>2
    <3>4. ClientFrame(2, m, Mask) = <<Text, Code16, Len(m) \div Base, Len(m) % Base>>
                                        \o Mask
                                        \o [i \in 1..Len(m) |-> (m[i] + MaskAt(i)) % Base]
      BY <2>2, <3>3, Zenon DEF ClientFrame, MaskAt
    <3> QED
      BY <1>5, <3>1, <3>2, <3>4, Zenon
  <2> QED
    BY <2>1, <2>2
<1>8. Len(h) \in Nat /\ Len(h) >= 2 /\ Start(m) - MaskLen = Len(h) /\ Len(h) + MaskLen = Start(m)
  BY <1>1, <1>2
<1>9. Len(q) = Start(m) + Len(m)
  BY <1>0, <1>1, <1>3, <1>4, <1>6, <1>8
<1>10. q[1] = h[1] /\ q[2] = h[2]
  <2>1. 1 \in 1..Len(h) /\ 2 \in 1..Len(h)
    BY <1>8
  <2>2. \A i \in 1..Len(h) : q[i] = h[i]
    BY <1>6
  <2> QED
    BY <2>1, <2>2, Zenon
<1>11. Len(m) >= Code16 => q[3] = Len(m) \div Base /\ q[4] = Len(m) % Base
  <2> SUFFICES ASSUME Len(m) >= Code16 PROVE q[3] = Len(m) \div Base /\ q[4] = Len(m) % Base
    OBVIOUS
  <2>1. Len(h) = 4 /\ h[3] = Len(m) \div Base /\ h[4] = Len(m) % Base
    BY <1>2
  <2>2. q[3] = h[3] /\ q[4] = h[4]
    BY <1>6, <2>1
  <2> QED
    BY <2>1, <2>2
<1>12. \A i \in 1..MaskLen : q[Start(m) - MaskLen + i] = Mask[i]
  BY <1>3, <1>6, <1>8
<1>13. \A i \in 1..Len(m) : q[Start(m) + i] = (m[i] + MaskAt(i)) % Base
  <2>1. Len(h) + Len(k) = Start(m) /\ Len(d) = Len(m)
    BY <1>3, <1>4, <1>8
  <2>2. \A i \in 1..Len(d) : q[Len(h) + Len(k) + i] = d[i]
    BY <1>6
  <2>3. \A i \in 1..Len(m) : d[i] = (m[i] + MaskAt(i)) % Base
    BY <1>4
  <2> QED
    BY <2>1, <2>2, <2>3, Zenon
<1> QED
  BY <1>2, <1>6, <1>7, <1>9, <1>10, <1>11, <1>12, <1>13

-----------------------------------------------------------------------------
(* What is found in the cache: c has room for bound bytes, n of which are taken *)

Mark(hs) == IF hs = 1 THEN Begin1 ELSE Text
Pack(hs, c, n) == IF hs = 1 THEN PackMethod_1(c, 0, n) ELSE PackMethod_2(c, 0, n)

\* A frame that begins in the first place has nothing in front of it.
LEMMA RecvAtMark ==
    ASSUME NEW hs \in {1, 2}, NEW c, NEW n \in Nat \ {0}, c[1] = Mark(hs)
    PROVE  RecvPack(hs, c, n) = Pack(hs, c, n)
<1> DEFINE begins == {i \in 1..n : c[i] = Mark(hs)}
<1>1. begins \in SUBSET Nat /\ 1 \in begins /\ begins # {} /\ \A i \in begins : i >= 1
  OBVIOUS
<1> HIDE DEF begins
<1>2. PICK k : k = Min(begins)
  OBVIOUS
<1>21. k \in begins /\ k <= 1
  BY <1>1, <1>2, Least
<1>22. k \in Nat /\ k >= 1
  BY <1>1, <1>21
<1>3. Min(begins) = 1
  BY <1>2, <1>21, <1>22
<1>4. Min(begins) - 1 = 0
  BY <1>3
<1>5. hs # 0
  OBVIOUS
<1> QED
  BY <1>1, <1>4, <1>5, Zenon DEF RecvPack, Pack, Mark, begins

\* Nothing is found where nothing is taken.
LEMMA RecvNothing == ASSUME NEW hs, NEW c PROVE RecvPack(hs, c, 0) = Found(0, 0, <<>>)
<1>1. \A x : x \notin 1..0
  OBVIOUS
<1>2. {i \in 1..0 : c[i] = (IF hs = 1 THEN Begin1 ELSE Text)} = {}
  BY <1>1, Zenon
<1> QED
  BY <1>2, Zenon DEF RecvPack

LEMMA AtIn == ASSUME NEW c, NEW bound \in Nat, DOMAIN c = 1..bound, NEW i \in 1..bound PROVE At(c, i) = c[i]
BY DEF At

LEMMA AtNat == ASSUME NEW bound \in Nat, NEW c \in [1..bound -> Nat], NEW i PROVE At(c, i) \in Nat
<1>1. DOMAIN c = 1..bound /\ (i \in 1..bound => c[i] \in Nat)
  OBVIOUS
<1> QED
  BY <1>1, Zenon DEF At

\* The first End1 of the old protocol, within the bytes of a frame.
LEMMA FindWhole_1 ==
    ASSUME NEW m \in Frames, NEW bound \in Nat, NEW c, DOMAIN c = 1..bound, NEW n \in 1..bound,
           Len(ClientFrame(1, m, Mask)) <= n,
           \A i \in 1..Len(ClientFrame(1, m, Mask)) : c[i] = ClientFrame(1, m, Mask)[i]
    PROVE  PackMethod_1(c, 0, n) = Found(0, Len(ClientFrame(1, m, Mask)), m)
<1>0. /\ m \in Seq(Byte) /\ Len(m) \in Nat /\ DOMAIN c = 1..bound
      /\ \A i \in 1..Len(m) : m[i] \in Byte /\ m[i] # Begin1 /\ m[i] # End1
  BY FrameOf
<1>1. PICK q \in Seq(Byte) :
        /\ q = ClientFrame(1, m, Mask) /\ Len(q) = Len(m) + 2
        /\ q[1] = Begin1 /\ q[Len(m) + 2] = End1
        /\ \A i \in 1..Len(m) : q[1 + i] = m[i]
  BY FrameBytes_1
<1>2. Len(q) <= n /\ \A i \in 1..Len(q) : c[i] = q[i]
  BY <1>1
<1>3. Begin1 # End1
  BY FramesAssumption DEF Begin1, End1
<1>4. \A i \in 1..Len(q) : At(c, i) = q[i]
  <2>1. \A i \in 1..Len(q) : i \in 1..bound
    BY <1>0, <1>1, <1>2
  <2> QED
    BY <1>0, <1>2, <2>1, AtIn
<1>5. \A k \in 0..Len(m) : At(c, 0 + 1 + k) # End1
  <2> TAKE k \in 0..Len(m)
  <2>1. CASE k = 0
    <3>1. At(c, 1) = Begin1 /\ 0 + 1 + k = 1
      BY <1>0, <1>1, <1>4, <2>1
    <3> QED
      BY <1>3, <3>1
  <2>2. CASE k # 0
    <3>1. k \in 1..Len(m) /\ 1 + k \in 1..Len(q) /\ 0 + 1 + k = 1 + k
      BY <1>0, <1>1, <2>2
    <3>2. At(c, 1 + k) = q[1 + k] /\ q[1 + k] = m[k]
      BY <1>1, <1>4, <3>1
    <3> QED
      BY <1>0, <3>1, <3>2
  <2> QED
    BY <2>1, <2>2
<1>6. PICK s : s = Len(m) + 1
  OBVIOUS
<1>7. At(c, 0 + 1 + s) = End1 /\ s \in 0..n
  <2>1. 0 + 1 + s = Len(m) + 2 /\ Len(m) + 2 \in 1..Len(q) /\ s \in 0..n
    BY <1>0, <1>1, <1>2, <1>6
  <2> QED
    BY <1>1, <1>4, <2>1
<1> DEFINE ends == {k \in 0..n : At(c, 0 + 1 + k) = End1}
<1>8. ends \in SUBSET Nat /\ s \in ends /\ ends # {}
  <2>1. s \in ends
    BY <1>7, Zenon
  <2>2. ends \in SUBSET (0..n)
    BY Zenon
  <2> HIDE DEF ends
  <2> QED
    BY <2>1, <2>2
<1>9. \A k \in ends : k \in Nat /\ k >= s
  BY <1>0, <1>5, <1>6
<1> HIDE DEF ends
<1>10. Min(ends) = s
  <2>1. PICK k : k = Min(ends)
    OBVIOUS
  <2>2. k \in ends /\ k <= s
    BY <1>8, <2>1, Least
  <2>3. k \in Nat /\ k >= s
    BY <1>9, <2>2
  <2> QED
    BY <1>0, <1>6, <2>1, <2>2, <2>3
<1>11. Part(c, 0 + 2, s - 1) = m
  <2>1. \A i \in 1..Len(m) : At(c, 0 + 2 + i - 1) = m[i]
    <3> TAKE i \in 1..Len(m)
    <3>1. 0 + 2 + i - 1 = 1 + i /\ 1 + i \in 1..Len(q)
      BY <1>0, <1>1
    <3> QED
      BY <1>1, <1>4, <3>1
  <2>2. s - 1 = Len(m)
    BY <1>0, <1>6
  <2>3. PICK d : d = [i \in 1..Len(m) |-> At(c, 0 + 2 + i - 1)]
    OBVIOUS
  <2>4. d \in [1..Len(m) -> Byte] /\ \A i \in 1..Len(m) : d[i] = m[i]
    BY <1>0, <2>1, <2>3
  <2>5. d \in Seq(Byte) /\ Len(d) = Len(m)
    BY <1>0, <2>4, FunSeq
  <2>6. d = m
    BY <1>0, <2>4, <2>5, SameSeq
  <2> QED
    BY <2>2, <2>3, <2>6 DEF Part
<1>12. s + 1 = Len(q)
  BY <1>0, <1>1, <1>6
<1>13. PackMethod_1(c, 0, n) = Found(0, s + 1, Part(c, 0 + 2, s - 1))
  BY <1>8, <1>10, Zenon DEF PackMethod_1, ends
<1> QED
  BY <1>1, <1>11, <1>12, <1>13

\* A part of a frame is not taken for a frame, unless for one that ends behind it.
LEMMA FindPart_1 ==
    ASSUME NEW m \in Frames, NEW bound \in Nat, NEW c \in [1..bound -> Nat], NEW n \in 1..bound,
           n < Len(ClientFrame(1, m, Mask)),
           \A i \in 1..n : c[i] = ClientFrame(1, m, Mask)[i]
    PROVE  LET p == PackMethod_1(c, 0, n) IN p.begin = 0 /\ p.len \in Nat /\ (p.len = 0 \/ p.len > n)
<1>0. /\ m \in Seq(Byte) /\ Len(m) \in Nat /\ DOMAIN c = 1..bound
      /\ \A i \in 1..Len(m) : m[i] \in Byte /\ m[i] # Begin1 /\ m[i] # End1
  BY FrameOf
<1>1. PICK q \in Seq(Byte) :
        /\ q = ClientFrame(1, m, Mask) /\ Len(q) = Len(m) + 2
        /\ q[1] = Begin1 /\ \A i \in 1..Len(m) : q[1 + i] = m[i]
  BY FrameBytes_1
<1>2. n < Len(q) /\ \A i \in 1..n : c[i] = q[i]
  BY <1>1
<1>3. Begin1 # End1
  BY FramesAssumption DEF Begin1, End1
<1>4. \A i \in 1..n : At(c, i) = q[i]
  <2>1. \A i \in 1..n : i \in 1..bound
    OBVIOUS
  <2> QED
    BY <1>0, <1>2, <2>1, AtIn
<1>5. \A k \in 0..(n - 1) : At(c, 0 + 1 + k) # End1
  <2> TAKE k \in 0..(n - 1)
  <2>1. CASE k = 0
    <3>1. At(c, 1) = Begin1 /\ 0 + 1 + k = 1
      BY <1>1, <1>4, <2>1
    <3> QED
      BY <1>3, <3>1
  <2>2. CASE k # 0
    <3>1. k \in 1..Len(m) /\ 1 + k \in 1..n /\ 0 + 1 + k = 1 + k
      BY <1>0, <1>1, <1>2, <2>2
    <3>2. At(c, 1 + k) = q[1 + k] /\ q[1 + k] = m[k]
      BY <1>1, <1>4, <3>1
    <3> QED
      BY <1>0, <3>1, <3>2
  <2> QED
    BY <2>1, <2>2
<1> DEFINE ends == {k \in 0..n : At(c, 0 + 1 + k) = End1}
<1>6. ends \in SUBSET Nat /\ \A k \in ends : k = n
  BY <1>5
<1>7. PackMethod_1(c, 0, n) = IF ends = {} THEN Found(0, 0, <<>>)
                              ELSE Found(0, Min(ends) + 1, Part(c, 0 + 2, Min(ends) - 1))
  BY DEF PackMethod_1
<1> HIDE DEF ends
<1>8. CASE ends = {}
  BY <1>7, <1>8 DEF Found
<1>9. CASE ends # {}
  <2>1. Min(ends) = n
    BY <1>6, <1>9, Least
  <2> QED
    BY <1>7, <1>9, <2>1 DEF Found
<1> QED
  BY <1>8, <1>9

\* The header of a frame says where its payload begins and ends, once it is there.
LEMMA HeaderRead ==
    ASSUME NEW m \in Frames, NEW c, NEW q, q = ClientFrame(2, m, Mask),
           At(c, 1) = q[1], At(c, 2) = q[2]
    PROVE  /\ HeadLen(c, 0) = Start(m) /\ Start(m) \in Nat /\ Start(m) >= 3
           /\ Len(m) >= Code16 => Start(m) >= 5
           /\ Len(m) < Code16 => DataLen(c, 0) = Len(m)
           /\ Len(m) >= Code16 => DataLen(c, 0) = Base * At(c, 3) + At(c, 4)
           /\ At(c, 3) = q[3] /\ At(c, 4) = q[4] => DataLen(c, 0) = Len(m)
<1>0. /\ Len(m) \in Nat /\ Len(m) < Base * Base /\ MaskLen \in Nat /\ MaskLen > 0
      /\ Code16 \in Nat /\ Code64 # Code16 /\ Code64 > Code16 /\ Code64 \in Nat
  BY FrameOf, FramesAssumption DEF Code64
<1>1. /\ q[2] = IF Len(m) < Code16 THEN Len(m) ELSE Code16
      /\ Len(m) >= Code16 => q[3] = Len(m) \div Base /\ q[4] = Len(m) % Base
  BY FrameBytes_2
<1>2. At(c, 0 + 2) = q[2]
  OBVIOUS
<1>3. CASE Len(m) < Code16
  <2>1. q[2] = Len(m) /\ q[2] # Code16 /\ q[2] # Code64 /\ ~(Len(m) >= Code16)
    BY <1>0, <1>1, <1>3
  <2>2. HeadLen(c, 0) = 2 + MaskLen /\ DataLen(c, 0) = q[2]
    BY <1>2, <2>1 DEF HeadLen, DataLen
  <2>3. Start(m) = 2 + MaskLen /\ 2 + MaskLen \in Nat /\ 2 + MaskLen >= 3
    BY <1>0, <1>3 DEF Start
  <2> QED
    BY <1>3, <2>1, <2>2, <2>3
<1>4. CASE Len(m) >= Code16
  <2>1. q[2] = Code16 /\ ~(Len(m) < Code16)
    BY <1>0, <1>1, <1>4
  <2>2. HeadLen(c, 0) = 4 + MaskLen /\ DataLen(c, 0) = Base * At(c, 3) + At(c, 4)
    BY <1>2, <2>1 DEF HeadLen, DataLen
  <2>3. Start(m) = 4 + MaskLen /\ 4 + MaskLen \in Nat /\ 4 + MaskLen >= 5 /\ 4 + MaskLen >= 3
    BY <1>0, <2>1 DEF Start
  <2>4. ASSUME At(c, 3) = q[3], At(c, 4) = q[4] PROVE DataLen(c, 0) = Len(m)
    <3>1. At(c, 3) = Len(m) \div Base /\ At(c, 4) = Len(m) % Base
      BY <1>1, <1>4, <2>4
    <3>2. PICK x \in Byte, y \in Byte : x = Len(m) % Base /\ y = Len(m) \div Base /\ x + Base * y = Len(m)
      BY <1>0, TwoBytes
    <3>3. Base * y \in Int /\ x \in Int
      BY FramesAssumption DEF Byte
    <3>4. Base * y + x = Len(m)
      BY <3>2, <3>3
    <3> QED
      BY <2>2, <3>1, <3>2, <3>4
  <2> QED
    BY <1>4, <2>1, <2>2, <2>3, <2>4
<1> QED
  BY <1>0, <1>3, <1>4

LEMMA FindWhole_2 ==
    ASSUME NEW m \in Frames, NEW bound \in Nat, NEW c, DOMAIN c = 1..bound, NEW n \in 1..bound,
           Len(ClientFrame(2, m, Mask)) <= n,
           \A i \in 1..Len(ClientFrame(2, m, Mask)) : c[i] = ClientFrame(2, m, Mask)[i]
    PROVE  PackMethod_2(c, 0, n) = Found(0, Len(ClientFrame(2, m, Mask)), m)
<1>0. /\ m \in Seq(Byte) /\ Len(m) \in Nat /\ DOMAIN c = 1..bound
      /\ \A i \in 1..Len(m) : m[i] \in Byte
      /\ MaskLen \in Nat \ {0}
  BY FrameOf, FramesAssumption
<1>1. PICK q \in Seq(Byte) :
        /\ q = ClientFrame(2, m, Mask) /\ Len(q) = Start(m) + Len(m)
        /\ \A i \in 1..MaskLen : q[Start(m) - MaskLen + i] = Mask[i]
        /\ \A i \in 1..Len(m) : q[Start(m) + i] = (m[i] + MaskAt(i)) % Base
        /\ Len(m) >= Code16 => q[3] = Len(m) \div Base /\ q[4] = Len(m) % Base
  BY FrameBytes_2
<1>2. Len(q) <= n /\ \A i \in 1..Len(q) : c[i] = q[i]
  BY <1>1
<1>3. \A i \in 1..Len(q) : At(c, i) = q[i]
  <2>1. \A i \in 1..Len(q) : i \in 1..bound
    BY <1>0, <1>1, <1>2
  <2> QED
    BY <1>0, <1>2, <2>1, AtIn
<1>4. PICK s \in Nat : s = Start(m) /\ s >= 3 /\ (Len(m) >= Code16 => s >= 5) /\ s >= MaskLen
  <2>1. Start(m) \in Nat /\ Start(m) >= 3 /\ (Len(m) >= Code16 => Start(m) >= 5) /\ Start(m) >= MaskLen
    BY <1>0, FramesAssumption DEF Start
  <2> QED
    BY <2>1
<1>41. Len(q) = s + Len(m)
  BY <1>1, <1>4
<1>5. HeadLen(c, 0) = s /\ DataLen(c, 0) = Len(m)
  <2>1. 1 \in 1..Len(q) /\ 2 \in 1..Len(q) /\ (Len(m) >= Code16 => 3 \in 1..Len(q) /\ 4 \in 1..Len(q))
    BY <1>0, <1>4, <1>41, SMTT(20)
  <2>2. At(c, 1) = q[1] /\ At(c, 2) = q[2]
    BY <1>3, <2>1
  <2>3. Len(m) >= Code16 => At(c, 3) = q[3] /\ At(c, 4) = q[4]
    BY <1>3, <2>1
  <2>4. Len(m) < Code16 \/ Len(m) >= Code16
    BY <1>0, FramesAssumption
  <2> QED
    BY <1>1, <1>4, <2>2, <2>3, <2>4, HeaderRead
<1>6. ~(s + Len(m) > n) /\ s + Len(m) = Len(q)
  BY <1>0, <1>1, <1>2, <1>4, SMTT(20)
<1>7. ASSUME NEW i \in 1..Len(m)
      PROVE  (At(c, 0 + s + i) - At(c, 0 + s - MaskLen + 1 + ((i - 1) % MaskLen))) % Base = m[i]
  <2>1. At(c, 0 + s + i) = (m[i] + MaskAt(i)) % Base
    <3>1. s + i \in 1..Len(q) /\ 0 + s + i = s + i
      BY <1>0, <1>4, <1>41, SMTT(20)
    <3> QED
      BY <1>1, <1>3, <1>4, <3>1
  <2>2. At(c, 0 + s - MaskLen + 1 + ((i - 1) % MaskLen)) = MaskAt(i)
    <3>1. PICK j \in 1..MaskLen : j = ((i - 1) % MaskLen) + 1 /\ MaskAt(i) = Mask[j]
      BY MaskByte
    <3>2. PICK r \in 0..(MaskLen - 1) : r = (i - 1) % MaskLen
      <4>1. i - 1 \in Nat
        OBVIOUS
      <4> QED
        BY <1>0, <4>1, DivMod
    <3>3. 0 + s - MaskLen + 1 + r = s - MaskLen + j /\ s - MaskLen + j \in 1..Len(q)
      <4>1. r \in Nat /\ r < MaskLen /\ j = r + 1 /\ s \in Nat /\ s >= MaskLen /\ Len(m) \in Nat
        BY <1>0, <1>4, <3>1, <3>2
      <4> QED
        BY <1>0, <1>41, <4>1
    <3>4. At(c, s - MaskLen + j) = q[s - MaskLen + j] /\ q[s - MaskLen + j] = Mask[j]
      BY <1>1, <1>3, <1>4, <3>3
    <3> QED
      BY <3>1, <3>2, <3>3, <3>4
  <2>3. m[i] \in Byte /\ MaskAt(i) \in Byte
    BY <1>0, MaskByte
  <2> QED
    BY <2>1, <2>2, <2>3, Unmasked
<1>8. PICK d : d = [i \in 1..Len(m) |->
                      (At(c, 0 + s + i) - At(c, 0 + s - MaskLen + 1 + ((i - 1) % MaskLen))) % Base]
  OBVIOUS
<1>9. d = m
  <2>1. DOMAIN d = 1..Len(m) /\ \A i \in 1..Len(m) : d[i] = m[i]
    BY <1>7, <1>8, Zenon
  <2>2. d = [i \in 1..Len(m) |-> d[i]]
    BY <1>8, Zenon
  <2>3. d \in [1..Len(m) -> Byte]
    BY <1>0, <2>1, <2>2
  <2>4. d \in Seq(Byte) /\ Len(d) = Len(m)
    BY <1>0, <2>3, FunSeq
  <2> QED
    BY <1>0, <2>1, <2>4, SameSeq
<1>10. PackMethod_2(c, 0, n) = Found(0, s + Len(m), d)
  BY <1>5, <1>6, <1>8, Zenon DEF PackMethod_2
<1> QED
  BY <1>1, <1>6, <1>9, <1>10

LEMMA FindPart_2 ==
    ASSUME NEW m \in Frames, NEW bound \in Nat, NEW c \in [1..bound -> Nat], NEW n \in 1..bound,
           n < Len(ClientFrame(2, m, Mask)),
           \A i \in 1..n : c[i] = ClientFrame(2, m, Mask)[i]
    PROVE  PackMethod_2(c, 0, n) = Found(0, 0, <<>>)
<1>0. /\ Len(m) \in Nat /\ DOMAIN c = 1..bound /\ MaskLen \in Nat \ {0}
      /\ Code16 \in Nat /\ Base \in Nat
  BY FrameOf, FramesAssumption
<1>1. PICK q \in Seq(Byte) : q = ClientFrame(2, m, Mask) /\ Len(q) = Start(m) + Len(m)
  BY FrameBytes_2
<1>2. n < Len(q) /\ \A i \in 1..n : c[i] = q[i]
  BY <1>1
<1>3. \A i \in 1..n : At(c, i) = q[i]
  <2>1. \A i \in 1..n : i \in 1..bound
    OBVIOUS
  <2> QED
    BY <1>0, <1>2, <2>1, AtIn
<1>4. \A b \in {3, 4, 5, 6} : At(c, b) \in Nat
  BY AtNat
<1>5. At(c, 2) \in Nat /\ At(c, 0 + 2) = At(c, 2)
  BY AtNat
<1>6. HeadLen(c, 0) \in Nat /\ HeadLen(c, 0) >= 3
  BY <1>0 DEF HeadLen
<1>7. DataLen(c, 0) \in Nat
  <2>1. ASSUME NEW x \in Nat, NEW y \in Nat PROVE Base * x + y \in Nat /\ y + Base * x \in Nat
    <3>1. Base * x \in Nat
      BY <1>0
    <3> QED
      BY <3>1, SMTT(20)
  <2>2. At(c, 0 + 3) \in Nat /\ At(c, 0 + 4) \in Nat /\ At(c, 0 + 5) \in Nat /\ At(c, 0 + 6) \in Nat
    BY <1>4
  <2>3. Base * At(c, 0 + 3) + At(c, 0 + 4) \in Nat
    BY <2>1, <2>2
  <2>4. At(c, 0 + 5) + Base * At(c, 0 + 6) \in Nat
    BY <2>1, <2>2
  <2>5. At(c, 0 + 4) + Base * (At(c, 0 + 5) + Base * At(c, 0 + 6)) \in Nat
    BY <2>1, <2>2, <2>4
  <2>6. At(c, 0 + 3) + Base * (At(c, 0 + 4) + Base * (At(c, 0 + 5) + Base * At(c, 0 + 6))) \in Nat
    BY <2>1, <2>2, <2>5
  <2> QED
    BY <1>5, <2>3, <2>6, Zenon DEF DataLen
<1>8. HeadLen(c, 0) + DataLen(c, 0) > n
  <2>1. CASE n < 3
    BY <1>6, <1>7, <2>1
  <2>2. CASE n >= 3
    <3>1. 1 \in 1..n /\ 2 \in 1..n
      BY <2>2
    <3>2. At(c, 1) = q[1] /\ At(c, 2) = q[2]
      BY <1>3, <3>1
    <3>3. /\ HeadLen(c, 0) = Start(m) /\ Start(m) \in Nat
          /\ Len(m) >= Code16 => Start(m) >= 5
          /\ Len(m) < Code16 => DataLen(c, 0) = Len(m)
          /\ At(c, 3) = q[3] /\ At(c, 4) = q[4] => DataLen(c, 0) = Len(m)
      BY <1>1, <3>2, HeaderRead
    <3>4. CASE n >= 4 \/ Len(m) < Code16
      <4>1. n >= 4 => 3 \in 1..n /\ 4 \in 1..n
        OBVIOUS
      <4>2. DataLen(c, 0) = Len(m)
        BY <1>3, <3>3, <3>4, <4>1
      <4> QED
        BY <1>0, <1>1, <1>2, <3>3, <4>2
    <3>5. CASE n < 4 /\ Len(m) >= Code16
      BY <1>6, <1>7, <3>3, <3>5
    <3> QED
      BY <1>0, <3>4, <3>5
  <2> QED
    BY <2>1, <2>2
<1> QED
  BY <1>8, Zenon DEF PackMethod_2

\* A frame at the front of the cache is found, and its message.
LEMMA FindWhole ==
    ASSUME NEW hs \in {1, 2}, NEW m \in Frames, NEW bound \in Nat, NEW c, DOMAIN c = 1..bound,
           NEW n \in 1..bound, NEW q \in Seq(Byte), q = ClientFrame(hs, m, Mask),
           Len(q) <= n, \A i \in 1..Len(q) : c[i] = q[i]
    PROVE  RecvPack(hs, c, n) = Found(0, Len(q), m)
<1>1. q \in Seq(Byte) /\ Len(q) >= 1 /\ q[1] = Mark(hs)
  <2>1. CASE hs = 1
    <3>1. q \in Seq(Byte) /\ Len(q) = Len(m) + 2 /\ q[1] = Begin1
      BY <2>1, FrameBytes_1
    <3> QED
      BY <2>1, <3>1, FrameOf DEF Mark
  <2>2. CASE hs = 2
    <3>1. q \in Seq(Byte) /\ Len(q) = Start(m) + Len(m) /\ q[1] = Text
      BY <2>2, FrameBytes_2
    <3>2. Start(m) \in Nat /\ Start(m) >= 1
      BY FramesAssumption DEF Start
    <3> QED
      BY <2>2, <3>1, <3>2, FrameOf DEF Mark
  <2> QED
    BY <2>1, <2>2
<1>2. n \in Nat \ {0} /\ c[1] = Mark(hs)
  BY <1>1
<1>3. RecvPack(hs, c, n) = Pack(hs, c, n)
  BY <1>2, RecvAtMark
<1>4. CASE hs = 1
  <2>1. PackMethod_1(c, 0, n) = Found(0, Len(q), m)
    BY <1>4, FindWhole_1
  <2> QED
    BY <1>3, <1>4, <2>1 DEF Pack
<1>5. CASE hs = 2
  <2>1. PackMethod_2(c, 0, n) = Found(0, Len(q), m)
    BY <1>5, FindWhole_2
  <2> QED
    BY <1>3, <1>5, <2>1 DEF Pack
<1> QED
  BY <1>4, <1>5

\* Of a part of a frame no more is taken out of the cache than nothing.
LEMMA FindPart ==
    ASSUME NEW hs \in {1, 2}, NEW m \in Frames, NEW bound \in Nat, NEW c \in [1..bound -> Nat],
           NEW n \in 0..bound, NEW q, q = ClientFrame(hs, m, Mask),
           n < Len(q), \A i \in 1..n : c[i] = q[i]
    PROVE  LET p == RecvPack(hs, c, n) IN p.begin = 0 /\ p.len \in Nat /\ (p.len = 0 \/ p.len > n)
<1>0. CASE n = 0
  BY <1>0, RecvNothing DEF Found
<1>1. CASE n # 0
  <2>0. n \in 1..bound /\ n \in Nat \ {0} /\ 1 \in 1..n
    BY <1>1
  <2>1. q[1] = Mark(hs)
    <3>1. CASE hs = 1
      BY <3>1, FrameBytes_1 DEF Mark
    <3>2. CASE hs = 2
      BY <3>2, FrameBytes_2 DEF Mark
    <3> QED
      BY <3>1, <3>2
  <2>2. RecvPack(hs, c, n) = Pack(hs, c, n)
    BY <2>0, <2>1, RecvAtMark
  <2>3. CASE hs = 1
    <3>1. LET p == PackMethod_1(c, 0, n) IN p.begin = 0 /\ p.len \in Nat /\ (p.len = 0 \/ p.len > n)
      BY <2>0, <2>3, FindPart_1
    <3> QED
      BY <2>2, <2>3, <3>1 DEF Pack
  <2>4. CASE hs = 2
    <3>1. PackMethod_2(c, 0, n) = Found(0, 0, <<>>)
      BY <2>0, <2>4, FindPart_2
    <3> QED
      BY <2>2, <2>4, <3>1 DEF Pack, Found
  <2> QED
    BY <2>3, <2>4
<1> QED
  BY <1>0, <1>1

\* Whatever is in the cache, what is found is told in numbers.
LEMMA FoundTyped ==
    ASSUME NEW hs \in 0..2, NEW bound \in Nat, NEW c \in [1..bound -> Nat], NEW n \in 0..bound
    PROVE  RecvPack(hs, c, n).begin \in Nat /\ RecvPack(hs, c, n).len \in Nat
<1> DEFINE begins == {i \in 1..n : c[i] = (IF hs = 1 THEN Begin1 ELSE Text)}
<1>1. begins \in SUBSET Nat /\ \A i \in begins : i >= 1
  OBVIOUS
<1>2. RecvPack(hs, c, n) = IF hs = 0 \/ begins = {} THEN Found(0, 0, <<>>)
                           ELSE IF hs = 1 THEN PackMethod_1(c, Min(begins) - 1, n)
                           ELSE PackMethod_2(c, Min(begins) - 1, n)
  BY Zenon DEF RecvPack
<1> HIDE DEF begins
<1>3. CASE hs = 0 \/ begins = {}
  BY <1>2, <1>3 DEF Found
<1>4. CASE hs # 0 /\ begins # {}
  <2>1. PICK b \in Nat : b = Min(begins) - 1
    <3>1. PICK k \in begins : k = Min(begins)
      BY <1>1, <1>4, Least
    <3>2. k \in Nat /\ k >= 1
      BY <1>1
    <3> QED
      BY <3>1, <3>2
  <2>2. CASE hs = 1
    <3> DEFINE ends == {k \in 0..n : At(c, b + 1 + k) = End1}
    <3>1. ends \in SUBSET Nat
      <4>1. ends \in SUBSET (0..n)
        BY Zenon
      <4> HIDE DEF ends
      <4> QED
        BY <4>1
    <3>2. PackMethod_1(c, b, n) = IF ends = {} THEN Found(b, 0, <<>>)
                                  ELSE Found(b, Min(ends) + 1, Part(c, b + 2, Min(ends) - 1))
      BY Zenon DEF PackMethod_1
    <3> HIDE DEF ends
    <3>3. CASE ends = {}
      BY <1>2, <1>4, <2>1, <2>2, <3>2, <3>3 DEF Found
    <3>4. CASE ends # {}
      <4>1. PICK k \in ends : k = Min(ends)
        BY <3>1, <3>4, Least
      <4>2. k \in Nat /\ k + 1 \in Nat
        BY <3>1
      <4>3. RecvPack(hs, c, n) = Found(b, k + 1, Part(c, b + 2, k - 1))
        BY <1>2, <1>4, <2>1, <2>2, <3>2, <3>4, <4>1
      <4> QED
        BY <4>2, <4>3 DEF Found
    <3> QED
      BY <3>3, <3>4
  <2>3. CASE hs # 1
    <3>1. PICK h \in Nat, d \in Nat : h = HeadLen(c, b) /\ d = DataLen(c, b)
      <4>1. HeadLen(c, b) \in Nat
        BY FramesAssumption DEF HeadLen
      <4>2. DataLen(c, b) \in Nat
        <5>1. ASSUME NEW x \in Nat, NEW y \in Nat PROVE Base * x + y \in Nat /\ y + Base * x \in Nat
          <6>1. Base * x \in Nat
            BY FramesAssumption
          <6> QED
            BY <6>1
        <5>2. /\ At(c, b + 2) \in Nat /\ At(c, b + 3) \in Nat /\ At(c, b + 4) \in Nat
              /\ At(c, b + 5) \in Nat /\ At(c, b + 6) \in Nat
          BY AtNat
        <5>3. Base * At(c, b + 3) + At(c, b + 4) \in Nat
          BY <5>1, <5>2
        <5>4. At(c, b + 5) + Base * At(c, b + 6) \in Nat
          BY <5>1, <5>2
        <5>5. At(c, b + 4) + Base * (At(c, b + 5) + Base * At(c, b + 6)) \in Nat
          BY <5>1, <5>2, <5>4
        <5>6. At(c, b + 3) + Base * (At(c, b + 4) + Base * (At(c, b + 5) + Base * At(c, b + 6))) \in Nat
          BY <5>1, <5>2, <5>5
        <5> QED
          BY <5>2, <5>3, <5>6, Zenon DEF DataLen
      <4> QED
        BY <4>1, <4>2
    <3>2. h + d \in Nat
      BY <3>1
    <3>3. PackMethod_2(c, b, n).begin = b /\ PackMethod_2(c, b, n).len \in {0, h + d}
      BY <3>1 DEF PackMethod_2, Found
    <3>4. RecvPack(hs, c, n) = PackMethod_2(c, b, n)
      BY <1>2, <1>4, <2>1, <2>3
    <3> QED
      BY <3>2, <3>3, <3>4
  <2> QED
    BY <2>2, <2>3
<1> QED
  BY <1>3, <1>4

-----------------------------------------------------------------------------
(* Types *)

\* What the cache and a wire hold, and the texts a client may have sent.
Cells == 0..(Base + 4)
Decoded == {UrlDecode(m) : m \in Messages}
Shaped ==
    /\ TypeOK
    /\ wire \in [Clients -> Seq(Cells)]
    /\ sent \in [Clients -> Seq(Decoded)]

\* What has been received is in the cache.
Typed == Shaped /\ len \in 0..CacheSize

LEMMA ShapedTyped == Shaped /\ ~spoilt => Typed
BY DEF Shaped, TypeOK, Typed

LEMMA CellsNat == Cells \in SUBSET Nat /\ Byte \in SUBSET Cells /\ EmptyLine \in Cells /\ EmptyLine \notin Byte
                  /\ Key3 \in Cells /\ Line \in Cells /\ KeyLine(1) \in Cells /\ KeyLine(2) \in Cells
                  /\ 0 \in Cells /\ EmptyLine # 0
BY FramesAssumption DEF Cells, Byte, EmptyLine, Key3, Line, KeyLine

LEMMA RequestTyped == ASSUME NEW c \in Clients PROVE Request(c) \in Seq(Cells)
<1>1. PICK e \in Cells, k \in Cells, x \in Cells, y \in Cells, z \in Cells :
        e = EmptyLine /\ k = Key3 /\ x = Line /\ y = KeyLine(1) /\ z = KeyLine(2)
  BY CellsNat
<1>2. <<x, x, y, e, k>> \in Seq(Cells) /\ <<z, e>> \in Seq(Cells)
  OBVIOUS
<1> QED
  BY <1>1, <1>2 DEF Request

LEMMA Wider == ASSUME NEW S, NEW T, S \in SUBSET T, NEW q \in Seq(S) PROVE q \in Seq(T)
OBVIOUS

LEMMA FrameTyped ==
    ASSUME NEW c \in Clients, NEW m \in Messages
    PROVE  LET q == ClientFrame(Method(c), m, Mask) IN
           /\ m \in Frames /\ Method(c) \in {1, 2} /\ q \in Seq(Byte) /\ q \in Seq(Cells)
           /\ Len(q) \in Nat /\ Len(q) > 0
<1>1. m \in Frames /\ Method(c) \in {1, 2} /\ Len(m) \in Nat
  BY ServAssumption DEF Frames, Method
<1>2. PICK q : q = ClientFrame(Method(c), m, Mask)
  OBVIOUS
<1>3. q \in Seq(Byte) /\ Len(q) > 0
  <2>1. CASE Method(c) = 1
    <3>1. q \in Seq(Byte) /\ Len(q) = Len(m) + 2
      BY <1>1, <1>2, <2>1, FrameBytes_1
    <3> QED
      BY <1>1, <3>1
  <2>2. CASE Method(c) = 2
    <3>1. q \in Seq(Byte) /\ Len(q) = Start(m) + Len(m)
      BY <1>1, <1>2, <2>2, FrameBytes_2
    <3>2. Start(m) \in Nat /\ Start(m) > 0
      BY FramesAssumption DEF Start
    <3> QED
      BY <1>1, <3>1, <3>2
  <2> QED
    BY <1>1, <2>1, <2>2
<1>4. q \in Seq(Cells)
  BY <1>3, CellsNat, Wider
<1> QED
  BY <1>1, <1>2, <1>3, <1>4

\* The first free descriptor.
LEMMA FirstFree == ASSUME Free # {} PROVE Min(Free) \in Fds /\ owner[Min(Free)] = NoClient
<1>1. Free \in SUBSET Nat
  BY DEF Free, Fds
<1>2. Min(Free) \in Free
  BY <1>1, Least
<1> QED
  BY <1>2 DEF Free

\* A chunk is the front of a wire, and the rest stays there.
Rest(w, n) == SubSeq(w, n + 1, Len(w))
LEMMA ChunkOf ==
    ASSUME NEW w \in Seq(Cells), NEW n \in 1..Min({ChunkSize, Len(w)})
    PROVE  /\ n \in 1..Len(w) /\ n \in Nat
           /\ SubSeq(w, 1, n) \in Seq(Cells) /\ Len(SubSeq(w, 1, n)) = n
           /\ \A i \in 1..n : SubSeq(w, 1, n)[i] = w[i]
           /\ Rest(w, n) \in Seq(Cells) /\ Len(Rest(w, n)) = Len(w) - n
           /\ \A i \in 1..(Len(w) - n) : Rest(w, n)[i] = w[n + i]
<1>1. ChunkSize \in Nat /\ Len(w) \in Nat
  BY ServAssumption
<1>2. PICK m : m = Min({ChunkSize, Len(w)})
  OBVIOUS
<1>3. m \in Nat /\ m <= Len(w) /\ n \in 1..m
  BY <1>1, <1>2, MinTwo
<1>4. n \in 1..Len(w) /\ n \in Nat
  BY <1>1, <1>3
<1>5. 1 \in 1..(Len(w) + 1) /\ n \in (1 - 1)..Len(w) /\ n + 1 \in 1..(Len(w) + 1) /\ Len(w) \in ((n + 1) - 1)..Len(w)
  BY <1>1, <1>4
<1>6. /\ SubSeq(w, 1, n) \in Seq(Cells) /\ Len(SubSeq(w, 1, n)) = n - 1 + 1
      /\ \A i \in 1..(n - 1 + 1) : SubSeq(w, 1, n)[i] = w[1 + i - 1]
  BY <1>5, SubPart
<1>7. PICK k : k = n + 1
  OBVIOUS
<1>8. k \in 1..(Len(w) + 1) /\ Len(w) \in (k - 1)..Len(w)
  BY <1>5, <1>7
<1>9. /\ SubSeq(w, k, Len(w)) \in Seq(Cells) /\ Len(SubSeq(w, k, Len(w))) = Len(w) - k + 1
      /\ \A i \in 1..(Len(w) - k + 1) : SubSeq(w, k, Len(w))[i] = w[k + i - 1]
  BY <1>8, SubPart
<1>10. n - 1 + 1 = n /\ Len(w) - k + 1 = Len(w) - n
  BY <1>1, <1>4, <1>7
<1>11. \A i \in 1..n : SubSeq(w, 1, n)[i] = w[i]
  <2> TAKE i \in 1..n
  <2>1. 1 + i - 1 = i
    BY <1>4
  <2> QED
    BY <1>6, <1>10, <2>1
<1>12. \A i \in 1..(Len(w) - n) : SubSeq(w, k, Len(w))[i] = w[n + i]
  <2> TAKE i \in 1..(Len(w) - n)
  <2>1. k + i - 1 = n + i
    BY <1>1, <1>4, <1>7
  <2> QED
    BY <1>9, <1>10, <2>1
<1> QED
  BY <1>4, <1>6, <1>7, <1>9, <1>10, <1>11, <1>12 DEF Rest

\* The chunk that is received, from the connection recv() waits on.
LEMMA Received ==
    ASSUME Shaped, NEW chunk \in Chunks
    PROVE  /\ recvPc = "recv" /\ recvOn \in Clients /\ Open(recvOn)
           /\ \E n \in 1..Len(wire[recvOn]) :
                /\ chunk = SubSeq(wire[recvOn], 1, n) /\ n \in 1..Min({ChunkSize, Len(wire[recvOn])})
                /\ chunk \in Seq(Cells) /\ Len(chunk) = n
<1>1. recvPc = "recv" /\ recvOn # NoClient /\ Open(recvOn)
  BY DEF Chunks
<1>2. recvOn \in Clients
  BY <1>1 DEF Shaped, TypeOK
<1>3. PICK n \in 1..Min({ChunkSize, Len(wire[recvOn])}) : chunk = SubSeq(wire[recvOn], 1, n)
  BY <1>1 DEF Chunks
<1>4. wire[recvOn] \in Seq(Cells)
  BY <1>2 DEF Shaped
<1> QED
  BY <1>1, <1>2, <1>3, <1>4, ChunkOf

LEMMA TypeInit == Init => Shaped
<1> SUFFICES ASSUME Init PROVE Shaped
  OBVIOUS
<1>1. <<>> \in Seq(Cells) /\ <<>> \in Seq(Decoded)
  OBVIOUS
<1>2. cache \in [1..CacheSize -> Cells]
  BY CellsNat DEF Init
<1>3. fd \in 0..MaxFds /\ espconn \in 0..MaxFds /\ len \in 0..CacheSize /\ len \in Int /\ method \in 0..2
  BY ServAssumption DEF Init
<1>4. TypeOK
  BY <1>2, <1>3 DEF Init, TypeOK, Cells
<1> QED
  BY <1>1, <1>4 DEF Init, Shaped

LEMMA TypeRestart == Shaped /\ Restart => Shaped'
<1> SUFFICES ASSUME Shaped, Restart PROVE Shaped'
  OBVIOUS
<1>1. <<>> \in Seq(Cells)
  OBVIOUS
<1>2. cache' \in [1..CacheSize -> Cells]
  BY CellsNat DEF Restart
<1>3. fd' \in 0..MaxFds /\ espconn' \in 0..MaxFds /\ len' \in 0..CacheSize /\ len' \in Int /\ method' \in 0..2
  BY ServAssumption DEF Restart
<1>4. TypeOK'
  BY <1>2, <1>3 DEF Restart, Shaped, TypeOK, Cells
<1> QED
  BY <1>1, <1>4 DEF Restart, Shaped

LEMMA TypeClose ==
    ASSUME TypeOK, NEW f, Close(f)
    PROVE  /\ owner' \in [Fds -> Clients \cup {NoClient}]
           /\ conn' \in [Clients -> {"new", "queued", "open", "gone", "closed"}]
BY DEF TypeOK, Close, Live

LEMMA TypeStep == Shaped /\ [Next]_vars => Shaped'
<1> SUFFICES ASSUME Shaped, [Next]_vars PROVE Shaped'
  OBVIOUS
<1>0. TypeOK /\ wire \in [Clients -> Seq(Cells)] /\ sent \in [Clients -> Seq(Decoded)]
  BY DEF Shaped
<1>00. /\ fd \in 0..MaxFds /\ espconn \in 0..MaxFds
       /\ method \in 0..2 /\ len \in Int /\ CacheSize \in Nat
       /\ spoilt \in BOOLEAN /\ (spoilt \/ len \in 0..CacheSize)
       /\ cache \in [1..CacheSize -> Cells]
       /\ owner \in [Fds -> Clients \cup {NoClient}]
       /\ conn \in [Clients -> {"new", "queued", "open", "gone", "closed"}]
       /\ told \in [Clients -> {"none", "right", "wrong"}]
  BY <1>0, ServAssumption DEF TypeOK, Cells
<1> USE DEF sockVars, cacheVars, clientVars, history
<1>1. CASE AcceptFails
  BY <1>1, TypeRestart DEF AcceptFails
<1>2. ASSUME NEW c \in Clients, Accept(c) PROVE Shaped'
  <2>1. Min(Free) \in Fds
    BY <1>2, FirstFree DEF Accept
  <2>2. fd' \in 0..MaxFds
    BY <1>2, <2>1, ServAssumption DEF Accept, Fds
  <2>3. owner' \in [Fds -> Clients \cup {NoClient}]
    BY <1>00, <1>2 DEF Accept
  <2>4. conn' \in [Clients -> {"new", "queued", "open", "gone", "closed"}]
    BY <1>00, <1>2 DEF Accept
  <2> QED
    BY <1>0, <1>2, <2>2, <2>3, <2>4 DEF Accept, Shaped, TypeOK
<1>3. CASE CloseOld
  <2>1. /\ owner' \in [Fds -> Clients \cup {NoClient}]
        /\ conn' \in [Clients -> {"new", "queued", "open", "gone", "closed"}]
    BY <1>0, <1>00, <1>3, TypeClose DEF CloseOld
  <2> QED
    BY <1>0, <1>3, <2>1 DEF CloseOld, Shaped, TypeOK
<1>4. CASE SetConn
  BY <1>0, <1>4 DEF SetConn, Shaped, TypeOK
<1>5. CASE InitConn
  BY <1>0, <1>5, ServAssumption DEF InitConn, Shaped, TypeOK
<1>6. CASE RecvBegin
  <2>1. recvOn' \in Clients \cup {NoClient}
    BY <1>00, <1>6 DEF RecvBegin, Fds
  <2> QED
    BY <1>0, <1>6, <2>1 DEF RecvBegin, Shaped, TypeOK
<1>70. ASSUME NEW chunk \in Chunks, Store(chunk)
       PROVE  wire' \in [Clients -> Seq(Cells)] /\ cache' \in [1..CacheSize -> Cells]
  <2>1. recvOn \in Clients /\ chunk \in Seq(Cells) /\ Len(chunk) \in Nat
    BY Received
  <2>2. PICK n \in 1..Len(wire[recvOn]) : n \in 1..Min({ChunkSize, Len(wire[recvOn])}) /\ Len(chunk) = n
    BY Received
  <2>3. wire[recvOn] \in Seq(Cells)
    BY <1>0, <2>1
  <2>4. Rest(wire[recvOn], n) \in Seq(Cells)
    BY <2>2, <2>3, ChunkOf
  <2>5. wire' = [wire EXCEPT ![recvOn] = Rest(wire[recvOn], n)]
    BY <1>70, <2>2 DEF Store, Rest
  <2>6. wire' \in [Clients -> Seq(Cells)]
    BY <1>0, <2>4, <2>5
  <2>7. cache' = [i \in 1..CacheSize |->
                    IF i \in (len + 1)..(len + Len(chunk)) THEN chunk[i - len] ELSE cache[i]]
    BY <1>70 DEF Store
  <2>8. ASSUME NEW i \in 1..CacheSize, i \in (len + 1)..(len + Len(chunk)) PROVE chunk[i - len] \in Cells
    <3>1. i - len \in 1..Len(chunk)
      BY <1>00, <2>1, <2>8
    <3> QED
      BY <2>1, <3>1
  <2> QED
    BY <1>00, <2>6, <2>7, <2>8
<1>7. ASSUME NEW chunk \in Chunks, RecvChunk(chunk) PROVE Shaped'
  <2>1. Store(chunk) /\ Len(chunk) \in Nat
    BY <1>7, Received DEF RecvChunk
  <2>2. wire' \in [Clients -> Seq(Cells)] /\ cache' \in [1..CacheSize -> Cells]
    BY <1>70, <2>1
  <2>3. len' \in 0..CacheSize /\ len' \in Int
    BY <1>00, <1>7, <2>1 DEF RecvChunk
  <2>4. spoilt' \in BOOLEAN
    BY <1>7, Zenon DEF RecvChunk
  <2> QED
    BY <1>0, <1>7, <2>1, <2>2, <2>3, <2>4 DEF RecvChunk, Store, Shaped, TypeOK, Cells
<1>8. ASSUME NEW chunk \in Chunks, RecvOverflow(chunk) PROVE Shaped'
  <2>1. CASE Restart
    BY <2>1, TypeRestart
  <2>2. CASE ~Restart
    <3>1. /\ Store(chunk) /\ len' \in Int /\ spoilt' = TRUE
          /\ UNCHANGED <<fd, espconn, method, accPc, told, sent, got>>
          /\ UNCHANGED <<owner, conn>> \/ Close(espconn)
      BY <1>8, <2>2, ServAssumption DEF RecvOverflow
    <3>2. wire' \in [Clients -> Seq(Cells)] /\ cache' \in [1..CacheSize -> Cells]
      BY <1>70, <3>1
    <3>3. /\ owner' \in [Fds -> Clients \cup {NoClient}]
          /\ conn' \in [Clients -> {"new", "queued", "open", "gone", "closed"}]
      BY <1>0, <1>00, <3>1, TypeClose
    <3> QED
      BY <1>0, <3>1, <3>2, <3>3 DEF Store, Shaped, TypeOK, Cells
  <2> QED
    BY <2>1, <2>2
<1>9. CASE RecvEnds
  BY <1>0, <1>9 DEF RecvEnds, Shaped, TypeOK
<1>10. CASE Handshake
  <2>1. method' \in 0..2 /\ len' \in 0..CacheSize /\ len' \in Int
    BY <1>00, <1>10 DEF Handshake, Identify
  <2>2. told' \in [Clients -> {"none", "right", "wrong"}]
    BY <1>00, <1>10 DEF Handshake
  <2>3. cache' \in [1..CacheSize -> Cells]
    <3>1. cache' = [cache EXCEPT ![HeadEnd] = 0]
      BY <1>10 DEF Handshake
    <3> QED
      BY <1>00, <3>1, CellsNat
  <2> QED
    BY <1>0, <1>10, <2>1, <2>2, <2>3 DEF Handshake, Shaped, TypeOK, Cells
<1>11. CASE HandshakeWithoutKey
  BY <1>11, TypeRestart DEF HandshakeWithoutKey
<1>12. CASE NoHandshake
  BY <1>0, <1>12 DEF NoHandshake, Shaped, TypeOK
<1>13. CASE CutFrame
  <2>1. PICK p : p = RecvPack(method, cache, len)
    OBVIOUS
  <2>2. cache \in [1..CacheSize -> Nat]
    BY <1>00, CellsNat
  <2>3. p.begin \in Nat /\ p.len \in Nat /\ len \in 0..CacheSize
    BY <1>00, <1>13, <2>1, <2>2, FoundTyped DEF CutFrame
  <2>4. PICK n : n = p.begin + p.len
    OBVIOUS
  <2>5. /\ n <= len /\ len' = len - n
        /\ cache' = [i \in 1..CacheSize |-> cache[IF i <= len - n THEN n + i ELSE i]]
    BY <1>13, <2>1, <2>4 DEF CutFrame
  <2>6. n \in Nat /\ len' \in 0..CacheSize /\ len' \in Int
    <3>1. n \in Nat
      BY <2>3, <2>4
    <3>2. n <= len /\ len' = len - n /\ len \in 0..CacheSize /\ CacheSize \in Nat
      BY <1>00, <2>3, <2>5, Zenon
    <3> QED
      BY <3>1, <3>2
  <2>7. cache' \in [1..CacheSize -> Cells]
    <3>1. ASSUME NEW i \in 1..CacheSize PROVE cache[IF i <= len - n THEN n + i ELSE i] \in Cells
      <4>1. (IF i <= len - n THEN n + i ELSE i) \in 1..CacheSize
        BY <1>00, <2>3, <2>6
      <4> QED
        BY <1>00, <4>1
    <3> QED
      BY <2>5, <3>1
  <2>8. spoilt' \in BOOLEAN
    BY <1>13, Zenon DEF CutFrame
  <2> QED
    BY <1>0, <1>13, <2>6, <2>7, <2>8 DEF CutFrame, Shaped, TypeOK, Cells
<1>14. CASE CutTooMuch
  <2>1. cache \in [1..CacheSize -> Nat] /\ len \in 0..CacheSize
    BY <1>00, <1>14, CellsNat DEF CutTooMuch
  <2>2. PICK p : p = RecvPack(method, cache, len)
    OBVIOUS
  <2>3. p.begin \in Nat /\ p.len \in Nat
    BY <1>00, <2>1, <2>2, FoundTyped
  <2>4. len' = len - (p.begin + p.len)
    BY <1>14, <2>2 DEF CutTooMuch
  <2>5. len' \in Int
    BY <2>1, <2>3, <2>4
  <2> QED
    BY <1>0, <1>14, <2>5 DEF CutTooMuch, Shaped, TypeOK
<1>141. CASE CutOverStr
  BY <1>141, TypeRestart DEF CutOverStr
<1>142. CASE Panic
  BY <1>142, TypeRestart DEF Panic
<1>143. CASE CutOutside
  <2>1. CASE Restart
    BY <2>1, TypeRestart
  <2>2. CASE ~Restart
    BY <1>0, <1>143, <2>2 DEF CutOutside, Shaped, TypeOK
  <2> QED
    BY <2>1, <2>2
<1>15. CASE CloseClient
  <2>1. /\ owner' \in [Fds -> Clients \cup {NoClient}]
        /\ conn' \in [Clients -> {"new", "queued", "open", "gone", "closed"}]
    BY <1>0, <1>15, TypeClose DEF CloseClient
  <2> QED
    BY <1>0, <1>15, <2>1 DEF CloseClient, Shaped, TypeOK
<1>16. CASE ZeroClient
  BY <1>0, <1>16, ServAssumption DEF ZeroClient, Shaped, TypeOK
<1>17. ASSUME NEW c \in Clients, Connects(c) PROVE Shaped'
  <2>1. Request(c) \in Seq(Cells)
    BY RequestTyped
  <2>2. wire' \in [Clients -> Seq(Cells)]
    BY <1>0, <1>17, <2>1 DEF Connects
  <2> QED
    BY <1>0, <1>17, <2>2 DEF Connects, NoClientStep, Shaped, TypeOK
<1>18. ASSUME NEW c \in Clients, HangsUp(c) PROVE Shaped'
  BY <1>0, <1>18 DEF HangsUp, NoClientStep, Shaped, TypeOK
<1>19. ASSUME NEW c \in Clients, NEW m \in Messages, Sends(c, m) PROVE Shaped'
  <2>1. PICK q \in Seq(Cells) : q = ClientFrame(Method(c), m, Mask)
    BY FrameTyped
  <2>2. wire[c] \o q \in Seq(Cells)
    BY <1>0
  <2>3. wire' = [wire EXCEPT ![c] = wire[c] \o q]
    BY <1>19, <2>1, ZenonT(30) DEF Sends
  <2>4. PICK t \in Decoded : t = UrlDecode(m)
    BY DEF Decoded
  <2>5. Append(sent[c], t) \in Seq(Decoded)
    BY <1>0
  <2>6. sent' = [sent EXCEPT ![c] = Append(sent[c], t)]
    BY <1>19, <2>4, ZenonT(30) DEF Sends
  <2>7. wire' \in [Clients -> Seq(Cells)] /\ sent' \in [Clients -> Seq(Decoded)]
    BY <1>0, <2>2, <2>3, <2>5, <2>6
  <2> QED
    BY <1>0, <1>19, <2>7, ZenonT(30) DEF Sends, NoClientStep, Shaped, TypeOK
<1>20. CASE UNCHANGED vars
  BY <1>0, <1>20 DEF vars, Shaped, TypeOK
<1> QED
  BY <1>1, <1>2, <1>3, <1>4, <1>5, <1>6, <1>7, <1>8, <1>9, <1>10, <1>11, <1>12, <1>13, <1>14,
     <1>141, <1>142, <1>143, <1>15, <1>16, <1>17, <1>18, <1>19, <1>20 DEF Next, AcceptTask, RecvTask

LEMMA ShapedAlways == Spec => []Shaped
BY TypeInit, TypeStep, PTL DEF Spec

\* THEOREM.  Every variable keeps its type; recvLen counts bytes of the cache, as
\* long as no takeover has met the receive task at work, nothing was written behind
\* the cache or str and no frame seemed to end behind the last byte received.
THEOREM TypeCorrect == Spec => []TypeOK
<1>1. Shaped => TypeOK
  BY DEF Shaped
<1> QED
  BY <1>1, ShapedAlways, PTL

-----------------------------------------------------------------------------
(* The bytes still to come: a stream of frames, cut between cache and wire *)

LEMMA Associative ==
    /\ \A a, b, c \in Seq(Byte) : (a \o b) \o c = a \o (b \o c)
    /\ \A a, b, c \in Seq(Decoded) : (a \o b) \o c = a \o (b \o c)
BY SMTT(20)

\* What a client may have sent with method hs: bytes, and the texts in their
\* frames.  It is the least set with nothing in it that a frame can be added to.
Pairs == Seq(Byte) \X Seq(Decoded)
FrameBy(hs, m) == ClientFrame(hs, m, Mask)
WithFrame(hs, x, m) == <<x[1] \o FrameBy(hs, m), x[2] \o <<UrlDecode(m)>> >>
Closed(hs, P) == << <<>>, <<>> >> \in P /\ \A x \in P, m \in Messages : WithFrame(hs, x, m) \in P
Streams(hs) == {x \in Pairs : \A P \in SUBSET Pairs : Closed(hs, P) => x \in P}

LEMMA PieceTyped ==
    ASSUME NEW hs \in {1, 2}, NEW m \in Messages
    PROVE  /\ FrameBy(hs, m) \in Seq(Byte) /\ <<UrlDecode(m)>> \in Seq(Decoded)
           /\ Len(FrameBy(hs, m)) \in Nat /\ Len(FrameBy(hs, m)) > 0
<1>1. m \in Frames /\ Len(m) \in Nat
  BY ServAssumption DEF Frames
<1>2. PICK q : q = FrameBy(hs, m)
  OBVIOUS
<1>3. q \in Seq(Byte) /\ Len(q) > 0
  <2>1. CASE hs = 1
    <3>1. q \in Seq(Byte) /\ Len(q) = Len(m) + 2
      BY <1>1, <1>2, <2>1, FrameBytes_1 DEF FrameBy
    <3> QED
      BY <1>1, <3>1
  <2>2. CASE hs = 2
    <3>1. q \in Seq(Byte) /\ Len(q) = Start(m) + Len(m)
      BY <1>1, <1>2, <2>2, FrameBytes_2 DEF FrameBy
    <3>2. Start(m) \in Nat /\ Start(m) > 0
      BY FramesAssumption DEF Start
    <3> QED
      BY <1>1, <3>1, <3>2
  <2> QED
    BY <2>1, <2>2
<1>4. PICK t \in Decoded : t = UrlDecode(m)
  BY DEF Decoded
<1>5. <<t>> \in Seq(Decoded)
  OBVIOUS
<1> QED
  BY <1>2, <1>3, <1>4, <1>5

LEMMA StreamsEmpty == ASSUME NEW hs PROVE << <<>>, <<>> >> \in Streams(hs)
<1>1. <<>> \in Seq(Byte) /\ <<>> \in Seq(Decoded)
  OBVIOUS
<1> QED
  BY <1>1 DEF Streams, Pairs, Closed

LEMMA StreamsAppend == ASSUME NEW hs \in {1, 2}, NEW x \in Streams(hs), NEW m \in Messages
                       PROVE  WithFrame(hs, x, m) \in Streams(hs)
<1>1. x \in Pairs /\ x[1] \in Seq(Byte) /\ x[2] \in Seq(Decoded)
  BY DEF Streams, Pairs
<1>2. x[1] \o FrameBy(hs, m) \in Seq(Byte) /\ x[2] \o <<UrlDecode(m)>> \in Seq(Decoded)
  BY <1>1, PieceTyped, Cat
<1>3. WithFrame(hs, x, m) \in Pairs
  BY <1>2 DEF WithFrame, Pairs
<1>4. ASSUME NEW P \in SUBSET Pairs, Closed(hs, P) PROVE WithFrame(hs, x, m) \in P
  BY <1>4 DEF Streams, Closed
<1> QED
  BY <1>3, <1>4 DEF Streams

\* The first frame of a stream, with what follows it.
Follows(hs, x, m, y) == x[1] = FrameBy(hs, m) \o y[1] /\ x[2] = <<UrlDecode(m)>> \o y[2]
LEMMA StreamsFirst ==
    ASSUME NEW hs \in {1, 2}, NEW x \in Streams(hs)
    PROVE  x = << <<>>, <<>> >> \/ \E m \in Messages, y \in Streams(hs) : Follows(hs, x, m, y)
<1>0. /\ \A a, b, c \in Seq(Byte) : (a \o b) \o c = a \o (b \o c)
      /\ \A a, b, c \in Seq(Decoded) : (a \o b) \o c = a \o (b \o c)
  BY Associative
<1> DEFINE P == {z \in Pairs : \/ z = << <<>>, <<>> >>
                               \/ \E m \in Messages, y \in Streams(hs) : Follows(hs, z, m, y)}
<1>1. << <<>>, <<>> >> \in P
  BY StreamsEmpty DEF Streams
<1>2. ASSUME NEW z \in P, NEW k \in Messages PROVE WithFrame(hs, z, k) \in P
  <2>1. z[1] \in Seq(Byte) /\ z[2] \in Seq(Decoded)
    BY DEF Pairs
  <2>2. PICK f \in Seq(Byte), e \in Seq(Decoded) : f = FrameBy(hs, k) /\ e = <<UrlDecode(k)>>
    BY PieceTyped
  <2>3. PICK w : w = WithFrame(hs, z, k)
    OBVIOUS
  <2>4. w[1] = z[1] \o f /\ w[2] = z[2] \o e
    BY <2>2, <2>3 DEF WithFrame
  <2>5. w \in Pairs
    <3>1. z[1] \o f \in Seq(Byte) /\ z[2] \o e \in Seq(Decoded)
      BY <2>1, <2>2, Cat
    <3> QED
      BY <2>2, <2>3, <3>1 DEF Pairs, WithFrame
  <2>6. CASE z = << <<>>, <<>> >>
    <3>1. w[1] = f /\ w[2] = e
      <4>1. z[1] = <<>> /\ z[2] = <<>>
        BY <2>6
      <4>2. <<>> \o f = f /\ <<>> \o e = e
        BY <2>2
      <4> QED
        BY <2>4, <4>1, <4>2
    <3>2. f \o <<>> = f /\ e \o <<>> = e
      BY <2>2
    <3>3. PICK y : y = << <<>>, <<>> >>
      OBVIOUS
    <3>4. y \in Streams(hs) /\ y[1] = <<>> /\ y[2] = <<>>
      BY <3>3, StreamsEmpty
    <3>5. Follows(hs, w, k, y)
      BY <2>2, <3>1, <3>2, <3>4 DEF Follows
    <3> QED
      BY <2>3, <2>5, <3>4, <3>5
  <2>7. CASE z # << <<>>, <<>> >>
    <3>1. PICK m \in Messages, y \in Streams(hs) : Follows(hs, z, m, y)
      BY <2>7
    <3>2. PICK g \in Seq(Byte), h \in Seq(Decoded) : g = FrameBy(hs, m) /\ h = <<UrlDecode(m)>>
      BY PieceTyped
    <3>3. y[1] \in Seq(Byte) /\ y[2] \in Seq(Decoded)
      BY DEF Streams, Pairs
    <3>4. PICK v : v = WithFrame(hs, y, k)
      OBVIOUS
    <3>5. v \in Streams(hs) /\ v[1] = y[1] \o f /\ v[2] = y[2] \o e
      BY <2>2, <3>4, StreamsAppend DEF WithFrame
    <3>6. z[1] = g \o y[1] /\ z[2] = h \o y[2]
      BY <3>1, <3>2 DEF Follows
    <3>7. w[1] = g \o v[1]
      <4>1. PICK s \in Seq(Byte) : s = y[1]
        BY <3>3
      <4>2. (g \o s) \o f = g \o (s \o f)
        BY <1>0, Zenon
      <4> QED
        BY <2>4, <3>5, <3>6, <4>1, <4>2
    <3>8. w[2] = h \o v[2]
      <4>1. PICK s \in Seq(Decoded) : s = y[2]
        BY <3>3
      <4>2. (h \o s) \o e = h \o (s \o e)
        BY <1>0, Zenon
      <4> QED
        BY <2>4, <3>5, <3>6, <4>1, <4>2
    <3>9. Follows(hs, w, m, v)
      BY <3>2, <3>7, <3>8 DEF Follows
    <3> QED
      BY <2>3, <2>5, <3>5, <3>9
  <2> QED
    BY <2>6, <2>7
<1>3. P \in SUBSET Pairs
  OBVIOUS
<1>4. Closed(hs, P)
  BY <1>1, <1>2 DEF Closed
<1> HIDE DEF P
<1>5. x \in P
  BY <1>3, <1>4 DEF Streams
<1> QED
  BY <1>5 DEF P

\* The bytes b are still to be looked at: n of them are in the cache c, and the
\* others on the wire w.
Holds(b, c, n, w) ==
    /\ Len(b) = n + Len(w)
    /\ \A i \in 1..n : c[i] = b[i]
    /\ \A i \in 1..Len(w) : w[i] = b[n + i]

LEMMA HoldsChunk ==
    ASSUME NEW S, NEW b \in Seq(S), NEW c, NEW d, NEW n \in Nat, NEW w \in Seq(S),
           NEW k \in 1..Len(w), NEW r \in Seq(S), Len(r) = Len(w) - k,
           \A i \in 1..(Len(w) - k) : r[i] = w[k + i],
           \A i \in 1..n : d[i] = c[i], \A i \in 1..k : d[n + i] = w[i],
           Holds(b, c, n, w)
    PROVE  Holds(b, d, n + k, r)
<1>0. Len(w) \in Nat /\ Len(b) \in Nat /\ k \in Nat /\ k <= Len(w)
  OBVIOUS
<1>1. /\ Len(b) = n + Len(w)
      /\ \A i \in 1..n : c[i] = b[i]
      /\ \A i \in 1..Len(w) : w[i] = b[n + i]
  BY DEF Holds
<1>2. ASSUME NEW i \in 1..(n + k) PROVE d[i] = b[i]
  <2>1. CASE i <= n
    BY <1>0, <1>1, <2>1
  <2>2. CASE i > n
    <3>1. PICK j : j = i - n
      OBVIOUS
    <3>2. j \in 1..k /\ j \in 1..Len(w) /\ n + j = i
      BY <1>0, <2>2, <3>1
    <3> QED
      BY <1>1, <3>2
  <2> QED
    BY <1>0, <2>1, <2>2
<1>3. ASSUME NEW i \in 1..Len(r) PROVE r[i] = b[n + k + i]
  <2>1. PICK j : j = k + i
    OBVIOUS
  <2>2. j \in 1..Len(w) /\ n + j = n + k + i
    BY <1>0, <2>1, SMTT(20)
  <2>3. r[i] = w[j] /\ w[j] = b[n + j]
    BY <1>1, <2>1, <2>2
  <2> QED
    BY <2>2, <2>3
<1>4. n + k + Len(r) = n + Len(w)
  BY <1>0
<1> QED
  BY <1>0, <1>1, <1>2, <1>3, <1>4 DEF Holds

LEMMA HoldsCut ==
    ASSUME NEW S, NEW q \in Seq(S), NEW y \in Seq(S), NEW c, NEW d, NEW n \in Nat,
           NEW w \in Seq(S), Len(q) <= n,
           \A i \in 1..(n - Len(q)) : d[i] = c[Len(q) + i],
           Holds(q \o y, c, n, w)
    PROVE  Holds(y, d, n - Len(q), w)
<1>0. Len(w) \in Nat /\ Len(q) \in Nat /\ Len(y) \in Nat
  OBVIOUS
<1>1. PICK b \in Seq(S) : b = q \o y
  BY Cat
<1>2. Len(b) = Len(q) + Len(y) /\ \A i \in 1..Len(y) : b[Len(q) + i] = y[i]
  BY <1>1, Cat
<1>3. /\ Len(b) = n + Len(w)
      /\ \A i \in 1..n : c[i] = b[i]
      /\ \A i \in 1..Len(w) : w[i] = b[n + i]
  BY <1>1 DEF Holds
<1>4. PICK m : m = n - Len(q)
  OBVIOUS
<1>5. m \in Nat /\ n = Len(q) + m
  BY <1>0, <1>4
<1>6. Len(y) = m + Len(w)
  BY <1>0, <1>2, <1>3, <1>5
<1>7. ASSUME NEW i \in 1..m PROVE d[i] = y[i]
  <2>1. PICK j : j = Len(q) + i
    OBVIOUS
  <2>2. j \in 1..n /\ i \in 1..Len(y)
    BY <1>0, <1>5, <1>6, <2>1
  <2>3. d[i] = c[j] /\ c[j] = b[j] /\ b[j] = y[i]
    BY <1>2, <1>3, <1>4, <2>1, <2>2
  <2> QED
    BY <2>3
<1>8. ASSUME NEW i \in 1..Len(w) PROVE w[i] = y[m + i]
  <2>1. PICK j : j = m + i
    OBVIOUS
  <2>2. j \in 1..Len(y) /\ Len(q) + j = n + i
    BY <1>0, <1>5, <1>6, <2>1
  <2>3. w[i] = b[n + i] /\ b[Len(q) + j] = y[j]
    BY <1>2, <1>3, <2>2
  <2> QED
    BY <2>1, <2>2, <2>3
<1> QED
  BY <1>4, <1>6, <1>7, <1>8 DEF Holds

LEMMA HoldsMore ==
    ASSUME NEW S, NEW b \in Seq(S), NEW c, NEW n \in Nat, NEW w \in Seq(S), NEW q \in Seq(S),
           Holds(b, c, n, w)
    PROVE  Holds(b \o q, c, n, w \o q)
<1>0. Len(w) \in Nat /\ Len(b) \in Nat /\ Len(q) \in Nat
  OBVIOUS
<1>1. /\ Len(b) = n + Len(w)
      /\ \A i \in 1..n : c[i] = b[i]
      /\ \A i \in 1..Len(w) : w[i] = b[n + i]
  BY DEF Holds
<1>2. PICK u \in Seq(S), v \in Seq(S) : u = b \o q /\ v = w \o q
  BY Cat
<1>3. /\ Len(u) = Len(b) + Len(q) /\ Len(v) = Len(w) + Len(q)
      /\ \A i \in 1..Len(b) : u[i] = b[i]
      /\ \A i \in 1..Len(q) : u[Len(b) + i] = q[i]
      /\ \A i \in 1..Len(w) : v[i] = w[i]
      /\ \A i \in 1..Len(q) : v[Len(w) + i] = q[i]
  BY <1>2, Cat, SMTT(20)
<1>4. Len(u) = n + Len(v)
  BY <1>0, <1>1, <1>3
<1>5. ASSUME NEW i \in 1..n PROVE c[i] = u[i]
  BY <1>0, <1>1, <1>3
<1>6. ASSUME NEW i \in 1..Len(v) PROVE v[i] = u[n + i]
  <2>0. i \in Int /\ i >= 1 /\ i <= Len(w) + Len(q)
    BY <1>0, <1>3
  <2>1. CASE i <= Len(w)
    <3>1. PICK j : j = n + i
      OBVIOUS
    <3>2. j \in 1..Len(b) /\ i \in 1..Len(w)
      BY <1>0, <1>1, <2>0, <2>1, <3>1
    <3>3. v[i] = w[i] /\ w[i] = b[j] /\ u[j] = b[j]
      BY <1>1, <1>3, <3>1, <3>2
    <3> QED
      BY <3>1, <3>3
  <2>2. CASE i > Len(w)
    <3>1. PICK j : j = i - Len(w)
      OBVIOUS
    <3>2. j \in 1..Len(q) /\ i = Len(w) + j /\ n + i = Len(b) + j
      BY <1>0, <1>1, <2>0, <2>2, <3>1
    <3>3. v[Len(w) + j] = q[j] /\ u[Len(b) + j] = q[j]
      BY <1>3, <3>2
    <3> QED
      BY <3>2, <3>3
  <2> QED
    BY <1>0, <2>0, <2>1, <2>2
<1>7. Holds(u, c, n, v)
  BY <1>4, <1>5, <1>6 DEF Holds
<1> QED
  BY <1>2, <1>7

\* All that is still to be looked at is on the wire.
LEMMA HoldsWire == ASSUME NEW S, NEW c, NEW w \in Seq(S) PROVE Holds(w, c, 0, w)
<1>1. Len(w) \in Nat
  OBVIOUS
<1> QED
  BY <1>1 DEF Holds

\* What is in the cache, or on the wire, is one of the bytes.
LEMMA HoldsCells ==
    ASSUME NEW S, NEW b \in Seq(S), NEW c, NEW n \in Nat, NEW w \in Seq(S), Holds(b, c, n, w)
    PROVE  /\ n <= Len(b)
           /\ \A i \in 1..n : c[i] \in S
           /\ \A i \in 1..Len(w) : w[i] \in S
<1>1. Len(b) = n + Len(w) /\ Len(w) \in Nat
  BY DEF Holds
<1>2. \A i \in 1..n : i \in 1..Len(b) /\ c[i] = b[i]
  BY <1>1 DEF Holds
<1>3. \A i \in 1..Len(w) : n + i \in 1..Len(b) /\ w[i] = b[n + i]
  BY <1>1 DEF Holds
<1> QED
  BY <1>1, <1>2, <1>3

\* A sequence begins with what it was put together from, and goes on doing so.
LEMMA PrefixCat ==
    ASSUME NEW S, NEW a \in Seq(S), NEW b \in Seq(S)
    PROVE  IsPrefix(a, a \o b)
<1>1. PICK u \in Seq(S) : u = a \o b
  BY Cat
<1>2. Len(u) = Len(a) + Len(b) /\ \A i \in 1..Len(a) : u[i] = a[i]
  BY <1>1, Cat
<1>3. Len(a) \in Nat /\ Len(b) \in Nat
  OBVIOUS
<1>4. Len(a) <= Len(u) /\ Len(a) \in 0..Len(u)
  BY <1>2, <1>3
<1>41. PICK n : n = Len(a)
  OBVIOUS
<1>42. 1 \in 1..(Len(u) + 1) /\ n \in (1 - 1)..Len(u)
  BY <1>3, <1>4, <1>41
<1>43. /\ SubSeq(u, 1, n) \in Seq(S) /\ Len(SubSeq(u, 1, n)) = n - 1 + 1
       /\ \A i \in 1..(n - 1 + 1) : SubSeq(u, 1, n)[i] = u[1 + i - 1]
  BY <1>42, SubPart
<1>5. PICK s \in Seq(S) : s = SubSeq(u, 1, Len(a))
  BY <1>41, <1>43
<1>6. Len(s) = Len(a) /\ \A i \in 1..Len(a) : s[i] = u[i]
  BY <1>3, <1>41, <1>43, <1>5
<1>7. s = a
  BY <1>2, <1>6, SameSeq
<1>8. SubSeq(a, 1, Len(a)) = a
  <2>1. 1 \in 1..(Len(a) + 1) /\ n \in (1 - 1)..Len(a)
    BY <1>3, <1>41
  <2>2. /\ SubSeq(a, 1, n) \in Seq(S) /\ Len(SubSeq(a, 1, n)) = n - 1 + 1
        /\ \A i \in 1..(n - 1 + 1) : SubSeq(a, 1, n)[i] = a[1 + i - 1]
    BY <2>1, SubPart
  <2>3. PICK t \in Seq(S) : t = SubSeq(a, 1, n)
    BY <2>2
  <2>4. Len(t) = Len(a) /\ \A i \in 1..Len(a) : t[i] = a[i]
    BY <1>3, <1>41, <2>2, <2>3
  <2>5. t = a
    BY <2>4, SameSeq
  <2> QED
    BY <1>41, <2>3, <2>5
<1> QED
  BY <1>1, <1>4, <1>5, <1>7, <1>8 DEF IsPrefix

-----------------------------------------------------------------------------
(* The connections *)

Unheard(c) == told[c] = "none" /\ sent[c] = <<>> /\ got[c] = <<>>
Fresh(c) == Unheard(c) /\ wire[c] = Request(c)

\* A connection has one descriptor, and has one as long as the client may use it;
\* of a client that was not accepted nothing is known.
ConnInv ==
    /\ \A f, g \in Fds : owner[f] = owner[g] /\ owner[f] # NoClient => f = g
    /\ \A f \in Fds : owner[f] # NoClient => conn[owner[f]] \in {"open", "gone"}
    /\ \A c \in Clients : conn[c] = "new" => Unheard(c)
    /\ \A c \in Clients : conn[c] = "queued" => Fresh(c)

\* The steps, for a proof by cases.
Steps ==
    \/ Restart
    \/ \E c \in Clients : Accept(c)
    \/ CloseOld \/ SetConn \/ InitConn \/ RecvBegin
    \/ \E chunk \in Chunks : RecvChunk(chunk)
    \/ \E chunk \in Chunks : RecvOverflow(chunk)
    \/ RecvEnds \/ Handshake \/ NoHandshake \/ CutFrame \/ CutTooMuch \/ CutOutside
    \/ CloseClient \/ ZeroClient
    \/ \E c \in Clients : Connects(c)
    \/ \E c \in Clients : HangsUp(c)
    \/ \E c \in Clients, m \in Messages : Sends(c, m)
LEMMA NextSteps == Next => Steps
<1>1. AcceptFails \/ HandshakeWithoutKey \/ CutOverStr \/ Panic => Restart
  BY DEF AcceptFails, HandshakeWithoutKey, CutOverStr, Panic
<1> QED
  BY <1>1 DEF Next, AcceptTask, RecvTask, Steps

LEMMA ConnInit == Init => ConnInv
<1> SUFFICES ASSUME Init PROVE ConnInv
  OBVIOUS
<1>1. ASSUME NEW c \in Clients PROVE Unheard(c) /\ conn[c] = "new"
  BY DEF Init, Unheard
<1> QED
  BY <1>1 DEF Init, ConnInv

\* What becomes of the connections when a descriptor is closed.
LEMMA ConnClose ==
    ASSUME Shaped, ConnInv, NEW f, Close(f), UNCHANGED <<told, sent, got>>,
           \A c \in Clients : conn[c] = "queued" => wire'[c] = wire[c]
    PROVE  ConnInv'
<1>0. /\ owner \in [Fds -> Clients \cup {NoClient}]
      /\ conn \in [Clients -> {"new", "queued", "open", "gone", "closed"}]
  BY DEF Shaped, TypeOK
<1>1. /\ \A h, g \in Fds : owner[h] = owner[g] /\ owner[h] # NoClient => h = g
      /\ \A g \in Fds : owner[g] # NoClient => conn[owner[g]] \in {"open", "gone"}
      /\ \A c \in Clients : conn[c] = "new" => Unheard(c)
      /\ \A c \in Clients : conn[c] = "queued" => Fresh(c)
  BY DEF ConnInv
<1>2. /\ \A c \in Clients : Unheard(c) => Unheard(c)'
      /\ \A c \in Clients : Fresh(c) /\ conn[c] = "queued" => Fresh(c)'
  BY DEF Unheard, Fresh
<1>3. CASE Live(f)
  <2>1. f \in Fds /\ owner[f] \in Clients
    BY <1>0, <1>3 DEF Live
  <2>2. owner' = [owner EXCEPT ![f] = NoClient] /\ conn' = [conn EXCEPT ![owner[f]] = "closed"]
    BY <1>3, <2>1 DEF Close
  <2>3. \A g \in Fds : owner'[g] = IF g = f THEN NoClient ELSE owner[g]
    BY <1>0, <2>2
  <2>4. \A c \in Clients : conn'[c] = IF c = owner[f] THEN "closed" ELSE conn[c]
    BY <1>0, <2>2
  <2>5. \A h, g \in Fds : owner'[h] = owner'[g] /\ owner'[h] # NoClient => h = g
    BY <1>1, <2>3
  <2>6. \A g \in Fds : owner'[g] # NoClient => conn'[owner'[g]] \in {"open", "gone"}
    <3> SUFFICES ASSUME NEW g \in Fds, owner'[g] # NoClient PROVE conn'[owner'[g]] \in {"open", "gone"}
      OBVIOUS
    <3>1. g # f /\ owner'[g] = owner[g] /\ owner[g] \in Clients
      BY <1>0, <2>3
    <3>2. owner[g] # owner[f]
      BY <1>1, <2>1, <3>1
    <3> QED
      BY <1>1, <2>4, <3>1, <3>2
  <2>7. \A c \in Clients : (conn'[c] = "new" => conn[c] = "new") /\ (conn'[c] = "queued" => conn[c] = "queued")
    BY <2>4
  <2> QED
    BY <1>1, <1>2, <2>5, <2>6, <2>7 DEF ConnInv
<1>4. CASE ~Live(f)
  <2>1. conn' = conn
    BY <1>4 DEF Close
  <2>2. \A g \in Fds : owner'[g] = owner[g]
    <3>1. CASE f \in Fds
      <4>1. owner' = [owner EXCEPT ![f] = NoClient] /\ owner[f] = NoClient
        BY <1>4, <3>1 DEF Close, Live
      <4> QED
        BY <1>0, <4>1
    <3>2. CASE f \notin Fds
      BY <3>2 DEF Close
    <3> QED
      BY <3>1, <3>2
  <2> QED
    BY <1>1, <1>2, <2>1, <2>2 DEF ConnInv
<1> QED
  BY <1>3, <1>4

LEMMA ConnStep == Shaped /\ ConnInv /\ [Next]_vars => ConnInv'
<1> SUFFICES ASSUME Shaped, ConnInv, [Next]_vars PROVE ConnInv'
  OBVIOUS
<1>0. /\ owner \in [Fds -> Clients \cup {NoClient}]
      /\ conn \in [Clients -> {"new", "queued", "open", "gone", "closed"}]
      /\ told \in [Clients -> {"none", "right", "wrong"}]
      /\ wire \in [Clients -> Seq(Cells)] /\ sent \in [Clients -> Seq(Decoded)]
  BY DEF Shaped, TypeOK
<1>00. /\ \A h, g \in Fds : owner[h] = owner[g] /\ owner[h] # NoClient => h = g
       /\ \A g \in Fds : owner[g] # NoClient => conn[owner[g]] \in {"open", "gone"}
       /\ \A c \in Clients : conn[c] = "new" => Unheard(c)
       /\ \A c \in Clients : conn[c] = "queued" => Fresh(c)
  BY DEF ConnInv
<1> USE DEF sockVars, cacheVars, clientVars, history
<1>1. CASE Restart
  <2>2. /\ \A f \in Fds : owner'[f] = NoClient
        /\ \A c \in Clients : conn'[c] = IF conn[c] = "new" THEN "new" ELSE "closed"
        /\ told' = told /\ sent' = sent /\ got' = got
    BY <1>1 DEF Restart
  <2>3. \A c \in Clients : Unheard(c) => Unheard(c)'
    BY <2>2 DEF Unheard
  <2>4. \A c \in Clients : conn'[c] # "queued" /\ (conn'[c] = "new" => conn[c] = "new")
    BY <2>2
  <2> QED
    BY <1>00, <2>2, <2>3, <2>4 DEF ConnInv
<1>2. ASSUME NEW c \in Clients, Accept(c) PROVE ConnInv'
  <2>1. PICK f \in Fds : f = Min(Free) /\ owner[f] = NoClient
    BY <1>2, FirstFree DEF Accept
  <2>2. owner' = [owner EXCEPT ![f] = c] /\ conn' = [conn EXCEPT ![c] = "open"] /\ conn[c] = "queued"
    BY <1>2, <2>1 DEF Accept
  <2>3. \A g \in Fds : owner'[g] = IF g = f THEN c ELSE owner[g]
    BY <1>0, <2>2
  <2>4. \A d \in Clients : conn'[d] = IF d = c THEN "open" ELSE conn[d]
    BY <1>0, <2>2
  <2>5. \A g \in Fds : owner[g] # c
    <3> SUFFICES ASSUME NEW g \in Fds, owner[g] = c PROVE FALSE
      OBVIOUS
    <3>1. c # NoClient
      BY ServAssumption
    <3> QED
      BY <1>00, <2>2, <3>1
  <2>6. \A h, g \in Fds : owner'[h] = owner'[g] /\ owner'[h] # NoClient => h = g
    BY <1>00, <2>3, <2>5
  <2>7. \A g \in Fds : owner'[g] # NoClient => conn'[owner'[g]] \in {"open", "gone"}
    <3> SUFFICES ASSUME NEW g \in Fds, owner'[g] # NoClient PROVE conn'[owner'[g]] \in {"open", "gone"}
      OBVIOUS
    <3>1. CASE g = f
      BY <2>3, <2>4, <3>1
    <3>2. CASE g # f
      <4>1. owner'[g] = owner[g] /\ owner[g] # c /\ owner[g] \in Clients
        BY <1>0, <2>3, <2>5, <3>2
      <4> QED
        BY <1>00, <2>4, <4>1
    <3> QED
      BY <3>1, <3>2
  <2>8. \A d \in Clients : (Unheard(d) => Unheard(d)') /\ (Fresh(d) => Fresh(d)')
    BY <1>2 DEF Accept, Unheard, Fresh
  <2>9. \A d \in Clients : (conn'[d] = "new" => conn[d] = "new") /\ (conn'[d] = "queued" => conn[d] = "queued")
    BY <2>4
  <2> QED
    BY <1>00, <2>6, <2>7, <2>8, <2>9 DEF ConnInv
<1>3. CASE CloseOld
  <2>1. UNCHANGED <<told, sent, got, wire>>
    BY <1>3 DEF CloseOld
  <2>2. CASE espconn # 0
    BY <1>3, <2>1, <2>2, ConnClose DEF CloseOld
  <2>3. CASE espconn = 0
    <3>1. owner' = owner /\ conn' = conn
      BY <1>3, <2>3 DEF CloseOld
    <3>2. \A d \in Clients : (Unheard(d) => Unheard(d)') /\ (Fresh(d) => Fresh(d)')
      BY <2>1 DEF Unheard, Fresh
    <3> QED
      BY <1>00, <3>1, <3>2 DEF ConnInv
  <2> QED
    BY <2>2, <2>3
<1>4. CASE UNCHANGED <<owner, conn, told, sent, got, wire>>
  <2>1. \A d \in Clients : (Unheard(d) => Unheard(d)') /\ (Fresh(d) => Fresh(d)')
    BY <1>4 DEF Unheard, Fresh
  <2> QED
    BY <1>00, <1>4, <2>1 DEF ConnInv
<1>5. CASE SetConn \/ InitConn \/ RecvBegin \/ RecvEnds \/ NoHandshake \/ ZeroClient \/ CutTooMuch
  <2>1. UNCHANGED <<owner, conn, told, sent, got, wire>>
    BY <1>5 DEF SetConn, InitConn, RecvBegin, RecvEnds, NoHandshake, ZeroClient, CutTooMuch
  <2> QED
    BY <1>4, <2>1
<1>51. CASE CutOutside
  <2>1. Restart \/ UNCHANGED <<owner, conn, told, sent, got, wire>>
    BY <1>51 DEF CutOutside
  <2> QED
    BY <1>1, <1>4, <2>1
<1>60. ASSUME NEW chunk \in Chunks PROVE recvOn \in Clients /\ conn[recvOn] \in {"open", "gone"}
  <2>1. recvOn \in Clients /\ Open(recvOn)
    BY Received
  <2>2. PICK f \in Fds : owner[f] = recvOn
    BY <2>1 DEF Open
  <2> QED
    BY <1>00, <2>1, <2>2, ServAssumption
<1>6. ASSUME NEW chunk \in Chunks, RecvChunk(chunk) PROVE ConnInv'
  <2>3. recvOn \in Clients /\ conn[recvOn] \in {"open", "gone"}
    BY <1>60
  <2>4. /\ owner' = owner /\ conn' = conn /\ told' = told /\ sent' = sent /\ got' = got
        /\ \A d \in Clients : d # recvOn => wire'[d] = wire[d]
    BY <1>0, <1>6 DEF RecvChunk, Store
  <2>5. \A d \in Clients : (Unheard(d) => Unheard(d)') /\ (Fresh(d) /\ d # recvOn => Fresh(d)')
    BY <2>4 DEF Unheard, Fresh
  <2> QED
    BY <1>00, <2>3, <2>4, <2>5 DEF ConnInv
<1>61. ASSUME NEW chunk \in Chunks, RecvOverflow(chunk) PROVE ConnInv'
  <2>1. CASE Restart
    BY <1>1, <2>1
  <2>2. CASE ~Restart
    <3>1. /\ Store(chunk) /\ UNCHANGED <<told, sent, got>>
          /\ UNCHANGED <<owner, conn>> \/ Close(espconn)
      BY <1>61, <2>2 DEF RecvOverflow
    <3>2. \A d \in Clients : d # recvOn => wire'[d] = wire[d]
      BY <1>0, <3>1 DEF Store
    <3>3. \A d \in Clients : conn[d] = "queued" => wire'[d] = wire[d]
      BY <1>60, <3>2
    <3>4. CASE Close(espconn)
      BY <3>1, <3>3, <3>4, ConnClose
    <3>5. CASE UNCHANGED <<owner, conn>>
      <4>1. \A d \in Clients : Unheard(d) => Unheard(d)'
        BY <3>1 DEF Unheard
      <4>2. \A d \in Clients : Fresh(d) /\ conn[d] = "queued" => Fresh(d)'
        BY <3>3, <4>1 DEF Fresh
      <4> QED
        BY <1>00, <3>5, <4>1, <4>2 DEF ConnInv
    <3> QED
      BY <3>1, <3>4, <3>5
  <2> QED
    BY <2>1, <2>2
<1>7. CASE Handshake \/ CutFrame
  <2>1. UNCHANGED <<owner, conn, sent, wire>>
    BY <1>7 DEF Handshake, CutFrame
  <2>2. \A d \in Clients : conn[d] \in {"new", "queued"} /\ Unheard(d) => Unheard(d)'
    <3> SUFFICES ASSUME NEW d \in Clients, conn[d] \in {"new", "queued"}, Unheard(d) PROVE Unheard(d)'
      OBVIOUS
    <3>1. ASSUME Live(fd) PROVE owner[fd] # d
      BY <1>00, <3>1 DEF Live
    <3>2. CASE Handshake
      <4>1. told'[d] = told[d] /\ got' = got
        <5>1. got' = got
          BY <3>2 DEF Handshake
        <5>2. CASE Live(fd)
          <6>1. PICK v : told' = [told EXCEPT ![owner[fd]] = v]
            BY <3>2, <5>2 DEF Handshake
          <6> QED
            BY <1>0, <3>1, <5>1, <5>2, <6>1
        <5>3. CASE ~Live(fd)
          BY <3>2, <5>1, <5>3 DEF Handshake
        <5> QED
          BY <5>2, <5>3
      <4> QED
        BY <2>1, <4>1 DEF Unheard
    <3>3. CASE CutFrame
      <4>1. told' = told
        BY <3>3 DEF CutFrame
      <4>2. got'[d] = got[d]
        <5>1. got' = got \/ (Live(fd) /\ \E v : got' = [got EXCEPT ![owner[fd]] = v])
          BY <3>3 DEF CutFrame
        <5>2. CASE got' = got
          BY <5>2
        <5>3. CASE Live(fd) /\ \E v : got' = [got EXCEPT ![owner[fd]] = v]
          <6>1. PICK v : got' = [got EXCEPT ![owner[fd]] = v]
            BY <5>3
          <6>2. owner[fd] # d
            BY <3>1, <5>3
          <6>3. \A G : [G EXCEPT ![owner[fd]] = v][d] = G[d]
            BY <6>2
          <6> QED
            BY <6>1, <6>3
        <5> QED
          BY <5>1, <5>2, <5>3
      <4> QED
        BY <2>1, <4>1, <4>2 DEF Unheard
    <3> QED
      BY <1>7, <3>2, <3>3
  <2>3. \A d \in Clients : conn[d] \in {"new", "queued"} /\ Fresh(d) => Fresh(d)'
    BY <2>1, <2>2 DEF Fresh
  <2> QED
    BY <1>00, <2>1, <2>2, <2>3 DEF ConnInv
<1>8. CASE CloseClient
  <2>1. Close(espconn) /\ UNCHANGED <<told, sent, got, wire>>
    BY <1>8 DEF CloseClient
  <2> QED
    BY <2>1, ConnClose
<1>9. ASSUME NEW c \in Clients, Connects(c) PROVE ConnInv'
  <2>1. /\ owner' = owner /\ told' = told /\ sent' = sent /\ got' = got /\ conn[c] = "new"
        /\ \A d \in Clients : conn'[d] = IF d = c THEN "queued" ELSE conn[d]
        /\ \A d \in Clients : wire'[d] = IF d = c THEN Request(c) ELSE wire[d]
    BY <1>0, <1>9 DEF Connects, NoClientStep
  <2>2. \A d \in Clients : (Unheard(d) => Unheard(d)') /\ (Fresh(d) /\ d # c => Fresh(d)')
    BY <2>1 DEF Unheard, Fresh
  <2>3. Fresh(c)'
    BY <1>00, <2>1, <2>2 DEF Fresh
  <2>4. \A g \in Fds : owner[g] # NoClient => owner[g] # c /\ owner[g] \in Clients
    <3> TAKE g \in Fds
    <3>1. owner[g] # NoClient => owner[g] \in Clients /\ conn[owner[g]] \in {"open", "gone"}
      BY <1>0, <1>00
    <3>2. conn[c] \notin {"open", "gone"}
      BY <2>1
    <3> QED
      BY <3>1, <3>2, Zenon
  <2> QED
    BY <1>00, <2>1, <2>2, <2>3, <2>4 DEF ConnInv
<1>10. ASSUME NEW c \in Clients, HangsUp(c) PROVE ConnInv'
  <2>1. /\ owner' = owner /\ told' = told /\ sent' = sent /\ got' = got /\ wire' = wire
        /\ \A d \in Clients : conn'[d] = IF d = c THEN "gone" ELSE conn[d]
    BY <1>0, <1>10 DEF HangsUp, NoClientStep
  <2>2. \A d \in Clients : (Unheard(d) => Unheard(d)') /\ (Fresh(d) => Fresh(d)')
    BY <2>1 DEF Unheard, Fresh
  <2>3. \A g \in Fds : owner[g] # NoClient => owner[g] \in Clients
    BY <1>0
  <2> QED
    BY <1>00, <2>1, <2>2, <2>3 DEF ConnInv
<1>11. ASSUME NEW c \in Clients, NEW m \in Messages, Sends(c, m) PROVE ConnInv'
  <2>1. /\ owner' = owner /\ told' = told /\ got' = got /\ conn' = conn /\ conn[c] = "open"
        /\ \A d \in Clients : d # c => wire'[d] = wire[d] /\ sent'[d] = sent[d]
    BY <1>0, <1>11, ZenonT(30) DEF Sends, NoClientStep
  <2>2. \A d \in Clients : d # c => (Unheard(d) => Unheard(d)') /\ (Fresh(d) => Fresh(d)')
    BY <2>1 DEF Unheard, Fresh
  <2> QED
    BY <1>00, <2>1, <2>2 DEF ConnInv
<1>12. CASE UNCHANGED vars
  BY <1>4, <1>12 DEF vars
<1> QED
  BY <1>1, <1>2, <1>3, <1>5, <1>51, <1>6, <1>61, <1>7, <1>8, <1>9, <1>10, <1>11, <1>12, NextSteps DEF Steps

-----------------------------------------------------------------------------
(* Every client's texts come out in order *)

Pending(b, c) == Holds(b, cache, len, wire[c])

\* The client whose bytes are received is still asking, was answered wrong, or
\* sends messages.
Asking(c) == method = 0 /\ Unheard(c) /\ Pending(Request(c), c)
Refused(c) ==
    /\ method = 1 /\ told[c] = "wrong" /\ sent[c] = <<>> /\ got[c] = <<>>
    /\ \E b \in {<<>>, <<Key3>>} : Pending(b, c)
Following(c) ==
    /\ method = Method(c) /\ told[c] = "right"
    /\ \E x \in Streams(Method(c)) : Pending(x[1], c) /\ sent[c] = got[c] \o x[2]
Served(c) == Asking(c) \/ Refused(c) \/ Following(c)

\* Where the two tasks are, and what their descriptors are then.
Hands ==
    /\ recvPc # "loop" => fd # 0
    /\ recvPc = "parse" => accPc = "accept"
    /\ recvPc = "recv" => recvOn = owner[fd]
    /\ accPc \in {"accept", "init"} => fd = espconn
    /\ accPc \in {"close", "set"} /\ fd # 0 => fd # espconn
    /\ fd # 0 /\ recvPc # "zero" => owner[fd] # NoClient

\* The newest client is served once its connection is set up.
Newest ==
    Live(fd) => IF accPc = "accept" THEN Served(owner[fd]) ELSE Fresh(owner[fd])

\* The empty line of a request does not stay in the cache.
Ends ==
    \A i \in 1..CacheSize : cache[i] = EmptyLine => recvPc = "parse" /\ method = 0 /\ i <= len

InHand == Hands /\ Newest /\ Ends

\* It is so until something is spoilt.
OrderInv ==
    /\ got \in [Clients -> Seq(Decoded)]
    /\ InOrder
    /\ ~spoilt => InHand

LEMMA FreshSame ==
    ASSUME NEW c \in Clients, told'[c] = told[c], sent'[c] = sent[c], got'[c] = got[c], wire'[c] = wire[c]
    PROVE  Fresh(c) => Fresh(c)'
BY DEF Fresh, Unheard

LEMMA ServedSame ==
    ASSUME NEW c \in Clients, told'[c] = told[c], sent'[c] = sent[c], got'[c] = got[c], wire'[c] = wire[c],
           method' = method, cache' = cache, len' = len
    PROVE  Served(c) => Served(c)'
BY DEF Served, Asking, Refused, Following, Unheard, Pending, Holds

\* The cache as a string.
LEMMA LinesRead ==
    ASSUME Typed
    PROVE  /\ Lines \in Seq(Cells) /\ Len(Lines) \in 0..CacheSize
           /\ \A i \in 1..Len(Lines) : Lines[i] = cache[i]
           /\ \A n \in 0..CacheSize : (\A i \in 1..n : cache[i] # 0) => n <= Len(Lines)
<1>0. CacheSize \in Nat /\ cache \in [1..CacheSize -> Cells]
  BY ServAssumption DEF Typed, Shaped, TypeOK, Cells
<1> DEFINE Z == {i \in 1..CacheSize : cache[i] = 0} \cup {CacheSize + 1}
<1>1. Z \in SUBSET Nat /\ Z # {} /\ Z \in SUBSET (1..(CacheSize + 1)) /\ CacheSize + 1 \in Z
  BY <1>0
<1>2. \A i \in Z : i = CacheSize + 1 \/ (i \in 1..CacheSize /\ cache[i] = 0)
  BY <1>0
<1>3. Lines = SubSeq(cache, 1, Min(Z) - 1)
  BY DEF Lines
<1> HIDE DEF Z
<1>4. PICK z \in Z : z = Min(Z)
  BY <1>1, Least
<1>5. PICK k : k = z - 1
  OBVIOUS
<1>6. k \in 0..CacheSize /\ z = k + 1
  BY <1>0, <1>1, <1>5
<1>7. cache \in Seq(Cells) /\ Len(cache) = CacheSize
  BY <1>0, FunSeq
<1>8. 1 \in 1..(Len(cache) + 1) /\ k \in (1 - 1)..Len(cache)
  BY <1>0, <1>6, <1>7
<1>9. /\ SubSeq(cache, 1, k) \in Seq(Cells) /\ Len(SubSeq(cache, 1, k)) = k - 1 + 1
      /\ \A i \in 1..(k - 1 + 1) : SubSeq(cache, 1, k)[i] = cache[1 + i - 1]
  BY <1>7, <1>8, SubPart
<1>10. PICK s \in Seq(Cells) : s = SubSeq(cache, 1, k)
  BY <1>9
<1>11. Len(s) = k /\ \A i \in 1..k : s[i] = cache[i]
  BY <1>6, <1>9, <1>10
<1>12. ASSUME NEW n \in 0..CacheSize, \A i \in 1..n : cache[i] # 0 PROVE n <= k
  <2>1. CASE z = CacheSize + 1
    BY <1>0, <1>6, <2>1
  <2>2. CASE z \in 1..CacheSize /\ cache[z] = 0
    <3>1. ~(z <= n)
      BY <1>12, <2>2
    <3> QED
      BY <1>0, <1>6, <2>2, <3>1
  <2> QED
    BY <1>2, <2>1, <2>2
<1> QED
  BY <1>3, <1>4, <1>5, <1>6, <1>10, <1>11, <1>12

\* Where the empty line of a request is, and what stands in front of it.
EndOf(c) == IF c \in OldClients THEN 4 ELSE 2
LEMMA RequestOf ==
    ASSUME NEW c \in Clients
    PROVE  LET r == Request(c) IN
           /\ r \in Seq(Cells) /\ Len(r) = IF c \in OldClients THEN 5 ELSE 2
           /\ \A i \in 1..Len(r) : r[i] # 0 /\ (r[i] = EmptyLine <=> i = EndOf(c))
           /\ c \in OldClients => r[3] = KeyLine(1) /\ r[5] = Key3
           /\ c \notin OldClients => r[1] = KeyLine(2)
<1>0. Base \in Nat
  BY FramesAssumption
<1>1. CASE c \in OldClients
  <2>1. PICK r : r = <<Line, Line, KeyLine(1), EmptyLine, Key3>>
    OBVIOUS
  <2>2. Request(c) = r
    BY <1>1, <2>1 DEF Request
  <2>3. Len(r) = 5 /\ r[1] = Line /\ r[2] = Line /\ r[3] = KeyLine(1) /\ r[4] = EmptyLine /\ r[5] = Key3
    BY <2>1
  <2>4. \A i \in 1..5 : i = 1 \/ i = 2 \/ i = 3 \/ i = 4 \/ i = 5
    OBVIOUS
  <2>5. /\ Line # 0 /\ KeyLine(1) # 0 /\ EmptyLine # 0 /\ Key3 # 0
        /\ Line # EmptyLine /\ KeyLine(1) # EmptyLine /\ Key3 # EmptyLine
    BY <1>0 DEF Line, KeyLine, EmptyLine, Key3
  <2>6. \A i \in 1..5 : r[i] # 0 /\ (r[i] = EmptyLine <=> i = 4)
    BY <2>3, <2>4, <2>5
  <2> QED
    BY <1>1, <2>2, <2>3, <2>6, RequestTyped DEF EndOf
<1>2. CASE c \notin OldClients
  <2>1. PICK r : r = <<KeyLine(2), EmptyLine>>
    OBVIOUS
  <2>2. Request(c) = r
    BY <1>2, <2>1 DEF Request
  <2>3. Len(r) = 2 /\ r[1] = KeyLine(2) /\ r[2] = EmptyLine
    BY <2>1
  <2>4. \A i \in 1..2 : i = 1 \/ i = 2
    OBVIOUS
  <2>5. KeyLine(2) # 0 /\ EmptyLine # 0 /\ KeyLine(2) # EmptyLine
    BY <1>0 DEF KeyLine, EmptyLine
  <2>6. \A i \in 1..2 : r[i] # 0 /\ (r[i] = EmptyLine <=> i = 2)
    BY <2>3, <2>4, <2>5
  <2> QED
    BY <1>2, <2>2, <2>3, <2>6, RequestTyped DEF EndOf
<1> QED
  BY <1>1, <1>2

\* A request of which the empty line is in the cache, read as lines.
LEMMA RequestRead ==
    ASSUME Typed, NEW c \in Clients, Pending(Request(c), c),
           NEW i \in 1..len, cache[i] = EmptyLine
    PROVE  /\ i = EndOf(c) /\ EndOf(c) <= Len(Lines)
           /\ \A j \in 1..EndOf(c) : Lines[j] = Request(c)[j] /\ cache[j] = Request(c)[j]
           /\ \A j \in 1..len : cache[j] = EmptyLine => j = EndOf(c)
<1>0. len \in 0..CacheSize /\ CacheSize \in Nat /\ wire[c] \in Seq(Cells) /\ Len(wire[c]) \in Nat
  BY ServAssumption DEF Typed, Shaped, TypeOK
<1>1. PICK r \in Seq(Cells) : r = Request(c) /\ Len(r) \in Nat
        /\ \A j \in 1..Len(r) : r[j] # 0 /\ (r[j] = EmptyLine <=> j = EndOf(c))
  BY RequestOf
<1>2. Len(r) = len + Len(wire[c]) /\ \A j \in 1..len : cache[j] = r[j]
  BY <1>1 DEF Pending, Holds
<1>3. len <= Len(r) /\ \A j \in 1..len : j \in 1..Len(r)
  BY <1>0, <1>1, <1>2
<1>4. \A j \in 1..len : cache[j] # 0 /\ (cache[j] = EmptyLine => j = EndOf(c))
  BY <1>1, <1>2, <1>3
<1>5. i = EndOf(c) /\ len <= Len(Lines) /\ Len(Lines) \in Nat
  BY <1>0, <1>4, LinesRead
<1>6. \A j \in 1..EndOf(c) : j \in 1..len /\ j \in 1..Len(Lines)
  BY <1>0, <1>5
<1>7. \A j \in 1..EndOf(c) : Lines[j] = cache[j]
  BY <1>6, LinesRead
<1> QED
  BY <1>0, <1>1, <1>2, <1>4, <1>5, <1>6, <1>7

\* A request that is in the cache up to its empty line is known for what it is.
LEMMA RequestKnown ==
    ASSUME Typed, NEW c \in Clients, Pending(Request(c), c),
           NEW i \in 1..len, cache[i] = EmptyLine
    PROVE  Identify # 0
<1>1. EndOf(c) \in Nat /\ EndOf(c) \in 1..EndOf(c) /\ EndOf(c) \in DOMAIN Lines
  <2>1. EndOf(c) \in Nat /\ EndOf(c) >= 1
    BY DEF EndOf
  <2>2. EndOf(c) <= Len(Lines) /\ Lines \in Seq(Cells)
    BY RequestRead, LinesRead
  <2> QED
    BY <2>1, <2>2
<1>2. InLines(EmptyLine)
  <2>1. Lines[EndOf(c)] = Request(c)[EndOf(c)]
    BY <1>1, RequestRead
  <2>2. EndOf(c) \in 1..Len(Request(c))
    <3>1. Len(Request(c)) = IF c \in OldClients THEN 5 ELSE 2
      BY RequestOf, Zenon
    <3>2. PICK n : n = Len(Request(c))
      OBVIOUS
    <3>3. EndOf(c) \in 1..n
      BY <3>1, <3>2 DEF EndOf
    <3> QED
      BY <3>2, <3>3
  <2>3. Request(c)[EndOf(c)] = EmptyLine
    BY <2>2, RequestOf
  <2> QED
    BY <1>1, <2>1, <2>3 DEF InLines
<1>3. InLines(KeyLine(1)) \/ InLines(KeyLine(2))
  <2>0. \A j \in 1..EndOf(c) : j \in DOMAIN Lines /\ Lines[j] = Request(c)[j]
    <3>1. Lines \in Seq(Cells) /\ Len(Lines) \in Nat /\ EndOf(c) <= Len(Lines)
      BY RequestRead, LinesRead
    <3> QED
      BY <1>1, <3>1, RequestRead
  <2>1. CASE c \in OldClients
    <3>1. 3 \in 1..EndOf(c) /\ Request(c)[3] = KeyLine(1)
      BY <2>1, RequestOf DEF EndOf
    <3> QED
      BY <2>0, <3>1 DEF InLines
  <2>2. CASE c \notin OldClients
    <3>1. 1 \in 1..EndOf(c) /\ Request(c)[1] = KeyLine(2)
      BY <2>2, RequestOf DEF EndOf
    <3> QED
      BY <2>0, <3>1 DEF InLines
  <2> QED
    BY <2>1, <2>2
<1> QED
  BY <1>2, <1>3 DEF Identify

\* The end of the request that is answered.
LEMMA HeadEndOf ==
    ASSUME Typed, Ends, NEW c \in Clients, Pending(Request(c), c), InLines(EmptyLine)
    PROVE  /\ HeadEnd = EndOf(c) /\ EndOf(c) \in 1..len
           /\ \A j \in 1..EndOf(c) : Lines[j] = Request(c)[j]
           /\ \A j \in 1..CacheSize : cache[j] = EmptyLine => j = EndOf(c)
<1>0. len \in 0..CacheSize /\ CacheSize \in Nat
  BY ServAssumption DEF Typed, Shaped, TypeOK
<1>1. PICK s \in Seq(Cells) : s = Lines /\ Len(s) \in 0..CacheSize /\ \A j \in 1..Len(s) : s[j] = cache[j]
  BY LinesRead
<1>2. \A j \in 1..Len(s) : j \in 1..CacheSize /\ (s[j] = EmptyLine => j \in 1..len /\ cache[j] = EmptyLine)
  BY <1>0, <1>1 DEF Ends
<1>3. PICK i \in 1..len : cache[i] = EmptyLine
  <2>1. PICK i \in DOMAIN Lines : Lines[i] = EmptyLine
    BY DEF InLines
  <2>2. i \in 1..Len(s)
    BY <1>1, <2>1
  <2> QED
    BY <1>1, <1>2, <2>1, <2>2
<1>4. /\ i = EndOf(c) /\ EndOf(c) <= Len(s)
      /\ \A j \in 1..EndOf(c) : s[j] = Request(c)[j] /\ cache[j] = Request(c)[j]
      /\ \A j \in 1..len : cache[j] = EmptyLine => j = EndOf(c)
  BY <1>1, <1>3, RequestRead
<1> DEFINE I == {j \in 1..Len(s) : s[j] = EmptyLine}
<1>5. I = {i}
  <2>1. i \in 1..Len(s)
    BY <1>0, <1>1, <1>4
  <2>2. s[i] = EmptyLine
    BY <1>1, <1>3, <2>1
  <2>3. \A j \in I : j = i
    BY <1>2, <1>4
  <2> QED
    BY <2>1, <2>2, <2>3
<1>6. HeadEnd = IF I # {} THEN Min(I) ELSE 0
  BY <1>1 DEF HeadEnd, SelectInSeq
<1> HIDE DEF I
<1>7. HeadEnd = i
  <2>1. {i} \in SUBSET Nat /\ {i} # {}
    OBVIOUS
  <2>2. Min({i}) \in {i}
    BY <2>1, Least
  <2> QED
    BY <1>5, <1>6, <2>2
<1>8. \A j \in 1..CacheSize : cache[j] = EmptyLine => j = EndOf(c)
  <2>1. \A j \in 1..CacheSize : cache[j] = EmptyLine => j \in 1..len
    BY <1>0 DEF Ends
  <2> QED
    BY <1>4, <2>1
<1> QED
  BY <1>1, <1>3, <1>4, <1>7, <1>8

\* The answer to a request that was received in order.
LEMMA AnswerTold ==
    ASSUME Typed, Ends, NEW c \in Clients, Pending(Request(c), c), Identify # 0,
           Identify = 1 => HeadHas(KeyLine(1))
    PROVE  /\ Identify = Method(c)
           /\ IF Identify = 1 THEN Answer_1 <=> len = 5 ELSE Answer_2
           /\ len = Len(Request(c)) \/ (c \in OldClients /\ len = 4)
<1>0. len \in 0..CacheSize /\ CacheSize \in Nat /\ wire[c] \in Seq(Cells) /\ Len(wire[c]) \in Nat
  BY ServAssumption DEF Typed, Shaped, TypeOK
<1>1. InLines(EmptyLine)
  BY DEF Identify
<1>2. /\ HeadEnd = EndOf(c) /\ EndOf(c) \in 1..len
      /\ \A j \in 1..EndOf(c) : Lines[j] = Request(c)[j]
  BY <1>1, HeadEndOf
<1>3. PICK r \in Seq(Cells) : r = Request(c) /\ Len(r) = (IF c \in OldClients THEN 5 ELSE 2)
        /\ (c \in OldClients => r[3] = KeyLine(1)) /\ (c \notin OldClients => r[1] = KeyLine(2))
  BY RequestOf
<1>4. Len(r) = len + Len(wire[c])
  BY <1>3 DEF Pending, Holds
<1>5. len <= Len(r)
  BY <1>0, <1>4
<1>6. KeyLine(1) # KeyLine(2) /\ KeyLine(1) # EmptyLine
  BY FramesAssumption DEF KeyLine, EmptyLine
<1>7. CASE c \in OldClients
  <2>1. EndOf(c) = 4 /\ Len(r) = 5 /\ Method(c) = 1
    BY <1>3, <1>7 DEF EndOf, Method
  <2>2. 3 \in 1..(HeadEnd - 1) /\ Lines[3] = KeyLine(1)
    <3>1. HeadEnd = 4
      BY <1>2, <2>1
    <3>2. 3 \in 1..EndOf(c)
      BY <2>1
    <3> QED
      BY <1>2, <1>3, <1>7, <3>1, <3>2
  <2>3. InLines(KeyLine(1))
    <3>1. EndOf(c) <= Len(Lines) /\ Lines \in Seq(Cells) /\ Len(Lines) \in Nat
      <4>1. PICK i \in DOMAIN Lines : Lines[i] = EmptyLine
        BY <1>1 DEF InLines
      <4>2. Lines \in Seq(Cells) /\ Len(Lines) \in 0..CacheSize /\ i \in 1..Len(Lines)
        BY <4>1, LinesRead
      <4>3. cache[i] = EmptyLine /\ i \in 1..len
        BY <1>0, <4>1, <4>2, LinesRead DEF Ends
      <4> QED
        BY <4>2, <4>3, RequestRead
    <3>2. 3 \in DOMAIN Lines
      BY <2>1, <3>1
    <3> QED
      BY <2>2, <3>2 DEF InLines
  <2>4. Identify = 1
    BY <1>1, <2>3 DEF Identify
  <2>5. HeadHas(KeyLine(1))
    BY <2>2 DEF HeadHas
  <2>6. len = 4 \/ len = 5
    BY <1>0, <1>2, <1>5, <2>1
  <2>7. HeadEnd < len <=> len = 5
    BY <1>2, <2>1, <2>6
  <2>8. Answer_1 <=> len = 5
    BY <2>5, <2>7 DEF Answer_1
  <2> QED
    BY <1>3, <1>7, <2>1, <2>4, <2>6, <2>8
<1>8. CASE c \notin OldClients
  <2>1. EndOf(c) = 2 /\ Len(r) = 2 /\ Method(c) = 2
    BY <1>3, <1>8 DEF EndOf, Method
  <2>2. 1 \in 1..EndOf(c)
    BY <2>1
  <2>3. HeadEnd = 2 /\ Lines[1] = KeyLine(2)
    BY <1>2, <1>3, <1>8, <2>1, <2>2
  <2>4. ~HeadHas(KeyLine(1))
    <3>1. \A i \in 1..(HeadEnd - 1) : i = 1
      BY <2>3
    <3> QED
      BY <1>6, <2>3, <3>1 DEF HeadHas
  <2>5. Identify = 2
    BY <2>4 DEF Identify
  <2>6. Answer_2
    <3>1. 1 \in 1..(HeadEnd - 1)
      BY <2>3
    <3> QED
      BY <2>3, <3>1 DEF Answer_2, HeadHas
  <2>7. len = 2
    BY <1>0, <1>2, <1>5, <2>1
  <2> QED
    BY <1>3, <2>1, <2>5, <2>6, <2>7
<1> QED
  BY <1>7, <1>8

LEMMA HandshakeServed ==
    ASSUME Typed, Ends, NEW c \in Clients, Live(fd), owner[fd] = c, Asking(c), Handshake
    PROVE  Served(c)' /\ \A i \in 1..CacheSize : cache'[i] # EmptyLine
<1>0. /\ len \in 0..CacheSize /\ CacheSize \in Nat /\ wire[c] \in Seq(Cells) /\ Len(wire[c]) \in Nat
      /\ cache \in [1..CacheSize -> Cells] /\ told \in [Clients -> {"none", "right", "wrong"}]
  BY ServAssumption DEF Typed, Shaped, TypeOK, Cells
<1>1. Pending(Request(c), c) /\ sent[c] = <<>> /\ got[c] = <<>>
  BY DEF Asking, Unheard
<1>2. Identify # 0 /\ (Identify = 1 => HeadHas(KeyLine(1)))
  BY DEF Handshake
<1>3. /\ Identify = Method(c)
      /\ IF Identify = 1 THEN Answer_1 <=> len = 5 ELSE Answer_2
      /\ len = Len(Request(c)) \/ (c \in OldClients /\ len = 4)
  BY <1>1, <1>2, AnswerTold
<1>4. /\ method' = Identify /\ len' = 0 /\ cache' = [cache EXCEPT ![HeadEnd] = 0]
      /\ wire' = wire /\ sent' = sent /\ got' = got
  BY DEF Handshake, history
<1>40. PICK whole \in BOOLEAN :
         told' = [told EXCEPT ![c] = IF (IF Identify = 1 THEN Answer_1 /\ whole ELSE Answer_2)
                                     THEN "right" ELSE "wrong"]
  BY DEF Handshake
<1>41. /\ told'[c] \in {"right", "wrong"}
       /\ told'[c] = "right" => IF Identify = 1 THEN Answer_1 ELSE Answer_2
       /\ told'[c] = "wrong" => Identify = 1
  BY <1>0, <1>3, <1>40
<1>5. InLines(EmptyLine)
  BY <1>2 DEF Identify
<1>6. \A i \in 1..CacheSize : cache'[i] # EmptyLine
  <2>1. HeadEnd = EndOf(c) /\ \A j \in 1..CacheSize : cache[j] = EmptyLine => j = EndOf(c)
    BY <1>1, <1>5, HeadEndOf
  <2>2. \A i \in 1..CacheSize : cache'[i] = IF i = EndOf(c) THEN 0 ELSE cache[i]
    BY <1>0, <1>4, <2>1
  <2> QED
    BY <2>1, <2>2, CellsNat
<1>7. PICK r \in Seq(Cells) : r = Request(c) /\ Len(r) = (IF c \in OldClients THEN 5 ELSE 2)
        /\ (c \in OldClients => r[5] = Key3)
  BY RequestOf
<1>8. Len(r) = len + Len(wire[c]) /\ \A i \in 1..Len(wire[c]) : wire[c][i] = r[len + i]
  BY <1>1, <1>7 DEF Pending, Holds
<1>9. PICK w \in Seq(Cells) : w = wire[c]
  BY <1>0
<1>10. Holds(w, cache', 0, w)
  BY HoldsWire
<1>11. CASE told'[c] = "right"
  <2>1. len = Len(r)
    <3>1. IF Identify = 1 THEN len = 5 ELSE Answer_2
      BY <1>3, <1>11, <1>41
    <3>2. c \in OldClients => len = 5
      BY <1>3, <3>1 DEF Method
    <3> QED
      BY <1>3, <1>7, <3>2
  <2>2. w = <<>>
    BY <1>0, <1>8, <1>9, <2>1
  <2>3. PICK x : x = << <<>>, <<>> >>
    OBVIOUS
  <2>4. x \in Streams(Method(c)) /\ x[1] = <<>> /\ x[2] = <<>>
    BY <2>3, StreamsEmpty
  <2>5. Pending(x[1], c)'
    BY <1>4, <1>9, <1>10, <2>2, <2>4 DEF Pending
  <2>6. sent'[c] = got'[c] \o x[2]
    <3>1. <<>> \o <<>> = <<>>
      OBVIOUS
    <3> QED
      BY <1>1, <1>4, <2>4, <3>1
  <2>7. Following(c)'
    BY <1>3, <1>4, <1>11, <2>4, <2>5, <2>6 DEF Following
  <2> QED
    BY <1>6, <2>7 DEF Served
<1>12. CASE told'[c] = "wrong"
  <2>1. Identify = 1 /\ method' = 1
    BY <1>4, <1>12, <1>41
  <2>2. c \in OldClients /\ Len(r) = 5 /\ len \in {4, 5}
    BY <1>3, <1>7, <2>1 DEF Method
  <2>3. w \in {<<>>, <<Key3>>}
    <3>1. PICK n \in Nat : /\ n = Len(w) /\ Len(r) = len + n
                          /\ \A i \in 1..n : w[i] = r[len + i]
      BY <1>0, <1>8, <1>9
    <3>2. CASE len = 5
      <4>1. 5 = 5 + n
        BY <2>2, <3>1, <3>2, Zenon
      <4>2. n = 0
        BY <4>1
      <4>3. Len(w) = 0
        BY <3>1, <4>2, Zenon
      <4> QED
        BY <4>3
    <3>3. CASE len = 4
      <4>0. 5 = 4 + n
        BY <2>2, <3>1, <3>3, Zenon
      <4>1. n = 1
        BY <4>0
      <4>2. 1 \in 1..n /\ len + 1 = 5
        BY <3>3, <4>1
      <4>3. w[1] = Key3
        BY <1>7, <2>2, <3>1, <4>2
      <4>4. Len(w) = 1
        BY <3>1, <4>1, Zenon
      <4> QED
        BY <4>3, <4>4
    <3> QED
      BY <2>2, <3>2, <3>3
  <2>4. Pending(w, c)'
    BY <1>4, <1>9, <1>10 DEF Pending
  <2>5. Refused(c)'
    <3>1. /\ (method = 1 /\ told[c] = "wrong" /\ sent[c] = <<>> /\ got[c] = <<>>)'
      BY <1>1, <1>4, <1>12, <2>1
    <3> QED
      BY <2>3, <2>4, <3>1 DEF Refused
  <2> QED
    BY <1>6, <2>5 DEF Served
<1> QED
  BY <1>11, <1>12, <1>41

LEMMA HoldsSame ==
    ASSUME NEW b, NEW c, NEW d, NEW n \in Nat, NEW w, \A i \in 1..n : d[i] = c[i], Holds(b, c, n, w)
    PROVE  Holds(b, d, n, w)
BY DEF Holds

\* A byte of a stream is none of a request's tokens.
LEMMA StreamTyped ==
    ASSUME NEW hs, NEW x \in Streams(hs)
    PROVE  x[1] \in Seq(Byte) /\ x[1] \in Seq(Cells) /\ x[2] \in Seq(Decoded)
<1>1. x[1] \in Seq(Byte) /\ x[2] \in Seq(Decoded)
  BY DEF Streams, Pairs
<1>2. x[1] \in Seq(Cells)
  BY <1>1, CellsNat, Wider
<1> QED
  BY <1>1, <1>2

\* The first frame in the cache.
LEMMA CacheWhole ==
    ASSUME Typed, NEW hs \in {1, 2}, NEW m \in Frames, NEW q \in Seq(Byte), q = ClientFrame(hs, m, Mask),
           Len(q) > 0, Len(q) <= len, \A i \in 1..Len(q) : cache[i] = q[i]
    PROVE  RecvPack(hs, cache, len) = Found(0, Len(q), m)
<1>1. CacheSize \in Nat /\ len \in 0..CacheSize /\ DOMAIN cache = 1..CacheSize
  BY ServAssumption DEF Typed, Shaped, TypeOK
<1>2. len \in 1..CacheSize
  <2>1. Len(q) \in Nat
    OBVIOUS
  <2> QED
    BY <1>1, <2>1
<1> QED
  BY <1>1, <1>2, FindWhole

\* What is cut out of the cache of a client that sends messages.
LEMMA CutServed ==
    ASSUME Typed, got \in [Clients -> Seq(Decoded)], NEW c \in Clients, Live(fd), owner[fd] = c,
           ~spoilt, ~spoilt', Served(c), CutFrame
    PROVE  /\ Served(c)' /\ got' \in [Clients -> Seq(Decoded)]
           /\ \A d \in Clients : d # c => got'[d] = got[d]
           /\ IsPrefix(got'[c], sent'[c])
<1>0. /\ len \in 0..CacheSize /\ len \in Nat /\ CacheSize \in Nat /\ wire[c] \in Seq(Cells)
      /\ cache \in [1..CacheSize -> Cells] /\ cache \in [1..CacheSize -> Nat]
      /\ sent[c] \in Seq(Decoded) /\ got[c] \in Seq(Decoded)
  <2>1. /\ len \in 0..CacheSize /\ CacheSize \in Nat /\ wire[c] \in Seq(Cells)
        /\ cache \in [1..CacheSize -> Cells] /\ sent[c] \in Seq(Decoded)
    BY ServAssumption DEF Typed, Shaped, TypeOK, Cells
  <2>2. cache \in [1..CacheSize -> Nat]
    BY <2>1, CellsNat
  <2> QED
    BY <2>1, <2>2
<1>1. PICK p : p = RecvPack(method, cache, len)
  OBVIOUS
<1>2. PICK n : n = p.begin + p.len
  OBVIOUS
<1>3. /\ method # 0 /\ n <= len /\ len' = len - n
      /\ cache' = [i \in 1..CacheSize |-> cache[IF i <= len - n THEN n + i ELSE i]]
      /\ got' = IF n > 0 THEN [got EXCEPT ![c] = Append(@, UrlDecode(p.msg))] ELSE got
      /\ method' = method /\ told' = told /\ sent' = sent /\ wire' = wire
  <2>1. Fits(p)
    BY <1>1, Zenon DEF CutFrame
  <2> QED
    BY <1>1, <1>2, <2>1 DEF CutFrame, clientVars
<1>4. ASSUME n = 0
      PROVE  /\ len' = len /\ got' = got /\ \A i \in 1..len : cache'[i] = cache[i]
             /\ \A b : Pending(b, c) => Pending(b, c)'
  <2>1. len' = len /\ got' = got
    BY <1>0, <1>3, <1>4
  <2>2. ASSUME NEW i \in 1..len PROVE cache'[i] = cache[i]
    <3>1. i \in 1..CacheSize /\ i <= len - n /\ n + i = i
      BY <1>0, <1>4
    <3> QED
      BY <1>3, <3>1
  <2>3. ASSUME NEW b, Pending(b, c) PROVE Pending(b, c)'
    <3>1. Holds(b, cache', len, wire[c])
      BY <1>0, <2>2, <2>3, HoldsSame DEF Pending
    <3> QED
      BY <1>3, <2>1, <3>1 DEF Pending
  <2> QED
    BY <2>1, <2>2, <2>3
<1>5. Refused(c) \/ Following(c)
  BY <1>3 DEF Served, Asking
<1>6. CASE Refused(c)
  <2>0. PICK b \in {<<>>, <<Key3>>} : Pending(b, c)
    BY <1>6 DEF Refused
  <2>1. n = 0
    <3>1. b \in Seq(Cells) /\ Len(b) <= 1 /\ \A i \in 1..Len(b) : b[i] = Key3
      <4>1. PICK s \in Seq(Cells) : s = <<Key3>> /\ Len(s) = 1 /\ s[1] = Key3
        BY CellsNat, One
      <4>2. \A i \in 1..Len(s) : s[i] = Key3
        BY <4>1
      <4>3. CASE b = <<>>
        <5>1. b \in Seq(Cells) /\ Len(b) = 0
          BY <4>3
        <5> QED
          BY <5>1
      <4>4. CASE b = s
        BY <4>1, <4>2, <4>4
      <4> QED
        BY <4>1, <4>3, <4>4
    <3>2. Holds(b, cache, len, wire[c]) /\ method = 1
      BY <1>6, <2>0 DEF Refused, Pending
    <3>3. \A i \in 1..len : cache[i] = Key3
      <4>1. len <= Len(b) /\ \A i \in 1..len : cache[i] = b[i]
        BY <1>0, <3>1, <3>2, HoldsCells DEF Holds
      <4>2. Len(b) \in Nat
        BY <3>1
      <4>3. \A i \in 1..len : i \in 1..Len(b)
        BY <1>0, <4>1, <4>2
      <4> QED
        BY <3>1, <4>1, <4>3
    <3>4. {i \in 1..len : cache[i] = Begin1} = {}
      <4>1. Key3 # Begin1
        BY DEF Key3, Begin1
      <4> QED
        BY <3>3, <4>1
    <3>5. RecvPack(1, cache, len) = Found(0, 0, <<>>)
      BY <3>4, Zenon DEF RecvPack
    <3>6. p.begin = 0 /\ p.len = 0
      BY <1>1, <3>2, <3>5 DEF Found
    <3> QED
      BY <1>2, <3>6
  <2>2. Refused(c)'
    <3>1. Pending(b, c)'
      BY <1>4, <2>0, <2>1
    <3>2. (method = 1 /\ told[c] = "wrong" /\ sent[c] = <<>> /\ got[c] = <<>>)'
      BY <1>3, <1>4, <1>6, <2>1 DEF Refused
    <3> QED
      BY <3>1, <3>2 DEF Refused
  <2>3. got' = got /\ sent' = sent /\ got[c] = <<>> /\ sent[c] = <<>>
    BY <1>3, <1>4, <1>6, <2>1 DEF Refused
  <2>4. IsPrefix(got'[c], sent'[c])
    BY <2>3 DEF IsPrefix
  <2> QED
    BY <2>2, <2>3, <2>4 DEF Served
<1>7. CASE Following(c)
  <2>1. PICK x \in Streams(Method(c)) : Pending(x[1], c) /\ sent[c] = got[c] \o x[2]
    BY <1>7 DEF Following
  <2>2. method = Method(c) /\ method \in {1, 2} /\ told[c] = "right"
    BY <1>7 DEF Following, Method
  <2>3. ASSUME n = 0 PROVE Following(c)' /\ got' = got
    <3>1. Pending(x[1], c)'
      BY <1>4, <2>1, <2>3
    <3>2. got' = got
      BY <1>4, <2>3
    <3> QED
      BY <1>3, <2>1, <2>2, <3>1, <3>2 DEF Following
  <2>4. CASE n = 0
    <3>1. Following(c)' /\ got' = got
      BY <2>3, <2>4
    <3>2. IsPrefix(got[c], got[c] \o x[2])
      BY <1>0, StreamTyped, PrefixCat
    <3> QED
      BY <1>3, <2>1, <3>1, <3>2 DEF Served
  <2>5. CASE n # 0
    <3>1. x # << <<>>, <<>> >>
      <4> SUFFICES ASSUME x = << <<>>, <<>> >> PROVE FALSE
        OBVIOUS
      <4>1. x[1] = <<>> /\ Len(<<>>) = 0 /\ <<>> \in Seq(Cells)
        OBVIOUS
      <4>2. len <= 0
        <5>1. PICK e \in Seq(Cells) : e = x[1] /\ Len(e) = 0
          BY <4>1
        <5>2. Holds(e, cache, len, wire[c])
          BY <2>1, <5>1 DEF Pending
        <5>3. len <= Len(e)
          BY <1>0, <5>2, HoldsCells
        <5> QED
          BY <5>1, <5>3
      <4>3. len = 0
        BY <1>0, <4>2
      <4>4. p.begin = 0 /\ p.len = 0
        BY <1>1, <4>3, RecvNothing DEF Found
      <4> QED
        BY <1>2, <2>5, <4>4
    <3>2. PICK m \in Messages, y \in Streams(Method(c)) : Follows(Method(c), x, m, y)
      BY <2>2, <3>1, StreamsFirst
    <3>3. PICK q \in Seq(Cells) : /\ q = ClientFrame(Method(c), m, Mask) /\ q \in Seq(Byte)
                                  /\ Len(q) \in Nat /\ Len(q) > 0 /\ m \in Frames
      BY FrameTyped
    <3>4. PICK z \in Seq(Cells), t \in Seq(Decoded) : z = y[1] /\ t = y[2]
      BY StreamTyped
    <3>5. PICK u \in Decoded : u = UrlDecode(m)
      BY DEF Decoded
    <3>6. Holds(q \o z, cache, len, wire[c]) /\ x[2] = <<u>> \o t
      BY <2>1, <3>2, <3>3, <3>4, <3>5 DEF Pending, Follows, FrameBy
    <3>7. PICK b \in Seq(Cells) : b = q \o z /\ \A i \in 1..Len(q) : b[i] = q[i]
      <4>1. q \o z \in Seq(Cells) /\ \A i \in 1..Len(q) : (q \o z)[i] = q[i]
        BY Cat
      <4> QED
        BY <4>1, Zenon
    <3>8. \A i \in 1..len : cache[i] = b[i]
      BY <3>6, <3>7 DEF Holds
    <3>9. Len(q) <= len
      <4> SUFFICES ASSUME len < Len(q) PROVE FALSE
        BY <1>0, <3>3
      <4>1. \A i \in 1..len : cache[i] = q[i]
        BY <1>0, <3>3, <3>7, <3>8
      <4>2. p.begin = 0 /\ p.len \in Nat /\ (p.len = 0 \/ p.len > len)
        BY <1>0, <1>1, <2>2, <3>3, <4>1, FindPart, ZenonT(30)
      <4> QED
        BY <1>0, <1>2, <1>3, <2>5, <4>2, SMTT(20)
    <3>10. p = Found(0, Len(q), m)
      <4>1. \A i \in 1..Len(q) : cache[i] = q[i]
        <5>1. \A i \in 1..Len(q) : i \in 1..len
          BY <1>0, <3>3, <3>9
        <5> QED
          BY <3>7, <3>8, <5>1, Zenon
      <4>2. PICK hs \in {1, 2} : hs = method /\ q = ClientFrame(hs, m, Mask)
        BY <2>2, <3>3
      <4>3. RecvPack(hs, cache, len) = Found(0, Len(q), m)
        BY <3>3, <3>9, <4>1, <4>2, CacheWhole
      <4> QED
        BY <1>1, <4>2, <4>3
    <3>11. n = Len(q) /\ n \in Nat /\ n > 0 /\ p.msg = m
      BY <1>2, <3>3, <3>10 DEF Found
    <3>12. Holds(z, cache', len - Len(q), wire[c])
      <4>1. ASSUME NEW i \in 1..(len - Len(q)) PROVE cache'[i] = cache[Len(q) + i]
        <5>1. i \in 1..CacheSize /\ i <= len - n
          BY <1>0, <3>3, <3>11
        <5> QED
          BY <1>3, <3>11, <5>1
      <4> QED
        BY <1>0, <3>6, <3>9, <4>1, HoldsCut
    <3>13. got' = [got EXCEPT ![c] = Append(got[c], u)]
      BY <1>3, <3>5, <3>11
    <3>14. PICK g \in Seq(Decoded) : g = got[c]
      BY <1>0
    <3>15. Append(g, u) \in Seq(Decoded) /\ Append(g, u) \o t = g \o (<<u>> \o t)
      BY <3>14, SMTT(20)
    <3>16. got'[c] = Append(g, u) /\ got' \in [Clients -> Seq(Decoded)] /\ \A d \in Clients : d # c => got'[d] = got[d]
      BY <3>13, <3>14, <3>15
    <3>17. sent'[c] = got'[c] \o y[2]
      BY <1>3, <2>1, <3>4, <3>6, <3>14, <3>15, <3>16
    <3>18. Pending(y[1], c)'
      BY <1>3, <3>4, <3>11, <3>12 DEF Pending
    <3>19. Following(c)'
      BY <1>3, <2>2, <3>17, <3>18 DEF Following
    <3>20. IsPrefix(got'[c], got'[c] \o t)
      BY <3>15, <3>16, PrefixCat
    <3> QED
      BY <3>4, <3>16, <3>17, <3>19, <3>20 DEF Served
  <2> QED
    BY <2>4, <2>5
<1> QED
  BY <1>5, <1>6, <1>7

\* A chunk goes from the wire into the cache.
LEMMA ChunkStored ==
    ASSUME Typed, NEW chunk \in Chunks, RecvChunk(chunk), NEW c \in Clients, c = recvOn,
           NEW b \in Seq(Cells), Pending(b, c)
    PROVE  /\ Pending(b, c)' /\ len' \in 0..CacheSize
           /\ \A i \in 1..CacheSize : i > len' => cache'[i] = cache[i]
<1>0. /\ len \in Nat /\ CacheSize \in Nat /\ cache \in [1..CacheSize -> Cells]
      /\ wire \in [Clients -> Seq(Cells)]
  BY ServAssumption DEF Typed, Shaped, TypeOK, Cells
<1>2. PICK w \in Seq(Cells) : w = wire[c]
  BY <1>0
<1>3. PICK k \in 1..Len(w) : /\ chunk = SubSeq(w, 1, k) /\ k \in 1..Min({ChunkSize, Len(w)})
                             /\ chunk \in Seq(Cells) /\ Len(chunk) = k
  BY <1>2, Received DEF Typed
<1>4. /\ k \in Nat /\ \A i \in 1..k : chunk[i] = w[i]
      /\ Rest(w, k) \in Seq(Cells) /\ Len(Rest(w, k)) = Len(w) - k
      /\ \A i \in 1..(Len(w) - k) : Rest(w, k)[i] = w[k + i]
  BY <1>3, ChunkOf
<1>5. PICK r \in Seq(Cells) : r = Rest(w, k)
  BY <1>4
<1>6. /\ len' = len + k /\ len + k <= CacheSize
      /\ cache' = [i \in 1..CacheSize |-> IF i \in (len + 1)..(len + k) THEN chunk[i - len] ELSE cache[i]]
      /\ wire' = [wire EXCEPT ![c] = r]
  <2>1. wire' = [wire EXCEPT ![c] = SubSeq(wire[c], k + 1, Len(wire[c]))]
    BY <1>3 DEF RecvChunk, Store
  <2>2. wire' = [wire EXCEPT ![c] = r]
    BY <1>2, <1>5, <2>1 DEF Rest
  <2> QED
    BY <1>3, <2>2 DEF RecvChunk, Store
<1>7. wire'[c] = r
  BY <1>0, <1>6
<1>8. ASSUME NEW i \in 1..len PROVE cache'[i] = cache[i]
  <2>1. i \in 1..CacheSize /\ i \notin (len + 1)..(len + k)
    BY <1>0, <1>4, <1>6, SMTT(20)
  <2> QED
    BY <1>6, <2>1
<1>9. ASSUME NEW i \in 1..k PROVE cache'[len + i] = w[i]
  <2>1. PICK j : j = len + i
    OBVIOUS
  <2>2. j \in 1..CacheSize /\ j \in (len + 1)..(len + k) /\ j - len = i
    BY <1>0, <1>4, <1>6, <2>1, SMTT(20)
  <2>3. cache'[j] = chunk[j - len]
    BY <1>6, <2>2
  <2> QED
    BY <1>4, <2>1, <2>2, <2>3
<1>10. Holds(b, cache, len, w)
  BY <1>2 DEF Pending
<1>11. Holds(b, cache', len + k, r)
  BY <1>0, <1>4, <1>5, <1>8, <1>9, <1>10, HoldsChunk
<1>12. len' \in 0..CacheSize
  BY <1>0, <1>4, <1>6
<1>13. ASSUME NEW i \in 1..CacheSize, i > len' PROVE cache'[i] = cache[i]
  <2>1. i \notin (len + 1)..(len + k)
    BY <1>0, <1>4, <1>6, <1>13
  <2> QED
    BY <1>6, <2>1
<1>14. Pending(b, c)'
  BY <1>6, <1>7, <1>11 DEF Pending
<1> QED
  BY <1>12, <1>13, <1>14

LEMMA KeyByte == <<Key3>> \in Seq(Byte)
<1>1. PICK k \in Byte : k = Key3
  BY FramesAssumption DEF Key3, Byte
<1> QED
  BY <1>1

\* Where only bytes are still to be looked at, there is no empty line.
LEMMA BytesOnly ==
    ASSUME Typed', NEW c \in Clients, NEW b \in Seq(Byte), Pending(b, c)'
    PROVE  \A i \in 1..len' : cache'[i] # EmptyLine
<1>1. Holds(b, cache', len', wire'[c])
  BY DEF Pending
<1>2. len' \in Nat /\ wire'[c] \in Seq(Cells)
  BY ServAssumption DEF Typed, Shaped, TypeOK
<1>3. Len(b) = len' + Len(wire'[c]) /\ \A i \in 1..len' : cache'[i] = b[i]
  BY <1>1 DEF Holds
<1>4. \A i \in 1..len' : i \in 1..Len(b)
  BY <1>2, <1>3
<1> QED
  BY <1>3, <1>4, CellsNat, SMTT(20)

LEMMA ChunkServed ==
    ASSUME Typed, Typed', NEW chunk \in Chunks, RecvChunk(chunk), NEW c \in Clients, c = recvOn, Served(c)
    PROVE  /\ Served(c)' /\ len' \in 0..CacheSize
           /\ \A i \in 1..CacheSize : i > len' => cache'[i] = cache[i]
           /\ method # 0 => \A i \in 1..len' : cache'[i] # EmptyLine
<1>0. method' = method /\ told' = told /\ sent' = sent /\ got' = got
  BY DEF RecvChunk
<1>1. CASE Asking(c)
  <2>1. PICK r \in Seq(Cells) : r = Request(c)
    BY RequestTyped
  <2>2. Pending(r, c)
    BY <1>1, <2>1 DEF Asking
  <2>3. Pending(r, c)'
    BY <2>2, ChunkStored
  <2>4. Asking(c)'
    BY <1>0, <1>1, <2>1, <2>3 DEF Asking, Unheard
  <2> QED
    BY <1>1, <2>2, <2>4, ChunkStored DEF Served, Asking
<1>2. CASE Refused(c)
  <2>1. PICK b \in Seq(Byte) : b \in {<<>>, <<Key3>>} /\ b \in Seq(Cells) /\ Pending(b, c)
    <3>1. <<Key3>> \in Seq(Byte) /\ <<>> \in Seq(Byte)
      BY KeyByte
    <3>2. \A b \in Seq(Byte) : b \in Seq(Cells)
      BY CellsNat, Wider
    <3> QED
      BY <1>2, <3>1, <3>2 DEF Refused
  <2>2. Pending(b, c)
    BY <2>1
  <2>3. Pending(b, c)'
    BY <2>1, <2>2, ChunkStored
  <2>4. Refused(c)'
    <3>1. (method = 1 /\ told[c] = "wrong" /\ sent[c] = <<>> /\ got[c] = <<>>)'
      BY <1>0, <1>2 DEF Refused
    <3> QED
      BY <2>1, <2>3, <3>1 DEF Refused
  <2>5. \A i \in 1..len' : cache'[i] # EmptyLine
    BY <2>1, <2>3, <1>0, BytesOnly
  <2> QED
    BY <2>1, <2>4, <2>5, ChunkStored DEF Served
<1>3. CASE Following(c)
  <2>1. PICK x \in Streams(Method(c)) : Pending(x[1], c) /\ sent[c] = got[c] \o x[2]
    BY <1>3 DEF Following
  <2>2. PICK b \in Seq(Byte) : b = x[1] /\ b \in Seq(Cells)
    BY StreamTyped
  <2>3. Pending(b, c)'
    BY <2>1, <2>2, ChunkStored
  <2>4. Following(c)'
    BY <1>0, <1>3, <2>1, <2>2, <2>3 DEF Following
  <2>5. \A i \in 1..len' : cache'[i] # EmptyLine
    BY <1>0, <2>2, <2>3, BytesOnly
  <2> QED
    BY <2>1, <2>2, <2>4, <2>5, ChunkStored DEF Served
<1> QED
  BY <1>1, <1>2, <1>3 DEF Served

LEMMA AppendCat == ASSUME NEW S, NEW a \in Seq(S), NEW u \in S PROVE Append(a, u) = a \o <<u>>
OBVIOUS

\* What a client sends is the next frame of its stream.
LEMMA SendServed ==
    ASSUME Typed, got \in [Clients -> Seq(Decoded)], NEW c \in Clients, NEW m \in Messages,
           Sends(c, m), Following(c)
    PROVE  Following(c)'
<1>0. /\ len \in Nat /\ wire \in [Clients -> Seq(Cells)] /\ wire[c] \in Seq(Cells)
      /\ sent \in [Clients -> Seq(Decoded)] /\ sent[c] \in Seq(Decoded) /\ got[c] \in Seq(Decoded)
  BY ServAssumption DEF Typed, Shaped, TypeOK
<1>1. PICK q \in Seq(Cells) : q = ClientFrame(Method(c), m, Mask) /\ Method(c) \in {1, 2}
  BY FrameTyped
<1>2. PICK u \in Decoded : u = UrlDecode(m)
  BY DEF Decoded
<1>3. /\ wire' = [wire EXCEPT ![c] = wire[c] \o q] /\ sent' = [sent EXCEPT ![c] = Append(sent[c], u)]
      /\ method' = method /\ cache' = cache /\ len' = len /\ told' = told /\ got' = got
  <2>1. wire' = [wire EXCEPT ![c] = wire[c] \o q]
    BY <1>1, ZenonT(30) DEF Sends
  <2>2. sent' = [sent EXCEPT ![c] = Append(sent[c], u)]
    BY <1>2, ZenonT(30) DEF Sends
  <2> QED
    BY <2>1, <2>2, ZenonT(30) DEF Sends, NoClientStep, cacheVars, history
<1>4. PICK x \in Streams(Method(c)) : Pending(x[1], c) /\ sent[c] = got[c] \o x[2]
  BY DEF Following
<1>5. PICK b \in Seq(Cells), t \in Seq(Decoded) : b = x[1] /\ t = x[2]
  BY StreamTyped
<1>6. PICK z : z = WithFrame(Method(c), x, m)
  OBVIOUS
<1>7. z \in Streams(Method(c)) /\ z[1] = b \o q /\ z[2] = t \o <<u>>
  BY <1>1, <1>2, <1>5, <1>6, StreamsAppend DEF WithFrame, FrameBy
<1>8. PICK w \in Seq(Cells) : w = wire[c]
  BY <1>0
<1>9. Holds(b, cache, len, w)
  BY <1>4, <1>5, <1>8 DEF Pending
<1>10. Holds(b \o q, cache, len, w \o q)
  BY <1>0, <1>9, HoldsMore
<1>11. wire'[c] = w \o q
  BY <1>0, <1>3, <1>8
<1>12. Pending(z[1], c)'
  BY <1>3, <1>7, <1>10, <1>11 DEF Pending
<1>13. PICK g \in Seq(Decoded) : g = got[c]
  BY <1>0
<1>14. Append(g \o t, u) = g \o (t \o <<u>>)
  <2>1. PICK e \in Seq(Decoded) : e = <<u>>
    BY PieceTyped, <1>1, <1>2
  <2>2. (g \o t) \o e = g \o (t \o e)
    BY Associative, Zenon
  <2>3. PICK a \in Seq(Decoded) : a = g \o t
    BY Cat
  <2>4. Append(a, u) = a \o <<u>>
    BY AppendCat
  <2> QED
    BY <2>1, <2>2, <2>3, <2>4, Zenon
<1>15. sent'[c] = got'[c] \o z[2]
  <2>1. sent'[c] = Append(sent[c], u)
    BY <1>0, <1>3
  <2> QED
    BY <1>3, <1>4, <1>5, <1>7, <1>13, <1>14, <2>1
<1> QED
  BY <1>3, <1>7, <1>12, <1>15 DEF Following

LEMMA PrefixMore ==
    ASSUME NEW S, NEW a \in Seq(S), NEW s \in Seq(S), NEW t \in S, IsPrefix(a, s)
    PROVE  IsPrefix(a, Append(s, t))
<1>1. Len(a) <= Len(s) /\ SubSeq(a, 1, Len(a)) = SubSeq(s, 1, Len(a))
  BY DEF IsPrefix
<1>2. Len(a) \in Nat /\ Len(s) \in Nat
  OBVIOUS
<1>3. PICK n \in Nat : n = Len(a) /\ n <= Len(s)
  BY <1>1, <1>2
<1>4. PICK u \in Seq(S) : u = Append(s, t) /\ Len(u) = Len(s) + 1 /\ \A i \in 1..Len(s) : u[i] = s[i]
  <2>1. Append(s, t) \in Seq(S) /\ Len(Append(s, t)) = Len(s) + 1
    OBVIOUS
  <2>2. \A i \in 1..Len(s) : Append(s, t)[i] = s[i]
    OBVIOUS
  <2> QED
    BY <2>1, <2>2, Zenon
<1>5. 1 \in 1..(Len(u) + 1) /\ n \in (1 - 1)..Len(u) /\ 1 \in 1..(Len(s) + 1) /\ n \in (1 - 1)..Len(s)
  BY <1>2, <1>3, <1>4
<1>6. /\ SubSeq(u, 1, n) \in Seq(S) /\ Len(SubSeq(u, 1, n)) = n - 1 + 1
      /\ \A i \in 1..(n - 1 + 1) : SubSeq(u, 1, n)[i] = u[1 + i - 1]
  BY <1>5, SubPart
<1>7. /\ SubSeq(s, 1, n) \in Seq(S) /\ Len(SubSeq(s, 1, n)) = n - 1 + 1
      /\ \A i \in 1..(n - 1 + 1) : SubSeq(s, 1, n)[i] = s[1 + i - 1]
  BY <1>5, SubPart
<1>8. PICK v \in Seq(S), y \in Seq(S) : v = SubSeq(u, 1, n) /\ y = SubSeq(s, 1, n)
  BY <1>6, <1>7
<1>9. n - 1 + 1 = n /\ \A i \in 1..n : 1 + i - 1 = i /\ i \in 1..Len(s)
  BY <1>2, <1>3
<1>10. Len(v) = n /\ Len(y) = n /\ \A i \in 1..n : v[i] = u[i] /\ y[i] = s[i]
  BY <1>6, <1>7, <1>8, <1>9
<1>11. \A i \in 1..n : v[i] = y[i]
  BY <1>4, <1>9, <1>10
<1>12. v = y
  BY <1>10, <1>11, SameSeq
<1>13. n <= Len(u)
  BY <1>2, <1>3, <1>4
<1> QED
  BY <1>1, <1>3, <1>4, <1>8, <1>12, <1>13 DEF IsPrefix

\* A client whose connection is set up is asking.
LEMMA FreshAsks ==
    ASSUME NEW c \in Clients, Fresh(c), InitConn
    PROVE  Served(c)'
<1>1. /\ method' = 0 /\ len' = 0 /\ told' = told /\ sent' = sent /\ got' = got /\ wire' = wire
  BY DEF InitConn, clientVars
<1>2. PICK r \in Seq(Cells) : r = Request(c)
  BY RequestTyped
<1>3. wire'[c] = r /\ Unheard(c)'
  BY <1>1, <1>2 DEF Fresh, Unheard
<1>4. Holds(r, cache', 0, r)
  BY HoldsWire
<1> QED
  BY <1>1, <1>2, <1>3, <1>4 DEF Served, Asking, Pending

-----------------------------------------------------------------------------
(* The steps *)

LEMMA NewestSame ==
    ASSUME Newest, fd' = fd, Live(fd)' => Live(fd) /\ owner'[fd] = owner[fd],
           accPc' = "accept" <=> accPc = "accept",
           UNCHANGED <<told, sent, got, wire, cacheVars>>
    PROVE  Newest'
<1> SUFFICES ASSUME Live(fd)'
             PROVE  IF accPc' = "accept" THEN Served(owner[fd])' ELSE Fresh(owner[fd])'
  BY DEF Newest
<1>1. Live(fd) /\ owner'[fd'] = owner[fd]
  OBVIOUS
<1>2. PICK c : c = owner[fd]
  OBVIOUS
<1>3. owner[fd]' = c
  BY <1>1, <1>2
<1>4. IF accPc = "accept" THEN Served(c) ELSE Fresh(c)
  BY <1>1, <1>2 DEF Newest
<1>5. (Served(c) => Served(c)') /\ (Fresh(c) => Fresh(c)')
  BY DEF Served, Asking, Refused, Following, Fresh, Unheard, Pending, Holds, cacheVars
<1>6. Served(owner[fd])' <=> Served(c)'
  BY <1>3 DEF Served, Asking, Refused, Following, Fresh, Unheard, Pending, Holds, cacheVars
<1>7. Fresh(owner[fd])' <=> Fresh(c)'
  BY <1>3 DEF Fresh, Unheard
<1> QED
  BY <1>4, <1>5, <1>6, <1>7

LEMMA OrderInit == Init => OrderInv
<1> SUFFICES ASSUME Init PROVE OrderInv
  OBVIOUS
<1>1. <<>> \in Seq(Decoded) /\ IsPrefix(<<>>, <<>>)
  BY DEF IsPrefix
<1>2. /\ got = [c \in Clients |-> <<>>] /\ sent = [c \in Clients |-> <<>>]
      /\ fd = 0 /\ espconn = 0 /\ accPc = "accept" /\ recvPc = "loop"
      /\ cache = [i \in 1..CacheSize |-> 0]
  BY DEF Init
<1>3. got \in [Clients -> Seq(Decoded)] /\ InOrder
  BY <1>1, <1>2 DEF InOrder
<1>4. 0 \notin Fds
  BY DEF Fds
<1>5. Hands /\ Newest /\ Ends
  BY <1>2, <1>4, CellsNat DEF Hands, Newest, Ends, Live
<1> QED
  BY <1>3, <1>5 DEF OrderInv, InHand

\* Steps that neither send nor give on a text leave those of all clients in order.
LEMMA TextsSame ==
    ASSUME OrderInv, got' = got, sent' = sent
    PROVE  got' \in [Clients -> Seq(Decoded)] /\ InOrder'
BY DEF OrderInv, InOrder

LEMMA OrderRestart == OrderInv /\ Restart => OrderInv'
<1> SUFFICES ASSUME OrderInv, Restart PROVE OrderInv'
  OBVIOUS
<1>1. /\ fd' = 0 /\ espconn' = 0 /\ accPc' = "accept" /\ recvPc' = "loop"
      /\ cache' = [i \in 1..CacheSize |-> 0] /\ got' = got /\ sent' = sent
  BY DEF Restart
<1>2. got' \in [Clients -> Seq(Decoded)] /\ InOrder'
  BY <1>1, TextsSame
<1>3. 0 \notin Fds
  BY DEF Fds
<1>4. Hands' /\ Newest' /\ Ends'
  BY <1>1, <1>3, CellsNat DEF Hands, Newest, Ends, Live
<1> QED
  BY <1>2, <1>4 DEF OrderInv, InHand

LEMMA AcceptHand ==
    ASSUME Typed, ConnInv, InHand, ~spoilt', NEW c \in Clients, Accept(c)
    PROVE  InHand'
<1>0. owner \in [Fds -> Clients \cup {NoClient}] /\ fd \in 0..MaxFds /\ MaxFds \in Nat /\ c # NoClient
  BY ServAssumption DEF Typed, Shaped, TypeOK
<1>1. PICK f \in Fds : f = Min(Free) /\ owner[f] = NoClient
  BY FirstFree DEF Accept
<1>2. /\ fd' = f /\ owner' = [owner EXCEPT ![f] = c] /\ accPc = "accept" /\ accPc' = "close"
      /\ conn[c] = "queued" /\ recvPc' = recvPc /\ espconn' = espconn /\ recvOn' = recvOn
      /\ told' = told /\ sent' = sent /\ got' = got /\ wire' = wire
      /\ method' = method /\ cache' = cache /\ len' = len
  BY <1>1 DEF Accept, cacheVars
<1>3. espconn = 0 \/ recvPc = "loop"
  BY DEF Accept, Races
<1>4. Hands /\ Newest /\ Ends
  BY DEF InHand
<1>5. recvPc = "loop" /\ fd = espconn
  BY <1>2, <1>3, <1>4 DEF Hands
<1>6. f # 0 /\ f # espconn /\ owner'[f] = c
  <2>1. f # 0
    BY DEF Fds
  <2>2. fd # 0 => owner[fd] # NoClient
    BY <1>4, <1>5 DEF Hands
  <2> QED
    BY <1>0, <1>1, <1>2, <1>5, <2>1, <2>2
<1>7. Hands'
  BY <1>0, <1>2, <1>5, <1>6 DEF Hands
<1>8. Fresh(c)'
  <2>1. Fresh(c)
    BY <1>2 DEF ConnInv
  <2> QED
    BY <1>2, <2>1 DEF Fresh, Unheard
<1>9. Newest'
  <2>1. owner[fd]' = c /\ accPc' # "accept"
    BY <1>2, <1>6
  <2>2. Fresh(owner[fd])'
    BY <1>8, <2>1 DEF Fresh, Unheard
  <2> QED
    BY <2>1, <2>2 DEF Newest
<1>10. Ends'
  BY <1>2, <1>4, <1>5 DEF Ends
<1> QED
  BY <1>7, <1>9, <1>10 DEF InHand

LEMMA CloseOldHand ==
    ASSUME Typed, InHand, CloseOld
    PROVE  InHand'
<1>0. owner \in [Fds -> Clients \cup {NoClient}] /\ espconn \in 0..MaxFds /\ fd \in 0..MaxFds /\ MaxFds \in Nat
  BY ServAssumption DEF Typed, Shaped, TypeOK
<1>1. /\ fd' = fd /\ espconn' = espconn /\ accPc = "close" /\ accPc' = "set"
      /\ recvPc' = recvPc /\ recvOn' = recvOn
      /\ UNCHANGED <<told, sent, got, wire, cacheVars>>
  BY DEF CloseOld
<1>2. Hands /\ Newest /\ Ends
  BY DEF InHand
<1>3. fd # 0 => fd # espconn
  BY <1>1, <1>2 DEF Hands
<1>4. \A f \in Fds : f # espconn => owner'[f] = owner[f]
  BY <1>0 DEF CloseOld, Close
<1>5. fd # 0 => fd \in Fds /\ owner'[fd] = owner[fd]
  BY <1>0, <1>3, <1>4 DEF Fds
<1>6. Hands'
  BY <1>1, <1>2, <1>5 DEF Hands
<1>7. Live(fd)' => Live(fd) /\ owner'[fd] = owner[fd]
  <2>1. Live(fd)' => fd \in Fds /\ fd # 0
    BY <1>1 DEF Live, Fds
  <2> QED
    BY <1>1, <1>5, <2>1 DEF Live
<1>8. Newest'
  BY <1>1, <1>2, <1>7, NewestSame
<1>9. Ends'
  BY <1>1, <1>2 DEF Ends, cacheVars
<1> QED
  BY <1>6, <1>8, <1>9 DEF InHand

LEMMA SetConnHand == ASSUME InHand, SetConn PROVE InHand'
<1>1. /\ fd' = fd /\ espconn' = fd /\ accPc = "set" /\ accPc' = "init" /\ owner' = owner
      /\ recvPc' = recvPc /\ recvOn' = recvOn
      /\ UNCHANGED <<told, sent, got, wire, cacheVars>>
  BY DEF SetConn, clientVars
<1>2. Hands /\ Newest /\ Ends
  BY DEF InHand
<1>3. Hands'
  BY <1>1, <1>2 DEF Hands
<1>4. Live(fd)' => Live(fd) /\ owner'[fd] = owner[fd]
  BY <1>1 DEF Live
<1>5. Newest'
  BY <1>1, <1>2, <1>4, NewestSame
<1>6. Ends'
  BY <1>1, <1>2 DEF Ends, cacheVars
<1> QED
  BY <1>3, <1>5, <1>6 DEF InHand

LEMMA InitConnHand == ASSUME Typed, InHand, InitConn PROVE InHand'
<1>0. owner \in [Fds -> Clients \cup {NoClient}]
  BY DEF Typed, Shaped, TypeOK
<1>1. /\ fd' = fd /\ espconn' = espconn /\ accPc = "init" /\ accPc' = "accept" /\ owner' = owner
      /\ recvPc' = recvPc /\ recvOn' = recvOn /\ cache' = cache
  BY DEF InitConn, sockVars
<1>2. Hands /\ Newest /\ Ends
  BY DEF InHand
<1>3. recvPc # "parse" /\ fd = espconn
  BY <1>1, <1>2 DEF Hands
<1>4. Hands'
  BY <1>1, <1>2, <1>3 DEF Hands
<1>5. Newest'
  <2> SUFFICES ASSUME Live(fd)' PROVE Served(owner[fd])'
    BY <1>1 DEF Newest
  <2>1. Live(fd)
    BY <1>1 DEF Live
  <2>2. PICK c \in Clients : c = owner[fd]
    BY <1>0, <2>1 DEF Live
  <2>3. Fresh(c)
    BY <1>1, <1>2, <2>1, <2>2 DEF Newest
  <2>4. Served(c)'
    BY <2>3, FreshAsks
  <2>5. owner[fd]' = c
    BY <1>1, <2>2
  <2> QED
    BY <2>4, <2>5 DEF Served, Asking, Refused, Following, Unheard, Pending, Holds
<1>6. Ends'
  BY <1>1, <1>2, <1>3 DEF Ends
<1> QED
  BY <1>4, <1>5, <1>6 DEF InHand

LEMMA RecvBeginHand == ASSUME InHand, RecvBegin PROVE InHand'
<1>1. /\ fd' = fd /\ espconn' = espconn /\ owner' = owner /\ accPc' = accPc /\ fd > 0
      /\ recvPc = "loop" /\ recvPc' = "recv" /\ recvOn' = owner[fd]
      /\ UNCHANGED <<told, sent, got, wire, cacheVars>>
  BY DEF RecvBegin, sockVars, clientVars, history
<1>2. Hands /\ Newest /\ Ends
  BY DEF InHand
<1>3. Hands'
  BY <1>1, <1>2 DEF Hands
<1>4. Live(fd)' => Live(fd) /\ owner'[fd] = owner[fd]
  BY <1>1 DEF Live
<1>5. Newest'
  BY <1>1, <1>2, <1>4, NewestSame
<1>6. Ends'
  BY <1>1, <1>2 DEF Ends, cacheVars
<1> QED
  BY <1>3, <1>5, <1>6 DEF InHand

LEMMA RecvEndsHand == ASSUME InHand, RecvEnds PROVE InHand'
<1>1. /\ fd' = fd /\ espconn' = espconn /\ owner' = owner /\ accPc' = accPc
      /\ recvPc = "recv" /\ recvPc' = "close"
      /\ UNCHANGED <<told, sent, got, wire, cacheVars>>
  BY DEF RecvEnds, sockVars, clientVars, history
<1>2. Hands /\ Newest /\ Ends
  BY DEF InHand
<1>3. Hands'
  BY <1>1, <1>2 DEF Hands
<1>4. Live(fd)' => Live(fd) /\ owner'[fd] = owner[fd]
  BY <1>1 DEF Live
<1>5. Newest'
  BY <1>1, <1>2, <1>4, NewestSame
<1>6. Ends'
  BY <1>1, <1>2 DEF Ends, cacheVars
<1> QED
  BY <1>3, <1>5, <1>6 DEF InHand

LEMMA RecvChunkHand ==
    ASSUME Typed, Typed', InHand, ~spoilt', NEW chunk \in Chunks, RecvChunk(chunk)
    PROVE  InHand'
<1>0. /\ owner \in [Fds -> Clients \cup {NoClient}] /\ fd \in 0..MaxFds /\ MaxFds \in Nat
      /\ len' \in 0..CacheSize /\ CacheSize \in Nat
  BY ServAssumption DEF Typed, Shaped, TypeOK
<1>1. /\ fd' = fd /\ espconn' = espconn /\ owner' = owner /\ accPc' = accPc /\ accPc = "accept"
      /\ recvPc' = "parse" /\ method' = method
  BY DEF RecvChunk, Store, sockVars
<1>2. Hands /\ Newest /\ Ends
  BY DEF InHand
<1>3. PICK c \in Clients : c = recvOn /\ recvPc = "recv"
  BY Received DEF Typed
<1>4. c = owner[fd] /\ fd # 0 /\ c # NoClient
  BY <1>2, <1>3, ServAssumption DEF Hands
<1>5. Live(fd)
  BY <1>0, <1>4 DEF Live, Fds
<1>6. Served(c)
  BY <1>1, <1>2, <1>4, <1>5 DEF Newest
<1>7. /\ Served(c)'
      /\ \A i \in 1..CacheSize : i > len' => cache'[i] = cache[i]
      /\ method # 0 => \A i \in 1..len' : cache'[i] # EmptyLine
  BY <1>3, <1>6, ChunkServed
<1>8. Hands'
  BY <1>1, <1>2, <1>3, <1>4 DEF Hands
<1>9. Newest'
  <2>1. owner[fd]' = c
    BY <1>1, <1>4
  <2>2. Served(owner[fd])'
    BY <1>7, <2>1 DEF Served, Asking, Refused, Following, Unheard, Pending, Holds
  <2> QED
    BY <1>1, <2>2 DEF Newest
<1>10. Ends'
  <2> SUFFICES ASSUME NEW i \in 1..CacheSize, cache'[i] = EmptyLine
               PROVE  recvPc' = "parse" /\ method' = 0 /\ i <= len'
    BY DEF Ends
  <2>1. cache[i] # EmptyLine
    BY <1>2, <1>3 DEF Ends
  <2>2. i <= len'
    BY <1>0, <1>7, <2>1
  <2>3. i \in 1..len'
    BY <1>0, <2>2
  <2> QED
    BY <1>1, <1>7, <2>2, <2>3
<1> QED
  BY <1>8, <1>9, <1>10 DEF InHand

\* While bytes are looked at, the client they are from is the newest.
LEMMA Looking ==
    ASSUME Typed, InHand, recvPc = "parse"
    PROVE  \E c \in Clients : c = owner[fd] /\ Live(fd) /\ Served(c) /\ (method = 0 => Asking(c))
<1>0. owner \in [Fds -> Clients \cup {NoClient}] /\ fd \in 0..MaxFds /\ MaxFds \in Nat
  BY ServAssumption DEF Typed, Shaped, TypeOK
<1>1. fd # 0 /\ accPc = "accept" /\ owner[fd] # NoClient
  BY DEF InHand, Hands
<1>2. Live(fd)
  BY <1>0, <1>1 DEF Live, Fds
<1>3. PICK c \in Clients : c = owner[fd]
  BY <1>0, <1>2 DEF Live
<1>4. Served(c)
  BY <1>1, <1>2, <1>3 DEF InHand, Newest
<1>5. Method(c) # 0
  BY DEF Method
<1>6. method = 0 => Asking(c)
  <2>1. Refused(c) => method # 0
    BY DEF Refused
  <2>2. Following(c) => method # 0
    BY <1>5 DEF Following
  <2> QED
    BY <1>4, <2>1, <2>2 DEF Served
<1> QED
  BY <1>2, <1>3, <1>4, <1>6

LEMMA HandshakeHand == ASSUME Typed, InHand, Handshake PROVE InHand'
<1>1. /\ fd' = fd /\ espconn' = espconn /\ owner' = owner /\ accPc' = accPc
      /\ recvPc = "parse" /\ recvPc' = "loop" /\ method = 0
  BY DEF Handshake, sockVars
<1>2. Hands /\ Newest /\ Ends /\ accPc = "accept"
  BY <1>1 DEF InHand, Hands
<1>3. PICK c \in Clients : c = owner[fd] /\ Live(fd) /\ Asking(c)
  BY <1>1, Looking
<1>4. Served(c)' /\ \A i \in 1..CacheSize : cache'[i] # EmptyLine
  BY <1>2, <1>3, HandshakeServed
<1>5. Hands'
  BY <1>1, <1>2 DEF Hands
<1>6. Newest'
  <2>1. owner[fd]' = c
    BY <1>1, <1>3
  <2>2. Served(owner[fd])'
    BY <1>4, <2>1 DEF Served, Asking, Refused, Following, Unheard, Pending, Holds
  <2> QED
    BY <1>1, <1>2, <2>2 DEF Newest
<1>7. Ends'
  BY <1>4 DEF Ends
<1> QED
  BY <1>5, <1>6, <1>7 DEF InHand

LEMMA NoHandshakeHand == ASSUME Typed, InHand, NoHandshake PROVE InHand'
<1>0. CacheSize \in Nat /\ len \in 0..CacheSize
  BY ServAssumption DEF Typed, Shaped, TypeOK
<1>1. /\ fd' = fd /\ espconn' = espconn /\ owner' = owner /\ accPc' = accPc
      /\ recvPc = "parse" /\ recvPc' = "loop" /\ method = 0 /\ Identify = 0
      /\ UNCHANGED <<told, sent, got, wire, cacheVars>>
  BY DEF NoHandshake, sockVars, clientVars, history
<1>2. Hands /\ Newest /\ Ends
  BY DEF InHand
<1>3. PICK c \in Clients : c = owner[fd] /\ Live(fd) /\ Asking(c)
  BY <1>1, Looking
<1>4. ASSUME NEW i \in 1..CacheSize PROVE cache[i] # EmptyLine
  <2> SUFFICES ASSUME cache[i] = EmptyLine PROVE FALSE
    OBVIOUS
  <2>1. i \in 1..len
    BY <1>0, <1>2 DEF Ends
  <2>2. Pending(Request(c), c)
    BY <1>3 DEF Asking
  <2> QED
    BY <1>1, <2>1, <2>2, RequestKnown
<1>5. Hands'
  BY <1>1, <1>2 DEF Hands
<1>6. Live(fd)' => Live(fd) /\ owner'[fd] = owner[fd]
  BY <1>1 DEF Live
<1>7. Newest'
  BY <1>1, <1>2, <1>6, NewestSame
<1>8. Ends'
  BY <1>1, <1>4 DEF Ends, cacheVars
<1> QED
  BY <1>5, <1>7, <1>8 DEF InHand

\* A frame that is cut out leaves no byte in the cache that was not there.
LEMMA CutCells ==
    ASSUME Typed, CutFrame
    PROVE  \A i \in 1..CacheSize : \E j \in 1..CacheSize : cache'[i] = cache[j]
<1>0. /\ len \in 0..CacheSize /\ len \in Nat /\ CacheSize \in Nat /\ method \in 0..2
      /\ cache \in [1..CacheSize -> Nat]
  <2>1. len \in 0..CacheSize /\ CacheSize \in Nat /\ method \in 0..2 /\ cache \in [1..CacheSize -> Cells]
    BY ServAssumption DEF Typed, Shaped, TypeOK, Cells
  <2>2. cache \in [1..CacheSize -> Nat]
    BY <2>1, CellsNat
  <2> QED
    BY <2>1, <2>2
<1>1. PICK p : p = RecvPack(method, cache, len)
  OBVIOUS
<1>2. p.begin \in Nat /\ p.len \in Nat
  BY <1>0, <1>1, FoundTyped
<1>3. PICK n \in Nat : n = p.begin + p.len
  BY <1>2
<1>4. cache' = [i \in 1..CacheSize |-> cache[IF i <= len - n THEN n + i ELSE i]]
  BY <1>1, <1>3 DEF CutFrame
<1>5. ASSUME NEW i \in 1..CacheSize
      PROVE  \E j \in 1..CacheSize : cache'[i] = cache[j]
  <2>1. PICK j : j = IF i <= len - n THEN n + i ELSE i
    OBVIOUS
  <2>2. j \in 1..CacheSize
    BY <1>0, <2>1
  <2> QED
    BY <1>4, <2>1, <2>2
<1> QED
  BY <1>5

LEMMA CutFrameHand == ASSUME Typed, OrderInv, ~spoilt, ~spoilt', CutFrame PROVE OrderInv'
<1>0. got \in [Clients -> Seq(Decoded)] /\ InOrder /\ InHand
  BY DEF OrderInv
<1>1. /\ fd' = fd /\ espconn' = espconn /\ owner' = owner /\ accPc' = accPc /\ sent' = sent
      /\ recvPc = "parse" /\ recvPc' = "loop" /\ method # 0
  BY DEF CutFrame, sockVars, clientVars
<1>2. Hands /\ Newest /\ Ends /\ accPc = "accept"
  BY <1>0, <1>1 DEF InHand, Hands
<1>3. PICK c \in Clients : c = owner[fd] /\ Live(fd) /\ Served(c)
  BY <1>0, <1>1, Looking
<1>4. /\ Served(c)' /\ got' \in [Clients -> Seq(Decoded)]
      /\ \A d \in Clients : d # c => got'[d] = got[d]
      /\ IsPrefix(got'[c], sent'[c])
  BY <1>0, <1>3, CutServed
<1>5. InOrder'
  BY <1>0, <1>1, <1>4 DEF InOrder
<1>6. Hands'
  BY <1>1, <1>2 DEF Hands
<1>7. Newest'
  <2>1. owner[fd]' = c
    BY <1>1, <1>3
  <2>2. Served(owner[fd])'
    BY <1>4, <2>1 DEF Served, Asking, Refused, Following, Unheard, Pending, Holds
  <2> QED
    BY <1>1, <1>2, <2>2 DEF Newest
<1>8. Ends'
  <2>1. \A j \in 1..CacheSize : cache[j] # EmptyLine
    BY <1>1, <1>2 DEF Ends
  <2>2. \A i \in 1..CacheSize : cache'[i] # EmptyLine
    BY <2>1, CutCells
  <2> QED
    BY <2>2 DEF Ends
<1> QED
  BY <1>4, <1>5, <1>6, <1>7, <1>8 DEF OrderInv, InHand

LEMMA CloseClientHand == ASSUME Typed, InHand, CloseClient PROVE InHand'
<1>0. owner \in [Fds -> Clients \cup {NoClient}] /\ espconn \in 0..MaxFds /\ fd \in 0..MaxFds /\ MaxFds \in Nat
      /\ accPc \in {"accept", "close", "set", "init"}
  BY ServAssumption DEF Typed, Shaped, TypeOK
<1>1. /\ fd' = fd /\ espconn' = espconn /\ accPc' = accPc
      /\ recvPc = "close" /\ recvPc' = "zero" /\ recvOn' = recvOn
      /\ UNCHANGED <<told, sent, got, wire, cacheVars>> /\ Close(espconn)
  BY DEF CloseClient, history
<1>2. Hands /\ Newest /\ Ends
  BY DEF InHand
<1>3. fd # 0 /\ fd \in Fds
  BY <1>0, <1>1, <1>2 DEF Hands, Fds
<1>4. Hands'
  BY <1>1, <1>2, <1>3 DEF Hands
<1>5. Live(fd)' => Live(fd) /\ owner'[fd] = owner[fd]
  <2>1. CASE fd = espconn
    <3>1. owner'[fd] = NoClient
      BY <1>0, <1>1, <1>3, <2>1 DEF Close
    <3> QED
      BY <1>1, <3>1 DEF Live
  <2>2. CASE fd # espconn
    <3>1. owner'[fd] = owner[fd]
      BY <1>0, <1>1, <1>3, <2>2 DEF Close
    <3> QED
      BY <1>1, <3>1 DEF Live
  <2> QED
    BY <2>1, <2>2
<1>6. Newest'
  BY <1>1, <1>2, <1>5, NewestSame
<1>7. Ends'
  BY <1>1, <1>2 DEF Ends, cacheVars
<1> QED
  BY <1>4, <1>6, <1>7 DEF InHand

LEMMA ZeroClientHand == ASSUME InHand, ZeroClient PROVE InHand'
<1>1. /\ fd' = 0 /\ espconn' = 0 /\ recvPc = "zero" /\ recvPc' = "loop" /\ cache' = cache
  BY DEF ZeroClient
<1>2. Ends
  BY DEF InHand
<1>3. 0 \notin Fds
  BY DEF Fds
<1>4. Hands' /\ Newest'
  BY <1>1, <1>3 DEF Hands, Newest, Live
<1>5. Ends'
  BY <1>1, <1>2 DEF Ends
<1> QED
  BY <1>4, <1>5 DEF InHand

LEMMA ConnectsHand ==
    ASSUME Typed, ConnInv, InHand, NEW c \in Clients, Connects(c)
    PROVE  InHand'
<1>0. wire \in [Clients -> Seq(Cells)] /\ owner \in [Fds -> Clients \cup {NoClient}]
  BY DEF Typed, Shaped, TypeOK
<1>1. /\ fd' = fd /\ espconn' = espconn /\ owner' = owner /\ accPc' = accPc
      /\ recvPc' = recvPc /\ recvOn' = recvOn /\ method' = method /\ cache' = cache /\ len' = len
      /\ told' = told /\ sent' = sent /\ got' = got
      /\ conn[c] = "new" /\ \A d \in Clients : d # c => wire'[d] = wire[d]
  BY <1>0 DEF Connects, NoClientStep, sockVars, cacheVars, history
<1>2. Hands /\ Newest /\ Ends
  BY DEF InHand
<1>3. Hands' /\ Ends'
  BY <1>1, <1>2 DEF Hands, Ends
<1>4. Newest'
  <2> SUFFICES ASSUME Live(fd)'
               PROVE  IF accPc = "accept" THEN Served(owner[fd])' ELSE Fresh(owner[fd])'
    BY <1>1 DEF Newest
  <2>1. Live(fd)
    BY <1>1 DEF Live
  <2>2. PICK d \in Clients : d = owner[fd]
    BY <1>0, <2>1 DEF Live
  <2>3. d # c
    <3>1. conn[d] \in {"open", "gone"}
      BY <2>1, <2>2 DEF ConnInv, Live
    <3> QED
      BY <1>1, <3>1
  <2>4. told'[d] = told[d] /\ sent'[d] = sent[d] /\ got'[d] = got[d] /\ wire'[d] = wire[d]
    BY <1>1, <2>3
  <2>5. (Served(d) => Served(d)') /\ (Fresh(d) => Fresh(d)')
    BY <1>1, <2>4, ServedSame, FreshSame
  <2>6. IF accPc = "accept" THEN Served(d) ELSE Fresh(d)
    BY <1>2, <2>1, <2>2 DEF Newest
  <2>7. owner[fd]' = d
    BY <1>1, <2>2
  <2>8. Served(d)' => Served(owner[fd])'
    BY <2>7 DEF Served, Asking, Refused, Following, Unheard, Pending, Holds
  <2>9. Fresh(d)' => Fresh(owner[fd])'
    BY <2>7 DEF Fresh, Unheard
  <2> QED
    BY <2>5, <2>6, <2>8, <2>9
<1> QED
  BY <1>3, <1>4 DEF InHand

LEMMA SendsHand ==
    ASSUME Typed, OrderInv, ~spoilt, NEW c \in Clients, NEW m \in Messages, Sends(c, m)
    PROVE  OrderInv'
<1>0. /\ wire \in [Clients -> Seq(Cells)] /\ owner \in [Fds -> Clients \cup {NoClient}]
      /\ sent \in [Clients -> Seq(Decoded)]
  BY DEF Typed, Shaped, TypeOK
<1>1. PICK u \in Decoded : u = UrlDecode(m)
  BY DEF Decoded
<1>2. /\ fd' = fd /\ espconn' = espconn /\ owner' = owner /\ accPc' = accPc
      /\ recvPc' = recvPc /\ recvOn' = recvOn /\ method' = method /\ cache' = cache /\ len' = len
      /\ told' = told /\ got' = got /\ told[c] = "right"
      /\ \A d \in Clients : d # c => wire'[d] = wire[d]
  BY <1>0, ZenonT(30) DEF Sends, NoClientStep, sockVars, cacheVars, history
<1>3. \A d \in Clients : sent'[d] = IF d = c THEN Append(sent[c], u) ELSE sent[d]
  BY <1>0, <1>1, ZenonT(30) DEF Sends
<1>4. got \in [Clients -> Seq(Decoded)] /\ InOrder /\ Hands /\ Newest /\ Ends
  BY DEF OrderInv, InHand
<1>5. Hands' /\ Ends'
  BY <1>2, <1>4 DEF Hands, Ends
<1>6. Newest'
  <2> SUFFICES ASSUME Live(fd)'
               PROVE  IF accPc = "accept" THEN Served(owner[fd])' ELSE Fresh(owner[fd])'
    BY <1>2 DEF Newest
  <2>1. Live(fd)
    BY <1>2 DEF Live
  <2>2. PICK d \in Clients : d = owner[fd]
    BY <1>0, <2>1 DEF Live
  <2>3. IF accPc = "accept" THEN Served(d) ELSE Fresh(d)
    BY <1>4, <2>1, <2>2 DEF Newest
  <2>4. CASE d # c
    <3>1. told'[d] = told[d] /\ sent'[d] = sent[d] /\ got'[d] = got[d] /\ wire'[d] = wire[d]
      BY <1>2, <1>3, <2>4
    <3>2. (Served(d) => Served(d)') /\ (Fresh(d) => Fresh(d)')
      BY <1>2, <3>1, ServedSame, FreshSame
    <3>3. owner[fd]' = d
      BY <1>2, <2>2
    <3>4. Served(d)' => Served(owner[fd])'
      BY <3>3 DEF Served, Asking, Refused, Following, Unheard, Pending, Holds
    <3>5. Fresh(d)' => Fresh(owner[fd])'
      BY <3>3 DEF Fresh, Unheard
    <3> QED
      BY <2>3, <3>2, <3>4, <3>5
  <2>5. CASE d = c
    <3>1. ~Fresh(c) /\ ~Asking(c) /\ ~Refused(c)
      BY <1>2 DEF Fresh, Unheard, Asking, Refused
    <3>2. accPc = "accept" /\ Following(c)
      BY <2>3, <2>5, <3>1 DEF Served
    <3>3. Following(c)'
      BY <1>4, <3>2, SendServed
    <3>4. owner[fd]' = c
      BY <1>2, <2>2, <2>5
    <3>5. Served(owner[fd])'
      BY <3>3, <3>4 DEF Served, Following, Pending, Holds
    <3> QED
      BY <3>2, <3>5
  <2> QED
    BY <2>4, <2>5
<1>7. InOrder'
  <2> SUFFICES ASSUME NEW d \in Clients PROVE IsPrefix(got'[d], sent'[d])
    BY DEF InOrder
  <2>1. IsPrefix(got[d], sent[d])
    BY <1>4 DEF InOrder
  <2>2. PICK g \in Seq(Decoded), s \in Seq(Decoded) : g = got[d] /\ s = sent[d]
    BY <1>0, <1>4
  <2>3. IsPrefix(g, Append(s, u))
    BY <2>1, <2>2, PrefixMore
  <2> QED
    BY <1>2, <1>3, <2>1, <2>2, <2>3
<1> QED
  BY <1>2, <1>4, <1>5, <1>6, <1>7 DEF OrderInv, InHand

LEMMA SameHand ==
    ASSUME InHand, UNCHANGED <<sockVars, cacheVars, accPc, recvPc, recvOn, told, sent, got, wire>>
    PROVE  InHand'
<1>1. Hands /\ Newest /\ Ends
  BY DEF InHand
<1>2. Hands' /\ Ends'
  BY <1>1 DEF Hands, Ends, sockVars, cacheVars
<1>3. fd' = fd /\ (Live(fd)' => Live(fd) /\ owner'[fd] = owner[fd]) /\ accPc' = accPc
  BY DEF sockVars, Live
<1>4. Newest'
  BY <1>1, <1>3, NewestSame
<1> QED
  BY <1>2, <1>4 DEF InHand

LEMMA OrderStep == Shaped /\ Shaped' /\ ConnInv /\ OrderInv /\ [Next]_vars => OrderInv'
<1> SUFFICES ASSUME Shaped, Shaped', ConnInv, OrderInv, [Next]_vars PROVE OrderInv'
  OBVIOUS
<1>0. ~spoilt => InHand /\ Typed
  BY ShapedTyped DEF OrderInv
<1>00. ~spoilt' => Typed'
  BY DEF Shaped, TypeOK, Typed
<1>1. CASE Restart
  BY <1>1, OrderRestart
<1>2. ASSUME got' = got, sent' = sent, ~spoilt' => InHand' PROVE OrderInv'
  BY <1>2, TextsSame DEF OrderInv
<1>3. ASSUME NEW c \in Clients, Accept(c) PROVE OrderInv'
  <2>1. got' = got /\ sent' = sent /\ (~spoilt' => ~spoilt)
    BY <1>3 DEF Accept
  <2>2. ~spoilt' => InHand'
    BY <1>0, <1>3, <2>1, AcceptHand
  <2> QED
    BY <1>2, <2>1, <2>2
<1>4. CASE CloseOld
  <2>1. got' = got /\ sent' = sent /\ (~spoilt' => ~spoilt)
    BY <1>4 DEF CloseOld
  <2> QED
    BY <1>0, <1>2, <1>4, <2>1, CloseOldHand
<1>5. CASE SetConn
  <2>1. got' = got /\ sent' = sent /\ (~spoilt' => ~spoilt)
    BY <1>5, ZenonT(30) DEF SetConn, clientVars
  <2> QED
    BY <1>0, <1>2, <1>5, <2>1, SetConnHand
<1>6. CASE InitConn
  <2>1. got' = got /\ sent' = sent /\ (~spoilt' => ~spoilt)
    BY <1>6 DEF InitConn, clientVars
  <2> QED
    BY <1>0, <1>2, <1>6, <2>1, InitConnHand
<1>7. CASE RecvBegin
  <2>1. got' = got /\ sent' = sent /\ (~spoilt' => ~spoilt)
    BY <1>7 DEF RecvBegin, clientVars, history
  <2> QED
    BY <1>0, <1>2, <1>7, <2>1, RecvBeginHand
<1>8. ASSUME NEW chunk \in Chunks, RecvChunk(chunk) PROVE OrderInv'
  <2>1. got' = got /\ sent' = sent /\ (~spoilt' => ~spoilt)
    BY <1>8 DEF RecvChunk
  <2>2. ~spoilt' => InHand'
    BY <1>0, <1>00, <1>8, <2>1, RecvChunkHand
  <2> QED
    BY <1>2, <2>1, <2>2
<1>81. ASSUME NEW chunk \in Chunks, RecvOverflow(chunk) PROVE OrderInv'
  <2>1. Restart \/ (got' = got /\ sent' = sent /\ spoilt' = TRUE)
    BY <1>81 DEF RecvOverflow
  <2> QED
    BY <1>1, <1>2, <2>1
<1>9. CASE RecvEnds
  <2>1. got' = got /\ sent' = sent /\ (~spoilt' => ~spoilt)
    BY <1>9 DEF RecvEnds, clientVars, history
  <2> QED
    BY <1>0, <1>2, <1>9, <2>1, RecvEndsHand
<1>10. CASE Handshake
  <2>1. got' = got /\ sent' = sent /\ (~spoilt' => ~spoilt)
    BY <1>10 DEF Handshake, history
  <2> QED
    BY <1>0, <1>2, <1>10, <2>1, HandshakeHand
<1>11. CASE NoHandshake
  <2>1. got' = got /\ sent' = sent /\ (~spoilt' => ~spoilt)
    BY <1>11 DEF NoHandshake, clientVars, history
  <2> QED
    BY <1>0, <1>2, <1>11, <2>1, NoHandshakeHand
<1>12. CASE CutFrame
  <2>1. CASE spoilt'
    <3>1. got' = got /\ sent' = sent
      BY <1>12, <2>1 DEF CutFrame, clientVars
    <3> QED
      BY <1>2, <2>1, <3>1
  <2>2. CASE ~spoilt'
    <3>1. ~spoilt
      BY <1>12, <2>2, Zenon DEF CutFrame
    <3> QED
      BY <1>0, <1>12, <2>2, <3>1, CutFrameHand
  <2> QED
    BY <2>1, <2>2
<1>121. CASE CutTooMuch
  <2>1. got' = got /\ sent' = sent /\ spoilt' = TRUE
    BY <1>121 DEF CutTooMuch, clientVars
  <2> QED
    BY <1>2, <2>1
<1>122. CASE CutOutside
  <2>1. Restart \/ (got' = got /\ sent' = sent /\ spoilt' = spoilt)
    BY <1>122 DEF CutOutside, clientVars, history
  <2>2. spoilt
    BY <1>0, <1>122 DEF CutOutside, Typed
  <2> QED
    BY <1>1, <1>2, <2>1, <2>2
<1>13. CASE CloseClient
  <2>1. got' = got /\ sent' = sent /\ (~spoilt' => ~spoilt)
    BY <1>13 DEF CloseClient, history
  <2> QED
    BY <1>0, <1>2, <1>13, <2>1, CloseClientHand
<1>14. CASE ZeroClient
  <2>1. got' = got /\ sent' = sent /\ (~spoilt' => ~spoilt)
    BY <1>14 DEF ZeroClient, clientVars, history
  <2> QED
    BY <1>0, <1>2, <1>14, <2>1, ZeroClientHand
<1>15. ASSUME NEW c \in Clients, Connects(c) PROVE OrderInv'
  <2>1. got' = got /\ sent' = sent /\ (~spoilt' => ~spoilt)
    BY <1>15 DEF Connects, NoClientStep, history
  <2>2. ~spoilt' => InHand'
    BY <1>0, <1>15, <2>1, ConnectsHand
  <2> QED
    BY <1>2, <2>1, <2>2
<1>16. ASSUME NEW c \in Clients, HangsUp(c) PROVE OrderInv'
  <2>1. /\ got' = got /\ sent' = sent /\ (~spoilt' => ~spoilt)
        /\ UNCHANGED <<sockVars, cacheVars, accPc, recvPc, recvOn, told, sent, got, wire>>
    BY <1>16 DEF HangsUp, NoClientStep, history
  <2>2. ~spoilt' => InHand'
    BY <1>0, <2>1, SameHand
  <2> QED
    BY <1>2, <2>1, <2>2
<1>17. ASSUME NEW c \in Clients, NEW m \in Messages, Sends(c, m) PROVE OrderInv'
  <2>1. ~spoilt
    BY <1>17, ZenonT(30) DEF Sends
  <2> QED
    BY <1>0, <1>17, <2>1, SendsHand
<1>18. CASE UNCHANGED vars
  <2>1. /\ got' = got /\ sent' = sent /\ (~spoilt' => ~spoilt)
        /\ UNCHANGED <<sockVars, cacheVars, accPc, recvPc, recvOn, told, sent, got, wire>>
    BY <1>18 DEF vars, clientVars, history
  <2>2. ~spoilt' => InHand'
    BY <1>0, <2>1, SameHand
  <2> QED
    BY <1>2, <2>1, <2>2
<1> QED
  BY <1>1, <1>3, <1>4, <1>5, <1>6, <1>7, <1>8, <1>81, <1>9, <1>10, <1>11, <1>12, <1>121, <1>122, <1>13, <1>14, <1>15,
     <1>16, <1>17, <1>18, NextSteps DEF Steps

LEMMA OrderAlways == Spec => [](Shaped /\ ConnInv /\ OrderInv)
<1>1. Init => Shaped /\ ConnInv /\ OrderInv
  BY TypeInit, ConnInit, OrderInit
<1>2. Shaped /\ ConnInv /\ OrderInv /\ [Next]_vars => (Shaped /\ ConnInv /\ OrderInv)'
  BY TypeStep, ConnStep, OrderStep
<1> QED
  BY <1>1, <1>2, PTL DEF Spec

\* THEOREM.  However recv() cuts the stream into chunks, whatever bytes mask it, and
\* whatever connections come, hang up and take over, the texts given on for a client
\* are, whole and in the order it sent them, the first of those it sent: up to a
\* takeover that meets the receive task at work, a chunk too long for the rest of
\* recvCache (websocket_serv.c:28), a text too long for str (:49) or a frame that
\* seems to end behind the last byte received (:63).
THEOREM InOrderCorrect == Spec => []InOrder
<1>1. Shaped /\ ConnInv /\ OrderInv => InOrder
  BY DEF OrderInv
<1> QED
  BY <1>1, OrderAlways, PTL

-----------------------------------------------------------------------------
(* Texts: what is encoded, framed, read and decoded is what it was *)

\* Induction, upwards and downwards.
LEMMA UpTo ==
    ASSUME NEW n \in Nat, NEW T, 0 \in T, \A k \in 0..(n - 1) : k \in T => k + 1 \in T
    PROVE  \A k \in 0..n : k \in T
<1> DEFINE R == {j \in 0..n : j \notin T}
<1> SUFFICES ASSUME R # {} PROVE FALSE
  OBVIOUS
<1>1. R \in SUBSET Nat
  OBVIOUS
<1>2. PICK j \in R : \A m \in R : j <= m
  <2> HIDE DEF R
  <2> QED
    BY <1>1, Least
<1>3. j \in 0..n /\ j \notin T /\ j # 0
  OBVIOUS
<1>4. PICK k : k = j - 1
  OBVIOUS
<1>5. k \in 0..(n - 1) /\ k + 1 = j /\ ~(j <= k)
  BY <1>3, <1>4
<1>6. k \in T
  <2>1. k \in 0..n
    BY <1>5
  <2> QED
    BY <1>2, <1>5, <2>1
<1> QED
  BY <1>3, <1>5, <1>6

LEMMA DownTo ==
    ASSUME NEW n \in Nat, NEW T, n \in T, \A k \in 0..(n - 1) : k + 1 \in T => k \in T
    PROVE  \A k \in 0..n : k \in T
<1> DEFINE U == {j \in 0..n : n - j \in T}
<1>1. 0 \in U
  OBVIOUS
<1>2. ASSUME NEW j \in 0..(n - 1), j \in U PROVE j + 1 \in U
  <2>1. PICK k : k = n - (j + 1)
    OBVIOUS
  <2>2. k \in 0..(n - 1) /\ k + 1 = n - j
    BY <2>1
  <2>3. k \in T
    BY <1>2, <2>2
  <2> QED
    BY <2>1, <2>3
<1> HIDE DEF U
<1>3. \A j \in 0..n : j \in U
  BY <1>1, <1>2, UpTo
<1> USE DEF U
<1>4. ASSUME NEW k \in 0..n PROVE k \in T
  <2>1. n - k \in 0..n /\ n - (n - k) = k
    OBVIOUS
  <2> QED
    BY <1>3, <2>1
<1> QED
  BY <1>4

\* A function that is put together from its end: there is one.
Built(S, head, next, n, k, g) ==
    /\ \A i \in k..(n + 1) : g[i] \in Seq(S)
    /\ g[n + 1] = <<>>
    /\ \A i \in k..n : g[i] = head[i] \o g[next[i]]

LEMMA BuiltMore ==
    ASSUME NEW S, NEW n \in Nat, NEW head, NEW next, NEW k \in 1..n, NEW g,
           head[k] \in Seq(S), next[k] \in (k + 1)..(n + 1), \A i \in 1..n : next[i] > i /\ next[i] <= n + 1 /\ next[i] \in Nat,
           Built(S, head, next, n, k + 1, g)
    PROVE  \E h : Built(S, head, next, n, k, h)
<1>1. /\ \A i \in (k + 1)..(n + 1) : g[i] \in Seq(S)
      /\ g[n + 1] = <<>>
      /\ \A i \in (k + 1)..n : g[i] = head[i] \o g[next[i]]
  BY DEF Built
<1>2. PICK v \in Seq(S) : v = head[k] \o g[next[k]]
  BY <1>1, Cat
<1>3. PICK h : h = [i \in k..(n + 1) |-> IF i = k THEN v ELSE g[i]]
  OBVIOUS
<1>4. h[k] = v /\ \A i \in (k + 1)..(n + 1) : h[i] = g[i]
  BY <1>3
<1>5. n + 1 \in (k + 1)..(n + 1) /\ h[n + 1] = <<>>
  BY <1>1, <1>4
<1>6. \A i \in k..(n + 1) : i = k \/ i \in (k + 1)..(n + 1)
  OBVIOUS
<1>7. \A i \in k..(n + 1) : h[i] \in Seq(S)
  BY <1>1, <1>2, <1>4, <1>6, Zenon
<1>8. ASSUME NEW i \in k..n PROVE h[i] = head[i] \o h[next[i]]
  <2>1. next[i] \in (k + 1)..(n + 1)
    OBVIOUS
  <2>2. h[next[i]] = g[next[i]]
    BY <1>4, <2>1
  <2>3. CASE i = k
    BY <1>2, <1>4, <2>2, <2>3, Zenon
  <2>4. CASE i # k
    <3>1. i \in (k + 1)..n /\ i \in (k + 1)..(n + 1)
      BY <2>4
    <3> QED
      BY <1>1, <1>4, <2>2, <3>1, Zenon
  <2> QED
    BY <2>3, <2>4
<1> QED
  BY <1>5, <1>7, <1>8 DEF Built

LEMMA BuiltLast ==
    ASSUME NEW S, NEW n \in Nat, NEW head, NEW next
    PROVE  \E g : Built(S, head, next, n, n + 1, g)
<1>0. <<>> \in Seq(S)
  OBVIOUS
<1>1. PICK e : e = <<>> /\ e \in Seq(S)
  BY <1>0
<1>2. PICK g : g = [i \in {n + 1} |-> e]
  OBVIOUS
<1>3. g[n + 1] = e /\ \A i \in (n + 1)..(n + 1) : i = n + 1
  BY <1>2
<1>4. \A i \in (n + 1)..n : FALSE
  OBVIOUS
<1> QED
  BY <1>1, <1>3, <1>4, Zenon DEF Built

LEMMA FromEnd ==
    ASSUME NEW S, NEW n \in Nat, NEW head, NEW next,
           \A i \in 1..n : head[i] \in Seq(S),
           \A i \in 1..n : next[i] > i /\ next[i] <= n + 1 /\ next[i] \in Nat
    PROVE  \E g : Built(S, head, next, n, 1, g)
<1> DEFINE T == {k \in 0..n : \E g : Built(S, head, next, n, k + 1, g)}
<1>1. n \in T
  <2>1. n \in 0..n
    OBVIOUS
  <2>2. \E g : Built(S, head, next, n, n + 1, g)
    BY BuiltLast, Zenon
  <2> QED
    BY <2>1, <2>2
<1>2. ASSUME NEW k \in 0..(n - 1), k + 1 \in T PROVE k \in T
  <2>1. PICK m : m = k + 1
    OBVIOUS
  <2>2. m \in 1..n /\ k \in 0..n
    BY <2>1
  <2>21. next[m] \in (m + 1)..(n + 1)
    BY <2>2
  <2>3. PICK g : Built(S, head, next, n, m + 1, g)
    BY <1>2, <2>1
  <2>4. \E h : Built(S, head, next, n, m, h)
    BY <2>2, <2>21, <2>3, BuiltMore
  <2> QED
    BY <2>1, <2>2, <2>4
<1> HIDE DEF T
<1>3. \A k \in 0..n : k \in T
  BY <1>1, <1>2, DownTo
<1>4. 0 \in T
  BY <1>3
<1> USE DEF T
<1>5. PICK g : Built(S, head, next, n, 0 + 1, g)
  BY <1>4
<1>6. 0 + 1 = 1
  OBVIOUS
<1> QED
  BY <1>5, <1>6

\* A function that is put together from its beginning.
Chain(S, q, k, g) ==
    /\ \A i \in 1..k : g[i] \in Seq(S)
    /\ g[1] = q[1]
    /\ \A i \in 2..k : g[i] = g[i - 1] \o q[i]

LEMMA ChainMore ==
    ASSUME NEW S, NEW q, NEW k \in Nat \ {0}, NEW g, q[k + 1] \in Seq(S), Chain(S, q, k, g)
    PROVE  \E h : Chain(S, q, k + 1, h)
<1>1. /\ \A i \in 1..k : g[i] \in Seq(S)
      /\ g[1] = q[1]
      /\ \A i \in 2..k : g[i] = g[i - 1] \o q[i]
  BY DEF Chain
<1>2. g[k] \in Seq(S)
  BY <1>1
<1>3. PICK v \in Seq(S) : v = g[k] \o q[k + 1]
  BY <1>2, Cat
<1>4. PICK h : h = [i \in 1..(k + 1) |-> IF i = k + 1 THEN v ELSE g[i]]
  OBVIOUS
<1>5. h[k + 1] = v /\ \A i \in 1..k : h[i] = g[i]
  BY <1>4
<1>6. \A i \in 1..(k + 1) : i = k + 1 \/ i \in 1..k
  OBVIOUS
<1>7. \A i \in 1..(k + 1) : h[i] \in Seq(S)
  BY <1>1, <1>3, <1>5, <1>6, Zenon
<1>8. 1 \in 1..k /\ h[1] = q[1]
  BY <1>1, <1>5
<1>9. ASSUME NEW i \in 2..(k + 1) PROVE h[i] = h[i - 1] \o q[i]
  <2>1. i - 1 \in 1..k
    OBVIOUS
  <2>2. h[i - 1] = g[i - 1]
    BY <1>5, <2>1
  <2>3. CASE i = k + 1
    <3>1. i - 1 = k
      BY <2>3
    <3> QED
      BY <1>3, <1>5, <2>2, <2>3, <3>1, Zenon
  <2>4. CASE i # k + 1
    <3>1. i \in 2..k /\ i \in 1..k
      BY <2>4
    <3> QED
      BY <1>1, <1>5, <2>2, <3>1, Zenon
  <2> QED
    BY <2>3, <2>4
<1> QED
  BY <1>7, <1>8, <1>9 DEF Chain

LEMMA ChainOne ==
    ASSUME NEW S, NEW q, q[1] \in Seq(S)
    PROVE  \E g : Chain(S, q, 1, g)
<1>1. Chain(S, q, 1, q)
  <2>1. \A i \in 1..1 : i = 1
    OBVIOUS
  <2>2. \A i \in 2..1 : FALSE
    OBVIOUS
  <2> QED
    BY <2>1, <2>2, Zenon DEF Chain
<1> QED
  BY <1>1

LEMMA Chained ==
    ASSUME NEW S, NEW n \in Nat \ {0}, NEW q, \A i \in 1..n : q[i] \in Seq(S)
    PROVE  \E g : Chain(S, q, n, g)
<1> DEFINE T == {k \in 0..(n - 1) : \E g : Chain(S, q, k + 1, g)}
<1>1. 0 \in T
  <2>1. 0 \in 0..(n - 1) /\ 0 + 1 = 1 /\ 1 \in 1..n
    OBVIOUS
  <2>2. \E g : Chain(S, q, 1, g)
    BY <2>1, ChainOne
  <2> QED
    BY <2>1, <2>2
<1>2. ASSUME NEW k \in 0..((n - 1) - 1), k \in T PROVE k + 1 \in T
  <2>1. PICK m : m = k + 1
    OBVIOUS
  <2>2. m \in Nat \ {0} /\ m \in 0..(n - 1)
    BY <2>1
  <2>21. m + 1 \in 1..n
    BY <2>1
  <2>22. q[m + 1] \in Seq(S)
    BY <2>21
  <2>3. PICK g : Chain(S, q, m, g)
    BY <1>2, <2>1
  <2>4. \E h : Chain(S, q, m + 1, h)
    BY <2>2, <2>22, <2>3, ChainMore
  <2> QED
    BY <2>1, <2>2, <2>4
<1> HIDE DEF T
<1>3. n - 1 \in Nat /\ n - 1 \in 0..(n - 1) /\ (n - 1) + 1 = n
  OBVIOUS
<1>4. \A k \in 0..(n - 1) : k \in T
  BY <1>1, <1>2, <1>3, UpTo
<1>5. n - 1 \in T
  BY <1>3, <1>4
<1> USE DEF T
<1>6. \E g : Chain(S, q, (n - 1) + 1, g)
  BY <1>5
<1> QED
  BY <1>3, <1>6

\* What FlattenSeq computes.
Flat(q, g) == [i \in 1..Len(q) |-> IF i = 1 THEN q[i] ELSE g[i - 1] \o q[i]]
LEMMA FlatDef ==
    ASSUME NEW q, Len(q) # 0
    PROVE  FlattenSeq(q) = (CHOOSE g : g = Flat(q, g))[Len(q)]
BY DEF FlattenSeq, Flat

LEMMA FlatChain ==
    ASSUME NEW S, NEW q \in Seq(Seq(S)), Len(q) # 0
    PROVE  \E g : Chain(S, q, Len(q), g) /\ FlattenSeq(q) = g[Len(q)]
<1>1. PICK n \in Nat \ {0} : n = Len(q)
  OBVIOUS
<1>2. \A i \in 1..n : q[i] \in Seq(S)
  BY <1>1
<1>3. PICK g : Chain(S, q, n, g)
  BY <1>2, Chained
<1>4. PICK h : h = [i \in 1..n |-> g[i]]
  OBVIOUS
<1>5. h = Flat(q, h)
  <2>1. ASSUME NEW i \in 1..n PROVE h[i] = IF i = 1 THEN q[i] ELSE h[i - 1] \o q[i]
    <3>1. CASE i = 1
      BY <1>3, <1>4, <3>1 DEF Chain
    <3>2. CASE i # 1
      <4>1. i \in 2..n /\ i - 1 \in 1..n
        BY <3>2
      <4>2. g[i] = g[i - 1] \o q[i]
        BY <1>3, <4>1 DEF Chain
      <4>3. h[i] = g[i] /\ h[i - 1] = g[i - 1]
        BY <1>4, <4>1
      <4> QED
        BY <3>2, <4>2, <4>3, Zenon
    <3> QED
      BY <3>1, <3>2
  <2>2. PICK f : f = [i \in 1..n |-> IF i = 1 THEN q[i] ELSE h[i - 1] \o q[i]]
    OBVIOUS
  <2>3. \A i \in 1..n : h[i] = f[i]
    BY <2>1, <2>2, Zenon
  <2>4. h = f
    BY <1>4, <2>2, <2>3
  <2> QED
    BY <1>1, <2>2, <2>4 DEF Flat
<1>6. PICK f : f = CHOOSE x : x = Flat(q, x)
  OBVIOUS
<1>7. f = Flat(q, f)
  BY <1>5, <1>6
<1>8. FlattenSeq(q) = f[n]
  BY <1>1, <1>6, FlatDef
<1>9. \A i \in 1..n : f[i] = IF i = 1 THEN q[i] ELSE f[i - 1] \o q[i]
  BY <1>1, <1>7 DEF Flat
<1>10. f[1] = q[1] /\ \A i \in 2..n : f[i] = f[i - 1] \o q[i]
  <2>1. 1 \in 1..n /\ \A i \in 2..n : i \in 1..n /\ i # 1
    OBVIOUS
  <2> QED
    BY <1>9, <2>1, Zenon
<1> DEFINE T == {k \in 0..(n - 1) : f[k + 1] \in Seq(S)}
<1>11. 0 \in T
  <2>1. 0 \in 0..(n - 1) /\ 0 + 1 = 1 /\ 1 \in 1..n
    OBVIOUS
  <2>2. f[1] \in Seq(S)
    BY <1>2, <1>10, <2>1
  <2> QED
    BY <2>1, <2>2
<1>12. ASSUME NEW k \in 0..((n - 1) - 1), k \in T PROVE k + 1 \in T
  <2>1. PICK m : m = k + 1
    OBVIOUS
  <2>2. PICK j : j = m + 1
    OBVIOUS
  <2>3. m \in 0..(n - 1) /\ j \in 2..n /\ j \in 1..n /\ j - 1 = m
    BY <2>1, <2>2
  <2>4. f[m] \in Seq(S) /\ q[j] \in Seq(S)
    BY <1>2, <1>12, <2>1, <2>3
  <2>5. f[j] = f[m] \o q[j]
    BY <1>10, <2>3
  <2>6. f[j] \in Seq(S)
    BY <2>4, <2>5, Cat
  <2> QED
    BY <2>1, <2>2, <2>3, <2>6
<1> HIDE DEF T
<1>13. n - 1 \in Nat /\ \A i \in 1..n : i - 1 \in 0..(n - 1) /\ (i - 1) + 1 = i
  OBVIOUS
<1>14. \A k \in 0..(n - 1) : k \in T
  BY <1>11, <1>12, <1>13, UpTo
<1>15. \A i \in 1..n : f[i] \in Seq(S)
  <2> TAKE i \in 1..n
  <2>1. i - 1 \in T
    BY <1>13, <1>14
  <2>2. f[(i - 1) + 1] \in Seq(S)
    BY <2>1 DEF T
  <2> QED
    BY <1>13, <2>2
<1>16. Chain(S, q, n, f)
  BY <1>10, <1>15 DEF Chain
<1> QED
  BY <1>1, <1>8, <1>16

\* Where the parts of a flattened sequence are: part k begins behind p[k - 1].
Parts(q, e, p) ==
    /\ p[0] = 0 /\ p[Len(q)] = Len(e)
    /\ \A k \in 0..Len(q) : p[k] \in 0..Len(e)
    /\ \A k \in 1..Len(q) : p[k] = p[k - 1] + Len(q[k])
    /\ \A k \in 1..Len(q) : \A j \in 1..Len(q[k]) : e[p[k - 1] + j] = q[k][j]

LEMMA FlattenedNone ==
    ASSUME NEW S, NEW q \in Seq(Seq(S)), Len(q) = 0
    PROVE  FlattenSeq(q) \in Seq(S) /\ \E p : Parts(q, FlattenSeq(q), p)
<1>1. FlattenSeq(q) = q
  BY DEF FlattenSeq
<1>2. <<>> \in Seq(S) /\ q = <<>>
  OBVIOUS
<1>3. PICK p : p = [k \in {0} |-> 0]
  OBVIOUS
<1>4. p[0] = 0 /\ (\A k \in 0..0 : k = 0) /\ (\A k \in 1..0 : FALSE) /\ 0 \in 0..0
  BY <1>3
<1>5. Parts(q, q, p)
  BY <1>4, Zenon DEF Parts
<1>6. FlattenSeq(q) \in Seq(S)
  BY <1>1, <1>2, Zenon
<1>7. Parts(q, FlattenSeq(q), p)
  BY <1>1, <1>5, Zenon
<1> QED
  BY <1>6, <1>7

LEMMA ChainParts ==
    ASSUME NEW S, NEW q \in Seq(Seq(S)), Len(q) # 0, NEW g, Chain(S, q, Len(q), g)
    PROVE  g[Len(q)] \in Seq(S) /\ \E p : Parts(q, g[Len(q)], p)
<1>1. PICK n \in Nat \ {0} : n = Len(q)
  OBVIOUS
<1>2. \A i \in 1..n : q[i] \in Seq(S) /\ Len(q[i]) \in Nat
  BY <1>1
<1>3. /\ \A i \in 1..n : g[i] \in Seq(S)
      /\ g[1] = q[1]
      /\ \A i \in 2..n : g[i] = g[i - 1] \o q[i]
  BY <1>1 DEF Chain
<1>4. n \in 1..n
  OBVIOUS
<1>5. PICK e \in Seq(S) : e = g[n]
  BY <1>3, <1>4
<1> DEFINE Pre(k) == /\ Len(g[k]) <= Len(e)
                     /\ \A i \in 1..Len(g[k]) : e[i] = g[k][i]
           T == {k \in 0..n : k # 0 => Pre(k)}
<1>6. n \in T
  <2>1. n \in 0..n /\ Len(e) \in Nat
    OBVIOUS
  <2>2. Pre(n)
    BY <1>5, <2>1
  <2> QED
    BY <2>1, <2>2
<1>7. \A i \in 2..n : /\ Len(g[i]) = Len(g[i - 1]) + Len(q[i])
                      /\ Len(g[i - 1]) \in Nat /\ Len(q[i]) \in Nat
                      /\ \A j \in 1..Len(g[i - 1]) : g[i][j] = g[i - 1][j]
                      /\ \A j \in 1..Len(q[i]) : g[i][Len(g[i - 1]) + j] = q[i][j]
  <2> TAKE i \in 2..n
  <2>1. i \in 1..n /\ i - 1 \in 1..n
    OBVIOUS
  <2>2. PICK a \in Seq(S) : a = g[i - 1]
    BY <1>3, <2>1
  <2>3. PICK b \in Seq(S) : b = q[i]
    BY <1>2, <2>1
  <2>4. /\ Len(a \o b) = Len(a) + Len(b)
        /\ \A j \in 1..Len(a) : (a \o b)[j] = a[j]
        /\ \A j \in 1..Len(b) : (a \o b)[Len(a) + j] = b[j]
    BY Cat
  <2>5. g[i] = a \o b
    BY <1>3, <2>2, <2>3
  <2>6. Len(a) \in Nat /\ Len(b) \in Nat
    OBVIOUS
  <2> QED
    BY <2>2, <2>3, <2>4, <2>5, <2>6, Zenon
<1>8. ASSUME NEW k \in 0..(n - 1), k + 1 \in T PROVE k \in T
  <2>1. k \in 0..n
    OBVIOUS
  <2>2. SUFFICES ASSUME k # 0 PROVE Pre(k)
    BY <2>1
  <2>3. PICK m : m = k + 1
    OBVIOUS
  <2>4. m \in 2..n /\ m # 0 /\ m - 1 = k /\ m \in 1..n
    BY <2>2, <2>3
  <2>5. Pre(m)
    BY <1>8, <2>3, <2>4
  <2>6. PICK a, b : a = Len(g[k]) /\ b = Len(q[m])
    OBVIOUS
  <2>7. Len(g[m]) = a + b /\ a \in Nat /\ b \in Nat /\ \A j \in 1..a : g[m][j] = g[k][j]
    BY <1>7, <2>4, <2>6
  <2>8. a + b <= Len(e) /\ \A j \in 1..(a + b) : e[j] = g[m][j]
    BY <2>5, <2>7
  <2>9. \A j \in 1..a : j \in 1..(a + b)
    BY <2>7
  <2>10. \A j \in 1..a : e[j] = g[k][j]
    BY <2>7, <2>8, <2>9, Zenon
  <2>11. a <= Len(e)
    BY <2>7, <2>8
  <2> QED
    BY <2>6, <2>10, <2>11, Zenon
<1>9. \A k \in 1..n : Pre(k)
  <2> HIDE DEF T, Pre
  <2>1. \A k \in 0..n : k \in T
    BY <1>6, <1>8, DownTo
  <2>2. \A k \in 1..n : k \in 0..n /\ k # 0
    OBVIOUS
  <2> QED
    BY <2>1, <2>2 DEF T
<1>10. PICK p : p = [k \in 0..n |-> IF k = 0 THEN 0 ELSE Len(g[k])]
  OBVIOUS
<1>11. p[0] = 0 /\ \A k \in 1..n : p[k] = Len(g[k])
  BY <1>10
<1>12. p[n] = Len(e)
  BY <1>4, <1>5, <1>11, Zenon
<1>13. \A k \in 0..n : p[k] \in 0..Len(e)
  <2> TAKE k \in 0..n
  <2>1. Len(e) \in Nat
    OBVIOUS
  <2>2. CASE k = 0
    BY <1>11, <2>1, <2>2
  <2>3. CASE k # 0
    <3>1. k \in 1..n
      BY <2>3
    <3>2. p[k] = Len(g[k]) /\ Len(g[k]) <= Len(e) /\ Len(g[k]) \in Nat
      BY <1>3, <1>9, <1>11, <3>1
    <3> QED
      BY <2>1, <3>2
  <2> QED
    BY <2>2, <2>3
<1>14. \A k \in 1..n : k = 1 \/ (k \in 2..n /\ k - 1 \in 1..n)
  OBVIOUS
<1>15. \A k \in 1..n : p[k] = p[k - 1] + Len(q[k])
  <2> TAKE k \in 1..n
  <2>1. CASE k = 1
    <3>1. k - 1 = 0 /\ Len(q[k]) \in Nat
      BY <1>2, <2>1
    <3>2. p[k] = Len(q[k])
      BY <1>3, <1>11, <2>1
    <3> QED
      BY <1>11, <3>1, <3>2
  <2>2. CASE k \in 2..n /\ k - 1 \in 1..n
    BY <1>7, <1>11, <2>2
  <2> QED
    BY <1>14, <2>1, <2>2
<1>16. \A k \in 1..n : \A j \in 1..Len(q[k]) : e[p[k - 1] + j] = q[k][j]
  <2> TAKE k \in 1..n
  <2> TAKE j \in 1..Len(q[k])
  <2>1. Pre(k)
    BY <1>9
  <2>2. CASE k = 1
    <3>1. j \in Nat /\ k - 1 = 0 /\ g[k] = q[k]
      BY <1>2, <1>3, <2>2
    <3>2. p[k - 1] + j = j
      BY <1>11, <3>1
    <3>3. e[j] = g[k][j]
      BY <2>1, <3>1
    <3> QED
      BY <3>1, <3>2, <3>3, Zenon
  <2>3. CASE k \in 2..n /\ k - 1 \in 1..n
    <3>1. PICK a, b : a = Len(g[k - 1]) /\ b = Len(q[k])
      OBVIOUS
    <3>2. a \in Nat /\ b \in Nat /\ Len(g[k]) = a + b /\ g[k][a + j] = q[k][j] /\ j \in 1..b
      BY <1>7, <2>3, <3>1
    <3>3. a + j \in 1..(a + b)
      BY <3>2
    <3>4. e[a + j] = g[k][a + j]
      BY <2>1, <3>2, <3>3
    <3>5. p[k - 1] = a
      BY <1>11, <2>3, <3>1
    <3> QED
      BY <3>2, <3>4, <3>5, Zenon
  <2> QED
    BY <1>14, <2>2, <2>3
<1> HIDE DEF Pre, T
<1>17. Parts(q, e, p)
  BY <1>1, <1>11, <1>12, <1>13, <1>15, <1>16, Zenon DEF Parts
<1> QED
  BY <1>1, <1>5, <1>17, Zenon

LEMMA Flattened ==
    ASSUME NEW S, NEW q \in Seq(Seq(S))
    PROVE  FlattenSeq(q) \in Seq(S) /\ \E p : Parts(q, FlattenSeq(q), p)
<1>1. CASE Len(q) = 0
  BY <1>1, FlattenedNone
<1>2. CASE Len(q) # 0
  <2>1. PICK g : Chain(S, q, Len(q), g) /\ FlattenSeq(q) = g[Len(q)]
    BY <1>2, FlatChain
  <2>2. g[Len(q)] \in Seq(S) /\ \E p : Parts(q, g[Len(q)], p)
    BY <1>2, <2>1, ChainParts
  <2> QED
    BY <2>1, <2>2, Zenon
<1> QED
  BY <1>1, <1>2

\* What a byte becomes, and what a client reads of it.
LEMMA Hex == ASSUME NEW n \in 0..15
             PROVE  HexChar(n) \in 48..70 /\ HexValue(HexChar(n)) = n
<1>1. CASE n < 10
  <2>1. HexChar(n) = 48 + n /\ 48 + n \in 48..57
    BY <1>1 DEF HexChar
  <2> QED
    BY <2>1 DEF HexValue, Digits
<1>2. CASE n >= 10
  <2>1. HexChar(n) = 55 + n /\ 55 + n \in 65..70
    BY <1>2 DEF HexChar
  <2> QED
    BY <2>1 DEF HexValue, Digits
<1> QED
  BY <1>1, <1>2

LEMMA Halves == ASSUME NEW c \in 0..255
                PROVE  \E a, b \in 0..15 : a = c \div 16 /\ b = c % 16 /\ 16 * a + b = c
<1>1. c \div 16 \in Int /\ c % 16 \in 0..15 /\ (c % 16) + 16 * (c \div 16) = c
  BY DivMod
<1>2. PICK a \in Int, b \in 0..15 : a = c \div 16 /\ b = c % 16
  BY <1>1
<1>3. b + 16 * a = c
  BY <1>1, <1>2
<1>4. a \in 0..15 /\ 16 * a + b = c
  BY <1>3
<1> QED
  BY <1>2, <1>4

\* One byte is one that means nothing in the URL code, a Plus or an escape.
LEMMA Escaped ==
    ASSUME NEW c \in 0..255
    PROVE  /\ Escape(c) \in Seq(0..255)
           /\ \/ c = Space /\ Escape(c) = <<Plus>>
              \/ c \notin {Plus, Percent} /\ Escape(c) = <<c>>
              \/ \E h, l \in 48..70 :
                    /\ Escape(c) = <<Percent, h, l>>
                    /\ HexValue(h) >= 0 /\ HexValue(l) >= 0
                    /\ 16 * HexValue(h) + HexValue(l) = c
<1>1. CASE c = Space
  BY <1>1 DEF Escape, Space, Plus
<1>2. CASE c # Space /\ c \in Plain
  <2>1. c \notin {Plus, Percent}
    BY <1>2 DEF Plain, Digits, Upper, Lower, Plus, Percent
  <2>2. Escape(c) = <<c>>
    BY <1>2 DEF Escape
  <2>3. <<c>> \in Seq(0..255)
    OBVIOUS
  <2> QED
    BY <2>1, <2>2, <2>3
<1>3. CASE c # Space /\ c \notin Plain
  <2>1. PICK a, b \in 0..15 : a = c \div 16 /\ b = c % 16 /\ 16 * a + b = c
    BY Halves
  <2>2. PICK h \in 48..70, l \in 48..70 : /\ h = HexChar(a) /\ l = HexChar(b)
                                          /\ HexValue(h) = a /\ HexValue(l) = b
    BY Hex
  <2>3. Escape(c) = <<Percent, h, l>>
    BY <1>3, <2>1, <2>2, Zenon DEF Escape
  <2>4. <<Percent, h, l>> \in Seq(0..255)
    BY DEF Percent
  <2>5. HexValue(h) >= 0 /\ HexValue(l) >= 0 /\ 16 * HexValue(h) + HexValue(l) = c
    <3>1. a >= 0 /\ b >= 0 /\ 16 * a + b = c
      BY <2>1
    <3> QED
      BY <2>2, <3>1, Zenon
  <2>6. Escape(c) \in Seq(0..255)
    BY <2>3, <2>4, Zenon
  <2> QED
    BY <2>3, <2>5, <2>6
<1> QED
  BY <1>1, <1>2, <1>3, ZenonT(30)

\* What a client reads of a frame is what was sent.
LEMMA ReadsSent ==
    ASSUME NEW S, NEW m \in Seq(S), NEW hs \in {1, 2}, \A b \in Nat : b \in S
    PROVE  ClientReads(hs, SendData(hs, m)) = m
<1>0. PICK n \in Nat : n = Len(m)
  OBVIOUS
<1>1. CASE hs = 1
  <2>1. PICK f \in Seq(S) : f = <<Begin1>> \o m \o <<End1>>
    <3>1. Begin1 \in S /\ End1 \in S
      BY FramesAssumption DEF Begin1, End1
    <3> QED
      BY <3>1, One, Cat3
  <2>2. Len(f) = n + 2 /\ \A i \in 1..n : f[1 + i] = m[i]
    <3>1. Begin1 \in S /\ End1 \in S
      BY FramesAssumption DEF Begin1, End1
    <3>2. /\ Len(f) = Len(<<Begin1>>) + Len(m) + Len(<<End1>>)
          /\ \A i \in 1..Len(m) : f[Len(<<Begin1>>) + i] = m[i]
      BY <2>1, <3>1, One, Cat3
    <3>3. Len(<<Begin1>>) = 1 /\ Len(<<End1>>) = 1
      OBVIOUS
    <3>4. Len(f) = 1 + n + 1 /\ \A i \in 1..n : f[1 + i] = m[i]
      BY <1>0, <3>2, <3>3, Zenon
    <3> QED
      BY <3>4
  <2>3. SendData(hs, m) = f
    BY <1>1, <2>1 DEF SendData
  <2>4. ClientReads(hs, f) = SubSeq(f, 2, Len(f) - 1)
    BY <1>1 DEF ClientReads
  <2>5. PICK r \in Seq(S) : /\ r = SubSeq(f, 2, Len(f) - 1) /\ Len(r) = n
                            /\ \A i \in 1..n : r[i] = f[1 + i]
    <3>1. PICK t : t = Len(f) - 1
      OBVIOUS
    <3>2. 2 \in 1..(Len(f) + 1) /\ t \in (2 - 1)..Len(f) /\ t - 2 + 1 = n
      BY <2>2, <3>1
    <3>3. /\ SubSeq(f, 2, t) \in Seq(S) /\ Len(SubSeq(f, 2, t)) = t - 2 + 1
          /\ \A i \in 1..(t - 2 + 1) : SubSeq(f, 2, t)[i] = f[2 + i - 1]
      BY <3>2, SubPart
    <3>4. PICK r \in Seq(S) : r = SubSeq(f, 2, t)
      BY <3>3
    <3>5. Len(r) = n /\ \A i \in 1..n : r[i] = f[2 + i - 1]
      BY <3>2, <3>3, <3>4
    <3>6. \A i \in 1..n : r[i] = f[1 + i]
      <4> TAKE i \in 1..n
      <4>1. 2 + i - 1 = 1 + i
        OBVIOUS
      <4> QED
        BY <3>5, <4>1
    <3> QED
      BY <3>1, <3>4, <3>5, <3>6, Zenon
  <2>6. r = m
    BY <1>0, <2>2, <2>5, SameSeq
  <2> QED
    BY <2>3, <2>4, <2>5, <2>6, Zenon
<1>2. CASE hs = 2
  <2>0. ASSUME NEW h \in Seq(S), NEW f \in Seq(S), f = h \o m
        PROVE  Part(f, Len(h) + 1, n) = m
    <3>1. PICK k \in Nat : k = Len(h)
      OBVIOUS
    <3>2. Len(f) = k + n /\ \A i \in 1..n : f[k + i] = m[i]
      BY <1>0, <2>0, <3>1, Cat
    <3>3. PICK r : r = [i \in 1..n |-> At(f, k + 1 + i - 1)]
      OBVIOUS
    <3>4. \A i \in 1..n : r[i] = m[i]
      <4> TAKE i \in 1..n
      <4>1. PICK j \in 1..(k + n) : j = k + i
        OBVIOUS
      <4>2. k + 1 + i - 1 = j /\ j \in DOMAIN f
        BY <3>2, <4>1
      <4>3. At(f, j) = f[j]
        BY <4>2 DEF At
      <4> QED
        BY <3>2, <3>3, <4>1, <4>2, <4>3
    <3>5. \A i \in 1..n : m[i] \in S
      BY <1>0
    <3>6. r \in Seq(S) /\ Len(r) = n
      <4>1. r \in [1..n -> S]
        BY <3>3, <3>4, <3>5
      <4> QED
        BY <4>1, FunSeq
    <3>7. r = m
      BY <1>0, <3>4, <3>6, SameSeq
    <3> QED
      BY <3>1, <3>3, <3>7 DEF Part
  <2>1. CASE n < Code16
    <3>1. <<Text, n>> \in Seq(S) /\ Len(<<Text, n>>) = 2
      BY FramesAssumption
    <3>2. PICK h \in Seq(S) : h = <<Text, n>>
      BY <3>1
    <3>3. PICK f \in Seq(S) : f = h \o m
      BY Cat
    <3>4. SendData(hs, m) = f
      <4>1. hs # 1 /\ ~(n >= Code16)
        BY <1>2, <2>1, FramesAssumption
      <4> QED
        BY <1>0, <1>2, <2>1, <4>1, <3>2, <3>3, Zenon DEF SendData
    <3>5. f[2] = n
      <4>1. Len(h) = 2 /\ h[2] = n
        BY <3>2
      <4>2. f[2] = h[2]
        <5>1. \A i \in 1..Len(h) : f[i] = h[i]
          BY <3>3, Cat
        <5>2. 2 \in 1..Len(h)
          BY <4>1
        <5> QED
          BY <5>1, <5>2
      <4> QED
        BY <4>1, <4>2
    <3>6. n # Code16 /\ hs # 1
      BY <1>2, <2>1, FramesAssumption
    <3>7. ClientReads(hs, f) = Part(f, 3, n)
      BY <3>5, <3>6, Zenon DEF ClientReads
    <3>8. Part(f, Len(h) + 1, n) = m
      BY <2>0, <3>3
    <3>9. Len(h) + 1 = 3
      BY <3>2
    <3> QED
      BY <3>4, <3>7, <3>8, <3>9, Zenon
  <2>2. CASE n >= Code16
    <3>0. PICK u \in Nat, v \in Nat : u = n \div Base /\ v = n % Base /\ Base * u + v = n
      <4>1. Base \in Nat \ {0}
        BY FramesAssumption
      <4>2. n \div Base \in Int /\ n % Base \in 0..(Base - 1) /\ (n % Base) + Base * (n \div Base) = n
        BY <4>1, DivMod
      <4>3. PICK q \in Int, r \in 0..(Base - 1) : q = n \div Base /\ r = n % Base
        BY <4>2
      <4>4. r + Base * q = n
        BY <4>2, <4>3
      <4>5. q >= 0
        <5> SUFFICES ASSUME q <= -1 PROVE FALSE
          OBVIOUS
        <5>1. Base * q <= -Base
          BY <4>1
        <5>2. Base * q \in Int
          BY <4>1
        <5> QED
          BY <4>1, <4>4, <5>1, <5>2
      <4>6. Base * q \in Int /\ r \in Nat /\ q \in Nat
        BY <4>1, <4>5
      <4>7. Base * q + r = n
        BY <4>4, <4>6
      <4> QED
        BY <4>3, <4>6, <4>7
    <3>1. <<Text, Code16, u, v>> \in Seq(S) /\ Len(<<Text, Code16, u, v>>) = 4
      BY FramesAssumption
    <3>2. PICK h \in Seq(S) : h = <<Text, Code16, u, v>>
      BY <3>1
    <3>3. PICK f \in Seq(S) : f = h \o m
      BY Cat
    <3>4. SendData(hs, m) = f
      <4>1. hs # 1 /\ ~(n < Code16)
        BY <1>2, <2>2, FramesAssumption
      <4> QED
        BY <1>0, <1>2, <2>2, <4>1, <3>0, <3>2, <3>3, Zenon DEF SendData
    <3>5. f[2] = Code16 /\ f[3] = u /\ f[4] = v
      <4>1. Len(h) = 4 /\ h[2] = Code16 /\ h[3] = u /\ h[4] = v
        BY <3>2
      <4>2. \A i \in 1..4 : f[i] = h[i]
        BY <3>3, <4>1, Cat
      <4> QED
        BY <4>1, <4>2
    <3>7. ClientReads(hs, f) = Part(f, 5, n)
      <4>1. hs # 1
        BY <1>2
      <4> QED
        BY <3>0, <3>5, <4>1, Zenon DEF ClientReads
    <3>8. Part(f, Len(h) + 1, n) = m
      BY <2>0, <3>3
    <3>9. Len(h) + 1 = 5
      BY <3>2
    <3> QED
      BY <3>4, <3>7, <3>8, <3>9, Zenon
  <2> QED
    BY <2>1, <2>2, FramesAssumption
<1> QED
  BY <1>1, <1>2

\* What zhHttpUrlDecode computes: what the byte at i, or the escape that begins
\* there, stands for, in front of the rest.
HexAt(e, i) == IF i <= Len(e) THEN HexValue(e[i]) ELSE -1
Escapes(e, i) == e[i] = Percent /\ HexAt(e, i + 1) >= 0 /\ HexAt(e, i + 2) >= 0

DecodedAt(e, g, i) ==
    IF e[i] = Plus THEN <<Space>> \o g[i + 1]
    ELSE IF Escapes(e, i)
    THEN <<16 * HexAt(e, i + 1) + HexAt(e, i + 2)>> \o g[i + 3]
    ELSE <<e[i]>> \o g[i + 1]

Decoding(e, g) ==
    [i \in 1..(Len(e) + 1) |-> IF i > Len(e) THEN <<>> ELSE DecodedAt(e, g, i)]

LEMMA DecodeDef == ASSUME NEW e PROVE UrlDecode(e) = (CHOOSE g : g = Decoding(e, g))[1]
BY DEF UrlDecode, Decoding, DecodedAt, Escapes, HexAt

LEMMA HexKnown == ASSUME NEW c PROVE HexValue(c) \in Int
<1>1. CASE c \in Digits
  BY <1>1 DEF HexValue, Digits
<1>2. CASE c \notin Digits /\ c \in 65..70
  BY <1>2 DEF HexValue
<1>3. CASE c \notin Digits /\ c \notin 65..70 /\ c \in 97..102
  BY <1>3 DEF HexValue
<1>4. CASE c \notin Digits /\ c \notin 65..70 /\ c \notin 97..102
  BY <1>4 DEF HexValue
<1> QED
  BY <1>1, <1>2, <1>3, <1>4

LEMMA DecodeBuilt ==
    ASSUME NEW e \in Seq(Nat)
    PROVE  \E g : g = Decoding(e, g)
<1>1. PICK n \in Nat : n = Len(e)
  OBVIOUS
<1>2. PICK head : head = [i \in 1..n |->
            IF e[i] = Plus THEN <<Space>>
            ELSE IF Escapes(e, i) THEN <<16 * HexAt(e, i + 1) + HexAt(e, i + 2)>>
            ELSE <<e[i]>>]
  OBVIOUS
<1>3. PICK next : next = [i \in 1..n |-> IF e[i] # Plus /\ Escapes(e, i) THEN i + 3 ELSE i + 1]
  OBVIOUS
<1>4. ASSUME NEW i \in 1..n, NEW x PROVE HexAt(e, x) \in Int
  <2>1. HexValue(e[x]) \in Int
    BY HexKnown
  <2> QED
    BY <2>1 DEF HexAt
<1>5. ASSUME NEW i \in 1..n PROVE head[i] \in Seq(Int)
  <2>1. CASE e[i] = Plus
    <3>1. head[i] = <<Space>>
      BY <1>2, <2>1
    <3> QED
      BY <3>1 DEF Space
  <2>2. CASE e[i] # Plus /\ Escapes(e, i)
    <3>1. PICK v \in Int : v = 16 * HexAt(e, i + 1) + HexAt(e, i + 2)
      <4>1. PICK a, b \in Int : a = HexAt(e, i + 1) /\ b = HexAt(e, i + 2)
        BY <1>4
      <4> QED
        BY <4>1
    <3>2. head[i] = <<v>>
      BY <1>2, <2>2, <3>1, Zenon
    <3> QED
      BY <3>2
  <2>3. CASE e[i] # Plus /\ ~Escapes(e, i)
    <3>1. head[i] = <<e[i]>>
      BY <1>2, <2>3, Zenon
    <3>2. e[i] \in Int
      BY <1>1
    <3> QED
      BY <3>1, <3>2
  <2> QED
    BY <2>1, <2>2, <2>3
<1>6. ASSUME NEW i \in 1..n PROVE next[i] > i /\ next[i] <= n + 1 /\ next[i] \in Nat
  <2>1. CASE e[i] # Plus /\ Escapes(e, i)
    <3>1. next[i] = i + 3
      BY <1>3, <2>1, Zenon
    <3>2. HexAt(e, i + 2) >= 0
      BY <2>1 DEF Escapes
    <3>3. i + 2 <= n
      <4> SUFFICES ASSUME ~(i + 2 <= n) PROVE FALSE
        OBVIOUS
      <4>1. HexAt(e, i + 2) = -1
        BY <1>1, Zenon DEF HexAt
      <4> QED
        BY <3>2, <4>1
    <3> QED
      BY <3>1, <3>3
  <2>2. CASE ~(e[i] # Plus /\ Escapes(e, i))
    <3>1. next[i] = i + 1
      BY <1>3, <2>2, Zenon
    <3> QED
      BY <3>1
  <2> QED
    BY <2>1, <2>2
<1>7. PICK g : Built(Int, head, next, n, 1, g)
  <2>1. \A i \in 1..n : head[i] \in Seq(Int)
    BY <1>5
  <2>2. \A i \in 1..n : next[i] > i /\ next[i] <= n + 1 /\ next[i] \in Nat
    BY <1>6
  <2> QED
    BY <2>1, <2>2, FromEnd
<1>8. g[n + 1] = <<>> /\ \A i \in 1..n : g[i] = head[i] \o g[next[i]]
  BY <1>7 DEF Built
<1>9. PICK h : h = [i \in 1..(n + 1) |-> g[i]]
  OBVIOUS
<1>10. \A i \in 1..(n + 1) : h[i] = g[i]
  BY <1>9, Zenon
<1>11. ASSUME NEW i \in 1..n PROVE h[i] = DecodedAt(e, h, i)
  <2>0. i \in 1..(n + 1) /\ i + 1 \in 1..(n + 1)
    OBVIOUS
  <2>1. CASE e[i] = Plus
    <3>1. head[i] = <<Space>> /\ next[i] = i + 1
      BY <1>2, <1>3, <2>1, Zenon
    <3>2. h[i] = <<Space>> \o h[i + 1]
      BY <1>8, <1>10, <2>0, <3>1, Zenon
    <3> QED
      BY <2>1, <3>2, Zenon DEF DecodedAt
  <2>2. CASE e[i] # Plus /\ Escapes(e, i)
    <3>1. /\ head[i] = <<16 * HexAt(e, i + 1) + HexAt(e, i + 2)>>
          /\ next[i] = i + 3
      BY <1>2, <1>3, <2>2, Zenon
    <3>2. i + 3 \in 1..(n + 1)
      <4>1. i + 3 <= n + 1
        BY <1>6, <3>1
      <4> QED
        BY <4>1
    <3>3. h[i] = <<16 * HexAt(e, i + 1) + HexAt(e, i + 2)>> \o h[i + 3]
      BY <1>8, <1>10, <2>0, <3>1, <3>2, Zenon
    <3> QED
      BY <2>2, <3>3, Zenon DEF DecodedAt
  <2>3. CASE e[i] # Plus /\ ~Escapes(e, i)
    <3>1. head[i] = <<e[i]>> /\ next[i] = i + 1
      BY <1>2, <1>3, <2>3, Zenon
    <3>2. h[i] = <<e[i]>> \o h[i + 1]
      BY <1>8, <1>10, <2>0, <3>1, Zenon
    <3> QED
      BY <2>3, <3>2, Zenon DEF DecodedAt
  <2> QED
    BY <2>1, <2>2, <2>3
<1>12. PICK f : f = [i \in 1..(n + 1) |-> IF i > n THEN <<>> ELSE DecodedAt(e, h, i)]
  OBVIOUS
<1>13. ASSUME NEW i \in 1..(n + 1) PROVE h[i] = f[i]
  <2>1. CASE i \in 1..n
    <3>1. ~(i > n)
      BY <2>1
    <3>2. f[i] = DecodedAt(e, h, i)
      BY <1>12, <3>1, Zenon
    <3> QED
      BY <1>11, <2>1, <3>2, Zenon
  <2>2. CASE i \notin 1..n
    <3>1. i = n + 1 /\ i > n
      BY <2>2
    <3>2. f[i] = <<>>
      BY <1>12, <3>1, Zenon
    <3>3. h[i] = g[n + 1]
      BY <1>10, <3>1, Zenon
    <3> QED
      BY <1>8, <3>2, <3>3, Zenon
  <2> QED
    BY <2>1, <2>2
<1>14. h = f
  BY <1>9, <1>12, <1>13
<1>15. f = Decoding(e, h)
  BY <1>1, <1>12, Zenon DEF Decoding
<1> QED
  BY <1>14, <1>15

LEMMA DecodeSteps ==
    ASSUME NEW e \in Seq(Nat)
    PROVE  \E d : /\ UrlDecode(e) = d[1] /\ d[Len(e) + 1] = <<>>
                  /\ \A i \in 1..Len(e) : d[i] = DecodedAt(e, d, i)
<1>1. PICK d : d = CHOOSE g : g = Decoding(e, g)
  OBVIOUS
<1>2. d = Decoding(e, d)
  BY <1>1, DecodeBuilt
<1>3. UrlDecode(e) = d[1]
  BY <1>1, DecodeDef
<1>4. PICK n \in Nat : n = Len(e)
  OBVIOUS
<1>5. \A i \in 1..(n + 1) : d[i] = IF i > n THEN <<>> ELSE DecodedAt(e, d, i)
  BY <1>2, <1>4, Zenon DEF Decoding
<1>6. n + 1 \in 1..(n + 1) /\ n + 1 > n /\ \A i \in 1..n : i \in 1..(n + 1) /\ ~(i > n)
  OBVIOUS
<1>7. d[n + 1] = <<>> /\ \A i \in 1..n : d[i] = DecodedAt(e, d, i)
  BY <1>5, <1>6, Zenon
<1> QED
  BY <1>3, <1>4, <1>7

LEMMA Widen == ASSUME NEW S, NEW U, NEW s \in Seq(S), \A x \in S : x \in U
               PROVE  s \in Seq(U)
<1>1. PICK n \in Nat : n = Len(s)
  OBVIOUS
<1>2. s = [i \in 1..n |-> s[i]] /\ \A i \in 1..n : s[i] \in U
  BY <1>1
<1>3. s \in [1..n -> U]
  BY <1>2
<1> QED
  BY <1>3, FunSeq

\* The rest of a text is its next byte and what follows that.
LEMMA HeadTail ==
    ASSUME NEW S, NEW s \in Seq(S), NEW k \in 0..(Len(s) - 1)
    PROVE  SubSeq(s, k + 1, Len(s)) = <<s[k + 1]>> \o SubSeq(s, k + 2, Len(s))
<1>1. PICK n \in Nat : n = Len(s)
  OBVIOUS
<1>2. k \in 0..(n - 1) /\ k + 1 \in 1..(n + 1) /\ k + 2 \in 1..(n + 1)
  BY <1>1
<1>3. n \in ((k + 1) - 1)..n /\ n \in ((k + 2) - 1)..n
  BY <1>2
<1>4. PICK a \in Seq(S) : /\ a = SubSeq(s, k + 1, n) /\ Len(a) = n - (k + 1) + 1
                          /\ \A i \in 1..(n - (k + 1) + 1) : a[i] = s[(k + 1) + i - 1]
  <2>1. PICK m : m = k + 1
    OBVIOUS
  <2>2. m \in 1..(Len(s) + 1) /\ n \in (m - 1)..Len(s)
    BY <1>1, <1>2, <1>3, <2>1
  <2>3. /\ SubSeq(s, m, n) \in Seq(S) /\ Len(SubSeq(s, m, n)) = n - m + 1
        /\ \A i \in 1..(n - m + 1) : SubSeq(s, m, n)[i] = s[m + i - 1]
    BY <2>2, SubPart
  <2> QED
    BY <2>1, <2>3, Zenon
<1>5. PICK b \in Seq(S) : /\ b = SubSeq(s, k + 2, n) /\ Len(b) = n - (k + 2) + 1
                          /\ \A i \in 1..(n - (k + 2) + 1) : b[i] = s[(k + 2) + i - 1]
  <2>1. PICK m : m = k + 2
    OBVIOUS
  <2>2. m \in 1..(Len(s) + 1) /\ n \in (m - 1)..Len(s)
    BY <1>1, <1>2, <1>3, <2>1
  <2>3. /\ SubSeq(s, m, n) \in Seq(S) /\ Len(SubSeq(s, m, n)) = n - m + 1
        /\ \A i \in 1..(n - m + 1) : SubSeq(s, m, n)[i] = s[m + i - 1]
    BY <2>2, SubPart
  <2> QED
    BY <2>1, <2>3, Zenon
<1>6. PICK x \in S : x = s[k + 1]
  BY <1>1, <1>2
<1>7. PICK h \in Seq(S) : h = <<x>> /\ Len(h) = 1 /\ h[1] = x
  BY One
<1>8. PICK c \in Seq(S) : /\ c = h \o b /\ Len(c) = Len(h) + Len(b)
                          /\ \A i \in 1..Len(h) : c[i] = h[i]
                          /\ \A i \in 1..Len(b) : c[Len(h) + i] = b[i]
  <2>1. PICK c \in Seq(S) : c = h \o b
    BY Cat
  <2>2. /\ Len(h \o b) = Len(h) + Len(b)
        /\ \A i \in 1..Len(h) : (h \o b)[i] = h[i]
        /\ \A i \in 1..Len(b) : (h \o b)[Len(h) + i] = b[i]
    BY Cat
  <2> QED
    BY <2>1, <2>2, Zenon
<1>9. Len(a) = n - k /\ Len(b) = n - k - 1 /\ Len(c) = n - k
  <2>1. Len(a) = n - (k + 1) + 1 /\ Len(b) = n - (k + 2) + 1
    BY <1>4, <1>5
  <2>2. Len(c) = 1 + Len(b)
    BY <1>7, <1>8
  <2> QED
    BY <2>1, <2>2, <1>2
<1>10. ASSUME NEW i \in 1..(n - k) PROVE a[i] = c[i]
  <2>1. a[i] = s[k + i]
    <3>1. i \in 1..(n - (k + 1) + 1) /\ (k + 1) + i - 1 = k + i
      OBVIOUS
    <3> QED
      BY <1>4, <3>1
  <2>2. CASE i = 1
    <3>1. c[1] = x
      BY <1>7, <1>8
    <3> QED
      BY <1>6, <2>1, <2>2, <3>1
  <2>3. CASE i # 1
    <3>1. PICK j \in 1..(n - k - 1) : i = 1 + j
      <4>1. i - 1 \in 1..(n - k - 1) /\ i = 1 + (i - 1)
        BY <2>3
      <4> QED
        BY <4>1
    <3>2. c[1 + j] = b[j]
      BY <1>7, <1>8, <1>9
    <3>3. b[j] = s[k + i]
      <4>1. j \in 1..(n - (k + 2) + 1) /\ (k + 2) + j - 1 = k + i
        BY <3>1
      <4> QED
        BY <1>5, <4>1
    <3> QED
      BY <2>1, <3>1, <3>2, <3>3, Zenon
  <2> QED
    BY <2>2, <2>3
<1>11. a = c
  BY <1>9, <1>10, SameSeq
<1> QED
  BY <1>1, <1>4, <1>5, <1>6, <1>7, <1>8, <1>11, Zenon

\* Of an encoded text, the decoding gives back one byte after the other.
LEMMA OneDecoded ==
    ASSUME NEW c \in 0..255, NEW e, NEW d, NEW x \in Nat,
           x + Len(Escape(c)) <= Len(e), Len(e) \in Nat,
           \A j \in 1..Len(Escape(c)) : e[x + j] = Escape(c)[j],
           d[x + 1] = DecodedAt(e, d, x + 1)
    PROVE  d[x + 1] = <<c>> \o d[x + Len(Escape(c)) + 1]
<1>1. CASE c = Space /\ Escape(c) = <<Plus>>
  <2>1. Len(Escape(c)) = 1 /\ Escape(c)[1] = Plus
    BY <1>1
  <2>2. e[x + 1] = Plus
    BY <2>1
  <2>3. d[x + 1] = <<c>> \o d[x + 1 + 1]
    BY <1>1, <2>2, Zenon DEF DecodedAt
  <2> QED
    BY <2>1, <2>3
<1>2. CASE c \notin {Plus, Percent} /\ Escape(c) = <<c>>
  <2>1. Len(Escape(c)) = 1 /\ Escape(c)[1] = c
    BY <1>2
  <2>2. e[x + 1] = c
    BY <2>1
  <2>3. e[x + 1] # Plus /\ e[x + 1] # Percent
    BY <1>2, <2>2
  <2>4. d[x + 1] = <<c>> \o d[x + 1 + 1]
    BY <2>2, <2>3, Zenon DEF DecodedAt, Escapes
  <2> QED
    BY <2>1, <2>4
<1>3. ASSUME NEW h \in 48..70, NEW l \in 48..70,
             Escape(c) = <<Percent, h, l>>, HexValue(h) >= 0, HexValue(l) >= 0,
             16 * HexValue(h) + HexValue(l) = c
      PROVE  d[x + 1] = <<c>> \o d[x + Len(Escape(c)) + 1]
  <2>1. /\ Len(Escape(c)) = 3 /\ Escape(c)[1] = Percent
        /\ Escape(c)[2] = h /\ Escape(c)[3] = l
    BY <1>3
  <2>2. /\ e[x + 1] = Percent /\ e[x + 2] = h /\ e[x + 3] = l
        /\ x + 3 <= Len(e) /\ x + 2 <= Len(e)
    BY <2>1
  <2>3. x + 1 + 1 = x + 2 /\ x + 1 + 2 = x + 3 /\ x + 1 + 3 = x + 3 + 1
    OBVIOUS
  <2>4. HexAt(e, x + 1 + 1) = HexValue(h) /\ HexAt(e, x + 1 + 2) = HexValue(l)
    BY <2>2, <2>3, Zenon DEF HexAt
  <2>5. e[x + 1] # Plus /\ Escapes(e, x + 1)
    <3>1. Percent # Plus
      BY DEF Percent, Plus
    <3> QED
      BY <1>3, <2>2, <2>4, <3>1, Zenon DEF Escapes
  <2>6. d[x + 1] = <<16 * HexAt(e, x + 1 + 1) + HexAt(e, x + 1 + 2)>> \o d[x + 1 + 3]
    BY <2>5, Zenon DEF DecodedAt
  <2>7. d[x + 1] = <<c>> \o d[x + 3 + 1]
    BY <1>3, <2>3, <2>4, <2>6, Zenon
  <2> QED
    BY <2>1, <2>7, Zenon
<1> QED
  BY <1>1, <1>2, <1>3, Escaped, ZenonT(30)

\* zhHttpUrlDecode undoes zhHttpUrlEncode.
LEMMA DecodeEncoded ==
    ASSUME NEW text \in Seq(0..255)
    PROVE  UrlEncode(text) \in Seq(0..255) /\ UrlDecode(UrlEncode(text)) = text
<1>1. PICK n \in Nat : n = Len(text) /\ DOMAIN text = 1..n
  OBVIOUS
<1>2. PICK q : q = [i \in DOMAIN text |-> Escape(text[i])]
  OBVIOUS
<1>3. \A i \in 1..n : text[i] \in 0..255 /\ q[i] = Escape(text[i]) /\ q[i] \in Seq(0..255)
  <2> TAKE i \in 1..n
  <2>1. text[i] \in 0..255
    BY <1>1
  <2>2. q[i] = Escape(text[i])
    BY <1>1, <1>2
  <2> QED
    BY <2>1, <2>2, Escaped, ZenonT(30)
<1>4. q \in Seq(Seq(0..255)) /\ Len(q) = n
  <2>1. q \in [1..n -> Seq(0..255)]
    BY <1>1, <1>2, <1>3
  <2> QED
    BY <2>1, FunSeq
<1>5. PICK e \in Seq(0..255) : e = FlattenSeq(q)
  BY <1>4, Flattened
<1>6. e = UrlEncode(text)
  BY <1>2, <1>5, Zenon DEF UrlEncode
<1>7. PICK p : Parts(q, e, p)
  BY <1>4, <1>5, Flattened
<1>8. e \in Seq(Nat)
  <2>1. \A x \in 0..255 : x \in Nat
    OBVIOUS
  <2> QED
    BY <2>1, Widen
<1>9. PICK d : /\ UrlDecode(e) = d[1] /\ d[Len(e) + 1] = <<>>
               /\ \A i \in 1..Len(e) : d[i] = DecodedAt(e, d, i)
  BY <1>8, DecodeSteps
<1>10. /\ p[0] = 0 /\ p[n] = Len(e)
       /\ \A k \in 0..n : p[k] \in 0..Len(e)
       /\ \A k \in 1..n : p[k] = p[k - 1] + Len(q[k])
       /\ \A k \in 1..n : \A j \in 1..Len(q[k]) : e[p[k - 1] + j] = q[k][j]
  BY <1>4, <1>7, Zenon DEF Parts
<1> DEFINE T == {k \in 0..n : d[p[k] + 1] = SubSeq(text, k + 1, n)}
<1>11. n \in T
  <2>1. SubSeq(text, n + 1, n) = <<>>
    BY <1>1
  <2>2. n \in 0..n
    OBVIOUS
  <2> QED
    BY <1>9, <1>10, <2>1, <2>2, Zenon
<1>12. ASSUME NEW k \in 0..(n - 1), k + 1 \in T PROVE k \in T
  <2>1. PICK m \in 1..n : m = k + 1
    OBVIOUS
  <2>2. k \in 0..n /\ m \in 0..n /\ m - 1 = k /\ m + 1 = k + 2
    BY <2>1
  <2>3. PICK c \in 0..255 : c = text[m]
    BY <1>3
  <2>4. q[m] = Escape(c)
    BY <1>3, <2>3
  <2>5. PICK x \in Nat : x = p[k]
    <3>1. Len(e) \in Nat /\ p[k] \in 0..Len(e)
      BY <1>10, <2>2
    <3> QED
      BY <3>1
  <2>6. p[m] = x + Len(Escape(c)) /\ \A j \in 1..Len(Escape(c)) : e[x + j] = Escape(c)[j]
    BY <1>10, <2>2, <2>4, <2>5, Zenon
  <2>7. x + Len(Escape(c)) <= Len(e) /\ Len(e) \in Nat
    <3>1. Len(e) \in Nat /\ p[m] \in 0..Len(e)
      BY <1>10, <2>2
    <3> QED
      BY <2>6, <3>1
  <2>8. x + 1 \in 1..Len(e)
    <3>1. Len(Escape(c)) >= 1
      <4>1. Escape(c) = <<Plus>> \/ Escape(c) = <<c>> \/ \E h, l \in 48..70 : Escape(c) = <<Percent, h, l>>
        BY Escaped, Zenon
      <4>2. CASE Escape(c) = <<Plus>>
        BY <4>2
      <4>3. CASE Escape(c) = <<c>>
        BY <4>3
      <4>4. ASSUME NEW h \in 48..70, NEW l \in 48..70, Escape(c) = <<Percent, h, l>>
            PROVE  Len(Escape(c)) >= 1
        BY <4>4
      <4> QED
        BY <4>1, <4>2, <4>3, <4>4, Zenon
    <3>2. Len(Escape(c)) \in Nat
      <4>1. Escape(c) \in Seq(0..255)
        BY Escaped, ZenonT(30)
      <4> QED
        BY <4>1
    <3> QED
      BY <2>7, <3>1, <3>2
  <2>9. d[x + 1] = DecodedAt(e, d, x + 1)
    BY <1>9, <2>8
  <2>10. d[x + 1] = <<c>> \o d[x + Len(Escape(c)) + 1]
    BY <2>6, <2>7, <2>9, OneDecoded, ZenonT(30)
  <2>11. d[p[m] + 1] = SubSeq(text, m + 1, n)
    BY <1>12, <2>1
  <2>12. d[p[k] + 1] = <<text[k + 1]>> \o SubSeq(text, k + 2, n)
    BY <2>1, <2>2, <2>3, <2>5, <2>6, <2>10, <2>11, Zenon
  <2>13. SubSeq(text, k + 1, n) = <<text[k + 1]>> \o SubSeq(text, k + 2, n)
    BY <1>1, HeadTail
  <2>14. d[p[k] + 1] = SubSeq(text, k + 1, n)
    BY <2>12, <2>13, Zenon
  <2> QED
    BY <2>2, <2>14
<1> HIDE DEF T
<1>13. \A k \in 0..n : k \in T
  BY <1>11, <1>12, DownTo
<1>14. 0 \in T
  BY <1>13
<1>15. d[p[0] + 1] = SubSeq(text, 0 + 1, n)
  BY <1>14 DEF T
<1>16. p[0] + 1 = 1 /\ 0 + 1 = 1
  BY <1>10
<1>17. SubSeq(text, 1, n) = text
  BY <1>1
<1>18. UrlDecode(e) = text
  BY <1>9, <1>15, <1>16, <1>17, Zenon
<1> QED
  BY <1>5, <1>6, <1>18, Zenon

\* Encoded, put into a frame of either protocol, taken out of it and decoded, any
\* text is what it was (zhHttpUrlEncode, zhWebSockSendData, zhHttpUrlDecode): no
\* byte of a text is taken for an escape or for an end of the frame.  Longer
\* frames than two bytes can say zhWebSockSendData does not make.
THEOREM TextsRestored ==
    /\ \A text \in Seq(0..255), m \in {1, 2} :
          Len(UrlEncode(text)) < Base * Base => RestoredFor(text, m)
    /\ Restored
<1>1. ASSUME NEW text \in Seq(0..255), NEW m \in {1, 2}
      PROVE  RestoredFor(text, m)
  <2>1. PICK e \in Seq(0..255) : e = UrlEncode(text) /\ UrlDecode(e) = text
    BY DecodeEncoded
  <2>2. e \in Seq(Nat)
    <3>1. \A x \in 0..255 : x \in Nat
      OBVIOUS
    <3> QED
      BY <3>1, Widen
  <2>3. \A b \in Nat : b \in Nat
    OBVIOUS
  <2>4. ClientReads(m, SendData(m, e)) = e
    BY <2>2, <2>3, ReadsSent
  <2> QED
    BY <2>1, <2>4, Zenon DEF RestoredFor
<1>2. ASSUME NEW text \in Texts PROVE text \in Seq(0..255)
  <2>1. CASE text \in {<<b>> : b \in 1..255}
    <3>1. PICK b \in 1..255 : text = <<b>>
      BY <2>1
    <3>2. b \in 0..255
      OBVIOUS
    <3> QED
      BY <3>1, <3>2
  <2>2. CASE text \in {Space, Percent, Plus, 50, 70, 102} \X {Percent, Plus, 50, 70, 102}
    <3>1. PICK a \in {Space, Percent, Plus, 50, 70, 102}, b \in {Percent, Plus, 50, 70, 102} :
               text = <<a, b>>
      BY <2>2
    <3>2. a \in 0..255 /\ b \in 0..255
      BY DEF Space, Percent, Plus
    <3>3. <<a, b>> \in Seq(0..255)
      BY <3>2
    <3> QED
      BY <3>1, <3>3
  <2> QED
    BY <2>1, <2>2, Zenon DEF Texts
<1>3. Restored
  BY <1>1, <1>2, Zenon DEF Restored
<1> QED
  BY <1>1, <1>3, Zenon

-----------------------------------------------------------------------------
(* The padding of the digests *)

LEMMA Assoc == ASSUME NEW a \in Seq(Nat), NEW b \in Seq(Nat), NEW c \in Seq(Nat)
               PROVE  (a \o b) \o c = a \o (b \o c)
BY SMTT(20)

Regrouped(a, b, c) == (a \o b) \o c = a \o (b \o c)

LEMMA Regroup == ASSUME NEW a \in Seq(Nat), NEW b \in Seq(Nat), NEW c \in Seq(Nat)
                 PROVE  Regrouped(a, b, c)
BY Assoc, Zenon DEF Regrouped

-----------------------------------------------------------------------------
(* The padding of the digests *)

Row == [1..BlockLen -> Nat]

\* The whole blocks of m, and the r bytes behind them, are collected.
Collects(m, blocks, part, r) ==
    /\ m \in Seq(Nat) /\ blocks \in Seq(Row) /\ part \in Row
    /\ r \in 0..(BlockLen - 1)
    /\ Len(m) = BlockLen * Len(blocks) + r
    /\ \A j \in 1..Len(blocks) : \A i \in 1..BlockLen : blocks[j][i] = m[BlockLen * (j - 1) + i]
    /\ \A i \in 1..r : part[i] = m[BlockLen * Len(blocks) + i]

\* part, with t behind its first r bytes.
Continues(part, r, t, q) ==
    /\ q \in Row
    /\ \A i \in 1..r : q[i] = part[i]
    /\ \A i \in 1..Len(t) : q[r + i] = t[i]

LEMMA AppendOf ==
    ASSUME NEW S, NEW s \in Seq(S), NEW x \in S
    PROVE  /\ Append(s, x) \in Seq(S) /\ Len(Append(s, x)) = Len(s) + 1
           /\ Append(s, x)[Len(s) + 1] = x
           /\ \A j \in 1..Len(s) : Append(s, x)[j] = s[j]
OBVIOUS

\* Where byte i of block k is.
LEMMA InBlocks ==
    ASSUME NEW a \in Nat, NEW n \in Nat, NEW k \in 1..n, NEW i \in 1..BlockLen, NEW j \in Nat,
           a + k = j, NEW x, x = BlockLen * (k - 1) + i
    PROVE  x \in 1..(BlockLen * n) /\ BlockLen * a + 0 + x = BlockLen * (j - 1) + i
BY DEF BlockLen

Still(m, blocks, part, r, t, u) ==
    /\ u \in Seq(Nat) /\ Len(u) = Len(m) + Len(t)
    /\ \A j \in 1..Len(blocks) : \A i \in 1..BlockLen : blocks[j][i] = u[BlockLen * (j - 1) + i]
    /\ \A i \in 1..r : part[i] = u[BlockLen * Len(blocks) + i]
    /\ \A i \in 1..Len(t) : u[BlockLen * Len(blocks) + r + i] = t[i]

\* What has been collected stays so when the message goes on.
LEMMA CollectsStill ==
    ASSUME NEW m, NEW blocks, NEW part, NEW r, Collects(m, blocks, part, r), NEW t \in Seq(Nat),
           NEW u, u = m \o t
    PROVE  Still(m, blocks, part, r, t, u)
<1>1. m \in Seq(Nat)
  BY DEF Collects
<1>2. /\ u \in Seq(Nat) /\ Len(u) = Len(m) + Len(t)
      /\ \A i \in 1..Len(m) : u[i] = m[i]
      /\ \A i \in 1..Len(t) : u[Len(m) + i] = t[i]
  BY <1>1, Cat
<1>3. m \in Seq(Nat) /\ Len(m) = 64 * Len(blocks) + r /\ r \in 0..63 /\ Len(blocks) \in Nat
  BY DEF Collects, BlockLen
<1>4. ASSUME NEW j \in 1..Len(blocks), NEW i \in 1..BlockLen
      PROVE  blocks[j][i] = u[BlockLen * (j - 1) + i]
  <2>1. PICK k : k = BlockLen * (j - 1) + i
    OBVIOUS
  <2>2. k \in 1..Len(m)
    BY <1>3, <2>1, SMTT(20) DEF BlockLen
  <2>3. blocks[j][i] = m[k]
    BY <2>1, Zenon DEF Collects
  <2> QED
    BY <1>2, <2>1, <2>2, <2>3, Zenon
<1>5. ASSUME NEW i \in 1..r PROVE part[i] = u[BlockLen * Len(blocks) + i]
  <2>1. PICK k : k = BlockLen * Len(blocks) + i
    OBVIOUS
  <2>2. k \in 1..Len(m)
    BY <1>3, <2>1 DEF BlockLen
  <2>3. part[i] = m[k]
    BY <2>1, Zenon DEF Collects
  <2> QED
    BY <1>2, <2>1, <2>2, <2>3, Zenon
<1>6. ASSUME NEW i \in 1..Len(t) PROVE u[BlockLen * Len(blocks) + r + i] = t[i]
  <2>1. BlockLen * Len(blocks) + r + i = Len(m) + i
    BY <1>3 DEF BlockLen
  <2> QED
    BY <1>2, <2>1
<1> QED
  BY <1>2, <1>4, <1>5, <1>6, Zenon DEF Still

\* The block does not get full, and it does.
LEMMA CollectsMore ==
    ASSUME NEW m, NEW blocks, NEW part, NEW r, Collects(m, blocks, part, r),
           NEW t \in Seq(Nat), r + Len(t) < BlockLen, NEW q, Continues(part, r, t, q)
    PROVE  Collects(m \o t, blocks, q, r + Len(t))
<1>1. PICK u : u = m \o t
  OBVIOUS
<1>2. /\ u \in Seq(Nat) /\ Len(u) = Len(m) + Len(t)
      /\ \A j \in 1..Len(blocks) : \A i \in 1..BlockLen : blocks[j][i] = u[BlockLen * (j - 1) + i]
      /\ \A i \in 1..r : part[i] = u[BlockLen * Len(blocks) + i]
      /\ \A i \in 1..Len(t) : u[BlockLen * Len(blocks) + r + i] = t[i]
  <2>1. Still(m, blocks, part, r, t, u)
    BY <1>1, CollectsStill, Zenon
  <2> QED
    BY <2>1, Zenon DEF Still
<1>3. blocks \in Seq(Row) /\ r \in 0..63 /\ Len(m) = 64 * Len(blocks) + r /\ Len(blocks) \in Nat
  BY DEF Collects, BlockLen
<1>4. PICK s : s = r + Len(t)
  OBVIOUS
<1>5. s \in 0..(BlockLen - 1) /\ Len(u) = BlockLen * Len(blocks) + s
  <2>1. Len(u) = Len(m) + Len(t) /\ Len(t) \in Nat
    BY <1>2
  <2>2. r + Len(t) < 64
    BY DEF BlockLen
  <2>3. r \in 0..63 /\ Len(m) = 64 * Len(blocks) + r /\ Len(blocks) \in Nat /\ s = r + Len(t)
    BY <1>3, <1>4
  <2>4. PICK l \in Nat : l = Len(t)
    BY <2>1
  <2>5. r + l < 64 /\ s = r + l
    BY <2>2, <2>3, <2>4, Zenon
  <2>6. s \in 0..63
    <3>1. r \in 0..63
      BY <2>3
    <3> QED
      BY <2>5, <3>1
  <2>7. PICK a \in Nat : a = Len(blocks)
    BY <2>3
  <2>8. Len(u) = (64 * a + r) + l
    BY <2>1, <2>3, <2>4, <2>7, Zenon
  <2>9. Len(u) = 64 * a + s
    BY <2>3, <2>5, <2>8, SMTT(20)
  <2> QED
    BY <2>6, <2>7, <2>9 DEF BlockLen
<1>6. ASSUME NEW i \in 1..s PROVE q[i] = u[BlockLen * Len(blocks) + i]
  <2>1. CASE i <= r
    <3>1. i \in 1..r
      BY <1>3, <1>4, <2>1
    <3> QED
      BY <1>2, <3>1, Zenon DEF Continues
  <2>2. CASE ~(i <= r)
    <3>1. PICK k : k = i - r
      OBVIOUS
    <3>2. k \in 1..Len(t) /\ r + k = i /\ BlockLen * Len(blocks) + r + k = BlockLen * Len(blocks) + i
      BY <1>3, <1>4, <2>2, <3>1 DEF BlockLen
    <3>3. q[r + k] = t[k]
      BY <3>2, Zenon DEF Continues
    <3>4. u[BlockLen * Len(blocks) + r + k] = t[k]
      BY <1>2, <3>2, Zenon
    <3> QED
      BY <3>2, <3>3, <3>4, Zenon
  <2> QED
    BY <2>1, <2>2
<1>7. q \in Row
  BY DEF Continues
<1> QED
  BY <1>1, <1>2, <1>3, <1>4, <1>5, <1>6, <1>7, Zenon DEF Collects

LEMMA CollectsBlock ==
    ASSUME NEW m, NEW blocks, NEW part, NEW r, Collects(m, blocks, part, r),
           NEW t \in Seq(Nat), r + Len(t) = BlockLen, NEW q, Continues(part, r, t, q), NEW p \in Row
    PROVE  Collects(m \o t, Append(blocks, q), p, 0)
<1>1. PICK u : u = m \o t
  OBVIOUS
<1>2. /\ u \in Seq(Nat) /\ Len(u) = Len(m) + Len(t)
      /\ \A j \in 1..Len(blocks) : \A i \in 1..BlockLen : blocks[j][i] = u[BlockLen * (j - 1) + i]
      /\ \A i \in 1..r : part[i] = u[BlockLen * Len(blocks) + i]
      /\ \A i \in 1..Len(t) : u[BlockLen * Len(blocks) + r + i] = t[i]
  <2>1. Still(m, blocks, part, r, t, u)
    BY <1>1, CollectsStill, Zenon
  <2> QED
    BY <2>1, Zenon DEF Still
<1>3. blocks \in Seq(Row) /\ r \in 0..63 /\ Len(m) = 64 * Len(blocks) + r /\ Len(blocks) \in Nat
  BY DEF Collects, BlockLen
<1>4. q \in Row
  BY DEF Continues
<1>5. PICK b \in Seq(Row) : b = Append(blocks, q)
  <2>1. blocks \in Seq(Row)
    BY <1>3
  <2> QED
    BY <1>4, <2>1, AppendOf, Zenon
<1>6. /\ Len(b) = Len(blocks) + 1 /\ b[Len(blocks) + 1] = q
      /\ \A j \in 1..Len(blocks) : b[j] = blocks[j]
  BY <1>3, <1>4, <1>5
<1>7. Len(u) = BlockLen * Len(b) + 0 /\ 0 \in 0..(BlockLen - 1) /\ \A i \in 1..0 : FALSE
  <2>1. Len(u) = Len(m) + Len(t) /\ Len(t) \in Nat /\ Len(b) = Len(blocks) + 1
    BY <1>2, <1>6
  <2> QED
    BY <1>3, <2>1, SMTT(20) DEF BlockLen
<1>8. ASSUME NEW i \in 1..BlockLen PROVE q[i] = u[BlockLen * Len(blocks) + i]
  <2>1. CASE i <= r
    <3>1. i \in 1..r
      BY <1>3, <2>1 DEF BlockLen
    <3> QED
      BY <1>2, <3>1, Zenon DEF Continues
  <2>2. CASE ~(i <= r)
    <3>1. PICK k : k = i - r
      OBVIOUS
    <3>2. k \in 1..Len(t) /\ r + k = i /\ BlockLen * Len(blocks) + r + k = BlockLen * Len(blocks) + i
      BY <1>3, <2>2, <3>1 DEF BlockLen
    <3>3. q[r + k] = t[k]
      BY <3>2, Zenon DEF Continues
    <3>4. u[BlockLen * Len(blocks) + r + k] = t[k]
      BY <1>2, <3>2, Zenon
    <3> QED
      BY <3>2, <3>3, <3>4, Zenon
  <2> QED
    BY <2>1, <2>2
<1>9. ASSUME NEW j \in 1..Len(b), NEW i \in 1..BlockLen
      PROVE  b[j][i] = u[BlockLen * (j - 1) + i]
  <2>1. CASE j = Len(b)
    <3>1. j = Len(blocks) + 1 /\ j - 1 = Len(blocks)
      BY <1>3, <1>6, <2>1
    <3> QED
      BY <1>6, <1>8, <3>1, Zenon
  <2>2. CASE j # Len(b)
    <3>1. j \in 1..Len(blocks)
      BY <1>3, <1>6, <2>2
    <3> QED
      <4>1. b[j] = blocks[j]
        BY <1>6, <3>1, Zenon
      <4>2. blocks[j][i] = u[BlockLen * (j - 1) + i]
        BY <1>2, <3>1, Zenon
      <4> QED
        BY <4>1, <4>2, Zenon
  <2> QED
    BY <2>1, <2>2
<1> QED
  BY <1>1, <1>2, <1>5, <1>7, <1>9, ZenonT(30) DEF Collects

\* t, in blocks.
CutInto(t, rows) ==
    /\ t \in Seq(Nat) /\ rows \in Seq(Row) /\ Len(t) = BlockLen * Len(rows)
    /\ \A k \in 1..Len(rows) : \A i \in 1..BlockLen : rows[k][i] = t[BlockLen * (k - 1) + i]

\* Whole blocks follow whole blocks.
LEMMA CollectsBlocks ==
    ASSUME NEW m, NEW blocks, NEW part, Collects(m, blocks, part, 0),
           NEW t, NEW rows, CutInto(t, rows), NEW p \in Row
    PROVE  Collects(m \o t, blocks \o rows, p, 0)
<1>0. t \in Seq(Nat) /\ rows \in Seq(Row) /\ Len(t) = BlockLen * Len(rows)
  BY DEF CutInto
<1>1. PICK u : u = m \o t
  OBVIOUS
<1>2. /\ u \in Seq(Nat) /\ Len(u) = Len(m) + Len(t)
      /\ \A j \in 1..Len(blocks) : \A i \in 1..BlockLen : blocks[j][i] = u[BlockLen * (j - 1) + i]
      /\ \A i \in 1..Len(t) : u[BlockLen * Len(blocks) + 0 + i] = t[i]
  <2>1. Still(m, blocks, part, 0, t, u)
    BY <1>1, <1>0, CollectsStill, Zenon
  <2> QED
    BY <2>1, Zenon DEF Still
<1>3. blocks \in Seq(Row) /\ Len(m) = 64 * Len(blocks) /\ Len(blocks) \in Nat /\ Len(rows) \in Nat
  BY <1>0 DEF Collects, BlockLen
<1>4. PICK b \in Seq(Row) : b = blocks \o rows
  BY <1>0, <1>3, Cat, Zenon
<1>5. /\ Len(b) = Len(blocks) + Len(rows)
      /\ \A j \in 1..Len(blocks) : b[j] = blocks[j]
      /\ \A k \in 1..Len(rows) : b[Len(blocks) + k] = rows[k]
  <2>1. blocks \in Seq(Row)
    BY <1>3
  <2>2. rows \in Seq(Row)
    BY <1>0
  <2> QED
    BY <1>4, <2>1, <2>2, Cat
<1>6. Len(u) = BlockLen * Len(b) + 0 /\ 0 \in 0..(BlockLen - 1) /\ \A i \in 1..0 : FALSE
  <2>1. Len(u) = Len(m) + Len(t) /\ Len(b) = Len(blocks) + Len(rows)
    BY <1>2, <1>5
  <2> QED
    BY <1>0, <1>3, <2>1 DEF BlockLen
<1>7. ASSUME NEW j \in 1..Len(b), NEW i \in 1..BlockLen
      PROVE  b[j][i] = u[BlockLen * (j - 1) + i]
  <2>1. CASE j <= Len(blocks)
    <3>1. j \in 1..Len(blocks)
      BY <1>3, <2>1
    <3> QED
      BY <1>2, <1>5, <3>1, Zenon
  <2>2. CASE ~(j <= Len(blocks))
    <3>1. PICK k : k = j - Len(blocks)
      OBVIOUS
    <3>2. k \in 1..Len(rows) /\ Len(blocks) + k = j
      BY <1>3, <1>5, <2>2, <3>1
    <3>3. b[j][i] = rows[k][i]
      BY <1>5, <3>2, Zenon
    <3>4. PICK x : x = BlockLen * (k - 1) + i
      OBVIOUS
    <3>5. x \in 1..Len(t) /\ BlockLen * Len(blocks) + 0 + x = BlockLen * (j - 1) + i
      <4>1. j \in Nat
        OBVIOUS
      <4>2. x \in 1..(BlockLen * Len(rows)) /\ BlockLen * Len(blocks) + 0 + x = BlockLen * (j - 1) + i
        <5>1. PICK a \in Nat : a = Len(blocks)
          BY <1>3
        <5>2. PICK n \in Nat : n = Len(rows)
          BY <1>3
        <5>3. k \in 1..n /\ a + k = j
          BY <3>2, <5>1, <5>2, Zenon
        <5>4. x \in 1..(BlockLen * n) /\ BlockLen * a + 0 + x = BlockLen * (j - 1) + i
          <6>1. i \in 1..BlockLen
            OBVIOUS
          <6> QED
            BY <3>4, <4>1, <5>3, <6>1 DEF BlockLen
        <5> QED
          BY <5>1, <5>2, <5>4, Zenon
      <4> QED
        BY <1>0, <4>2, Zenon
    <3>6. rows[k][i] = t[x]
      BY <3>2, <3>4, Zenon DEF CutInto
    <3>7. u[BlockLen * Len(blocks) + 0 + x] = t[x]
      BY <1>2, <3>5, Zenon
    <3> QED
      BY <3>3, <3>5, <3>6, <3>7, Zenon
  <2> QED
    BY <2>1, <2>2
<1> QED
  BY <1>1, <1>2, <1>4, <1>6, <1>7, Zenon DEF Collects

\* One behind the other, the blocks are the message.
LEMMA CollectsFlat ==
    ASSUME NEW m, NEW blocks, NEW part, Collects(m, blocks, part, 0)
    PROVE  FlattenSeq(blocks) = m
<1>1. PICK n \in Nat : n = Len(blocks)
  BY DEF Collects
<1>2. m \in Seq(Nat) /\ blocks \in Seq(Row) /\ Len(m) = BlockLen * n
  BY <1>1 DEF Collects, BlockLen
<1>3. \A x \in Row : x \in Seq(Nat) /\ Len(x) = BlockLen
  BY FunSeq DEF Row, BlockLen
<1>4. blocks \in Seq(Seq(Nat))
  BY <1>2, <1>3, Widen
<1>5. PICK e \in Seq(Nat) : e = FlattenSeq(blocks)
  BY <1>4, Flattened
<1>6. PICK p : Parts(blocks, e, p)
  BY <1>4, <1>5, Flattened
<1>7. \A k \in 1..n : Len(blocks[k]) = BlockLen
  BY <1>1, <1>2, <1>3
<1> DEFINE T == {k \in 0..n : p[k] = BlockLen * k}
<1>8. 0 \in T
  <2>1. p[0] = 0
    BY <1>6 DEF Parts
  <2> QED
    BY <2>1 DEF BlockLen
<1>9. ASSUME NEW k \in 0..(n - 1), k \in T PROVE k + 1 \in T
  <2>1. PICK j : j = k + 1
    OBVIOUS
  <2>2. j \in 1..n /\ j \in 0..n /\ j - 1 = k
    BY <2>1
  <2>3. p[j] = p[j - 1] + Len(blocks[j])
    BY <1>1, <1>6, <2>2 DEF Parts
  <2>4. p[j] = p[k] + BlockLen /\ p[k] = BlockLen * k
    BY <1>7, <1>9, <2>2, <2>3
  <2>5. p[j] = BlockLen * j
    BY <2>1, <2>2, <2>4 DEF BlockLen
  <2> QED
    BY <2>1, <2>2, <2>5
<1> HIDE DEF T
<1>10. \A k \in 0..n : k \in T
  BY <1>8, <1>9, UpTo
<1> USE DEF T
<1>11. Len(e) = Len(m)
  <2>1. p[n] = BlockLen * n /\ p[n] = Len(e)
    BY <1>1, <1>6, <1>10 DEF Parts
  <2> QED
    BY <1>2, <2>1
<1>12. ASSUME NEW x \in 1..Len(e) PROVE e[x] = m[x]
  <2>1. PICK k : k = (x - 1) \div 64
    OBVIOUS
  <2>2. k \in 0..(n - 1) /\ 64 * k < x /\ x <= 64 * k + 64
    BY <1>2, <1>11, <2>1 DEF BlockLen
  <2>3. PICK i : i = x - 64 * k
    OBVIOUS
  <2>4. PICK j : j = k + 1
    OBVIOUS
  <2>5. i \in 1..BlockLen /\ j \in 1..n /\ j - 1 = k /\ BlockLen * k + i = x /\ BlockLen * (j - 1) + i = x
    BY <2>2, <2>3, <2>4 DEF BlockLen
  <2>6. k \in 0..n
    BY <2>2
  <2>7. p[j - 1] = BlockLen * k
    BY <1>10, <2>5, <2>6
  <2>8. i \in 1..Len(blocks[j])
    BY <1>7, <2>5
  <2>9. e[p[j - 1] + i] = blocks[j][i]
    BY <1>1, <1>6, <2>5, <2>8, Zenon DEF Parts
  <2>10. blocks[j][i] = m[BlockLen * (j - 1) + i]
    BY <1>1, <2>5, Zenon DEF Collects
  <2> QED
    BY <2>5, <2>7, <2>9, <2>10, Zenon
<1>13. e = m
  BY <1>2, <1>11, <1>12, SameSeq
<1> QED
  BY <1>5, <1>13

\* What the steps of SHA-1 make of a context.
Put(block, index, byte) == [block EXCEPT ![index + 1] = byte]
Filled(block, index, n) == [i \in 1..BlockLen |-> IF i \in (index + 1)..n THEN 0 ELSE block[i]]

Is(c, block, index, bits, blocks) == c = Context(block, index, bits, blocks)

LEMMA ContextFields ==
    ASSUME NEW block, NEW index, NEW bits, NEW blocks, NEW c, Is(c, block, index, bits, blocks)
    PROVE  c.block = block /\ c.index = index /\ c.bits = bits /\ c.blocks = blocks
BY DEF Is, Context

LEMMA ContextFlags ==
    ASSUME NEW block, NEW index, NEW bits, NEW blocks, NEW c, Is(c, block, index, bits, blocks)
    PROVE  ~c.computed /\ ~c.corrupted
BY DEF Is, Context

LEMMA FullBlockOf ==
    ASSUME NEW block, NEW index, NEW bits, NEW blocks, NEW c, Is(c, block, index, bits, blocks)
    PROVE  Is(FullBlock(c), block, 0, bits, Append(blocks, block))
<1>1. /\ c.block = block /\ c.index = index /\ c.bits = bits /\ c.blocks = blocks
  BY DEF Is, Context
<1> QED
  BY <1>1, Zenon DEF Is, FullBlock

LEMMA PutByteOf ==
    ASSUME NEW block, NEW index, NEW bits, NEW blocks, NEW c, Is(c, block, index, bits, blocks), NEW byte
    PROVE  Is(PutByte(c, byte), Put(block, index, byte), index + 1, bits, blocks)
<1>1. /\ c.block = block /\ c.index = index /\ c.bits = bits /\ c.blocks = blocks
  BY DEF Is, Context
<1> QED
  BY <1>1, Zenon DEF Is, PutByte, Put

LEMMA FillToOf ==
    ASSUME NEW block, NEW index, NEW bits, NEW blocks, NEW c, Is(c, block, index, bits, blocks), NEW n
    PROVE  Is(FillTo(c, n), Filled(block, index, n), n, bits, blocks)
<1>1. /\ c.block = block /\ c.index = index /\ c.bits = bits /\ c.blocks = blocks
  BY DEF Is, Context
<1> QED
  BY <1>1, Zenon DEF Is, FillTo, Filled

LEMMA InputByteOf ==
    ASSUME NEW block, NEW index, NEW bits, NEW blocks, NEW c, Is(c, block, index, bits, blocks), NEW byte
    PROVE  LET put == Put(block, index, byte) IN
           /\ index + 1 = BlockLen => Is(InputByte(c, byte), put, 0, bits + 8, Append(blocks, put))
           /\ index + 1 # BlockLen => Is(InputByte(c, byte), put, index + 1, bits + 8, blocks)
<1>1. PICK put, next, sum : put = Put(block, index, byte) /\ next = index + 1 /\ sum = bits + 8
  OBVIOUS
<1>2. PICK d : d = PutByte(c, byte)
  OBVIOUS
<1>3. Is(d, put, next, bits, blocks)
  BY <1>1, <1>2, PutByteOf, Zenon
<1>4. PICK e : e = [d EXCEPT !.bits = @ + 8]
  OBVIOUS
<1>5. Is(e, put, next, sum, blocks)
  BY <1>1, <1>3, <1>4 DEF Is, Context
<1>6. InputByte(c, byte) = IF e.index = BlockLen THEN FullBlock(e) ELSE e
  <2>1. ~c.corrupted
    BY ContextFlags, Zenon
  <2> QED
    BY <1>2, <1>4, <2>1, Zenon DEF InputByte
<1>7. e.index = next
  BY <1>5 DEF Is, Context
<1>8. Is(FullBlock(e), put, 0, sum, Append(blocks, put))
  BY <1>5, FullBlockOf, Zenon
<1>9. CASE next = BlockLen
  <2>1. InputByte(c, byte) = FullBlock(e)
    BY <1>6, <1>7, <1>9, Zenon
  <2> QED
    BY <1>1, <1>8, <1>9, <2>1, Zenon
<1>10. CASE next # BlockLen
  <2>1. InputByte(c, byte) = e
    BY <1>6, <1>7, <1>10, Zenon
  <2> QED
    BY <1>1, <1>5, <1>10, <2>1, Zenon
<1> QED
  BY <1>9, <1>10

\* What the context of SHA-1 is when it was given m.
SHA1Holds(c, m) ==
    /\ Is(c, c.block, c.index, c.bits, c.blocks)
    /\ c.bits = 8 * Len(m)
    /\ Collects(m, c.blocks, c.block, c.index)

LEMMA SHA1HoldsOf ==
    ASSUME NEW block, NEW index, NEW bits, NEW blocks, NEW c, Is(c, block, index, bits, blocks),
           NEW m, bits = 8 * Len(m), Collects(m, blocks, block, index)
    PROVE  SHA1Holds(c, m)
<1>1. c.block = block /\ c.index = index /\ c.bits = bits /\ c.blocks = blocks
  BY DEF Is, Context
<1> QED
  BY <1>1, Zenon DEF SHA1Holds

LEMMA PutFollows ==
    ASSUME NEW block \in Row, NEW index \in 0..(BlockLen - 1), NEW byte \in Nat
    PROVE  Continues(block, index, <<byte>>, Put(block, index, byte))
<1>1. PICK put : put = Put(block, index, byte)
  OBVIOUS
<1>2. index + 1 \in 1..BlockLen
  BY DEF BlockLen
<1>3. put \in Row
  BY <1>1, <1>2 DEF Put, Row
<1>4. ASSUME NEW i \in 1..index PROVE put[i] = block[i]
  <2>1. i \in 1..BlockLen /\ i # index + 1
    BY DEF BlockLen
  <2> QED
    BY <1>1, <2>1 DEF Put, Row
<1>5. put[index + 1] = byte
  BY <1>1, <1>2 DEF Put, Row
<1>6. ASSUME NEW i \in 1..Len(<<byte>>) PROVE put[index + i] = <<byte>>[i]
  <2>1. i = 1 /\ <<byte>>[1] = byte
    OBVIOUS
  <2> QED
    BY <1>5, <2>1, Zenon
<1> QED
  BY <1>1, <1>3, <1>4, <1>6, Zenon DEF Continues

LEMMA ByteHolds ==
    ASSUME NEW c, NEW m, SHA1Holds(c, m), NEW byte \in Nat
    PROVE  SHA1Holds(InputByte(c, byte), m \o <<byte>>)
<1>1. PICK block, index, bits, blocks : Is(c, block, index, bits, blocks) /\ Collects(m, blocks, block, index) /\ bits = 8 * Len(m)
  BY Zenon DEF SHA1Holds
<1>2. block \in Row /\ index \in 0..(BlockLen - 1) /\ m \in Seq(Nat)
  BY <1>1, Zenon DEF Collects
<1>3. PICK put : put = Put(block, index, byte) /\ Continues(block, index, <<byte>>, put)
  BY <1>2, PutFollows, Zenon
<1>4. PICK t \in Seq(Nat) : t = <<byte>> /\ Len(t) = 1
  BY One, Zenon
<1>5. PICK u : u = m \o t
  OBVIOUS
<1>6. bits + 8 = 8 * Len(u)
  <2>1. Len(u) = Len(m) + 1 /\ Len(m) \in Nat
    BY <1>2, <1>4, <1>5
  <2> QED
    BY <1>1, <2>1
<1>7. Continues(block, index, t, put)
  BY <1>3, <1>4, Zenon
<1>8. CASE index + 1 = BlockLen
  <2>1. Is(InputByte(c, byte), put, 0, bits + 8, Append(blocks, put))
    BY <1>1, <1>3, <1>8, InputByteOf, Zenon
  <2>2. put \in Row /\ index + Len(t) = BlockLen
    BY <1>4, <1>7, <1>8, Zenon DEF Continues
  <2>3. Collects(u, Append(blocks, put), put, 0)
    BY <1>1, <1>5, <1>7, <2>2, CollectsBlock, Zenon
  <2>4. SHA1Holds(InputByte(c, byte), u)
    BY <1>6, <2>1, <2>3, SHA1HoldsOf, Zenon
  <2> QED
    BY <1>4, <1>5, <2>4, Zenon
<1>9. CASE index + 1 # BlockLen
  <2>1. Is(InputByte(c, byte), put, index + 1, bits + 8, blocks)
    BY <1>1, <1>3, <1>9, InputByteOf, Zenon
  <2>2. index + 1 < BlockLen
    BY <1>2, <1>9 DEF BlockLen
  <2>3. Collects(u, blocks, put, index + 1)
    BY <1>1, <1>4, <1>5, <1>7, <2>2, CollectsMore, Zenon
  <2>4. SHA1Holds(InputByte(c, byte), u)
    BY <1>6, <2>1, <2>3, SHA1HoldsOf, Zenon
  <2> QED
    BY <1>4, <1>5, <2>4, Zenon
<1> QED
  BY <1>8, <1>9

\* The rounds of the loop: there are such states, and the recursive function is one.
Rounds(c, bytes, k, g) == g[0] = c /\ \A i \in 1..k : g[i] = InputByte(g[i - 1], bytes[i])

LEMMA RoundsMore ==
    ASSUME NEW c, NEW bytes, NEW k \in Nat, NEW g, Rounds(c, bytes, k, g)
    PROVE  \E h : Rounds(c, bytes, k + 1, h)
<1>1. PICK v : v = InputByte(g[k], bytes[k + 1])
  OBVIOUS
<1>2. PICK h : h = [i \in 0..(k + 1) |-> IF i = k + 1 THEN v ELSE g[i]]
  OBVIOUS
<1>3. h[k + 1] = v /\ \A i \in 0..k : h[i] = g[i]
  BY <1>2
<1>4. h[0] = c
  <2>1. 0 \in 0..k
    OBVIOUS
  <2> QED
    BY <1>3, <2>1, Zenon DEF Rounds
<1>5. ASSUME NEW i \in 1..(k + 1) PROVE h[i] = InputByte(h[i - 1], bytes[i])
  <2>1. i - 1 \in 0..k
    OBVIOUS
  <2>2. h[i - 1] = g[i - 1]
    BY <1>3, <2>1
  <2>3. CASE i = k + 1
    <3>1. i - 1 = k
      BY <2>3
    <3> QED
      BY <1>1, <1>3, <2>2, <2>3, <3>1, Zenon
  <2>4. CASE i # k + 1
    <3>1. i \in 1..k /\ i \in 0..k
      BY <2>4
    <3>2. g[i] = InputByte(g[i - 1], bytes[i])
      BY <3>1, Zenon DEF Rounds
    <3> QED
      BY <1>3, <2>2, <3>1, <3>2, Zenon
  <2> QED
    BY <2>3, <2>4
<1> QED
  BY <1>4, <1>5, Zenon DEF Rounds

LEMMA RoundsExist ==
    ASSUME NEW c, NEW bytes, NEW n \in Nat
    PROVE  \E g : Rounds(c, bytes, n, g)
<1> DEFINE T == {k \in 0..n : \E g : Rounds(c, bytes, k, g)}
<1>1. 0 \in T
  <2>1. PICK g : g = [i \in {0} |-> c]
    OBVIOUS
  <2>2. g[0] = c /\ (\A i \in 1..0 : FALSE) /\ 0 \in 0..n
    BY <2>1
  <2>3. Rounds(c, bytes, 0, g)
    BY <2>2, Zenon DEF Rounds
  <2> QED
    BY <2>2, <2>3
<1>2. ASSUME NEW k \in 0..(n - 1), k \in T PROVE k + 1 \in T
  <2>1. k \in Nat /\ k + 1 \in 0..n
    OBVIOUS
  <2>2. PICK g : Rounds(c, bytes, k, g)
    BY <1>2
  <2>3. \E h : Rounds(c, bytes, k + 1, h)
    BY <2>1, <2>2, RoundsMore
  <2> QED
    BY <2>1, <2>3
<1> HIDE DEF T
<1>3. n \in 0..n /\ \A k \in 0..n : k \in T
  BY <1>1, <1>2, UpTo
<1>4. n \in T
  BY <1>3
<1> QED
  BY <1>4 DEF T

Loop(c, bytes, g) == [i \in 0..Len(bytes) |-> IF i = 0 THEN c ELSE InputByte(g[i - 1], bytes[i])]

LEMMA InputDef ==
    ASSUME NEW c, NEW bytes, bytes # <<>>, ~c.computed, ~c.corrupted
    PROVE  SHA1Input(c, bytes) = (CHOOSE g : g = Loop(c, bytes, g))[Len(bytes)]
BY DEF SHA1Input, Loop

LEMMA InputRounds ==
    ASSUME NEW c, NEW bytes \in Seq(Nat), bytes # <<>>, ~c.computed, ~c.corrupted
    PROVE  \E g : Rounds(c, bytes, Len(bytes), g) /\ SHA1Input(c, bytes) = g[Len(bytes)]
<1>1. PICK n \in Nat : n = Len(bytes)
  OBVIOUS
<1>2. PICK g : Rounds(c, bytes, n, g)
  BY RoundsExist
<1>3. PICK h : h = [i \in 0..n |-> g[i]]
  OBVIOUS
<1>4. ASSUME NEW i \in 0..n PROVE h[i] = IF i = 0 THEN c ELSE InputByte(h[i - 1], bytes[i])
  <2>1. CASE i = 0
    BY <1>2, <1>3, <2>1 DEF Rounds
  <2>2. CASE i # 0
    <3>1. i \in 1..n /\ i - 1 \in 0..n
      BY <2>2
    <3>2. g[i] = InputByte(g[i - 1], bytes[i])
      BY <1>2, <3>1, Zenon DEF Rounds
    <3>3. h[i] = g[i] /\ h[i - 1] = g[i - 1]
      BY <1>3, <3>1
    <3> QED
      BY <2>2, <3>2, <3>3, Zenon
  <2> QED
    BY <2>1, <2>2
<1>5. PICK f : f = [i \in 0..n |-> IF i = 0 THEN c ELSE InputByte(h[i - 1], bytes[i])]
  OBVIOUS
<1>6. \A i \in 0..n : h[i] = f[i]
  BY <1>4, <1>5, Zenon
<1>7. h = f
  BY <1>3, <1>5, <1>6
<1>8. h = Loop(c, bytes, h)
  BY <1>1, <1>5, <1>7, Zenon DEF Loop
<1>9. PICK e : e = CHOOSE x : x = Loop(c, bytes, x)
  OBVIOUS
<1>10. e = Loop(c, bytes, e)
  BY <1>8, <1>9
<1>11. SHA1Input(c, bytes) = e[n]
  BY <1>1, <1>9, InputDef
<1>12. \A i \in 0..n : e[i] = IF i = 0 THEN c ELSE InputByte(e[i - 1], bytes[i])
  BY <1>1, <1>10 DEF Loop
<1>13. 0 \in 0..n /\ \A i \in 1..n : i \in 0..n /\ i # 0
  OBVIOUS
<1>14. Rounds(c, bytes, n, e)
  BY <1>12, <1>13, Zenon DEF Rounds
<1> QED
  BY <1>1, <1>11, <1>14, Zenon

\* Whatever pieces it is given, SHA-1 holds all of them.
LEMMA InputHolds ==
    ASSUME NEW c, NEW m, SHA1Holds(c, m), NEW bytes \in Seq(Nat)
    PROVE  SHA1Holds(SHA1Input(c, bytes), m \o bytes)
<1>1. ~c.computed /\ ~c.corrupted
  BY DEF SHA1Holds, Is, Context
<1>2. m \in Seq(Nat)
  BY Zenon DEF SHA1Holds, Collects
<1>3. CASE bytes = <<>>
  <2>1. SHA1Input(c, bytes) = c
    BY <1>3, Zenon DEF SHA1Input
  <2>2. m \o bytes = m
    BY <1>2, <1>3
  <2> QED
    BY <2>1, <2>2, Zenon
<1>4. CASE bytes # <<>>
  <2>1. PICK n \in Nat : n = Len(bytes)
    OBVIOUS
  <2>2. PICK g : Rounds(c, bytes, n, g) /\ SHA1Input(c, bytes) = g[n]
    BY <1>1, <1>4, <2>1, InputRounds
  <2> DEFINE T == {k \in 0..n : SHA1Holds(g[k], m \o SubSeq(bytes, 1, k))}
  <2>3. 0 \in T
    <3>1. g[0] = c /\ m \o SubSeq(bytes, 1, 0) = m /\ 0 \in 0..n
      BY <1>2, <2>2 DEF Rounds
    <3> QED
      BY <3>1
  <2>4. ASSUME NEW k \in 0..(n - 1), k \in T PROVE k + 1 \in T
    <3>1. PICK j : j = k + 1
      OBVIOUS
    <3>2. j \in 1..n /\ j \in 0..n /\ j - 1 = k /\ k \in Nat
      BY <3>1
    <3>3. g[j] = InputByte(g[k], bytes[j])
      BY <2>2, <3>2 DEF Rounds
    <3>4. bytes[j] \in Nat
      BY <2>1, <3>2
    <3>5. PICK a \in Seq(Nat) : a = SubSeq(bytes, 1, k)
      <4>1. 1 \in 1..(Len(bytes) + 1) /\ k \in (1 - 1)..Len(bytes)
        BY <2>1
      <4> QED
        BY <4>1, SubPart
    <3>6. SubSeq(bytes, 1, j) = a \o <<bytes[j]>>
      BY <2>1, <3>1, <3>2, <3>5
    <3>7. (m \o a) \o <<bytes[j]>> = m \o (a \o <<bytes[j]>>)
      BY <1>2, <3>4, SMTT(20)
    <3>8. SHA1Holds(g[k], m \o a)
      BY <2>4, <3>5
    <3>9. SHA1Holds(InputByte(g[k], bytes[j]), (m \o a) \o <<bytes[j]>>)
      BY <3>4, <3>8, ByteHolds
    <3>10. SHA1Holds(g[j], m \o SubSeq(bytes, 1, j))
      BY <3>3, <3>6, <3>7, <3>9, Zenon
    <3> QED
      BY <3>1, <3>2, <3>10
  <2> HIDE DEF T
  <2>5. \A k \in 0..n : k \in T
    BY <2>3, <2>4, UpTo
  <2>6. n \in 0..n /\ SubSeq(bytes, 1, n) = bytes
    BY <2>1
  <2>7. n \in T
    BY <2>5, <2>6
  <2>8. SHA1Holds(g[n], m \o SubSeq(bytes, 1, n))
    BY <2>7 DEF T
  <2> QED
    BY <2>2, <2>6, <2>8, Zenon
<1> QED
  BY <1>3, <1>4

LEMMA RowSeq == ASSUME NEW x \in Row PROVE x \in Seq(Nat) /\ Len(x) = BlockLen
<1>1. \A y \in Row : y \in Seq(Nat) /\ Len(y) = BlockLen
  BY FunSeq DEF Row, BlockLen
<1> QED
  BY <1>1

LEMMA SeqRow == ASSUME NEW x \in Seq(Nat), Len(x) = BlockLen PROVE x \in Row
<1>1. x \in [1..Len(x) -> Nat]
  OBVIOUS
<1> QED
  BY <1>1, Zenon DEF Row

Joined(a, b, u) ==
    /\ u \in Seq(Nat) /\ Len(u) = Len(a) + Len(b)
    /\ \A i \in 1..Len(a) : u[i] = a[i]
    /\ \A i \in 1..Len(b) : u[Len(a) + i] = b[i]

LEMMA Joins == ASSUME NEW a \in Seq(Nat), NEW b \in Seq(Nat) PROVE Joined(a, b, a \o b)
BY Cat DEF Joined

\* The last block, the zeros and the number behind them.
LEMMA ZerosSeq == ASSUME NEW n \in Nat
                  PROVE  /\ Zeros(n) \in Seq(Nat) /\ Len(Zeros(n)) = n
                         /\ \A i \in 1..n : Zeros(n)[i] = 0
<1>1. Zeros(n) \in [1..n -> Nat] /\ \A i \in 1..n : Zeros(n)[i] = 0
  BY DEF Zeros
<1> QED
  BY <1>1, FunSeq

LEMMA EightSeq == ASSUME NEW n \in Nat
                  PROVE  EightBytes(n) \in Seq(Nat) /\ Len(EightBytes(n)) = 8
<1>1. Zeros(6) \in Seq(Nat) /\ Len(Zeros(6)) = 6
  BY ZerosSeq
<1>2. n \div 256 \in Nat /\ n % 256 \in Nat
  OBVIOUS
<1>3. PICK a \in Nat, b \in Nat : a = n \div 256 /\ b = n % 256
  BY <1>2
<1>4. <<a, b>> \in Seq(Nat) /\ Len(<<a, b>>) = 2
  OBVIOUS
<1>5. PICK y \in Seq(Nat), z \in Seq(Nat) : y = Zeros(6) /\ Len(y) = 6 /\ z = <<a, b>> /\ Len(z) = 2
  BY <1>1, <1>4
<1>6. y \o z \in Seq(Nat) /\ Len(y \o z) = 8
  <2>1. y \o z \in Seq(Nat) /\ Len(y \o z) = Len(y) + Len(z)
    BY Cat
  <2>2. Len(y) + Len(z) = 8
    <3>1. Len(y) = 6 /\ Len(z) = 2
      BY <1>5, Zenon
    <3> QED
      BY <3>1
  <2> QED
    BY <2>1, <2>2, Zenon
<1>7. EightBytes(n) = y \o z
  BY <1>3, <1>5, Zenon DEF EightBytes
<1> QED
  BY <1>6, <1>7, Zenon

LEMMA ZerosCat == ASSUME NEW j \in Nat, NEW k \in Nat
                  PROVE  Zeros(j) \o Zeros(k) = Zeros(j + k)
<1>1. PICK a \in Seq(Nat) : a = Zeros(j) /\ Len(a) = j /\ \A i \in 1..j : a[i] = 0
  BY ZerosSeq
<1>2. PICK b \in Seq(Nat) : b = Zeros(k) /\ Len(b) = k /\ \A i \in 1..k : b[i] = 0
  BY ZerosSeq
<1>3. j + k \in Nat
  OBVIOUS
<1>4. PICK c \in Seq(Nat) : c = Zeros(j + k) /\ Len(c) = j + k /\ \A i \in 1..(j + k) : c[i] = 0
  BY <1>3, ZerosSeq
<1>5. PICK u \in Seq(Nat) : u = a \o b
  BY Cat
<1>6. /\ Len(u) = j + k
      /\ \A i \in 1..j : u[i] = a[i]
      /\ \A i \in 1..k : u[j + i] = b[i]
  <2>1. /\ Len(u) = Len(a) + Len(b)
        /\ \A i \in 1..Len(a) : u[i] = a[i]
        /\ \A i \in 1..Len(b) : u[Len(a) + i] = b[i]
    BY <1>5, Cat
  <2> QED
    BY <1>1, <1>2, <2>1, Zenon
<1>7. ASSUME NEW i \in 1..(j + k) PROVE u[i] = c[i]
  <2>1. CASE i <= j
    <3>1. i \in 1..j
      BY <2>1
    <3> QED
      BY <1>1, <1>4, <1>6, <3>1, Zenon
  <2>2. CASE ~(i <= j)
    <3>1. PICK x : x = i - j
      OBVIOUS
    <3>2. x \in 1..k /\ j + x = i
      BY <2>2, <3>1
    <3>3. u[j + x] = b[x] /\ b[x] = 0 /\ c[i] = 0
      BY <1>2, <1>4, <1>6, <3>2, Zenon
    <3> QED
      BY <3>2, <3>3, Zenon
  <2> QED
    BY <2>1, <2>2
<1>8. u = c
  BY <1>4, <1>6, <1>7, SameSeq
<1> QED
  BY <1>1, <1>2, <1>4, <1>5, <1>8, Zenon

\* Zeros behind the first bytes of a block.
LEMMA FilledRow ==
    ASSUME NEW block \in Row, NEW index \in 0..BlockLen, NEW n \in index..BlockLen
    PROVE  /\ Filled(block, index, n) \in Row
           /\ \A i \in 1..index : Filled(block, index, n)[i] = block[i]
           /\ \A i \in 1..(n - index) : Filled(block, index, n)[index + i] = 0
<1>1. PICK f : f = Filled(block, index, n)
  OBVIOUS
<1>2. f \in Row
  BY <1>1 DEF Filled, Row
<1>3. ASSUME NEW i \in 1..index PROVE f[i] = block[i]
  <2>1. i \in 1..BlockLen /\ i \notin (index + 1)..n
    BY DEF BlockLen
  <2> QED
    BY <1>1, <2>1, Zenon DEF Filled
<1>4. ASSUME NEW i \in 1..(n - index) PROVE f[index + i] = 0
  <2>1. index + i \in 1..BlockLen /\ index + i \in (index + 1)..n
    BY DEF BlockLen
  <2> QED
    BY <1>1, <2>1, Zenon DEF Filled
<1> QED
  BY <1>1, <1>2, <1>3, <1>4

\* The number in the last eight bytes of a block.
LEMMA LastBlock ==
    ASSUME NEW block \in Row, NEW e \in Seq(Nat), Len(e) = 8
    PROVE  LET b == SubSeq(block, 1, LengthAt) \o e IN
           /\ b \in Row
           /\ \A i \in 1..LengthAt : b[i] = block[i]
           /\ \A i \in 1..8 : b[LengthAt + i] = e[i]
<1>1. block \in Seq(Nat) /\ Len(block) = 64
  BY RowSeq DEF BlockLen
<1>2. 1 \in 1..(Len(block) + 1) /\ LengthAt \in (1 - 1)..Len(block) /\ LengthAt - 1 + 1 = LengthAt /\ LengthAt \in Nat
  BY <1>1 DEF LengthAt
<1>3. PICK a \in Seq(Nat) : a = SubSeq(block, 1, LengthAt)
  BY <1>1, <1>2, SubPart
<1>4. Len(a) = LengthAt /\ \A i \in 1..LengthAt : a[i] = block[1 + i - 1]
  <2>1. Len(a) = LengthAt - 1 + 1 /\ \A i \in 1..(LengthAt - 1 + 1) : a[i] = block[1 + i - 1]
    BY <1>1, <1>2, <1>3, SubPart
  <2> QED
    BY <1>2, <2>1
<1>5. PICK b \in Seq(Nat) : b = a \o e
  BY Cat
<1>6. /\ Len(b) = 64
      /\ \A i \in 1..LengthAt : b[i] = a[i]
      /\ \A i \in 1..8 : b[LengthAt + i] = e[i]
  <2>1. /\ Len(b) = Len(a) + Len(e)
        /\ \A i \in 1..Len(a) : b[i] = a[i]
        /\ \A i \in 1..Len(e) : b[Len(a) + i] = e[i]
    <3>1. Joined(a, e, a \o e)
      BY Joins, Zenon
    <3>2. Joined(a, e, b)
      BY <1>5, <3>1, Zenon
    <3> QED
      BY <3>2, Zenon DEF Joined
  <2>2. Len(a) = LengthAt
    BY <1>4
  <2>3. Len(b) = 64
    BY <2>1, <2>2 DEF LengthAt
  <2> QED
    BY <2>1, <2>2, <2>3, Zenon
<1>7. b \in Row
  BY <1>6, SeqRow DEF BlockLen
<1>8. \A i \in 1..LengthAt : a[i] = block[i]
  BY <1>2, <1>4
<1> QED
  BY <1>3, <1>5, <1>6, <1>7, <1>8, Zenon

\* The mark and zeros behind it, up to the n-th byte.
Tail1(z) == <<PadMark>> \o Zeros(z)

LEMMA TailSeq ==
    ASSUME NEW z \in Nat
    PROVE  /\ Tail1(z) \in Seq(Nat) /\ Len(Tail1(z)) = 1 + z
           /\ Tail1(z)[1] = PadMark /\ \A i \in 1..z : Tail1(z)[1 + i] = 0
<1>1. <<PadMark>> \in Seq(Nat) /\ Len(<<PadMark>>) = 1 /\ <<PadMark>>[1] = PadMark
  BY DEF PadMark
<1>2. Zeros(z) \in Seq(Nat) /\ Len(Zeros(z)) = z /\ \A i \in 1..z : Zeros(z)[i] = 0
  BY ZerosSeq
<1>3. Joined(<<PadMark>>, Zeros(z), Tail1(z))
  BY <1>1, <1>2, Joins, Zenon DEF Tail1
<1>4. 1 \in 1..1
  OBVIOUS
<1> QED
  BY <1>1, <1>2, <1>3, <1>4, Zenon DEF Joined

LEMMA MarkFollows ==
    ASSUME NEW block \in Row, NEW index \in 0..(BlockLen - 1), NEW n \in (index + 1)..BlockLen,
           NEW z \in Nat, z = n - (index + 1)
    PROVE  Continues(block, index, Tail1(z), Filled(Put(block, index, PadMark), index + 1, n))
<1>1. PICK put : put = Put(block, index, PadMark)
  OBVIOUS
<1>2. PICK f : f = Filled(put, index + 1, n)
  OBVIOUS
<1>3. PadMark \in Nat /\ <<PadMark>>[1] = PadMark /\ 1 \in 1..Len(<<PadMark>>)
  BY DEF PadMark
<1>4. Continues(block, index, <<PadMark>>, put)
  BY <1>1, <1>3, PutFollows
<1>5. put \in Row /\ (\A i \in 1..index : put[i] = block[i]) /\ put[index + 1] = PadMark
  BY <1>3, <1>4, Zenon DEF Continues
<1>6. index + 1 \in 0..BlockLen /\ n \in (index + 1)..BlockLen
  BY DEF BlockLen
<1>7. /\ f \in Row
      /\ \A i \in 1..(index + 1) : f[i] = put[i]
      /\ \A i \in 1..(n - (index + 1)) : f[index + 1 + i] = 0
  BY <1>2, <1>5, <1>6, FilledRow
<1>8. PICK t \in Seq(Nat) : t = Tail1(z)
  BY TailSeq
<1>9. Len(t) = 1 + z /\ t[1] = PadMark /\ \A i \in 1..z : t[1 + i] = 0
  BY <1>8, TailSeq
<1>10. ASSUME NEW i \in 1..index PROVE f[i] = block[i]
  <2>1. i \in 1..(index + 1)
    OBVIOUS
  <2> QED
    BY <1>5, <1>7, <2>1, Zenon
<1>11. ASSUME NEW i \in 1..Len(t) PROVE f[index + i] = t[i]
  <2>1. CASE i = 1
    <3>1. index + 1 \in 1..(index + 1)
      OBVIOUS
    <3> QED
      BY <1>5, <1>7, <1>9, <2>1, <3>1, Zenon
  <2>2. CASE i # 1
    <3>1. PICK x : x = i - 1
      OBVIOUS
    <3>2. x \in 1..z /\ 1 + x = i /\ index + 1 + x = index + i
      BY <1>9, <2>2, <3>1
    <3> QED
      BY <1>7, <1>9, <3>2, Zenon
  <2> QED
    BY <2>1, <2>2
<1> QED
  BY <1>1, <1>2, <1>7, <1>8, <1>10, <1>11, Zenon DEF Continues

\* So do zeros from the beginning, and the number behind any of this.
LEMMA ZerosFollow ==
    ASSUME NEW block \in Row
    PROVE  Continues(block, 0, Zeros(LengthAt), Filled(block, 0, LengthAt))
<1>1. 0 \in 0..BlockLen /\ LengthAt \in 0..BlockLen /\ LengthAt - 0 = LengthAt /\ LengthAt \in Nat
  BY DEF BlockLen, LengthAt
<1>2. PICK f : f = Filled(block, 0, LengthAt)
  OBVIOUS
<1>3. f \in Row /\ \A i \in 1..LengthAt : f[0 + i] = 0
  <2>1. 0 \in 0..BlockLen /\ LengthAt \in 0..BlockLen
    BY <1>1
  <2>2. f \in Row /\ \A i \in 1..(LengthAt - 0) : f[0 + i] = 0
    BY <1>2, <2>1, FilledRow, Zenon
  <2> QED
    BY <1>1, <2>2, Zenon
<1>4. Len(Zeros(LengthAt)) = LengthAt /\ \A i \in 1..LengthAt : Zeros(LengthAt)[i] = 0
  BY <1>1, ZerosSeq
<1>5. \A i \in 1..0 : FALSE
  OBVIOUS
<1> QED
  BY <1>2, <1>3, <1>4, <1>5, Zenon DEF Continues

LEMMA LastFollows ==
    ASSUME NEW part, NEW r \in Nat, NEW t \in Seq(Nat), NEW f, Continues(part, r, t, f),
           r + Len(t) = LengthAt, NEW e \in Seq(Nat), Len(e) = 8
    PROVE  Continues(part, r, t \o e, SubSeq(f, 1, LengthAt) \o e)
<1>1. f \in Row
  BY DEF Continues
<1>2. PICK b : b = SubSeq(f, 1, LengthAt) \o e
  OBVIOUS
<1>3. /\ b \in Row
      /\ \A i \in 1..LengthAt : b[i] = f[i]
      /\ \A i \in 1..8 : b[LengthAt + i] = e[i]
  BY <1>1, <1>2, LastBlock, Zenon
<1>4. PICK u : u = t \o e
  OBVIOUS
<1>5. Joined(t, e, u)
  BY <1>4, Joins, Zenon
<1>6. PICK l \in Nat : l = Len(t)
  OBVIOUS
<1>7. r + l = LengthAt /\ Len(u) = l + 8 /\ (\A i \in 1..l : u[i] = t[i]) /\ \A i \in 1..8 : u[l + i] = e[i]
  BY <1>5, <1>6, Zenon DEF Joined
<1>8. ASSUME NEW i \in 1..r PROVE b[i] = part[i]
  <2>1. i \in 1..LengthAt
    BY <1>7
  <2>2. b[i] = f[i]
    BY <1>3, <2>1, Zenon
  <2>3. f[i] = part[i]
    BY Zenon DEF Continues
  <2> QED
    BY <2>2, <2>3
<1>9. ASSUME NEW i \in 1..(l + 8) PROVE b[r + i] = u[i]
  <2>1. CASE i <= l
    <3>1. i \in 1..l /\ r + i \in 1..LengthAt
      BY <1>7, <2>1
    <3>2. b[r + i] = f[r + i] /\ u[i] = t[i]
      BY <1>3, <1>7, <3>1, Zenon
    <3>3. f[r + i] = t[i]
      BY <1>6, <3>1, Zenon DEF Continues
    <3> QED
      BY <3>2, <3>3
  <2>2. CASE ~(i <= l)
    <3>1. PICK x : x = i - l
      OBVIOUS
    <3>2. x \in 1..8 /\ l + x = i /\ r + i = LengthAt + x
      BY <1>7, <2>2, <3>1, SMTT(20)
    <3>3. b[LengthAt + x] = e[x] /\ u[l + x] = e[x]
      BY <1>3, <1>7, <3>2, Zenon
    <3> QED
      BY <3>2, <3>3, Zenon
  <2> QED
    BY <2>1, <2>2
<1> QED
  BY <1>2, <1>3, <1>4, <1>7, <1>8, <1>9, Zenon DEF Continues

\* How many zeros there are.
ZeroCount(m) == (LengthAt - 1 - Len(m)) % BlockLen

LEMMA Zeros64 ==
    ASSUME NEW n \in Nat, NEW q \in Nat, NEW r \in 0..63, n = 64 * q + r
    PROVE  (55 - n) % 64 = IF r < 56 THEN 55 - r ELSE 119 - r
<1>1. ASSUME NEW x \in Int, NEW k \in Int, NEW y \in 0..63, x = 64 * k + y PROVE x % 64 = y
  BY <1>1
<1>2. PICK x \in Int : x = 55 - n
  OBVIOUS
<1>3. CASE r < 56
  <2>1. x = 64 * (0 - q) + (55 - r) /\ 0 - q \in Int /\ 55 - r \in 0..63
    BY <1>2, <1>3
  <2>2. x % 64 = 55 - r
    BY <1>1, <2>1
  <2> QED
    BY <1>2, <1>3, <2>2
<1>4. CASE ~(r < 56)
  <2>1. x = 64 * (0 - q - 1) + (119 - r) /\ 0 - q - 1 \in Int /\ 119 - r \in 0..63
    BY <1>2, <1>4
  <2>2. x % 64 = 119 - r
    BY <1>1, <2>1
  <2> QED
    BY <1>2, <1>4, <2>2
<1> QED
  BY <1>3, <1>4

LEMMA ZerosOf ==
    ASSUME NEW m, NEW blocks, NEW part, NEW r, Collects(m, blocks, part, r)
    PROVE  ZeroCount(m) = IF r < LengthAt THEN LengthAt - (r + 1) ELSE (BlockLen - (r + 1)) + LengthAt
<1>1. Len(m) \in Nat /\ Len(blocks) \in Nat /\ r \in 0..63 /\ Len(m) = 64 * Len(blocks) + r
  BY DEF Collects, BlockLen
<1>2. (55 - Len(m)) % 64 = IF r < 56 THEN 55 - r ELSE 119 - r
  BY <1>1, Zeros64
<1>3. ZeroCount(m) = (55 - Len(m)) % 64
  BY <1>1 DEF ZeroCount, LengthAt, BlockLen
<1> QED
  BY <1>1, <1>2, <1>3 DEF LengthAt, BlockLen

LEMMA ReferenceOf ==
    ASSUME NEW m \in Seq(Nat), NEW e \in Seq(Nat), ZeroCount(m) \in Nat
    PROVE  Reference(m, e) = (m \o Tail1(ZeroCount(m))) \o e
<1>1. PICK z \in Nat : z = ZeroCount(m)
  OBVIOUS
<1>2. PICK a \in Seq(Nat) : a = <<PadMark>>
  <2>1. PadMark \in Nat
    BY DEF PadMark
  <2> QED
    BY <2>1, One, Zenon
<1>3. PICK b \in Seq(Nat) : b = Zeros(z)
  BY ZerosSeq
<1>4. (m \o a) \o b = m \o (a \o b)
  <2>1. Regrouped(m, a, b)
    BY Regroup, Zenon
  <2> QED
    BY <2>1, Zenon DEF Regrouped
<1>5. Reference(m, e) = ((m \o a) \o b) \o e
  BY <1>1, <1>2, <1>3, Zenon DEF Reference, ZeroCount
<1> QED
  BY <1>1, <1>2, <1>3, <1>4, <1>5, Zenon DEF Tail1

\* What SHA1PadMessage does in a block that has room for the length, and in one that has not.
LEMMA PutLengthOf ==
    ASSUME NEW block, NEW index, NEW bits, NEW blocks, NEW c, Is(c, block, index, bits, blocks)
    PROVE  Is(PutLength(c), SubSeq(block, 1, LengthAt) \o EightBytes(bits), index, bits, blocks)
<1>1. /\ c.block = block /\ c.index = index /\ c.bits = bits /\ c.blocks = blocks
  BY DEF Is, Context
<1> QED
  BY <1>1, Zenon DEF Is, PutLength

LEMMA PadShort ==
    ASSUME NEW block, NEW index, NEW bits \in Nat, NEW blocks, NEW c, Is(c, block, index, bits, blocks),
           NEW m, Collects(m, blocks, block, index), index < LengthAt
    PROVE  \E b : /\ SHA1PadMessage(c) = FullBlock(PutLength(FillTo(PutByte(c, PadMark), LengthAt)))
                  /\ Is(SHA1PadMessage(c), b, 0, bits, Append(blocks, b))
                  /\ Collects(Reference(m, EightBytes(bits)), Append(blocks, b), b, 0)
<1>1. block \in Row /\ index \in 0..(BlockLen - 1) /\ m \in Seq(Nat)
  BY DEF Collects
<1>2. PICK e \in Seq(Nat) : e = EightBytes(bits) /\ Len(e) = 8
  BY EightSeq
<1>3. PICK f : f = Filled(Put(block, index, PadMark), index + 1, LengthAt)
  OBVIOUS
<1>4. PICK b : b = SubSeq(f, 1, LengthAt) \o e
  OBVIOUS
<1>5. PICK z \in Nat : z = LengthAt - (index + 1)
  BY <1>1 DEF LengthAt, BlockLen
<1>6. LengthAt \in (index + 1)..BlockLen /\ index \in Nat
  BY <1>1 DEF LengthAt, BlockLen
<1>7. Continues(block, index, Tail1(z), f)
  BY <1>1, <1>3, <1>5, <1>6, MarkFollows, Zenon
<1>8. PICK t \in Seq(Nat) : t = Tail1(z) /\ Len(t) = 1 + z
  BY TailSeq
<1>9. index + Len(t) = LengthAt
  BY <1>1, <1>5, <1>8 DEF LengthAt
<1>10. Continues(block, index, t \o e, b)
  BY <1>2, <1>4, <1>6, <1>7, <1>8, <1>9, LastFollows, Zenon
<1>11. b \in Row
  BY <1>10, Zenon DEF Continues
<1>12. t \o e \in Seq(Nat) /\ index + Len(t \o e) = BlockLen
  <2>1. t \o e \in Seq(Nat) /\ Len(t \o e) = Len(t) + Len(e)
    BY Joins, Zenon DEF Joined
  <2>2. PICK l \in Nat : l = Len(t)
    OBVIOUS
  <2>3. index + l = 56 /\ Len(t \o e) = l + 8
    BY <1>2, <1>9, <2>1, <2>2, Zenon DEF LengthAt
  <2>4. index + (l + 8) = 64
    BY <1>6, <2>3
  <2> QED
    BY <2>1, <2>3, <2>4, Zenon DEF BlockLen
<1>13. Collects(m \o (t \o e), Append(blocks, b), b, 0)
  BY <1>10, <1>11, <1>12, CollectsBlock, Zenon
<1>14. Reference(m, e) = m \o (t \o e)
  <2>1. ZeroCount(m) = z
    BY <1>5, ZerosOf, Zenon
  <2>2. Reference(m, e) = (m \o t) \o e
    BY <1>1, <1>8, <2>1, ReferenceOf, Zenon
  <2>3. (m \o t) \o e = m \o (t \o e)
    BY <1>1, Assoc
  <2> QED
    BY <2>2, <2>3, Zenon
<1>15. SHA1PadMessage(c) = FullBlock(PutLength(FillTo(PutByte(c, PadMark), LengthAt)))
  <2>1. ~(c.index > LengthAt - 1)
    <3>1. c.index = index
      BY DEF Is, Context
    <3> QED
      BY <1>1, <3>1 DEF LengthAt
  <2> QED
    BY <2>1, Zenon DEF SHA1PadMessage
<1>16. Is(FillTo(PutByte(c, PadMark), LengthAt), f, LengthAt, bits, blocks)
  BY <1>3, PutByteOf, FillToOf, Zenon
<1>17. Is(SHA1PadMessage(c), b, 0, bits, Append(blocks, b))
  BY <1>2, <1>4, <1>15, <1>16, PutLengthOf, FullBlockOf, Zenon
<1> QED
  BY <1>2, <1>13, <1>14, <1>15, <1>17, Zenon

LEMMA PadLong ==
    ASSUME NEW block, NEW index, NEW bits \in Nat, NEW blocks, NEW c, Is(c, block, index, bits, blocks),
           NEW m, Collects(m, blocks, block, index), ~(index < LengthAt)
    PROVE  \E b, f : /\ Is(SHA1PadMessage(c), b, 0, bits, Append(Append(blocks, f), b))
                     /\ Collects(Reference(m, EightBytes(bits)), Append(Append(blocks, f), b), b, 0)
<1>1. block \in Row /\ index \in 0..(BlockLen - 1) /\ m \in Seq(Nat)
  BY DEF Collects
<1>2. PICK e \in Seq(Nat) : e = EightBytes(bits) /\ Len(e) = 8
  BY EightSeq
<1>3. PICK f : f = Filled(Put(block, index, PadMark), index + 1, BlockLen)
  OBVIOUS
<1>4. PICK y \in Nat : y = BlockLen - (index + 1)
  BY <1>1 DEF BlockLen
<1>5. BlockLen \in (index + 1)..BlockLen /\ index \in Nat
  BY <1>1 DEF BlockLen
<1>6. Continues(block, index, Tail1(y), f)
  BY <1>1, <1>3, <1>4, <1>5, MarkFollows, Zenon
<1>7. PICK s \in Seq(Nat) : s = Tail1(y) /\ Len(s) = 1 + y
  BY TailSeq
<1>8. index + Len(s) = BlockLen
  BY <1>1, <1>4, <1>7 DEF BlockLen
<1>9. f \in Row
  BY <1>6, Zenon DEF Continues
<1>10. Collects(m \o s, Append(blocks, f), f, 0)
  BY <1>6, <1>7, <1>8, <1>9, CollectsBlock, Zenon
<1>11. PICK h : h = Filled(f, 0, LengthAt)
  OBVIOUS
<1>12. PICK b : b = SubSeq(h, 1, LengthAt) \o e
  OBVIOUS
<1>13. PICK t \in Seq(Nat) : t = Zeros(LengthAt) /\ Len(t) = LengthAt
  <2>1. LengthAt \in Nat
    BY DEF LengthAt
  <2> QED
    BY <2>1, ZerosSeq
<1>14. 0 \in Nat /\ 0 + Len(t) = LengthAt
  BY <1>13 DEF LengthAt
<1>15. Continues(f, 0, t, h)
  BY <1>9, <1>11, <1>13, ZerosFollow, Zenon
<1>16. Continues(f, 0, t \o e, b)
  BY <1>2, <1>12, <1>14, <1>15, LastFollows, Zenon
<1>17. b \in Row
  BY <1>16, Zenon DEF Continues
<1>18. t \o e \in Seq(Nat) /\ 0 + Len(t \o e) = BlockLen
  <2>1. t \o e \in Seq(Nat) /\ Len(t \o e) = Len(t) + Len(e)
    BY Joins, Zenon DEF Joined
  <2>2. Len(t \o e) = 56 + 8
    BY <1>2, <1>13, <2>1, Zenon DEF LengthAt
  <2>3. 0 + (56 + 8) = 64
    OBVIOUS
  <2> QED
    BY <2>1, <2>2, <2>3, Zenon DEF BlockLen
<1>19. Collects((m \o s) \o (t \o e), Append(Append(blocks, f), b), b, 0)
  BY <1>10, <1>16, <1>17, <1>18, CollectsBlock, Zenon
<1>20. Reference(m, e) = (m \o s) \o (t \o e)
  <2>1. PICK z \in Nat : z = y + LengthAt
    BY DEF LengthAt
  <2>2. ZeroCount(m) = z
    BY <1>4, <2>1, ZerosOf, Zenon
  <2>3. PICK x \in Seq(Nat) : x = Tail1(z)
    BY TailSeq
  <2>4. Reference(m, e) = (m \o x) \o e
    BY <1>1, <2>2, <2>3, ReferenceOf, Zenon
  <2>5. x = s \o t
    <3>1. PICK a \in Seq(Nat) : a = <<PadMark>>
      <4>1. PadMark \in Nat
        BY DEF PadMark
      <4> QED
        BY <4>1, One, Zenon
    <3>2. PICK v \in Seq(Nat) : v = Zeros(y)
      BY ZerosSeq
    <3>3. Zeros(z) = v \o t
      <4>1. LengthAt \in Nat
        BY DEF LengthAt
      <4> QED
        BY <1>13, <2>1, <3>2, <4>1, ZerosCat, Zenon
    <3>4. (a \o v) \o t = a \o (v \o t)
      <4>1. Regrouped(a, v, t)
        BY Regroup, Zenon
      <4> QED
        BY <4>1, Zenon DEF Regrouped
    <3> QED
      BY <1>7, <2>3, <3>1, <3>2, <3>3, <3>4, Zenon DEF Tail1
  <2>6. (m \o (s \o t)) \o e = (m \o s) \o (t \o e)
    <3>1. m \o (s \o t) = (m \o s) \o t
      <4>1. Regrouped(m, s, t)
        BY <1>1, Regroup, Zenon
      <4> QED
        BY <4>1, Zenon DEF Regrouped
    <3>2. PICK w \in Seq(Nat) : w = m \o s
      BY <1>1, Joins, Zenon DEF Joined
    <3>3. (w \o t) \o e = w \o (t \o e)
      BY Assoc
    <3> QED
      BY <3>1, <3>2, <3>3, Zenon
  <2> QED
    BY <2>4, <2>5, <2>6, Zenon
<1>21. SHA1PadMessage(c) =
          FullBlock(PutLength(FillTo(FullBlock(FillTo(PutByte(c, PadMark), BlockLen)), LengthAt)))
  <2>1. c.index > LengthAt - 1
    <3>1. c.index = index
      BY DEF Is, Context
    <3> QED
      BY <1>1, <3>1 DEF LengthAt, BlockLen
  <2> QED
    BY <2>1, Zenon DEF SHA1PadMessage
<1>22. Is(FillTo(PutByte(c, PadMark), BlockLen), f, BlockLen, bits, blocks)
  BY <1>3, PutByteOf, FillToOf, Zenon
<1>23. Is(FillTo(FullBlock(FillTo(PutByte(c, PadMark), BlockLen)), LengthAt), h, LengthAt, bits, Append(blocks, f))
  BY <1>11, <1>22, FullBlockOf, FillToOf, Zenon
<1>24. Is(SHA1PadMessage(c), b, 0, bits, Append(Append(blocks, f), b))
  BY <1>2, <1>12, <1>21, <1>23, PutLengthOf, FullBlockOf, Zenon
<1> QED
  BY <1>2, <1>19, <1>20, <1>24, Zenon

\* SHA-1 processes the message as the standard pads it.
LEMMA ResultFlat ==
    ASSUME NEW c, NEW m, SHA1Holds(c, m)
    PROVE  /\ ~SHA1Result(c).corrupted
           /\ FlattenSeq(SHA1Result(c).blocks) = Reference(m, EightBytes(8 * Len(m)))
<1>1. PICK block, index, bits, blocks :
        Is(c, block, index, bits, blocks) /\ Collects(m, blocks, block, index) /\ bits = 8 * Len(m)
  BY Zenon DEF SHA1Holds
<1>2. bits \in Nat
  BY <1>1 DEF Collects
<1>3. PICK p : p = SHA1PadMessage(c)
  OBVIOUS
<1>4. \E b, q : Is(p, b, 0, bits, q) /\ Collects(Reference(m, EightBytes(bits)), q, b, 0)
  <2>1. CASE index < LengthAt
    BY <1>1, <1>2, <1>3, <2>1, PadShort, Zenon
  <2>2. CASE ~(index < LengthAt)
    BY <1>1, <1>2, <1>3, <2>2, PadLong, Zenon
  <2> QED
    BY <2>1, <2>2
<1>5. PICK b, q : Is(p, b, 0, bits, q) /\ Collects(Reference(m, EightBytes(bits)), q, b, 0)
  BY <1>4
<1>6. ~c.computed /\ ~c.corrupted
  BY <1>1 DEF Is, Context
<1>7. SHA1Result(c) = [p EXCEPT !.computed = TRUE]
  BY <1>3, <1>6, Zenon DEF SHA1Result
<1>8. [p EXCEPT !.computed = TRUE].blocks = q /\ ~[p EXCEPT !.computed = TRUE].corrupted
  BY <1>5 DEF Is, Context
<1>9. FlattenSeq(q) = Reference(m, EightBytes(bits))
  BY <1>5, CollectsFlat, Zenon
<1> QED
  BY <1>1, <1>7, <1>8, <1>9, Zenon

\* In the beginning nothing is held.
LEMMA CollectsNone == ASSUME NEW part \in Row PROVE Collects(<<>>, <<>>, part, 0)
<1>1. /\ <<>> \in Seq(Nat) /\ <<>> \in Seq(Row) /\ 0 \in 0..(BlockLen - 1)
      /\ Len(<<>>) = BlockLen * Len(<<>>) + 0
      /\ (\A i \in 1..0 : FALSE) /\ Len(<<>>) = 0
  BY DEF BlockLen
<1>2. (\A j \in 1..Len(<<>>) : FALSE)
  BY <1>1
<1> QED
  BY <1>1, <1>2, Zenon DEF Collects

LEMMA ZerosRow == Zeros(BlockLen) \in Row
BY DEF Zeros, Row

LEMMA ResetHolds == SHA1Holds(SHA1Reset, <<>>)
<1>1. PICK z : z = Zeros(BlockLen) /\ Collects(<<>>, <<>>, z, 0)
  BY ZerosRow, CollectsNone
<1>2. Is(SHA1Reset, z, 0, 0, <<>>)
  BY <1>1, Zenon DEF SHA1Reset, Is
<1>3. 0 = 8 * Len(<<>>)
  OBVIOUS
<1> QED
  BY <1>1, <1>2, <1>3, SHA1HoldsOf, Zenon

\* What the context of MD5 is when it was given m.
MD5Holds(c, m) ==
    /\ c.bits = 8 * Len(m)
    /\ \E r : Collects(m, c.blocks, c.buffer, r)

LEMMA CollectsRest ==
    ASSUME NEW m, NEW blocks, NEW part, NEW r, Collects(m, blocks, part, r)
    PROVE  Len(m) % BlockLen = r
<1>1. ASSUME NEW x \in Int, NEW k \in Int, NEW y \in 0..63, x = 64 * k + y PROVE x % 64 = y
  BY <1>1
<1>2. Len(m) \in Int /\ Len(blocks) \in Int /\ r \in 0..63 /\ Len(m) = 64 * Len(blocks) + r
  BY DEF Collects, BlockLen
<1> QED
  BY <1>1, <1>2 DEF BlockLen

LEMMA MD5Index ==
    ASSUME NEW c, NEW m, c.bits = 8 * Len(m), NEW blocks, NEW part, NEW r, Collects(m, blocks, part, r)
    PROVE  (c.bits \div 8) % BlockLen = r
<1>1. ASSUME NEW n \in Nat PROVE (8 * n) \div 8 = n
  OBVIOUS
<1>2. Len(m) \in Nat
  BY DEF Collects
<1>3. c.bits \div 8 = Len(m)
  BY <1>1, <1>2
<1> QED
  BY <1>3, CollectsRest, Zenon

LEMMA OverwriteFollows ==
    ASSUME NEW part \in Row, NEW r \in Nat, NEW t \in Seq(Nat), r + Len(t) <= BlockLen
    PROVE  Continues(part, r, t, Overwrite(part, r, t))
<1>1. PICK q : q = Overwrite(part, r, t)
  OBVIOUS
<1>2. PICK l \in Nat : l = Len(t) /\ r + l <= 64
  BY DEF BlockLen
<1>3. q = [i \in 1..64 |-> IF i \in (r + 1)..(r + l) THEN t[i - r] ELSE part[i]]
  BY <1>1, <1>2, Zenon DEF Overwrite, BlockLen
<1>4. \A i \in 1..64 : part[i] \in Nat
  BY DEF Row, BlockLen
<1>5. \A i \in 1..l : t[i] \in Nat
  BY <1>2
<1>6. ASSUME NEW i \in 1..64 PROVE (IF i \in (r + 1)..(r + l) THEN t[i - r] ELSE part[i]) \in Nat
  <2>1. CASE i \in (r + 1)..(r + l)
    <3>1. i - r \in 1..l
      BY <2>1
    <3> QED
      BY <1>5, <2>1, <3>1, Zenon
  <2>2. CASE i \notin (r + 1)..(r + l)
    BY <1>4, <2>2, Zenon
  <2> QED
    BY <2>1, <2>2
<1>7. q \in Row
  BY <1>3, <1>6, Zenon DEF Row, BlockLen
<1>8. ASSUME NEW i \in 1..r PROVE q[i] = part[i]
  <2>1. i \in 1..64 /\ i \notin (r + 1)..(r + l)
    BY <1>2
  <2> QED
    BY <1>3, <2>1, Zenon
<1>9. ASSUME NEW i \in 1..l PROVE q[r + i] = t[i]
  <2>1. r + i \in 1..64 /\ r + i \in (r + 1)..(r + l) /\ (r + i) - r = i
    BY <1>2
  <2> QED
    BY <1>3, <2>1, Zenon
<1> QED
  BY <1>1, <1>2, <1>7, <1>8, <1>9, Zenon DEF Continues

\* WsockMD5Update, when the block does not get full, and when it does.
LEMMA UpdateShort ==
    ASSUME NEW c, NEW m, NEW r, c.bits = 8 * Len(m), Collects(m, c.blocks, c.buffer, r),
           NEW input \in Seq(Nat), r + Len(input) < BlockLen
    PROVE  MD5Holds(MD5Update(c, input), m \o input)
<1>1. c.buffer \in Row /\ r \in Nat /\ m \in Seq(Nat) /\ r \in 0..63
  <2>1. c.buffer \in Row /\ m \in Seq(Nat) /\ r \in 0..(BlockLen - 1)
    BY Zenon DEF Collects
  <2>2. r \in Nat /\ r \in 0..63
    BY <2>1 DEF BlockLen
  <2> QED
    BY <2>1, <2>2, Zenon
<1>2. (c.bits \div 8) % BlockLen = r
  BY MD5Index, Zenon
<1>3. PICK l \in Nat : l = Len(input)
  OBVIOUS
<1>4. r + l < 64
  BY <1>3 DEF BlockLen
<1>5. l < BlockLen - r /\ r + l <= BlockLen
  BY <1>1, <1>4 DEF BlockLen
<1>6. PICK q : q = Overwrite(c.buffer, r, input)
  OBVIOUS
<1>7. Continues(c.buffer, r, input, q)
  BY <1>1, <1>3, <1>5, <1>6, OverwriteFollows, Zenon
<1>8. Collects(m \o input, c.blocks, q, r + Len(input))
  BY <1>7, CollectsMore, Zenon
<1>9. MD5Update(c, input) = [buffer |-> q, bits |-> c.bits + 8 * Len(input), blocks |-> c.blocks]
  BY <1>2, <1>3, <1>5, <1>6, Zenon DEF MD5Update
<1>10. c.bits + 8 * Len(input) = 8 * Len(m \o input)
  <2>1. Len(m \o input) = Len(m) + Len(input) /\ Len(m) \in Nat
    BY <1>1
  <2> QED
    BY <1>3, <2>1
<1>11. PICK d : d = MD5Update(c, input)
  OBVIOUS
<1>12. d.buffer = q /\ d.blocks = c.blocks /\ d.bits = c.bits + 8 * Len(input)
  BY <1>9, <1>11
<1> QED
  BY <1>8, <1>10, <1>11, <1>12, Zenon DEF MD5Holds

\* A part of a message, and the blocks it is cut into.
LEMMA BlocksOf ==
    ASSUME NEW s \in Seq(Nat), NEW p \in Nat, NEW w \in Nat, p + BlockLen * w <= Len(s)
    PROVE  CutInto(SubSeq(s, p + 1, p + BlockLen * w),
                   [k \in 1..w |-> SubSeq(s, p + BlockLen * (k - 1) + 1, p + BlockLen * k)])
<1>1. PICK n \in Nat : n = p + BlockLen * w
  BY DEF BlockLen
<1>2. n <= Len(s) /\ n = p + 64 * w
  BY <1>1 DEF BlockLen
<1>3. p + 1 \in 1..(Len(s) + 1) /\ n \in ((p + 1) - 1)..Len(s) /\ n - (p + 1) + 1 = 64 * w
  BY <1>2
<1>4. PICK t \in Seq(Nat) : t = SubSeq(s, p + 1, n)
  BY <1>3, SubPart
<1>5. Len(t) = 64 * w /\ \A i \in 1..(64 * w) : t[i] = s[(p + 1) + i - 1]
  BY <1>3, <1>4, SubPart
<1>6. PICK rows : rows = [k \in 1..w |-> SubSeq(s, p + BlockLen * (k - 1) + 1, p + BlockLen * k)]
  OBVIOUS
<1>7. ASSUME NEW k \in 1..w
      PROVE  rows[k] \in Row /\ \A i \in 1..BlockLen : rows[k][i] = t[BlockLen * (k - 1) + i]
  <2>1. PICK a, b : a = p + BlockLen * (k - 1) + 1 /\ b = p + BlockLen * k
    OBVIOUS
  <2>2. a \in 1..(Len(s) + 1) /\ b \in (a - 1)..Len(s) /\ b - a + 1 = 64
    BY <1>2, <2>1 DEF BlockLen
  <2>3. PICK x \in Seq(Nat) : x = SubSeq(s, a, b)
    BY <2>2, SubPart
  <2>4. Len(x) = 64 /\ \A i \in 1..64 : x[i] = s[a + i - 1]
    BY <2>2, <2>3, SubPart
  <2>5. x \in Row
    BY <2>4, SeqRow DEF BlockLen
  <2>6. ASSUME NEW i \in 1..64 PROVE x[i] = t[BlockLen * (k - 1) + i]
    <3>1. PICK j : j = BlockLen * (k - 1) + i
      OBVIOUS
    <3>2. j \in 1..(64 * w) /\ (p + 1) + j - 1 = a + i - 1
      BY <2>1, <3>1 DEF BlockLen
    <3>3. t[j] = s[(p + 1) + j - 1]
      BY <1>5, <3>2, Zenon
    <3>4. x[i] = s[a + i - 1]
      BY <2>4, Zenon
    <3> QED
      BY <3>1, <3>2, <3>3, <3>4, Zenon
  <2>7. rows[k] = x
    BY <1>6, <2>1, <2>3, Zenon
  <2> QED
    BY <2>5, <2>6, <2>7, Zenon DEF BlockLen
<1>8. rows \in [1..w -> Row]
  BY <1>6, <1>7
<1>9. rows \in Seq(Row) /\ Len(rows) = w
  BY <1>8, FunSeq, Zenon
<1>10. CutInto(t, rows)
  BY <1>5, <1>7, <1>9, Zenon DEF CutInto, BlockLen
<1> QED
  BY <1>1, <1>4, <1>6, <1>10, Zenon

\* Two parts of a message, one behind the other.
LEMMA Adjacent ==
    ASSUME NEW s \in Seq(Nat), NEW n \in 0..Len(s), NEW k \in 0..n
    PROVE  SubSeq(s, 1, k) \o SubSeq(s, k + 1, n) = SubSeq(s, 1, n)
<1>1. PICK a \in Seq(Nat) : a = SubSeq(s, 1, k) /\ Len(a) = k /\ \A i \in 1..k : a[i] = s[i]
  <2>1. 1 \in 1..(Len(s) + 1) /\ k \in (1 - 1)..Len(s) /\ k - 1 + 1 = k
    OBVIOUS
  <2>2. /\ SubSeq(s, 1, k) \in Seq(Nat) /\ Len(SubSeq(s, 1, k)) = k
        /\ \A i \in 1..k : SubSeq(s, 1, k)[i] = s[1 + i - 1]
    <3>1. /\ SubSeq(s, 1, k) \in Seq(Nat) /\ Len(SubSeq(s, 1, k)) = k - 1 + 1
          /\ \A i \in 1..(k - 1 + 1) : SubSeq(s, 1, k)[i] = s[1 + i - 1]
      BY <2>1, SubPart, Zenon
    <3> QED
      BY <2>1, <3>1, Zenon
  <2>3. \A i \in 1..k : 1 + i - 1 = i
    OBVIOUS
  <2> QED
    BY <2>2, <2>3, Zenon
<1>2. PICK b \in Seq(Nat) :
        b = SubSeq(s, k + 1, n) /\ Len(b) = n - k /\ \A i \in 1..(n - k) : b[i] = s[k + i]
  <2>1. k + 1 \in 1..(Len(s) + 1) /\ n \in ((k + 1) - 1)..Len(s) /\ n - (k + 1) + 1 = n - k
    OBVIOUS
  <2>2. PICK b : b = SubSeq(s, k + 1, n)
    OBVIOUS
  <2>4. /\ b \in Seq(Nat) /\ Len(b) = n - k
        /\ \A i \in 1..(n - k) : b[i] = s[(k + 1) + i - 1]
    <3>1. /\ b \in Seq(Nat) /\ Len(b) = n - (k + 1) + 1
          /\ \A i \in 1..(n - (k + 1) + 1) : b[i] = s[(k + 1) + i - 1]
      BY <2>1, <2>2, SubPart, Zenon
    <3> QED
      BY <2>1, <3>1, Zenon
  <2>3. \A i \in 1..(n - k) : (k + 1) + i - 1 = k + i
    OBVIOUS
  <2>5. \A i \in 1..(n - k) : b[i] = s[k + i]
    BY <2>3, <2>4, Zenon
  <2> QED
    BY <2>2, <2>4, <2>5, Zenon
<1>3. PICK c \in Seq(Nat) : c = SubSeq(s, 1, n) /\ Len(c) = n /\ \A i \in 1..n : c[i] = s[i]
  <2>1. 1 \in 1..(Len(s) + 1) /\ n \in (1 - 1)..Len(s) /\ n - 1 + 1 = n
    OBVIOUS
  <2>2. /\ SubSeq(s, 1, n) \in Seq(Nat) /\ Len(SubSeq(s, 1, n)) = n - 1 + 1
        /\ \A i \in 1..(n - 1 + 1) : SubSeq(s, 1, n)[i] = s[1 + i - 1]
    BY <2>1, SubPart, Zenon
  <2>3. \A i \in 1..n : 1 + i - 1 = i
    OBVIOUS
  <2> QED
    BY <2>1, <2>2, <2>3, Zenon
<1>4. PICK u : u = a \o b /\ Joined(a, b, u)
  BY Joins, Zenon
<1>5. /\ u \in Seq(Nat) /\ Len(u) = k + (n - k)
      /\ (\A i \in 1..k : u[i] = a[i]) /\ \A i \in 1..(n - k) : u[k + i] = b[i]
  BY <1>1, <1>2, <1>4, Zenon DEF Joined
<1>6. Len(u) = n
  BY <1>5
<1>7. ASSUME NEW i \in 1..n PROVE u[i] = c[i]
  <2>1. CASE i <= k
    <3>1. i \in 1..k
      BY <2>1
    <3> QED
      BY <1>1, <1>3, <1>5, <3>1, Zenon
  <2>2. CASE ~(i <= k)
    <3>1. PICK x : x = i - k
      OBVIOUS
    <3>2. x \in 1..(n - k) /\ k + x = i
      BY <2>2, <3>1
    <3>3. u[k + x] = b[x] /\ b[x] = s[k + x] /\ c[i] = s[i]
      BY <1>2, <1>3, <1>5, <3>2, Zenon
    <3> QED
      BY <3>2, <3>3, Zenon
  <2> QED
    BY <2>1, <2>2
<1>8. u = c
  BY <1>3, <1>5, <1>6, <1>7, SameSeq
<1> QED
  BY <1>1, <1>2, <1>3, <1>4, <1>8, Zenon

LEMMA UpdateLong ==
    ASSUME NEW c, NEW m, NEW r, c.bits = 8 * Len(m), Collects(m, c.blocks, c.buffer, r),
           NEW input \in Seq(Nat), ~(r + Len(input) < BlockLen)
    PROVE  MD5Holds(MD5Update(c, input), m \o input)
<1>1. c.buffer \in Row /\ r \in Nat /\ m \in Seq(Nat) /\ r \in 0..63
  <2>1. c.buffer \in Row /\ m \in Seq(Nat) /\ r \in 0..(BlockLen - 1)
    BY Zenon DEF Collects
  <2>2. r \in Nat /\ r \in 0..63
    BY <2>1 DEF BlockLen
  <2> QED
    BY <2>1, <2>2, Zenon
<1>2. (c.bits \div 8) % BlockLen = r
  BY MD5Index, Zenon
<1>3. PICK l \in Nat : l = Len(input)
  OBVIOUS
<1>4. ~(r + l < 64)
  BY <1>3 DEF BlockLen
<1>5. PICK p : p = BlockLen - r
  OBVIOUS
<1>6. p \in 1..64 /\ p <= l /\ ~(l < p) /\ r + p = 64
  BY <1>1, <1>4, <1>5 DEF BlockLen
<1>7. PICK w : w = (l - p) \div BlockLen
  OBVIOUS
<1>8. w \in Nat /\ 64 * w <= l - p /\ l - p < 64 * w + 64
  BY <1>6, <1>7 DEF BlockLen
<1>9. PICK n \in Nat : n = p + BlockLen * w
  BY <1>6, <1>8 DEF BlockLen
<1>10. n \in p..l /\ l - n < 64 /\ p + BlockLen * w <= l
  BY <1>6, <1>8, <1>9 DEF BlockLen
<1> DEFINE one == SubSeq(input, 1, p)
           two == SubSeq(input, p + 1, n)
           three == SubSeq(input, n + 1, l)
           full == Overwrite(c.buffer, r, one)
           rows == [k \in 1..w |-> SubSeq(input, p + BlockLen * (k - 1) + 1, p + BlockLen * k)]
           last == Overwrite(full, 0, three)
<1>11. one \in Seq(Nat) /\ Len(one) = p
  <2>1. 1 \in 1..(Len(input) + 1) /\ p \in (1 - 1)..Len(input) /\ p - 1 + 1 = p
    BY <1>3, <1>6
  <2> QED
    BY <2>1, SubPart
<1>12. two \in Seq(Nat)
  <2>1. p + 1 \in 1..(Len(input) + 1) /\ n \in ((p + 1) - 1)..Len(input)
    BY <1>3, <1>6, <1>10
  <2> QED
    BY <2>1, SubPart
<1>13. three \in Seq(Nat) /\ Len(three) = l - n
  <2>1. n + 1 \in 1..(Len(input) + 1) /\ l \in ((n + 1) - 1)..Len(input) /\ l - (n + 1) + 1 = l - n
    BY <1>3, <1>10
  <2> QED
    BY <2>1, SubPart
<1>14. input = (one \o two) \o three
  <2>1. one \o two = SubSeq(input, 1, n)
    <3>1. n \in 0..Len(input) /\ p \in 0..n
      BY <1>3, <1>6, <1>10
    <3> QED
      BY <3>1, Adjacent, Zenon
  <2>2. SubSeq(input, 1, n) \o three = SubSeq(input, 1, l)
    <3>1. l \in 0..Len(input) /\ n \in 0..l
      BY <1>3, <1>6, <1>10
    <3> QED
      BY <3>1, Adjacent, Zenon
  <2>3. SubSeq(input, 1, l) = input
    BY <1>3
  <2> QED
    BY <2>1, <2>2, <2>3, Zenon
<1>15. CutInto(two, rows)
  <2>1. p \in Nat /\ p + BlockLen * w <= Len(input)
    BY <1>3, <1>6, <1>10
  <2> QED
    BY <1>8, <1>9, <2>1, BlocksOf, Zenon
<1> HIDE DEF one, two, three, rows
<1>16. r + Len(one) = BlockLen /\ r + Len(one) <= BlockLen
  BY <1>6, <1>11 DEF BlockLen
<1>17. Continues(c.buffer, r, one, full)
  BY <1>1, <1>11, <1>16, OverwriteFollows, Zenon
<1> HIDE DEF full
<1>18. full \in Row
  BY <1>17, Zenon DEF Continues
<1>19. Collects(m \o one, Append(c.blocks, full), full, 0)
  BY <1>11, <1>16, <1>17, <1>18, CollectsBlock, Zenon
<1>20. Collects((m \o one) \o two, Append(c.blocks, full) \o rows, full, 0)
  BY <1>15, <1>18, <1>19, CollectsBlocks, Zenon
<1>21. 0 \in Nat /\ 0 + Len(three) < BlockLen /\ 0 + Len(three) <= BlockLen
  BY <1>10, <1>13 DEF BlockLen
<1>22. Continues(full, 0, three, last)
  BY <1>13, <1>18, <1>21, OverwriteFollows, Zenon
<1> HIDE DEF last
<1>23. Collects(((m \o one) \o two) \o three, Append(c.blocks, full) \o rows, last, 0 + Len(three))
  BY <1>13, <1>20, <1>21, <1>22, CollectsMore, Zenon
<1>24. ((m \o one) \o two) \o three = m \o input
  <2>1. (m \o one) \o two = m \o (one \o two)
    <3>1. Regrouped(m, one, two)
      BY <1>1, <1>11, <1>12, Regroup, Zenon
    <3> QED
      BY <3>1, Zenon DEF Regrouped
  <2>2. one \o two \in Seq(Nat)
    BY <1>11, <1>12, Joins, Zenon DEF Joined
  <2>3. (m \o (one \o two)) \o three = m \o ((one \o two) \o three)
    <3>1. Regrouped(m, one \o two, three)
      BY <1>1, <1>13, <2>2, Regroup, Zenon
    <3> QED
      BY <3>1, Zenon DEF Regrouped
  <2> QED
    BY <1>14, <2>1, <2>3, Zenon
<1>25. MD5Update(c, input) = [buffer |-> last, bits |-> c.bits + 8 * Len(input),
                              blocks |-> Append(c.blocks, full) \o rows]
  BY <1>2, <1>3, <1>5, <1>6, <1>7, <1>9, Zenon DEF MD5Update, one, three, full, rows, last
<1>26. c.bits + 8 * Len(input) = 8 * Len(m \o input)
  <2>1. Len(m \o input) = Len(m) + Len(input) /\ Len(m) \in Nat
    BY <1>1
  <2> QED
    BY <1>3, <2>1
<1>27. PICK d : d = MD5Update(c, input)
  OBVIOUS
<1>28. d.buffer = last /\ d.blocks = Append(c.blocks, full) \o rows /\ d.bits = c.bits + 8 * Len(input)
  BY <1>25, <1>27, SMTT(20)
<1> QED
  BY <1>23, <1>24, <1>26, <1>27, <1>28, Zenon DEF MD5Holds

\* Whatever pieces it is given, MD5 holds all of them.
LEMMA UpdateHolds ==
    ASSUME NEW c, NEW m, MD5Holds(c, m), NEW input \in Seq(Nat)
    PROVE  MD5Holds(MD5Update(c, input), m \o input)
<1>1. PICK r : c.bits = 8 * Len(m) /\ Collects(m, c.blocks, c.buffer, r)
  BY DEF MD5Holds
<1>2. CASE r + Len(input) < BlockLen
  BY <1>1, <1>2, UpdateShort, Zenon
<1>3. CASE ~(r + Len(input) < BlockLen)
  BY <1>1, <1>3, UpdateLong, Zenon
<1> QED
  BY <1>2, <1>3

LEMMA MD5InitHolds == MD5Holds(MD5Init, <<>>)
<1>1. PICK z : z = Zeros(BlockLen) /\ Collects(<<>>, <<>>, z, 0)
  BY ZerosRow, CollectsNone
<1>2. MD5Init = [buffer |-> z, bits |-> 0, blocks |-> <<>>]
  BY <1>1, Zenon DEF MD5Init
<1>3. MD5Init.buffer = z /\ MD5Init.bits = 0 /\ MD5Init.blocks = <<>>
  BY <1>2
<1>4. 0 = 8 * Len(<<>>)
  OBVIOUS
<1> QED
  BY <1>1, <1>3, <1>4, Zenon DEF MD5Holds

LEMMA ItemsOf == ASSUME NEW S, NEW y \in Seq(S) PROVE \A k \in 1..Len(y) : y[k] \in S
OBVIOUS

LEMMA ReversedSeq == ASSUME NEW y \in Seq(Nat), Len(y) = 8
                     PROVE  Reverse(y) \in Seq(Nat) /\ Len(Reverse(y)) = 8
<1>1. Reverse(y) = [i \in 1..8 |-> y[(8 - i) + 1]]
  BY Zenon DEF Reverse
<1>2. ASSUME NEW i \in 1..8 PROVE y[(8 - i) + 1] \in Nat
  <2>1. (8 - i) + 1 \in 1..8
    OBVIOUS
  <2>2. \A k \in 1..Len(y) : y[k] \in Nat
    BY ItemsOf, Zenon
  <2> QED
    BY <2>1, <2>2, Zenon
<1>3. Reverse(y) \in [1..8 -> Nat]
  BY <1>1, <1>2, Zenon
<1>4. 8 \in Nat
  OBVIOUS
<1> QED
  BY <1>3, <1>4, FunSeq, Zenon

\* The length, its lowest byte first.
LEMMA LengthReversed ==
    ASSUME NEW n \in Nat
    PROVE  Reverse(EightBytes(n)) = <<n % 256, n \div 256>> \o Zeros(6)
<1>1. n \div 256 \in Nat /\ n % 256 \in Nat
  OBVIOUS
<1>2. PICK a \in Nat, b \in Nat : a = n \div 256 /\ b = n % 256
  BY <1>1
<1>3. PICK z \in Seq(Nat) : z = Zeros(6) /\ Len(z) = 6 /\ \A i \in 1..6 : z[i] = 0
  BY ZerosSeq
<1>4. PICK x : x = <<a, b>>
  OBVIOUS
<1>5. x \in Seq(Nat) /\ Len(x) = 2 /\ x[1] = a /\ x[2] = b
  BY <1>4
<1>6. PICK y : y = <<b, a>>
  OBVIOUS
<1>7. y \in Seq(Nat) /\ Len(y) = 2 /\ y[1] = b /\ y[2] = a
  BY <1>6
<1>8. PICK u : u = z \o x /\ Joined(z, x, u)
  BY <1>5, Joins, Zenon
<1>9. PICK v : v = y \o z /\ Joined(y, z, v)
  BY <1>7, Joins, Zenon
<1>10. /\ u \in Seq(Nat) /\ Len(u) = 6 + 2
       /\ (\A i \in 1..6 : u[i] = z[i]) /\ \A i \in 1..2 : u[6 + i] = x[i]
  BY <1>3, <1>5, <1>8, Zenon DEF Joined
<1>11. /\ v \in Seq(Nat) /\ Len(v) = 2 + 6
       /\ (\A i \in 1..2 : v[i] = y[i]) /\ \A i \in 1..6 : v[2 + i] = z[i]
  BY <1>3, <1>7, <1>9, Zenon DEF Joined
<1>12. u[7] = a /\ u[8] = b /\ \A i \in 1..6 : u[i] = 0
  <2>1. u[6 + 1] = a /\ u[6 + 2] = b
    <3>1. 1 \in 1..2 /\ 2 \in 1..2
      OBVIOUS
    <3> QED
      BY <1>5, <1>10, <3>1, Zenon
  <2>2. 6 + 1 = 7 /\ 6 + 2 = 8
    OBVIOUS
  <2> QED
    BY <1>3, <1>10, <2>1, <2>2, Zenon
<1>13. v[1] = b /\ v[2] = a /\ \A i \in 3..8 : v[i] = 0
  <2>1. 1 \in 1..2 /\ 2 \in 1..2
    OBVIOUS
  <2>2. v[1] = b /\ v[2] = a
    BY <1>7, <1>11, <2>1, Zenon
  <2>3. ASSUME NEW i \in 3..8 PROVE v[i] = 0
    <3>1. PICK j : j = i - 2
      OBVIOUS
    <3>2. j \in 1..6 /\ 2 + j = i
      BY <3>1
    <3> QED
      BY <1>3, <1>11, <3>2, Zenon
  <2> QED
    BY <2>2, <2>3
<1>14. PICK r : r = Reverse(u)
  OBVIOUS
<1>15. Len(u) = 8 /\ Len(v) = 8
  BY <1>10, <1>11
<1>16. r = [i \in 1..8 |-> u[(8 - i) + 1]]
  BY <1>14, <1>15, Zenon DEF Reverse
<1>17. ASSUME NEW i \in 1..8 PROVE r[i] = v[i] /\ v[i] \in Nat
  <2>1. PICK j : j = (8 - i) + 1
    OBVIOUS
  <2>2. r[i] = u[j]
    BY <1>16, <2>1, Zenon
  <2>3. CASE i = 1
    <3>1. j = 8
      BY <2>1, <2>3
    <3> QED
      BY <1>12, <1>13, <2>2, <2>3, <3>1, Zenon
  <2>4. CASE i = 2
    <3>1. j = 7
      BY <2>1, <2>4
    <3> QED
      BY <1>12, <1>13, <2>2, <2>4, <3>1, Zenon
  <2>5. CASE i # 1 /\ i # 2
    <3>1. i \in 3..8 /\ j \in 1..6 /\ 0 \in Nat
      BY <2>1, <2>5
    <3> QED
      BY <1>12, <1>13, <2>2, <3>1, Zenon
  <2> QED
    BY <2>3, <2>4, <2>5
<1>18. r \in Seq(Nat) /\ Len(r) = 8
  <2>1. r \in [1..8 -> Nat]
    BY <1>16, <1>17
  <2>2. 8 \in Nat
    OBVIOUS
  <2> QED
    BY <2>1, <2>2, FunSeq, Zenon
<1>19. r = v
  BY <1>11, <1>15, <1>17, <1>18, SameSeq
<1>20. EightBytes(n) = u
  BY <1>2, <1>3, <1>4, <1>8 DEF EightBytes
<1>21. Reverse(EightBytes(n)) = y \o z
  BY <1>9, <1>14, <1>19, <1>20, Zenon
<1>22. y = <<n % 256, n \div 256>>
  BY <1>2, <1>6
<1> QED
  BY <1>3, <1>21, <1>22

\* MD5 processes the message as the standard pads it.
LEMMA FinalFlat ==
    ASSUME NEW c, NEW m, MD5Holds(c, m)
    PROVE  FlattenSeq(MD5Final(c).blocks) = Reference(m, Reverse(EightBytes(8 * Len(m))))
<1>1. PICK r : c.bits = 8 * Len(m) /\ Collects(m, c.blocks, c.buffer, r)
  BY DEF MD5Holds
<1>2. m \in Seq(Nat) /\ r \in 0..63 /\ Len(m) \in Nat
  BY <1>1 DEF Collects, BlockLen
<1>3. (c.bits \div 8) % BlockLen = r
  BY <1>1, MD5Index, Zenon
<1>4. PICK z \in Nat : z = IF r < LengthAt THEN LengthAt - (r + 1) ELSE (BlockLen - (r + 1)) + LengthAt
  <2>1. PICK z : z = IF r < LengthAt THEN LengthAt - (r + 1) ELSE (BlockLen - (r + 1)) + LengthAt
    OBVIOUS
  <2>2. z \in Nat
    BY <1>2, <2>1 DEF LengthAt, BlockLen
  <2> QED
    BY <2>1, <2>2
<1>5. ZeroCount(m) = z
  BY <1>1, <1>4, ZerosOf, Zenon
<1>6. PICK padLen : padLen = IF r < LengthAt THEN LengthAt - r ELSE BlockLen + LengthAt - r
  OBVIOUS
<1>7. padLen - 1 = z
  BY <1>2, <1>4, <1>6 DEF LengthAt, BlockLen
<1>8. PICK e : e = Reverse(EightBytes(c.bits))
  OBVIOUS
<1>9. c.bits \in Nat
  BY <1>1, <1>2
<1>10. e = <<c.bits % 256, c.bits \div 256>> \o Zeros(6)
  BY <1>8, <1>9, LengthReversed, Zenon
<1>11. e \in Seq(Nat) /\ Len(e) = 8
  <2>1. PICK y \in Seq(Nat) : y = EightBytes(c.bits) /\ Len(y) = 8
    BY <1>9, EightSeq
  <2>2. Reverse(y) \in Seq(Nat) /\ Len(Reverse(y)) = 8
    BY <2>1, ReversedSeq, Zenon
  <2> QED
    BY <1>8, <2>1, <2>2, Zenon
<1>12. PICK t \in Seq(Nat) : t = Tail1(z) /\ Len(t) = 1 + z
  BY TailSeq
<1>13. PICK d : d = MD5Update(c, t)
  OBVIOUS
<1>14. MD5Holds(d, m \o t)
  BY <1>13, UpdateHolds, Zenon
<1>15. PICK f : f = MD5Update(d, e)
  OBVIOUS
<1>16. MD5Holds(f, (m \o t) \o e)
  BY <1>11, <1>14, <1>15, UpdateHolds, Zenon
<1>17. MD5Final(c) = f
  BY <1>3, <1>6, <1>7, <1>10, <1>12, <1>13, <1>15, ZenonT(30) DEF MD5Final, Tail1
<1>18. PICK s : Collects((m \o t) \o e, f.blocks, f.buffer, s)
  BY <1>16, Zenon DEF MD5Holds
<1>19. s = 0
  <2>1. Len((m \o t) \o e) = (Len(m) + (1 + z)) + 8
    <3>1. Joined(m, t, m \o t)
      BY <1>2, Joins, Zenon
    <3>2. PICK x \in Seq(Nat) : x = m \o t /\ Len(x) = Len(m) + (1 + z)
      BY <1>12, <3>1, Zenon DEF Joined
    <3>3. Joined(x, e, x \o e)
      BY <1>11, Joins, Zenon
    <3> QED
      BY <1>11, <3>2, <3>3, Zenon DEF Joined
  <2>2. PICK q \in Nat : Len(m) = 64 * q + r
    BY <1>1 DEF Collects, BlockLen
  <2>3. (64 * q + r) + (1 + z) + 8 = 64 * (IF r < 56 THEN q + 1 ELSE q + 2)
    BY <1>2, <1>4 DEF LengthAt, BlockLen
  <2>4. PICK k \in Nat : k = IF r < 56 THEN q + 1 ELSE q + 2
    BY <1>2
  <2>5. Len((m \o t) \o e) = 64 * k
    BY <2>1, <2>2, <2>3, <2>4, Zenon
  <2>6. s \in 0..63 /\ Len(f.blocks) \in Nat /\ 64 * k = 64 * Len(f.blocks) + s
    BY <1>18, <2>5 DEF Collects, BlockLen
  <2>7. PICK l \in Nat : l = Len(f.blocks)
    BY <2>6
  <2>8. s \in 0..63 /\ 64 * k = 64 * l + s
    BY <2>6, <2>7
  <2> QED
    BY <2>8
<1>20. FlattenSeq(f.blocks) = (m \o t) \o e
  BY <1>18, <1>19, CollectsFlat, Zenon
<1>21. Reference(m, e) = (m \o t) \o e
  BY <1>2, <1>5, <1>11, <1>12, ReferenceOf, Zenon
<1> QED
  BY <1>1, <1>8, <1>17, <1>20, <1>21, Zenon

\* Every message of bytes, given in two pieces, fills the blocks of the standards.
LEMMA PaddedAt ==
    ASSUME NEW message \in Seq(Nat), NEW k \in 0..Len(message)
    PROVE  PaddedFor(message, k)
<1> DEFINE first == SubSeq(message, 1, k)
           rest == SubSeq(message, k + 1, Len(message))
<1>1. Len(message) \in 0..Len(message)
  OBVIOUS
<1>2. first \o rest = SubSeq(message, 1, Len(message))
  BY <1>1, Adjacent, Zenon
<1>3. SubSeq(message, 1, Len(message)) = message
  OBVIOUS
<1>4. first \in Seq(Nat) /\ rest \in Seq(Nat)
  <2>1. /\ 1 \in 1..(Len(message) + 1) /\ k \in (1 - 1)..Len(message)
        /\ k + 1 \in 1..(Len(message) + 1) /\ Len(message) \in ((k + 1) - 1)..Len(message)
    OBVIOUS
  <2> QED
    BY <2>1, SubPart, Zenon
<1> HIDE DEF first, rest
<1>5. <<>> \o first = first
  BY <1>4
<1>6. SHA1Holds(SHA1Input(SHA1Input(SHA1Reset, first), rest), message)
  <2>1. SHA1Holds(SHA1Input(SHA1Reset, first), <<>> \o first)
    BY <1>4, ResetHolds, InputHolds, Zenon
  <2>2. SHA1Holds(SHA1Input(SHA1Input(SHA1Reset, first), rest), (<<>> \o first) \o rest)
    BY <2>1, <1>4, InputHolds, Zenon
  <2> QED
    BY <2>2, <1>2, <1>3, <1>5, Zenon
<1>7. MD5Holds(MD5Update(MD5Update(MD5Init, first), rest), message)
  <2>1. MD5Holds(MD5Update(MD5Init, first), <<>> \o first)
    BY <1>4, MD5InitHolds, UpdateHolds, Zenon
  <2>2. MD5Holds(MD5Update(MD5Update(MD5Init, first), rest), (<<>> \o first) \o rest)
    BY <2>1, <1>4, UpdateHolds, Zenon
  <2> QED
    BY <2>2, <1>2, <1>3, <1>5, Zenon
<1>8. /\ ~SHA1Result(SHA1Input(SHA1Input(SHA1Reset, first), rest)).corrupted
      /\ FlattenSeq(SHA1Result(SHA1Input(SHA1Input(SHA1Reset, first), rest)).blocks)
           = Reference(message, EightBytes(8 * Len(message)))
  BY <1>6, ResultFlat, Zenon
<1>9. FlattenSeq(MD5Final(MD5Update(MD5Update(MD5Init, first), rest)).blocks)
        = Reference(message, Reverse(EightBytes(8 * Len(message))))
  BY <1>7, FinalFlat, Zenon
<1> QED
  BY <1>8, <1>9, Zenon DEF PaddedFor, first, rest

LEMMA EveryPiecePadded == Padded
<1>1. ASSUME NEW n \in 0..130, NEW k \in {0, n \div 2, n}
      PROVE  PaddedFor([i \in 1..n |-> i], k)
  <2>1. PICK m : m = [i \in 1..n |-> i]
    OBVIOUS
  <2>2. n \in Nat /\ m \in [1..n -> Nat]
    BY <2>1
  <2>3. m \in Seq(Nat) /\ Len(m) = n
    BY <2>2, FunSeq, Zenon
  <2>4. k \in 0..n
    OBVIOUS
  <2>5. k \in 0..Len(m)
    BY <2>3, <2>4, Zenon
  <2>6. PaddedFor(m, k)
    BY <2>3, <2>5, PaddedAt, Zenon
  <2> QED
    BY <2>1, <2>6, Zenon
<1> QED
  BY <1>1, Zenon DEF Padded

THEOREM MessagesPadded ==
    \A message \in Seq(0..255) :
        Len(message) < MaxLen => \A k \in 0..Len(message) : PaddedFor(message, k)
<1> SUFFICES ASSUME NEW message \in Seq(0..255), NEW k \in 0..Len(message)
             PROVE  PaddedFor(message, k)
  BY Zenon
<1>1. \A x \in 0..255 : x \in Nat
  OBVIOUS
<1>2. message \in Seq(Nat)
  BY <1>1, Widen, Zenon
<1> QED
  BY <1>2, PaddedAt, Zenon

-----------------------------------------------------------------------------
\* A client that was greeted understands the server, whatever happened before.
THEOREM UnderstoodCorrect == Spec => []Understood
<1>1. Understood
  BY TextsRestored, MessagesPadded, EveryPiecePadded, Zenon DEF Understood
<1> QED
  BY <1>1, PTL

=============================================================================
