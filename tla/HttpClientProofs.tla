--------------------------- MODULE HttpClientProofs ---------------------------
(* Proofs about the HTTP client, for any number of requests, any pool of       *)
(* descriptors, any sizes of its buffers and any length of header and body.    *)
EXTENDS HttpClient, WellFoundedInduction, TLAPS

-----------------------------------------------------------------------------
(* Sequences and least elements *)

LEMMA Least == ASSUME NEW S \in SUBSET Nat, S # {}
               PROVE  Min(S) \in S /\ \A m \in S : Min(S) <= m
<1>1. \E n \in S : \A m \in S : ~ (<<m, n>> \in OpToRel(<, Nat))
  BY NatLessThanWellFounded, WFMin
<1>2. \E n \in S : \A m \in S : n <= m
  <2>1. ASSUME NEW n \in S, NEW m \in S, ~ (<<m, n>> \in OpToRel(<, Nat))
        PROVE  n <= m
    BY <2>1 DEF OpToRel
  <2> QED
    BY <1>1, <2>1
<1> QED
  BY <1>2, Zenon DEF Min

LEMMA FirstFree == ASSUME Free # {} PROVE Min(Free) \in Fds /\ owner[Min(Free)] = Nobody
<1>1. Free \in SUBSET Nat /\ Free \in SUBSET Fds
  BY DEF Free, Fds
<1> QED
  BY <1>1, Least DEF Free

LEMMA Cat == ASSUME NEW S, NEW a \in Seq(S), NEW b \in Seq(S)
  PROVE /\ a \o b \in Seq(S) /\ Len(a \o b) = Len(a) + Len(b)
        /\ \A i \in 1..Len(a) : (a \o b)[i] = a[i]
        /\ \A i \in 1..Len(b) : (a \o b)[Len(a) + i] = b[i]
OBVIOUS

LEMMA Part ==
    ASSUME NEW S, NEW s \in Seq(S), NEW m \in 1..(Len(s) + 1), NEW n \in (m - 1)..Len(s)
    PROVE  /\ SubSeq(s, m, n) \in Seq(S) /\ Len(SubSeq(s, m, n)) = n - m + 1
           /\ \A i \in 1..(n - m + 1) : SubSeq(s, m, n)[i] = s[m + i - 1]
OBVIOUS

\* A sequence without its first k elements.
LEMMA Rest ==
    ASSUME NEW S, NEW s \in Seq(S), NEW k \in 0..Len(s)
    PROVE  /\ SubSeq(s, k + 1, Len(s)) \in Seq(S) /\ Len(SubSeq(s, k + 1, Len(s))) = Len(s) - k
           /\ \A i \in 1..(Len(s) - k) : SubSeq(s, k + 1, Len(s))[i] = s[k + i]
<1>1. Len(s) \in Nat /\ k \in Nat /\ k <= Len(s)
  OBVIOUS
<1>2. PICK m : m = k + 1
  OBVIOUS
<1>3. m \in 1..(Len(s) + 1) /\ Len(s) \in (m - 1)..Len(s) /\ Len(s) - m + 1 = Len(s) - k
  BY <1>1, <1>2
<1>4. PICK r : r = SubSeq(s, m, Len(s))
  OBVIOUS
<1>5. /\ r \in Seq(S) /\ Len(r) = Len(s) - m + 1
      /\ \A i \in 1..(Len(s) - m + 1) : r[i] = s[m + i - 1]
  BY <1>3, <1>4, Part
<1>6. ASSUME NEW i \in 1..(Len(s) - k) PROVE r[i] = s[k + i]
  <2>1. m + i - 1 = k + i
    BY <1>1, <1>2
  <2> QED
    BY <1>3, <1>5, <2>1
<1> QED
  BY <1>2, <1>3, <1>4, <1>5, <1>6

LEMMA SameSeq ==
    ASSUME NEW S, NEW a \in Seq(S), NEW b \in Seq(S),
           Len(a) = Len(b), \A i \in 1..Len(a) : a[i] = b[i]
    PROVE  a = b
OBVIOUS

-----------------------------------------------------------------------------
(* Types *)

Token == Int

HttpTypes ==
    /\ wire \in [Conns -> Seq(Token)]
    /\ cacheBuf \in [Requests -> Seq(Token)]
    /\ got \in [Requests -> Seq(Token)]
    /\ docLen \in [Requests -> {0, BodyLen}]
    /\ total \in [Requests -> Nat]
    /\ sendPos \in [Requests -> 0..PostLen]
    /\ result \in [Requests -> {"none", "ConnectFail", "Connected", "PostFail", "RecviceFail", "Finish"}]
    /\ served \in [Requests -> {"none", "whole", "less"}]
    /\ strayed \subseteq Requests
    /\ overlapped \in BOOLEAN

Typed == TypeOK /\ HttpTypes

\* A pass over the actions of Next, for the proofs about its steps.
Acts ==
    \/ \E r \in Requests :
         \/ \E m \in Methods : Start(r, m)
         \/ BadUrl(r) \/ LookupFails(r) \/ NoSocket(r) \/ Socket(r) \/ Connects(r)
         \/ ConnectFails(r) \/ SendHeader(r) \/ SendPiece(r) \/ SendLast(r)
         \/ RecvBegin(r) \/ RecvZero(r) \/ RecvFails(r) \/ CloseSock(r)
         \/ \E chunk \in Bytes(r) :
              \/ RecvTooMuch(r, chunk) \/ RecvHeader(r, chunk)
              \/ RecvHeaderEnd(r, chunk) \/ RecvBody(r, chunk)
    \/ \E c \in Requests, how \in {"gone", "reset"} : ServerEnds(c, how)
    \/ OtherOpens
LEMMA NextActs == Next => Acts
BY DEF Next, Task, Receives, Acts

LEMMA BodyTyped == /\ Body \in Seq(Token) /\ Len(Body) = BodyLen
                   /\ \A i \in 1..BodyLen : Body[i] = i
<1>1. BodyLen \in Nat
  BY ClientAssumption
<1> QED
  BY <1>1 DEF Body, Token

\* What recv() returns and what it leaves on the wire.
LEMMA ChunkTyped ==
    ASSUME Typed, NEW r \in Requests, NEW chunk \in Bytes(r)
    PROVE  /\ recvOn[r] \in Conns /\ conn[recvOn[r]] \in {"up", "gone"}
           /\ wire[recvOn[r]] \in Seq(Token) /\ chunk \in Seq(Token)
           /\ Len(chunk) \in 1..Len(wire[recvOn[r]])
           /\ \A i \in 1..Len(chunk) : chunk[i] = wire[recvOn[r]][i]
<1>1. recvOn[r] # Nobody /\ conn[recvOn[r]] \in {"up", "gone"}
  BY DEF Bytes
<1>2. recvOn[r] \in Conns
  BY <1>1 DEF Typed, TypeOK
<1>3. PICK w \in Seq(Token) : w = wire[recvOn[r]]
  BY <1>2 DEF Typed, HttpTypes
<1>4. PICK n \in 1..Min({ChunkSize, Len(w)}) : chunk = SubSeq(w, 1, n)
  BY <1>1, <1>3 DEF Bytes
<1>5. Min({ChunkSize, Len(w)}) <= Len(w) /\ Min({ChunkSize, Len(w)}) \in Nat
  <2>1. ChunkSize \in Nat /\ Len(w) \in Nat
    BY ClientAssumption
  <2>2. {ChunkSize, Len(w)} \in SUBSET Nat /\ Len(w) \in {ChunkSize, Len(w)}
    BY <2>1
  <2> QED
    BY <2>2, Least
<1>6. n \in 1..Len(w) /\ n \in Nat
  BY <1>5
<1>7. 1 \in 1..(Len(w) + 1) /\ n \in (1 - 1)..Len(w)
  BY <1>6
<1>8. /\ SubSeq(w, 1, n) \in Seq(Token) /\ Len(SubSeq(w, 1, n)) = n - 1 + 1
      /\ \A i \in 1..(n - 1 + 1) : SubSeq(w, 1, n)[i] = w[1 + i - 1]
  BY <1>7, Part
<1>9. PICK c \in Seq(Token) : c = chunk
  BY <1>4, <1>8
<1>10. Len(c) = n /\ \A i \in 1..n : c[i] = w[i]
  BY <1>4, <1>6, <1>8, <1>9
<1> QED
  BY <1>1, <1>2, <1>3, <1>6, <1>9, <1>10

LEMMA TakeTyped ==
    ASSUME Typed, NEW r \in Requests, NEW chunk \in Bytes(r), Take(r, chunk)
    PROVE  /\ wire' \in [Conns -> Seq(Token)] /\ recvOn' \in [Requests -> Conns \cup {Nobody}]
           /\ Len(wire'[recvOn[r]]) = Len(wire[recvOn[r]]) - Len(chunk)
           /\ \A i \in 1..(Len(wire[recvOn[r]]) - Len(chunk)) :
                wire'[recvOn[r]][i] = wire[recvOn[r]][Len(chunk) + i]
<1>1. PICK w \in Seq(Token) : w = wire[recvOn[r]]
  BY ChunkTyped
<1>2. PICK k \in 0..Len(w) : k = Len(chunk)
  BY <1>1, ChunkTyped
<1>3. PICK v : v = SubSeq(w, k + 1, Len(w))
  OBVIOUS
<1>4. /\ v \in Seq(Token) /\ Len(v) = Len(w) - k
      /\ \A i \in 1..(Len(w) - k) : v[i] = w[k + i]
  BY <1>3, Rest
<1>5. wire' = [wire EXCEPT ![recvOn[r]] = v] /\ recvOn' = [recvOn EXCEPT ![r] = Nobody]
  BY <1>1, <1>2, <1>3 DEF Take
<1>6. wire \in [Conns -> Seq(Token)] /\ recvOn[r] \in Conns
  BY ChunkTyped DEF Typed, HttpTypes
<1>7. wire' \in [Conns -> Seq(Token)] /\ wire'[recvOn[r]] = v
  BY <1>4, <1>5, <1>6
<1>8. recvOn' \in [Requests -> Conns \cup {Nobody}]
  BY <1>5 DEF Typed, TypeOK
<1> QED
  BY <1>1, <1>2, <1>4, <1>7, <1>8

\* A response: the length, if it is sent, is the first token, the end of the
\* header the h-th one, and the tokens of the body are numbered.
At(h, first, i) ==
    IF i < h THEN IF i = 1 THEN first ELSE Header
    ELSE IF i = h THEN HeaderEnd ELSE i - h
First(withLength) == IF withLength THEN LengthLine ELSE Header

HeaderLen(n, withLength) == (IF withLength THEN n + 1 ELSE n) + 1
ContentLen(m) == IF m = "head" THEN 0 ELSE BodyLen

LEMMA ResponseIs ==
    ASSUME NEW n \in Nat, NEW withLength \in BOOLEAN, NEW m
    PROVE  LET s == Response(n, withLength, m)
               h == HeaderLen(n, withLength)
           IN  /\ s \in Seq(Token) /\ Len(s) = h + ContentLen(m)
               /\ \A i \in 1..Len(s) : s[i] = At(h, First(withLength), i)
<1>0. BodyLen \in Nat /\ LengthLine \in Token /\ Header \in Token /\ HeaderEnd \in Token
  BY ClientAssumption DEF LengthLine, Header, HeaderEnd, Token
<1>1. PICK a \in Seq(Token) : a = IF withLength THEN <<LengthLine>> ELSE <<>>
  <2>1. <<LengthLine>> \in Seq(Token) /\ <<>> \in Seq(Token)
    BY <1>0
  <2> QED
    BY <2>1
<1>2. /\ Len(a) = IF withLength THEN 1 ELSE 0
      /\ \A i \in 1..Len(a) : i = 1 /\ withLength /\ a[i] = LengthLine
  <2>1. CASE withLength
    <3>1. a = <<LengthLine>>
      BY <1>1, <2>1
    <3>2. Len(a) = 1 /\ a[1] = LengthLine
      BY <3>1
    <3>3. \A i \in 1..1 : i = 1
      OBVIOUS
    <3> QED
      BY <2>1, <3>2, <3>3
  <2>2. CASE ~withLength
    <3>1. a = <<>>
      BY <1>1, <2>2
    <3>2. Len(a) = 0
      BY <3>1
    <3>3. \A i \in 1..0 : FALSE
      OBVIOUS
    <3> QED
      BY <2>2, <3>2, <3>3
  <2> QED
    BY <2>1, <2>2
<1>3. PICK b \in Seq(Token) : /\ b = [i \in 1..n |-> Header] /\ Len(b) = n
                              /\ \A i \in 1..n : b[i] = Header
  <2>1. /\ [i \in 1..n |-> Header] \in Seq(Token) /\ Len([i \in 1..n |-> Header]) = n
        /\ \A j \in 1..n : [i \in 1..n |-> Header][j] = Header
    BY <1>0
  <2> QED
    BY <2>1
<1>4. PICK c \in Seq(Token) : c = <<HeaderEnd>> /\ Len(c) = 1 /\ c[1] = HeaderEnd
  <2>1. <<HeaderEnd>> \in Seq(Token) /\ Len(<<HeaderEnd>>) = 1 /\ <<HeaderEnd>>[1] = HeaderEnd
    BY <1>0
  <2> QED
    BY <2>1
<1>5. PICK d \in Seq(Token) : /\ d = IF m = "head" THEN <<>> ELSE Body
                              /\ Len(d) = ContentLen(m) /\ \A i \in 1..Len(d) : d[i] = i
  <2>1. CASE m = "head"
    <3>1. PICK e \in Seq(Token) : e = <<>> /\ Len(e) = 0
      <4>1. <<>> \in Seq(Token) /\ Len(<<>>) = 0
        OBVIOUS
      <4> QED
        BY <4>1
    <3>2. \A i \in 1..0 : e[i] = i
      OBVIOUS
    <3>3. ContentLen(m) = 0 /\ e = IF m = "head" THEN <<>> ELSE Body
      BY <2>1, <3>1 DEF ContentLen
    <3> QED
      BY <3>1, <3>2, <3>3
  <2>2. CASE m # "head"
    BY <2>2, BodyTyped DEF ContentLen
  <2> QED
    BY <2>1, <2>2
<1>6. PICK u \in Seq(Token) : u = a \o b
  BY Cat
<1>7. /\ Len(u) = Len(a) + n
      /\ \A i \in 1..Len(a) : u[i] = a[i]
      /\ \A i \in 1..n : u[Len(a) + i] = Header
  BY <1>3, <1>6, Cat
<1>8. PICK v \in Seq(Token) : v = u \o c
  BY Cat
<1>9. PICK h : h = HeaderLen(n, withLength)
  OBVIOUS
<1>10. /\ Len(a) \in Nat /\ h \in Nat /\ h >= 1 /\ Len(u) = h - 1 /\ ContentLen(m) \in Nat
       /\ withLength => Len(a) = 1
       /\ ~withLength => Len(a) = 0
  BY <1>0, <1>2, <1>7, <1>9 DEF HeaderLen, ContentLen
<1>11. Len(v) = h /\ (\A i \in 1..(h - 1) : v[i] = u[i]) /\ v[h] = HeaderEnd
  <2>1. /\ Len(v) = Len(u) + Len(c) /\ \A i \in 1..Len(u) : v[i] = u[i]
        /\ \A i \in 1..Len(c) : v[Len(u) + i] = c[i]
    BY <1>8, Cat
  <2>2. 1 \in 1..Len(c) /\ Len(u) + 1 = h
    BY <1>4, <1>10
  <2>3. v[Len(u) + 1] = HeaderEnd
    BY <1>4, <2>1, <2>2
  <2> QED
    BY <1>4, <1>10, <2>1, <2>2, <2>3
<1>12. PICK s \in Seq(Token) : s = v \o d
  BY Cat
<1>13. /\ Len(s) = h + ContentLen(m) /\ \A i \in 1..h : s[i] = v[i]
       /\ \A i \in 1..ContentLen(m) : s[h + i] = i
  <2>1. /\ Len(s) = Len(v) + Len(d) /\ \A i \in 1..Len(v) : s[i] = v[i]
        /\ \A i \in 1..Len(d) : s[Len(v) + i] = d[i]
    BY <1>12, Cat
  <2>2. PICK k : k = ContentLen(m)
    OBVIOUS
  <2>3. Len(d) = k /\ \A i \in 1..k : d[i] = i
    BY <1>5, <2>2
  <2> QED
    BY <1>11, <2>1, <2>2, <2>3
<1>14. ASSUME NEW i \in 1..(h - 1) PROVE s[i] = IF withLength /\ i = 1 THEN LengthLine ELSE Header
  <2>1. i \in 1..h /\ i \in Nat /\ i >= 1
    BY <1>10
  <2>2. s[i] = u[i]
    BY <1>11, <1>13, <2>1
  <2>3. CASE i <= Len(a)
    <3>1. i \in 1..Len(a)
      BY <1>10, <2>1, <2>3
    <3>2. u[i] = LengthLine /\ i = 1 /\ withLength
      BY <1>2, <1>7, <3>1
    <3> QED
      BY <2>2, <3>2
  <2>4. CASE i > Len(a)
    <3>1. PICK j : j = i - Len(a)
      OBVIOUS
    <3>2. j \in 1..n /\ Len(a) + j = i
      BY <1>7, <1>10, <2>1, <2>4, <3>1
    <3>3. u[i] = Header
      BY <1>7, <3>2
    <3>4. ASSUME withLength PROVE i # 1
      <4>1. Len(a) = 1
        BY <1>10, <3>4, Zenon
      <4>2. i > 1
        BY <2>4, <4>1
      <4> QED
        BY <2>1, <4>2
    <3> QED
      BY <2>2, <3>3, <3>4, Zenon
  <2> QED
    BY <1>10, <2>1, <2>3, <2>4
<1>15. ASSUME NEW i \in 1..Len(s) PROVE s[i] = At(h, First(withLength), i)
  <2>0. i \in Nat /\ i >= 1 /\ i <= h + ContentLen(m)
    BY <1>10, <1>13
  <2>1. CASE i < h
    <3>1. i \in 1..(h - 1)
      BY <1>10, <2>0, <2>1
    <3>2. s[i] = IF withLength /\ i = 1 THEN LengthLine ELSE Header
      BY <1>14, <3>1
    <3>3. s[i] = IF i = 1 THEN First(withLength) ELSE Header
      BY <3>2, Zenon DEF First
    <3> QED
      BY <2>1, <3>3 DEF At
  <2>2. CASE i = h
    <3>1. i \in 1..h /\ ~(i < h)
      BY <1>10, <2>0, <2>2
    <3>2. s[i] = v[h]
      BY <1>13, <2>2, <3>1
    <3> QED
      BY <1>11, <2>2, <3>1, <3>2 DEF At
  <2>3. CASE i > h
    <3>1. PICK j : j = i - h
      OBVIOUS
    <3>2. j \in 1..ContentLen(m) /\ h + j = i /\ ~(i < h) /\ i # h
      BY <1>10, <2>0, <2>3, <3>1
    <3>3. s[h + j] = j
      BY <1>13, <3>2
    <3> QED
      BY <3>1, <3>2, <3>3 DEF At
  <2> QED
    BY <1>10, <2>0, <2>1, <2>2, <2>3
<1>16. s = Response(n, withLength, m)
  BY <1>1, <1>3, <1>4, <1>5, <1>6, <1>8, <1>12 DEF Response
<1> QED
  BY <1>9, <1>13, <1>15, <1>16

\* What the server puts on the wire.
LEMMA AnswersIs ==
    ASSUME Typed, NEW r \in Requests, Answers(r)
    PROVE  \E h \in Nat \ {0}, first \in {LengthLine, Header}, cut \in {0, 1}, x \in Seq(Token) :
              /\ wire' = [wire EXCEPT ![Current] = @ \o x]
              /\ first = LengthLine => h > 1
              /\ Len(x) = h + ContentLen(method[r]) - cut
              /\ \A i \in 1..Len(x) : x[i] = At(h, first, i)
              /\ served' = Kept(served, r, IF first = LengthLine /\ cut = 0 THEN "whole" ELSE "less")
<1>1. PICK n \in Headers, withLength \in BOOLEAN, cut \in {0, 1} :
        LET s == Response(n, withLength, method[r])
        IN  /\ wire' = [wire EXCEPT ![Current] = @ \o SubSeq(s, 1, Len(s) - cut)]
            /\ served' = Kept(served, r, IF withLength /\ cut = 0 THEN "whole" ELSE "less")
  BY DEF Answers
<1>2. n \in Nat /\ BodyLen \in Nat
  BY ClientAssumption
<1>3. PICK h : h = HeaderLen(n, withLength)
  OBVIOUS
<1>4. h \in Nat \ {0} /\ (withLength => h > 1) /\ ContentLen(method[r]) \in Nat
  BY <1>2, <1>3 DEF HeaderLen, ContentLen
<1>5. PICK s \in Seq(Token) : /\ s = Response(n, withLength, method[r])
                              /\ Len(s) = h + ContentLen(method[r])
                              /\ \A i \in 1..Len(s) : s[i] = At(h, First(withLength), i)
  BY <1>2, <1>3, ResponseIs
<1>6. PICK k : k = Len(s) - cut
  OBVIOUS
<1>7. k \in Nat /\ k <= Len(s) /\ k = h + ContentLen(method[r]) - cut
  BY <1>4, <1>5, <1>6
<1>8. 1 \in 1..(Len(s) + 1) /\ k \in (1 - 1)..Len(s)
  BY <1>7
<1>9. PICK x : x = SubSeq(s, 1, k)
  OBVIOUS
<1>10. x \in Seq(Token) /\ Len(x) = k - 1 + 1 /\ \A i \in 1..(k - 1 + 1) : x[i] = s[1 + i - 1]
  BY <1>8, <1>9, Part
<1>11. Len(x) = k /\ \A i \in 1..Len(x) : x[i] = At(h, First(withLength), i)
  <2>1. Len(x) = k /\ \A i \in 1..k : x[i] = s[i]
    BY <1>7, <1>10
  <2>2. \A i \in 1..k : i \in 1..Len(s)
    BY <1>7
  <2> QED
    BY <1>5, <2>1, <2>2
<1>12. wire' = [wire EXCEPT ![Current] = @ \o x]
  BY <1>1, <1>5, <1>6, <1>9
<1>13. PICK first : first = First(withLength)
  OBVIOUS
<1>14. first \in {LengthLine, Header} /\ (first = LengthLine <=> withLength)
  BY <1>13 DEF First, LengthLine, Header
<1>15. served' = Kept(served, r, IF first = LengthLine /\ cut = 0 THEN "whole" ELSE "less")
  BY <1>1, <1>14, Zenon
<1>16. /\ first = LengthLine => h > 1
       /\ Len(x) = h + ContentLen(method[r]) - cut
       /\ \A i \in 1..Len(x) : x[i] = At(h, first, i)
  BY <1>4, <1>7, <1>11, <1>13, <1>14
<1> QED
  BY <1>4, <1>10, <1>12, <1>15, <1>14, <1>16, Zenon

LEMMA TypeInit == Init => Typed
<1> SUFFICES ASSUME Init PROVE Typed
  OBVIOUS
<1>1. <<>> \in Seq(Token) /\ Len(<<>>) = 0
  OBVIOUS
<1>2. /\ MaxFds \in Nat /\ CacheSize \in Nat /\ CacheSize > 0 /\ BodyLen \in Nat /\ PostLen \in Nat
  BY ClientAssumption
<1>3. TypeOK
  <2>1. \A r \in Requests : cacheBuf[r] = <<>> /\ docLen[r] = 0 /\ total[r] = 0 /\ sendPos[r] = 0
    BY DEF Init
  <2>2. \A r \in Requests : /\ Len(cacheBuf[r]) < CacheSize
                            /\ docLen[r] \in {0, BodyLen} /\ total[r] >= 0 /\ sendPos[r] \in 0..PostLen
    BY <1>1, <1>2, <2>1
  <2> QED
    BY <1>2, <2>2 DEF Init, TypeOK
<1>4. HttpTypes
  <2>1. PICK e \in Seq(Token) : e = <<>>
    BY <1>1
  <2>2. /\ wire = [c \in Conns |-> e] /\ cacheBuf = [r \in Requests |-> e] /\ got = cacheBuf
        /\ docLen = [r \in Requests |-> 0] /\ total = docLen /\ sendPos = docLen
        /\ result = [r \in Requests |-> "none"] /\ served = result
        /\ strayed = {} /\ overlapped = FALSE
    BY <2>1 DEF Init
  <2>3. 0 \in Nat /\ 0 \in 0..PostLen /\ 0 \in {0, BodyLen}
    BY <1>2
  <2> QED
    BY <2>2, <2>3 DEF HttpTypes
<1> QED
  BY <1>3, <1>4 DEF Typed

LEMMA CurrentIs ==
    ASSUME Typed, Current # Nobody PROVE sock \in Fds /\ owner[sock] = Current /\ Current \in Conns
BY DEF Typed, TypeOK, Current

LEMMA CloseTyped ==
    ASSUME Typed, Current # Nobody, Close(sock)
    PROVE  /\ owner' \in [Fds -> Conns \cup {Nobody}]
           /\ conn' \in [Conns -> {"none", "opened", "up", "gone", "reset", "closed"}]
           /\ wire' \in [Conns -> Seq(Token)]
<1>1. sock \in Fds /\ owner[sock] \in Conns
  BY CurrentIs
<1>2. <<>> \in Seq(Token)
  OBVIOUS
<1> QED
  BY <1>1, <1>2 DEF Close, Typed, TypeOK, HttpTypes

LEMMA ServedTyped ==
    ASSUME Typed, NEW r \in Requests, Answers(r), Current # Nobody
    PROVE  wire' \in [Conns -> Seq(Token)] /\ served' \in [Requests -> {"none", "whole", "less"}]
<1>1. PICK first \in {LengthLine, Header}, cut \in {0, 1}, x \in Seq(Token) :
        /\ wire' = [wire EXCEPT ![Current] = @ \o x]
        /\ served' = Kept(served, r, IF first = LengthLine /\ cut = 0 THEN "whole" ELSE "less")
  BY AnswersIs
<1>2. Current \in Conns /\ wire \in [Conns -> Seq(Token)]
  BY CurrentIs DEF Typed, HttpTypes
<1>3. PICK w \in Seq(Token) : w = wire[Current]
  BY <1>2
<1>4. w \o x \in Seq(Token)
  BY Cat
<1>5. wire' \in [Conns -> Seq(Token)]
  BY <1>1, <1>2, <1>3, <1>4
<1>6. PICK s \in {"whole", "less"} : served' = Kept(served, r, s)
  BY <1>1
<1> QED
  BY <1>5, <1>6 DEF Kept, Typed, HttpTypes

\* What the cache holds behind a header is a part of it.
LEMMA ContentTyped ==
    ASSUME NEW b \in Seq(Token)
    PROVE  /\ SearchLen(b) \in 0..Len(b)
           /\ Content(b) \in Seq(Token) /\ Len(Content(b)) = Len(b) - SearchLen(b)
           /\ \A i \in 1..(Len(b) - SearchLen(b)) : Content(b)[i] = b[SearchLen(b) + i]
           /\ SearchLen(b) = 0 => \A i \in 1..Len(b) : b[i] # HeaderEnd
           /\ SearchLen(b) # 0 => /\ b[SearchLen(b)] = HeaderEnd
                                  /\ \A i \in 1..Len(b) : b[i] = HeaderEnd => SearchLen(b) <= i
<1> DEFINE I == {i \in 1..Len(b) : b[i] = HeaderEnd}
<1>1. SearchLen(b) = IF I # {} THEN Min(I) ELSE 0
  BY DEF SearchLen, SelectInSeq
<1>2. I \in SUBSET Nat /\ Len(b) \in Nat
  OBVIOUS
<1>3. I # {} => Min(I) \in I /\ \A i \in I : Min(I) <= i
  BY <1>2, Least
<1> HIDE DEF I
<1>4. SearchLen(b) \in 0..Len(b)
  BY <1>1, <1>2, <1>3 DEF I
<1>5. SearchLen(b) = 0 => \A i \in 1..Len(b) : b[i] # HeaderEnd
  BY <1>1, <1>2, <1>3 DEF I
<1>6. SearchLen(b) # 0 => /\ b[SearchLen(b)] = HeaderEnd
                          /\ \A i \in 1..Len(b) : b[i] = HeaderEnd => SearchLen(b) <= i
  BY <1>1, <1>2, <1>3 DEF I
<1>7. PICK k \in 0..Len(b) : k = SearchLen(b)
  BY <1>4
<1>8. /\ SubSeq(b, k + 1, Len(b)) \in Seq(Token) /\ Len(SubSeq(b, k + 1, Len(b))) = Len(b) - k
      /\ \A i \in 1..(Len(b) - k) : SubSeq(b, k + 1, Len(b))[i] = b[k + i]
  BY Rest
<1>9. Content(b) = SubSeq(b, k + 1, Len(b))
  BY <1>7 DEF Content
<1> QED
  BY <1>4, <1>5, <1>6, <1>7, <1>8, <1>9

LEMMA KeptTyped ==
    ASSUME Typed, NEW r \in Requests, NEW s \in Seq(Token), got' = Kept(got, r, s)
    PROVE  got' \in [Requests -> Seq(Token)]
BY DEF Kept, Typed, HttpTypes

LEMMA TypeStep == Typed /\ [Next]_vars => Typed'
<1> SUFFICES ASSUME Typed, [Next]_vars PROVE Typed'
  OBVIOUS
<1>0. /\ MaxFds \in Nat /\ CacheSize \in Nat /\ BodyLen \in Nat /\ PostLen \in Nat
      /\ Fds = 1..MaxFds
  BY ClientAssumption DEF Fds
<1>01. <<>> \in Seq(Token) /\ Len(<<>>) = 0
  OBVIOUS
<1>02. 0 < CacheSize
  BY ClientAssumption
<1>1. ASSUME NEW r \in Requests, NEW m \in Methods, Start(r, m) PROVE Typed'
  <2>1. /\ got' \in [Requests -> Seq(Token)] /\ served' \in [Requests -> {"none", "whole", "less"}]
        /\ strayed' \subseteq Requests /\ overlapped' \in BOOLEAN
    BY <1>01, <1>1 DEF Start, Typed, HttpTypes
  <2>2. method' \in [Requests -> Methods \cup {"none"}] /\ pc' = [pc EXCEPT ![r] = "connect"]
    BY <1>1 DEF Start, Goto, Typed, TypeOK
  <2>3. UNCHANGED <<sockVars, recvOn, cacheBuf, docLen, total, sendPos, result>>
    BY <1>1 DEF Start
  <2> QED
    BY <2>1, <2>2, <2>3 DEF sockVars, Typed, TypeOK, HttpTypes
\* Steps that leave the buffers alone.
<1>2. ASSUME UNCHANGED <<method, cacheBuf, docLen, total>>,
             UNCHANGED <<got, strayed, overlapped>>,
             sendPos' \in [Requests -> 0..PostLen],
             sock' \in -1..MaxFds, owner' \in [Fds -> Conns \cup {Nobody}],
             conn' \in [Conns -> {"none", "opened", "up", "gone", "reset", "closed"}],
             wire' \in [Conns -> Seq(Token)],
             recvOn' \in [Requests -> Conns \cup {Nobody}],
             pc' \in [Requests -> {"idle", "connect", "reach", "request", "post", "head", "body",
                                   "close", "done", "lost"}],
             result' \in [Requests -> {"none", "ConnectFail", "Connected", "PostFail", "RecviceFail",
                                       "Finish"}],
             served' \in [Requests -> {"none", "whole", "less"}]
      PROVE  Typed'
  BY <1>2 DEF Typed, TypeOK, HttpTypes
<1>3. /\ sock \in -1..MaxFds /\ owner \in [Fds -> Conns \cup {Nobody}]
      /\ conn \in [Conns -> {"none", "opened", "up", "gone", "reset", "closed"}]
      /\ wire \in [Conns -> Seq(Token)] /\ recvOn \in [Requests -> Conns \cup {Nobody}]
      /\ pc \in [Requests -> {"idle", "connect", "reach", "request", "post", "head", "body",
                              "close", "done", "lost"}]
      /\ result \in [Requests -> {"none", "ConnectFail", "Connected", "PostFail", "RecviceFail",
                                  "Finish"}]
      /\ served \in [Requests -> {"none", "whole", "less"}]
      /\ sendPos \in [Requests -> 0..PostLen]
      /\ cacheBuf \in [Requests -> Seq(Token)] /\ total \in [Requests -> Nat]
      /\ docLen \in [Requests -> {0, BodyLen}] /\ got \in [Requests -> Seq(Token)]
      /\ method \in [Requests -> Methods \cup {"none"}]
      /\ strayed \subseteq Requests /\ overlapped \in BOOLEAN
      /\ \A r \in Requests : Len(cacheBuf[r]) < CacheSize
  BY DEF Typed, TypeOK, HttpTypes
<1>4. ASSUME NEW r \in Requests, BadUrl(r) PROVE Typed'
  BY <1>2, <1>3, <1>4 DEF BadUrl, Goto, Report, sockVars, taskVars, history
<1>5. ASSUME NEW r \in Requests, LookupFails(r) PROVE Typed'
  BY <1>0, <1>01, <1>2, <1>3, <1>5 DEF LookupFails, taskVars, outVars, history
<1>6. ASSUME NEW r \in Requests, NoSocket(r) PROVE Typed'
  BY <1>0, <1>2, <1>3, <1>6 DEF NoSocket, Goto, Report, taskVars, history
<1>7. ASSUME NEW r \in Requests, Socket(r) PROVE Typed'
  <2>1. Min(Free) \in Fds
    BY <1>7, FirstFree DEF Socket
  <2>2. Min(Free) \in -1..MaxFds /\ r \in Conns
    BY <1>0, <2>1 DEF Conns
  <2> QED
    BY <1>2, <1>3, <1>7, <2>2 DEF Socket, Goto, taskVars, outVars, history
<1>8. ASSUME NEW r \in Requests, Connects(r) \/ ConnectFails(r) PROVE Typed'
  BY <1>2, <1>3, <1>8 DEF Connects, ConnectFails, Goto, Report, sockVars, taskVars, history
<1>9. ASSUME NEW r \in Requests, SendHeader(r) \/ SendLast(r) PROVE Typed'
  <2>1. /\ wire' \in [Conns -> Seq(Token)] /\ served' \in [Requests -> {"none", "whole", "less"}]
    <3>1. CASE Answers(r) /\ Current # Nobody
      BY <3>1, ServedTyped
    <3>2. CASE UNCHANGED <<wire, served>>
      BY <1>3, <3>2
    <3> QED
      BY <1>9, <3>1, <3>2 DEF SendHeader, SendLast
  <2>2. pc' \in [Requests -> {"idle", "connect", "reach", "request", "post", "head", "body",
                              "close", "done", "lost"}]
    <3>1. PICK place \in {"post", "head"} : pc' = [pc EXCEPT ![r] = place]
      BY <1>9 DEF SendHeader, SendLast, Goto
    <3> QED
      BY <1>3, <3>1
  <2>3. /\ UNCHANGED <<method, cacheBuf, docLen, total>> /\ UNCHANGED <<got, strayed, overlapped>>
        /\ UNCHANGED <<sendPos, sock, owner, conn, recvOn, result>>
    BY <1>9 DEF SendHeader, SendLast, taskVars, outVars
  <2> QED
    BY <1>2, <1>3, <2>1, <2>2, <2>3
<1>10. ASSUME NEW r \in Requests, SendPiece(r) PROVE Typed'
  <2>1. sendPos' \in [Requests -> 0..PostLen]
    <3>1. sendPos[r] \in 0..PostLen /\ PostLen - sendPos[r] > 1
      BY <1>3, <1>10 DEF SendPiece
    <3>2. sendPos[r] + 1 \in 0..PostLen
      BY <1>0, <3>1
    <3> QED
      BY <1>3, <1>10, <3>2 DEF SendPiece
  <2>2. /\ pc' \in [Requests -> {"idle", "connect", "reach", "request", "post", "head", "body",
                                 "close", "done", "lost"}]
        /\ result' \in [Requests -> {"none", "ConnectFail", "Connected", "PostFail", "RecviceFail",
                                     "Finish"}]
    BY <1>3, <1>10 DEF SendPiece, Goto, Report
  <2>3. /\ UNCHANGED <<method, cacheBuf, docLen, total>> /\ UNCHANGED <<got, strayed, overlapped>>
        /\ UNCHANGED <<sock, owner, conn, wire, recvOn, served>>
    BY <1>10 DEF SendPiece, sockVars, history
  <2> QED
    BY <1>2, <1>3, <2>1, <2>2, <2>3
<1>11. ASSUME NEW r \in Requests, RecvBegin(r) \/ RecvZero(r) \/ RecvFails(r) PROVE Typed'
  <2>1. recvOn' \in [Requests -> Conns \cup {Nobody}]
    <3>1. Current \in Conns \cup {Nobody}
      BY CurrentIs
    <3>2. PICK c \in Conns \cup {Nobody} : recvOn' = [recvOn EXCEPT ![r] = c]
      BY <1>11, <3>1, Zenon DEF RecvBegin, RecvZero, RecvFails
    <3> QED
      BY <1>3, <3>2
  <2>2. /\ pc' \in [Requests -> {"idle", "connect", "reach", "request", "post", "head", "body",
                                 "close", "done", "lost"}]
        /\ result' \in [Requests -> {"none", "ConnectFail", "Connected", "PostFail", "RecviceFail",
                                     "Finish"}]
    BY <1>3, <1>11 DEF RecvBegin, RecvZero, RecvFails, Goto, Report, outVars
  <2>3. /\ UNCHANGED <<method, cacheBuf, docLen, total>> /\ UNCHANGED <<got, strayed, overlapped>>
        /\ UNCHANGED <<sock, owner, conn, wire, sendPos, served>>
    BY <1>11, Zenon DEF RecvBegin, RecvZero, RecvFails, sockVars, outVars, history
  <2> QED
    BY <1>2, <1>3, <2>1, <2>2, <2>3
\* Steps that receive something.
<1>12. ASSUME NEW r \in Requests, NEW chunk \in Bytes(r), Take(r, chunk),
              UNCHANGED <<sock, owner, conn, method, sendPos>>, UNCHANGED history,
              cacheBuf' \in [Requests -> Seq(Token)],
              \A q \in Requests : Len(cacheBuf'[q]) < CacheSize,
              docLen' \in [Requests -> {0, BodyLen}], total' \in [Requests -> Nat],
              got' \in [Requests -> Seq(Token)],
              pc' \in [Requests -> {"idle", "connect", "reach", "request", "post", "head", "body",
                                    "close", "done", "lost"}],
              result' \in [Requests -> {"none", "ConnectFail", "Connected", "PostFail", "RecviceFail",
                                        "Finish"}]
       PROVE  Typed'
  <2>1. wire' \in [Conns -> Seq(Token)] /\ recvOn' \in [Requests -> Conns \cup {Nobody}]
    BY <1>12, TakeTyped
  <2>2. \A q \in Requests : docLen'[q] \in {0, BodyLen} /\ total'[q] >= 0
    BY <1>12
  <2>3. UNCHANGED <<served, strayed, overlapped>>
    BY <1>12 DEF history
  <2> QED
    BY <1>3, <1>12, <2>1, <2>2, <2>3 DEF Typed, TypeOK, HttpTypes
<1>13. ASSUME NEW r \in Requests, NEW chunk \in Bytes(r), RecvTooMuch(r, chunk) PROVE Typed'
  BY <1>3, <1>12, <1>13 DEF RecvTooMuch, Goto, Report
<1>14. ASSUME NEW r \in Requests, NEW chunk \in Bytes(r), Fits(r, chunk)
       PROVE  /\ cacheBuf[r] \o chunk \in Seq(Token)
              /\ Len(cacheBuf[r] \o chunk) < CacheSize
  <2>1. PICK b \in Seq(Token), c \in Seq(Token) : b = cacheBuf[r] /\ c = chunk
    BY <1>3, ChunkTyped
  <2>2. b \o c \in Seq(Token) /\ Len(b \o c) = Len(b) + Len(c)
    BY Cat
  <2> QED
    BY <1>14, <2>1, <2>2 DEF Fits
<1>15. ASSUME NEW r \in Requests, NEW chunk \in Bytes(r), RecvHeader(r, chunk) PROVE Typed'
  <2>1. PICK b \in Seq(Token) : b = cacheBuf[r] \o chunk /\ Len(b) < CacheSize
    BY <1>14, <1>15 DEF RecvHeader
  <2>2. cacheBuf' = [cacheBuf EXCEPT ![r] = b]
    BY <1>15, <2>1 DEF RecvHeader
  <2>3. cacheBuf' \in [Requests -> Seq(Token)] /\ \A q \in Requests : Len(cacheBuf'[q]) < CacheSize
    BY <1>3, <2>1, <2>2
  <2> QED
    BY <1>3, <1>12, <1>15, <2>3 DEF RecvHeader, outVars
<1>16. ASSUME NEW r \in Requests, NEW chunk \in Bytes(r), RecvHeaderEnd(r, chunk) PROVE Typed'
  <2>1. PICK b \in Seq(Token) : b = cacheBuf[r] \o chunk /\ Len(b) < CacheSize
    BY <1>14, <1>16 DEF RecvHeaderEnd
  <2>2. /\ cacheBuf' = [cacheBuf EXCEPT ![r] = b]
        /\ docLen' = [docLen EXCEPT ![r] = ContentLength(b)]
    BY <1>16, <2>1 DEF RecvHeaderEnd
  <2>3. cacheBuf' \in [Requests -> Seq(Token)] /\ \A q \in Requests : Len(cacheBuf'[q]) < CacheSize
    BY <1>3, <2>1, <2>2
  <2>4. docLen' \in [Requests -> {0, BodyLen}]
    BY <1>3, <2>2 DEF ContentLength
  <2>5. PICK c \in Seq(Token) : c = Content(b)
    BY ContentTyped
  <2>6. Len(c) \in Nat /\ got[r] \o c \in Seq(Token)
    <3>1. PICK g \in Seq(Token) : g = got[r]
      BY <1>3
    <3>2. g \o c \in Seq(Token)
      BY Cat
    <3> QED
      BY <3>1, <3>2
  <2>7. \/ got' = Kept(got, r, got[r] \o c) /\ total' = [total EXCEPT ![r] = Len(c)]
        \/ UNCHANGED <<got, total>>
    BY <1>16, <2>1, <2>5 DEF RecvHeaderEnd
  <2>8. got' \in [Requests -> Seq(Token)] /\ total' \in [Requests -> Nat]
    BY <1>3, <2>6, <2>7, KeptTyped
  <2>9. /\ pc' \in [Requests -> {"idle", "connect", "reach", "request", "post", "head", "body",
                                 "close", "done", "lost"}]
        /\ result' \in [Requests -> {"none", "ConnectFail", "Connected", "PostFail", "RecviceFail",
                                     "Finish"}]
    BY <1>3, <1>16 DEF RecvHeaderEnd, Goto, Report
  <2>10. Take(r, chunk) /\ UNCHANGED <<sock, owner, conn, method, sendPos>> /\ UNCHANGED history
    BY <1>16 DEF RecvHeaderEnd
  <2> QED
    BY <1>12, <2>3, <2>4, <2>8, <2>9, <2>10
<1>17. ASSUME NEW r \in Requests, NEW chunk \in Bytes(r), RecvBody(r, chunk) PROVE Typed'
  <2>1. PICK g \in Seq(Token), c \in Seq(Token) : g = got[r] /\ c = chunk
    BY <1>3, ChunkTyped
  <2>2. g \o c \in Seq(Token) /\ Len(c) \in Nat
    BY Cat
  <2>3. got' = Kept(got, r, g \o c) /\ total' = [total EXCEPT ![r] = @ + Len(c)]
    BY <1>17, <2>1 DEF RecvBody
  <2>4. got' \in [Requests -> Seq(Token)]
    BY <2>2, <2>3, KeptTyped
  <2>5. total' \in [Requests -> Nat]
    BY <1>3, <2>2, <2>3
  <2>6. /\ pc' \in [Requests -> {"idle", "connect", "reach", "request", "post", "head", "body",
                                 "close", "done", "lost"}]
        /\ result' \in [Requests -> {"none", "ConnectFail", "Connected", "PostFail", "RecviceFail",
                                     "Finish"}]
    BY <1>3, <1>17 DEF RecvBody, Goto, Report
  <2>7. /\ Take(r, chunk) /\ UNCHANGED <<sock, owner, conn, method, sendPos>> /\ UNCHANGED history
        /\ UNCHANGED <<cacheBuf, docLen>>
    BY <1>17 DEF RecvBody
  <2> QED
    BY <1>3, <1>12, <2>4, <2>5, <2>6, <2>7
<1>18. ASSUME NEW r \in Requests, CloseSock(r) PROVE Typed'
  <2>1. /\ owner' \in [Fds -> Conns \cup {Nobody}]
        /\ conn' \in [Conns -> {"none", "opened", "up", "gone", "reset", "closed"}]
        /\ wire' \in [Conns -> Seq(Token)]
    <3>1. CASE Current # Nobody
      BY <1>18, <3>1, CloseTyped DEF CloseSock
    <3>2. CASE Current = Nobody
      BY <1>3, <1>18, <3>2 DEF CloseSock
    <3> QED
      BY <3>1, <3>2
  <2>2. Ended(r) /\ UNCHANGED <<sock, recvOn, overlapped>> /\ strayed' \subseteq Requests
    BY <1>3, <1>18 DEF CloseSock
  <2>3. PICK e \in Seq(Token) : e = <<>> /\ Len(e) = 0
    BY <1>01
  <2>4. /\ cacheBuf' = [cacheBuf EXCEPT ![r] = e] /\ got' = [got EXCEPT ![r] = e]
        /\ docLen' = [docLen EXCEPT ![r] = 0] /\ total' = [total EXCEPT ![r] = 0]
        /\ sendPos' = [sendPos EXCEPT ![r] = 0]
    BY <2>2, <2>3 DEF Ended
  <2>5. /\ cacheBuf' \in [Requests -> Seq(Token)] /\ got' \in [Requests -> Seq(Token)]
        /\ \A q \in Requests : Len(cacheBuf'[q]) < CacheSize
    BY <1>02, <1>3, <2>3, <2>4
  <2>6. /\ docLen' \in [Requests -> {0, BodyLen}] /\ total' \in [Requests -> Nat]
        /\ sendPos' \in [Requests -> 0..PostLen]
    BY <1>0, <1>3, <2>4
  <2>7. /\ method' \in [Requests -> Methods \cup {"none"}]
        /\ served' \in [Requests -> {"none", "whole", "less"}]
        /\ pc' \in [Requests -> {"idle", "connect", "reach", "request", "post", "head", "body",
                                 "close", "done", "lost"}]
        /\ result' \in [Requests -> {"none", "ConnectFail", "Connected", "PostFail", "RecviceFail",
                                     "Finish"}]
    BY <1>3, <2>2 DEF Ended, Goto
  <2>8. \A q \in Requests : docLen'[q] \in {0, BodyLen} /\ total'[q] >= 0 /\ sendPos'[q] \in 0..PostLen
    BY <2>6
  <2>9. TypeOK'
    BY <1>3, <2>1, <2>2, <2>5, <2>7, <2>8 DEF TypeOK
  <2>10. HttpTypes'
    BY <1>3, <2>1, <2>2, <2>5, <2>6, <2>7 DEF HttpTypes
  <2> QED
    BY <2>9, <2>10 DEF Typed
<1>19. ASSUME NEW c \in Requests, NEW how \in {"gone", "reset"}, ServerEnds(c, how) PROVE Typed'
  <2>1. PICK e \in Seq(Token) : e = <<>>
    BY <1>01
  <2>2. /\ wire' \in [Conns -> Seq(Token)]
        /\ conn' \in [Conns -> {"none", "opened", "up", "gone", "reset", "closed"}]
    BY <1>3, <1>19, <2>1 DEF ServerEnds
  <2>3. UNCHANGED <<sock, owner, pc, taskVars, outVars, history>>
    BY <1>19 DEF ServerEnds
  <2> QED
    BY <1>2, <1>3, <2>2, <2>3 DEF taskVars, outVars, history
<1>20. ASSUME OtherOpens PROVE Typed'
  <2>1. /\ owner' = [owner EXCEPT ![Min(Free)] = Other] /\ conn' = [conn EXCEPT ![Other] = "up"]
        /\ UNCHANGED <<sock, wire, pc, taskVars, outVars, history>>
    BY <1>20 DEF OtherOpens
  <2>2. Other \in Conns
    BY DEF Conns
  <2>3. /\ owner' \in [Fds -> Conns \cup {Nobody}]
        /\ conn' \in [Conns -> {"none", "opened", "up", "gone", "reset", "closed"}]
    BY <1>3, <2>1, <2>2
  <2> QED
    BY <1>2, <1>3, <2>1, <2>3 DEF taskVars, outVars, history
<1>21. CASE UNCHANGED vars
  <2>1. UNCHANGED <<sock, owner, conn, wire, pc, method, recvOn, cacheBuf, docLen, total, sendPos,
                    got, result, served, strayed, overlapped>>
    BY <1>21 DEF vars, sockVars, taskVars, outVars, history
  <2> QED
    BY <2>1 DEF Typed, TypeOK, HttpTypes
<1> QED
  BY <1>1, <1>4, <1>5, <1>6, <1>7, <1>8, <1>9, <1>10, <1>11, <1>13, <1>15, <1>16, <1>17, <1>18,
     <1>19, <1>20, <1>21, NextActs DEF Acts

LEMMA TypedAlways == Spec => []Typed
BY TypeInit, TypeStep, PTL DEF Spec

\* THEOREM.  Every variable of the HTTP client keeps its type, and the cache of
\* the header keeps room for the 0 that is put behind it (zhHttp.c:454).
THEOREM TypeCorrect == Spec => []TypeOK
<1>1. Typed => TypeOK
  BY DEF Typed
<1> QED
  BY <1>1, TypedAlways, PTL

-----------------------------------------------------------------------------
(* A request that is alone closes its own connection *)

Working == {"reach", "request", "post", "head", "body"}

\* What a request has of the shared descriptor in each place.
Owns(r) ==
    /\ pc[r] \in {"idle", "connect"} => conn[r] = "none"
    /\ pc[r] \in Working => Current = r
    /\ pc[r] = "reach" => conn[r] = "opened"
    /\ pc[r] \in Working \ {"reach"} => conn[r] \in {"up", "gone", "reset"}
    /\ pc[r] = "close" => conn[r] = "none" \/ Current = r
    /\ pc[r] \in {"done", "lost"} => conn[r] \in {"none", "closed"}
    /\ r \in strayed => pc[r] = "done" /\ conn[r] = "none"

Lone == \A q, r \in Active : q = r

\* No descriptor is a request's but the one in hf_conn_sock.
Held ==
    \A f \in Fds : owner[f] \in Requests =>
        f = sock /\ pc[owner[f]] \in Working \cup {"close"}

OwnInv == ~overlapped => Lone /\ Held /\ \A r \in Requests : Owns(r)

Places == {"idle", "connect", "reach", "request", "post", "head", "body", "close", "done", "lost"}

\* A step of the request that is alone: the others are not concerned.
LEMMA OwnMove ==
    ASSUME Typed, OwnInv, ~overlapped, UNCHANGED overlapped, NEW r \in Active,
           NEW place \in Places, pc' = [pc EXCEPT ![r] = place],
           \A q \in Requests \ {r} : conn'[q] = conn[q] /\ (q \in strayed' <=> q \in strayed),
           Held', Owns(r)'
    PROVE  OwnInv'
<1>1. pc \in [Requests -> Places] /\ r \in Requests
  BY DEF Typed, TypeOK, Places, Active
<1>2. Active' \subseteq Active
  <2>1. ASSUME NEW q \in Active' PROVE q \in Active
    BY <1>1, <2>1 DEF Active
  <2> QED
    BY <2>1
<1>3. Lone'
  BY <1>2 DEF OwnInv, Lone
<1>4. ASSUME NEW q \in Requests \ {r} PROVE Owns(q)'
  <2>1. q \notin Active
    BY DEF OwnInv, Lone
  <2>2. pc[q] \in {"idle", "done", "lost"} /\ pc'[q] = pc[q]
    BY <1>1, <2>1 DEF Active
  <2>3. Owns(q)
    BY DEF OwnInv
  <2> QED
    BY <2>2, <2>3 DEF Owns, Working
<1> QED
  BY <1>3, <1>4 DEF OwnInv

\* As long as the shared descriptor stays what it is, the places decide.
LEMMA HeldMove ==
    ASSUME Typed, OwnInv, ~overlapped, UNCHANGED <<sock, owner>>, NEW r \in Active,
           NEW place \in Places, pc' = [pc EXCEPT ![r] = place],
           place \in Working \cup {"close"} \/ pc[r] \notin Working \cup {"close"}
    PROVE  Held' /\ Current' = Current
<1>1. pc \in [Requests -> Places] /\ r \in Requests /\ Held
  BY DEF Typed, TypeOK, Places, Active, OwnInv
<1>2. ASSUME NEW f \in Fds, owner'[f] \in Requests
      PROVE  f = sock' /\ pc'[owner'[f]] \in Working \cup {"close"}
  <2>1. f = sock /\ pc[owner[f]] \in Working \cup {"close"}
    BY <1>1, <1>2 DEF Held
  <2>2. CASE owner[f] = r
    BY <1>1, <2>1, <2>2
  <2>3. CASE owner[f] # r
    BY <1>1, <1>2, <2>1, <2>3
  <2> QED
    BY <2>2, <2>3
<1>3. Current' = Current
  BY DEF Current
<1> QED
  BY <1>2, <1>3 DEF Held

LEMMA OwnInit == Init => OwnInv
<1> SUFFICES ASSUME Init PROVE OwnInv
  OBVIOUS
<1>1. Active = {} /\ \A f \in Fds : owner[f] \notin Requests
  BY ClientAssumption DEF Init, Active
<1>2. Requests \subseteq Conns
  BY DEF Conns
<1>3. \A r \in Requests : pc[r] = "idle" /\ conn[r] = "none" /\ r \notin strayed
  BY <1>2 DEF Init
<1>4. \A r \in Requests : Owns(r)
  BY <1>3 DEF Owns, Working
<1> QED
  BY <1>1, <1>4 DEF OwnInv, Lone, Held

LEMMA OwnStep == Typed /\ OwnInv /\ [Next]_vars => OwnInv'
<1> SUFFICES ASSUME Typed, OwnInv, [Next]_vars, ~overlapped' PROVE OwnInv'
  BY DEF OwnInv
<1>0. /\ pc \in [Requests -> Places] /\ Requests \subseteq Conns
      /\ conn \in [Conns -> {"none", "opened", "up", "gone", "reset", "closed"}]
      /\ owner \in [Fds -> Conns \cup {Nobody}]
      /\ strayed \subseteq Requests /\ overlapped \in BOOLEAN
      /\ Nobody \notin Conns /\ Other \notin Requests /\ Fds = 1..MaxFds /\ MaxFds \in Nat
  BY ClientAssumption DEF Typed, TypeOK, HttpTypes, Places, Conns, Fds
<1>01. ~overlapped => Lone /\ Held /\ \A r \in Requests : Owns(r)
  BY DEF OwnInv
<1>1. ASSUME NEW r \in Requests, NEW m \in Methods, Start(r, m) PROVE OwnInv'
  <2>1. /\ pc[r] = "idle" /\ pc' = [pc EXCEPT ![r] = "connect"] /\ UNCHANGED <<sock, owner, conn>>
        /\ overlapped' = (overlapped \/ Active # {}) /\ UNCHANGED strayed
    BY <1>1 DEF Start, Goto, sockVars
  <2>2. ~overlapped /\ Active = {}
    BY <1>0, <2>1
  <2>3. Active' \subseteq {r}
    BY <1>0, <2>1, <2>2 DEF Active
  <2>4. ASSUME NEW f \in Fds, owner'[f] \in Requests PROVE FALSE
    BY <1>01, <2>1, <2>2, <2>4 DEF Held, Active, Working
  <2>5. ASSUME NEW q \in Requests PROVE Owns(q)'
    <3>1. Owns(q) /\ q \notin Active
      BY <1>01, <2>2
    <3>2. pc[q] \in {"idle", "done", "lost"} /\ pc'[q] = IF q = r THEN "connect" ELSE pc[q]
      BY <1>0, <2>1, <3>1 DEF Active
    <3> QED
      BY <2>1, <3>1, <3>2 DEF Owns, Working
  <2> QED
    BY <2>3, <2>4, <2>5 DEF OwnInv, Lone, Held
\* Outside Start, the histories of a run without overlap go on.
<1>2. ASSUME NEW r \in Requests, NEW place \in Places, UNCHANGED <<overlapped, strayed>>,
             pc[r] \notin {"idle", "done", "lost"}, pc' = [pc EXCEPT ![r] = place],
             UNCHANGED <<sock, owner>>,
             place \in Working \cup {"close"} \/ pc[r] \notin Working \cup {"close"},
             \A q \in Requests \ {r} : conn'[q] = conn[q],
             ~overlapped /\ Owns(r) => (Current' = Current => Owns(r)')
      PROVE  OwnInv'
  <2>1. r \in Active /\ ~overlapped /\ Owns(r)
    BY <1>01, <1>2 DEF Active
  <2>2. Held' /\ Current' = Current
    BY <1>2, <2>1, HeldMove
  <2> QED
    BY <1>2, <2>1, <2>2, OwnMove
<1>3. ASSUME NEW r \in Requests, BadUrl(r) \/ ConnectFails(r) PROVE OwnInv'
  <2>1. /\ pc[r] \in {"connect", "reach"} /\ pc' = [pc EXCEPT ![r] = "close"]
        /\ UNCHANGED <<sock, owner, conn>> /\ UNCHANGED <<overlapped, strayed>>
    BY <1>3 DEF BadUrl, ConnectFails, Goto, sockVars, history
  <2>2. pc'[r] = "close"
    BY <1>0, <2>1
  <2>3. Owns(r) /\ Current' = Current => Owns(r)'
    BY <2>1, <2>2 DEF Owns, Working
  <2> QED
    BY <1>2, <2>1, <2>3 DEF Working, Places
<1>4. ASSUME NEW r \in Requests, LookupFails(r) PROVE OwnInv'
  <2>1. /\ pc[r] = "connect" /\ sock' = 0 /\ owner' = [f \in Fds |-> Nobody]
        /\ conn' = [c \in Conns |-> IF conn[c] = "none" THEN "none" ELSE "closed"]
        /\ pc' = [q \in Requests |-> IF q \in Active THEN "lost" ELSE pc[q]]
        /\ UNCHANGED <<overlapped, strayed>>
    BY <1>4 DEF LookupFails, history
  <2>2. ~overlapped
    BY <2>1
  <2>3. Active' = {}
    BY <1>0, <2>1 DEF Active
  <2>4. Held'
    BY <1>0, <2>1 DEF Held
  <2>5. ASSUME NEW q \in Requests PROVE Owns(q)'
    <3>1. Owns(q)
      BY <1>01, <2>2
    <3>2. pc'[q] \in {"idle", "done", "lost"} /\ (pc[q] = "idle" <=> pc'[q] = "idle")
          /\ (pc[q] = "done" <=> pc'[q] = "done")
      BY <1>0, <2>1 DEF Active, Places
    <3>3. conn'[q] = IF conn[q] = "none" THEN "none" ELSE "closed"
      BY <1>0, <2>1
    <3> QED
      BY <2>1, <3>1, <3>2, <3>3 DEF Owns, Working
  <2> QED
    BY <2>3, <2>4, <2>5 DEF OwnInv, Lone
\* A request that is about to connect has no descriptor.
<1>5. ASSUME NEW r \in Requests, pc[r] = "connect", ~overlapped
      PROVE  r \in Active /\ \A f \in Fds : owner[f] \notin Requests
  <2>1. r \in Active
    BY <1>5 DEF Active
  <2>2. ASSUME NEW f \in Fds, owner[f] \in Requests PROVE FALSE
    <3>1. pc[owner[f]] \in Working \cup {"close"}
      BY <1>01, <1>5, <2>2 DEF Held
    <3>2. owner[f] \in Active
      BY <2>2, <3>1 DEF Active, Working
    <3>3. owner[f] = r
      BY <1>01, <1>5, <2>1, <3>2 DEF Lone
    <3> QED
      BY <1>5, <3>1, <3>3 DEF Working
  <2> QED
    BY <2>1, <2>2
<1>6. ASSUME NEW r \in Requests, NoSocket(r) PROVE OwnInv'
  <2>1. /\ pc[r] = "connect" /\ pc' = [pc EXCEPT ![r] = "close"]
        /\ UNCHANGED <<owner, conn>> /\ UNCHANGED <<overlapped, strayed>>
    BY <1>6 DEF NoSocket, Goto, history
  <2>2. ~overlapped /\ r \in Active /\ Owns(r)
    BY <1>01, <1>5, <2>1
  <2>3. Held'
    BY <1>5, <2>1, <2>2 DEF Held
  <2>4. Owns(r)'
    BY <1>0, <2>1, <2>2 DEF Owns, Working
  <2> QED
    BY <2>1, <2>2, <2>3, <2>4, OwnMove DEF Places
<1>7. ASSUME NEW r \in Requests, Socket(r) PROVE OwnInv'
  <2>1. PICK f \in Fds : f = Min(Free) /\ owner[f] = Nobody
    BY <1>7, FirstFree DEF Socket
  <2>2. /\ pc[r] = "connect" /\ pc' = [pc EXCEPT ![r] = "reach"] /\ sock' = f
        /\ owner' = [owner EXCEPT ![f] = r] /\ conn' = [conn EXCEPT ![r] = "opened"]
        /\ UNCHANGED <<overlapped, strayed>>
    BY <1>7, <2>1 DEF Socket, Goto, history
  <2>3. ~overlapped /\ r \in Active /\ Owns(r)
    BY <1>01, <1>5, <2>2
  <2>4. \A g \in Fds : owner[g] \notin Requests
    BY <1>5, <2>2, <2>3
  <2>5. pc'[r] = "reach" /\ owner'[f] = r /\ conn'[r] = "opened"
    BY <1>0, <2>1, <2>2
  <2>6. Held'
    BY <1>0, <2>2, <2>4, <2>5 DEF Held, Working
  <2>7. Current' = r
    BY <2>2, <2>5 DEF Current
  <2>8. Owns(r)'
    BY <2>2, <2>3, <2>5, <2>7 DEF Owns, Working
  <2>9. \A q \in Requests \ {r} : conn'[q] = conn[q]
    BY <1>0, <2>2
  <2> QED
    BY <2>2, <2>3, <2>6, <2>8, <2>9, OwnMove DEF Places
<1>8. ASSUME NEW r \in Requests, Connects(r) PROVE OwnInv'
  <2>1. /\ pc[r] = "reach" /\ pc' = [pc EXCEPT ![r] = "request"]
        /\ conn' = [conn EXCEPT ![Current] = "up"]
        /\ UNCHANGED <<sock, owner>> /\ UNCHANGED <<overlapped, strayed>>
    BY <1>8 DEF Connects, Goto, history
  <2>2. Current = r
    BY <1>01, <2>1 DEF Owns, Working
  <2>3. pc'[r] = "request" /\ conn'[r] = "up" /\ \A q \in Requests \ {r} : conn'[q] = conn[q]
    BY <1>0, <2>1, <2>2
  <2>4. Owns(r) /\ Current' = Current => Owns(r)'
    BY <2>1, <2>2, <2>3 DEF Owns, Working
  <2> QED
    BY <1>2, <2>1, <2>3, <2>4 DEF Working, Places
\* A request that works on its connection goes on or comes to its end.
<1>9. ASSUME NEW r \in Requests, pc[r] \in Working \ {"reach"},
             NEW place \in (Working \ {"reach"}) \cup {"close"},
             pc' = [pc EXCEPT ![r] = place], UNCHANGED <<sock, owner, conn>>,
             UNCHANGED <<overlapped, strayed>>
      PROVE  OwnInv'
  <2>1. pc'[r] = place
    BY <1>0, <1>9
  <2>2. Owns(r) /\ Current' = Current => Owns(r)'
    BY <1>9, <2>1 DEF Owns, Working
  <2> QED
    BY <1>2, <1>9, <2>2 DEF Working, Places
<1>10. ASSUME NEW r \in Requests, SendHeader(r) \/ SendPiece(r) \/ SendLast(r) PROVE OwnInv'
  <2>1. /\ pc[r] \in {"request", "post"} /\ UNCHANGED <<sock, owner, conn>>
        /\ UNCHANGED <<overlapped, strayed>>
    BY <1>10 DEF SendHeader, SendPiece, SendLast, sockVars, history
  <2>2. PICK place \in {"post", "head", "close"} : pc' = [pc EXCEPT ![r] = place]
    <3>1. CASE pc' = pc /\ pc[r] = "post"
      BY <1>0, <3>1
    <3> QED
      BY <1>10, <3>1 DEF SendHeader, SendPiece, SendLast, Goto
  <2> QED
    BY <1>9, <2>1, <2>2 DEF Working
<1>11. ASSUME NEW r \in Requests, RecvBegin(r) \/ RecvZero(r) \/ RecvFails(r) PROVE OwnInv'
  <2>1. /\ pc[r] \in {"head", "body"} /\ UNCHANGED <<sock, owner, conn>>
        /\ UNCHANGED <<overlapped, strayed>>
    BY <1>11, Zenon DEF RecvBegin, RecvZero, RecvFails, Waits, sockVars, history
  <2>2. PICK place \in {"head", "body", "close"} : pc' = [pc EXCEPT ![r] = place]
    <3>1. CASE pc' = pc
      BY <1>0, <2>1, <3>1
    <3> QED
      BY <1>11, <3>1, Zenon DEF RecvBegin, RecvZero, RecvFails, Goto
  <2> QED
    BY <1>9, <2>1, <2>2 DEF Working
<1>12. ASSUME NEW r \in Requests, NEW chunk \in Bytes(r),
              RecvTooMuch(r, chunk) \/ RecvHeader(r, chunk) \/ RecvHeaderEnd(r, chunk)
                \/ RecvBody(r, chunk)
       PROVE  OwnInv'
  <2>1. /\ pc[r] \in {"head", "body"} /\ UNCHANGED <<sock, owner, conn>>
        /\ UNCHANGED <<overlapped, strayed>>
    BY <1>12, Zenon DEF RecvTooMuch, RecvHeader, RecvHeaderEnd, RecvBody, history
  <2>2. PICK place \in {"head", "body", "close"} : pc' = [pc EXCEPT ![r] = place]
    <3>1. CASE pc' = pc
      BY <1>0, <2>1, <3>1
    <3> QED
      BY <1>12, <3>1, Zenon DEF RecvTooMuch, RecvHeader, RecvHeaderEnd, RecvBody, Goto
  <2> QED
    BY <1>9, <2>1, <2>2 DEF Working
<1>13. ASSUME NEW r \in Requests, CloseSock(r) PROVE OwnInv'
  <2>1. /\ pc[r] = "close" /\ pc' = [pc EXCEPT ![r] = "done"] /\ UNCHANGED <<sock, overlapped>>
        /\ strayed' = IF Current \in Conns \ {r} /\ ~overlapped THEN strayed \cup {r} ELSE strayed
        /\ IF Current # Nobody THEN Close(sock) ELSE UNCHANGED <<owner, conn, wire>>
    BY <1>13 DEF CloseSock, Ended, Goto
  <2>2. ~overlapped /\ r \in Active /\ Owns(r) /\ Lone /\ Held
    BY <1>01, <2>1 DEF Active
  <2>3. pc'[r] = "done"
    BY <1>0, <2>1
  <2>4. Current \in Requests => Current = r
    <3> SUFFICES ASSUME Current \in Requests PROVE Current = r
      OBVIOUS
    <3>1. sock \in Fds /\ owner[sock] = Current
      BY <1>0, CurrentIs
    <3>2. pc[Current] \in Working \cup {"close"}
      BY <2>2, <3>1 DEF Held
    <3>3. Current \in Active
      BY <3>2 DEF Active, Working
    <3> QED
      BY <2>2, <3>3 DEF Lone
  <2>5. CASE Current = Nobody
    <3>1. UNCHANGED <<owner, conn, strayed>> /\ conn[r] = "none"
      BY <1>0, <2>1, <2>2, <2>5 DEF Owns
    <3>2. \A f \in Fds : owner[f] \notin Requests
      BY <1>0, <2>2, <2>5 DEF Held, Current
    <3>3. Held'
      BY <3>1, <3>2 DEF Held
    <3>4. Owns(r)'
      BY <2>2, <2>3, <3>1 DEF Owns, Working
    <3> QED
      BY <2>1, <2>2, <3>1, <3>3, <3>4, OwnMove DEF Places
  <2>6. CASE Current # Nobody
    <3>1. /\ sock \in Fds /\ owner[sock] = Current /\ Current \in Conns
          /\ owner' = [owner EXCEPT ![sock] = Nobody]
          /\ conn' = [conn EXCEPT ![Current] = "closed"]
      BY <2>1, <2>6, CurrentIs DEF Close
    <3>2. \A f \in Fds : owner'[f] \notin Requests
      BY <1>0, <2>2, <3>1 DEF Held
    <3>3. Held'
      BY <3>2 DEF Held
    <3>4. Owns(r)'
      <4>1. CASE Current = r
        <5>1. conn'[r] = "closed" /\ strayed' = strayed /\ r \notin strayed
          BY <1>0, <2>1, <2>2, <3>1, <4>1 DEF Owns
        <5> QED
          BY <2>3, <5>1 DEF Owns, Working
      <4>2. CASE Current # r
        <5>1. conn[r] = "none" /\ conn'[r] = "none"
          BY <1>0, <2>1, <2>2, <3>1, <4>2 DEF Owns
        <5> QED
          BY <2>3, <5>1 DEF Owns, Working
      <4> QED
        BY <4>1, <4>2
    <3>5. \A q \in Requests \ {r} : conn'[q] = conn[q] /\ (q \in strayed' <=> q \in strayed)
      BY <1>0, <2>1, <2>4, <3>1
    <3> QED
      BY <2>1, <2>2, <3>3, <3>4, <3>5, OwnMove DEF Places
  <2> QED
    BY <2>5, <2>6
<1>14. ASSUME NEW c \in Requests, NEW how \in {"gone", "reset"}, ServerEnds(c, how) PROVE OwnInv'
  <2>1. /\ conn[c] = "up" /\ conn' = [conn EXCEPT ![c] = how] /\ UNCHANGED <<sock, owner, pc>>
        /\ UNCHANGED <<overlapped, strayed>>
    BY <1>14 DEF ServerEnds, history
  <2>2. ~overlapped
    BY <2>1
  <2>3. Current' = Current /\ Active' = Active
    BY <2>1 DEF Current, Active
  <2>4. ASSUME NEW r \in Requests PROVE Owns(r)'
    <3>1. Owns(r) /\ conn'[r] = IF r = c THEN how ELSE conn[r]
      BY <1>0, <1>01, <2>1, <2>2
    <3> QED
      BY <2>1, <2>3, <3>1 DEF Owns, Working
  <2> QED
    BY <1>01, <2>1, <2>2, <2>3, <2>4 DEF OwnInv, Lone, Held
<1>15. ASSUME OtherOpens PROVE OwnInv'
  <2>1. PICK f \in Fds : f = Min(Free) /\ owner[f] = Nobody
    BY <1>15, FirstFree DEF OtherOpens
  <2>2. /\ owner' = [owner EXCEPT ![f] = Other] /\ conn' = [conn EXCEPT ![Other] = "up"]
        /\ UNCHANGED <<sock, pc>> /\ UNCHANGED <<overlapped, strayed>>
    BY <1>15, <2>1 DEF OtherOpens, history
  <2>3. ~overlapped /\ Active' = Active
    BY <2>2 DEF Active
  <2>4. Current \in Requests => Current' = Current
    BY <1>0, <2>1, <2>2, CurrentIs DEF Current
  <2>5. ASSUME NEW r \in Requests PROVE Owns(r)'
    <3>1. Owns(r) /\ conn'[r] = conn[r]
      BY <1>0, <1>01, <2>2, <2>3
    <3> QED
      BY <2>2, <2>4, <3>1 DEF Owns, Working
  <2>6. Held'
    BY <1>0, <1>01, <2>2, <2>3 DEF Held
  <2> QED
    BY <1>01, <2>3, <2>5, <2>6 DEF OwnInv, Lone
<1>16. CASE UNCHANGED vars
  <2>1. UNCHANGED <<sock, owner, conn, pc, strayed, overlapped>>
    BY <1>16 DEF vars, sockVars, history
  <2>2. Current' = Current /\ Active' = Active
    BY <2>1 DEF Current, Active
  <2> QED
    BY <1>01, <2>1, <2>2 DEF OwnInv, Lone, Held, Owns
<1> QED
  BY <1>1, <1>3, <1>4, <1>6, <1>7, <1>8, <1>10, <1>11, <1>12, <1>13, <1>14, <1>15, <1>16,
     NextActs DEF Acts

\* THEOREM.  As long as no two requests overlapped, a request has closed the
\* connection it opened when it ends, and no other part's.
THEOREM ClosesOwnCorrect == Spec => []ClosesOwn
<1>1. Init => Typed /\ OwnInv
  BY TypeInit, OwnInit
<1>2. Typed /\ OwnInv /\ [Next]_vars => (Typed /\ OwnInv)'
  BY TypeStep, OwnStep
<1>3. OwnInv => ClosesOwn
  BY DEF OwnInv, ClosesOwn, Owns
<1> QED
  BY <1>1, <1>2, <1>3, PTL DEF Spec

-----------------------------------------------------------------------------
(* A request that is alone is given the content *)

\* What is cached and what is still to come is the beginning of a response.
Stream(h, first, c, w) ==
    /\ Len(c) + Len(w) <= h + BodyLen
    /\ \A i \in 1..Len(c) : c[i] = At(h, first, i)
    /\ \A i \in 1..Len(w) : w[i] = At(h, first, Len(c) + i)

\* A chunk x is taken from w, and v is left.
Taken(x, w, v) ==
    /\ Len(x) \in 1..Len(w) /\ \A i \in 1..Len(x) : x[i] = w[i]
    /\ Len(v) = Len(w) - Len(x) /\ \A i \in 1..Len(v) : v[i] = w[Len(x) + i]

\* The whole response is still there for the request.
Whole(r) == served[r] = "whole" /\ conn[r] \in {"up", "gone"}

\* Nothing has been sent, and nothing has come.
Fresh(r) ==
    /\ got[r] = <<>> /\ cacheBuf[r] = <<>> /\ wire[r] = <<>>
    /\ served[r] = "none" /\ recvOn[r] = Nobody

\* The end of the header is still to come.
Arriving(r) == \E h \in Nat \ {0}, first \in {LengthLine, Header} :
    /\ first = LengthLine => h > 1
    /\ Len(cacheBuf[r]) < h
    /\ Stream(h, first, cacheBuf[r], wire[r])
    /\ Whole(r) => first = LengthLine /\ Len(cacheBuf[r]) + Len(wire[r]) = h + BodyLen

\* The header is complete, the content goes on where it was left: a response
\* whose header has no tokens.
Arrived(r) ==
    /\ Stream(0, Header, got[r], wire[r])
    /\ total[r] = Len(got[r])
    /\ Whole(r) => Len(got[r]) + Len(wire[r]) = BodyLen /\ docLen[r] = BodyLen

\* What a request that is alone has been told in each place.
Told(r) ==
    /\ pc[r] \in {"idle", "connect", "reach", "request", "post"} => Fresh(r)
    /\ pc[r] \in {"head", "body"} => recvOn[r] \in {Nobody, r}
    /\ pc[r] = "head" => got[r] = <<>> /\ (method[r] # "head" => Arriving(r))
    /\ pc[r] = "body" => Arrived(r)
    /\ pc[r] = "close" => /\ IsPrefix(got[r], Body)
                          /\ result[r] = "Finish" /\ method[r] # "head" /\ Whole(r) => got[r] = Body
    /\ pc[r] \in {"done", "lost"} => got[r] = <<>>

TellInv == ~overlapped => \A r \in Requests : Told(r)

LEMMA BodyPrefix ==
    ASSUME NEW g \in Seq(Token), Len(g) <= BodyLen, \A i \in 1..Len(g) : g[i] = i
    PROVE  IsPrefix(g, Body) /\ (Len(g) = BodyLen => g = Body)
<1>1. PICK b \in Seq(Token) : b = Body /\ Len(b) = BodyLen /\ \A i \in 1..BodyLen : b[i] = i
  BY BodyTyped
<1>2. PICK n \in Nat : n = Len(g)
  OBVIOUS
<1>3. BodyLen \in Nat
  BY ClientAssumption
<1>4. 1 \in 1..(Len(b) + 1) /\ n \in (1 - 1)..Len(b) /\ 1 \in 1..(Len(g) + 1) /\ n \in (1 - 1)..Len(g)
  BY <1>1, <1>2, <1>3
<1>5. PICK s : s = SubSeq(b, 1, n)
  OBVIOUS
<1>6. /\ s \in Seq(Token) /\ Len(s) = n - 1 + 1
      /\ \A i \in 1..(n - 1 + 1) : s[i] = b[1 + i - 1]
  BY <1>4, <1>5, Part
<1>7. Len(s) = Len(g) /\ \A i \in 1..Len(s) : s[i] = g[i]
  BY <1>1, <1>2, <1>3, <1>6
<1>8. s = g
  BY <1>6, <1>7, SameSeq
<1>9. SubSeq(g, 1, n) = g
  <2>0. PICK t : t = SubSeq(g, 1, n)
    OBVIOUS
  <2>1. /\ t \in Seq(Token) /\ Len(t) = n - 1 + 1
        /\ \A i \in 1..(n - 1 + 1) : t[i] = g[1 + i - 1]
    BY <1>4, <2>0, Part
  <2>2. Len(t) = Len(g) /\ \A i \in 1..Len(t) : t[i] = g[i]
    BY <1>2, <2>1
  <2>3. t = g
    BY <2>1, <2>2, SameSeq
  <2> QED
    BY <2>0, <2>3
<1>10. IsPrefix(g, b)
  <2>1. Len(g) <= Len(b) /\ SubSeq(g, 1, Len(g)) = SubSeq(b, 1, Len(g))
    BY <1>1, <1>2, <1>5, <1>8, <1>9
  <2> QED
    BY <2>1 DEF IsPrefix
<1>11. ASSUME Len(g) = BodyLen PROVE g = b
  BY <1>1, <1>11, SameSeq
<1> QED
  BY <1>1, <1>10, <1>11

LEMMA AtBody ==
    ASSUME NEW h \in Nat, NEW first \in {LengthLine, Header}, NEW i \in Nat \ {0}
    PROVE  At(h, first, h + i) = i
<1>1. PICK j : j = h + i
  OBVIOUS
<1>2. ~(j < h) /\ j # h /\ j - h = i
  BY <1>1
<1>3. At(h, first, j) = j - h
  BY <1>2 DEF At
<1> QED
  BY <1>1, <1>2, <1>3

LEMMA StreamPrefix ==
    ASSUME NEW g \in Seq(Token), NEW w \in Seq(Token), Stream(0, Header, g, w)
    PROVE  IsPrefix(g, Body) /\ (Len(g) = BodyLen => g = Body)
<1>0. Len(g) \in Nat /\ Len(w) \in Nat /\ BodyLen \in Nat
  BY ClientAssumption
<1>1. Len(g) <= BodyLen /\ \A i \in 1..Len(g) : g[i] = At(0, Header, i)
  BY <1>0 DEF Stream
<1>2. ASSUME NEW i \in 1..Len(g) PROVE g[i] = i
  <2>1. i \in Nat \ {0} /\ 0 \in Nat /\ 0 + i = i
    OBVIOUS
  <2>2. At(0, Header, i) = i
    BY <2>1, AtBody
  <2> QED
    BY <1>1, <2>2
<1> QED
  BY <1>1, <1>2, BodyPrefix

LEMMA NonePrefix == IsPrefix(<<>>, Body)
<1>1. PICK e \in Seq(Token) : e = <<>> /\ Len(e) = 0
  <2>1. <<>> \in Seq(Token) /\ Len(<<>>) = 0
    OBVIOUS
  <2> QED
    BY <2>1
<1>2. Len(e) <= BodyLen /\ \A i \in 1..Len(e) : e[i] = i
  BY <1>1, ClientAssumption
<1> QED
  BY <1>1, <1>2, BodyPrefix

\* The end of the header is found where the server put it, and the length with it.
LEMMA HeaderAt ==
    ASSUME NEW b \in Seq(Token), NEW h \in Nat \ {0}, NEW first \in {LengthLine, Header},
           \A i \in 1..Len(b) : b[i] = At(h, first, i)
    PROVE  /\ SearchLen(b) = 0 => Len(b) < h
           /\ SearchLen(b) # 0 => SearchLen(b) = h /\ h <= Len(b)
           /\ SearchLen(b) # 0 /\ first = LengthLine /\ h > 1 => ContentLength(b) = BodyLen
<1>0. Len(b) \in Nat
  OBVIOUS
<1>1. PICK k \in 0..Len(b) : /\ k = SearchLen(b)
                             /\ k = 0 => \A i \in 1..Len(b) : b[i] # HeaderEnd
                             /\ k # 0 => b[k] = HeaderEnd
  BY ContentTyped
<1>2. k = 0 => Len(b) < h
  <2> SUFFICES ASSUME k = 0, Len(b) >= h PROVE FALSE
    BY <1>0
  <2>1. h \in 1..Len(b) /\ ~(h < h)
    BY <1>0
  <2>2. b[h] = HeaderEnd
    BY <2>1 DEF At
  <2> QED
    BY <1>1, <2>1, <2>2
<1>3. k # 0 => k = h
  <2> SUFFICES ASSUME k # 0, k # h PROVE FALSE
    OBVIOUS
  <2>1. k \in 1..Len(b) /\ k \in Nat
    BY <1>0
  <2>2. At(h, first, k) = HeaderEnd
    BY <1>1, <2>1
  <2>3. CASE k < h
    <3>1. At(h, first, k) \in {LengthLine, Header}
      BY <2>3 DEF At
    <3> QED
      BY <2>2, <3>1 DEF LengthLine, Header, HeaderEnd
  <2>4. CASE ~(k < h)
    <3>1. At(h, first, k) = k - h /\ k - h > 0
      BY <2>1, <2>4 DEF At
    <3> QED
      BY <2>2, <3>1 DEF HeaderEnd
  <2> QED
    BY <2>3, <2>4
<1>4. ASSUME k # 0, first = LengthLine, h > 1 PROVE ContentLength(b) = BodyLen
  <2>1. 1 \in 1..Len(b) /\ 1 < h
    BY <1>0, <1>3, <1>4
  <2>2. b[1] = At(h, first, 1)
    BY <2>1
  <2>3. At(h, first, 1) = LengthLine
    BY <1>4, <2>1, Zenon DEF At
  <2>4. 1 \in DOMAIN b
    BY <2>1
  <2> QED
    BY <2>2, <2>3, <2>4, Zenon DEF ContentLength
<1>5. k # 0 => h <= Len(b)
  BY <1>0, <1>3
<1> QED
  BY <1>1, <1>2, <1>3, <1>4, <1>5

\* What recv() returns goes from the front of the one to the end of the other.
LEMMA TakeStream ==
    ASSUME NEW c \in Seq(Token), NEW w \in Seq(Token), NEW x \in Seq(Token), NEW v \in Seq(Token),
           NEW h \in Nat, NEW first \in {LengthLine, Header}, Stream(h, first, c, w), Taken(x, w, v)
    PROVE  /\ Stream(h, first, c \o x, v)
           /\ Len(c \o x) + Len(v) = Len(c) + Len(w)
<1>0. /\ Len(c) \in Nat /\ Len(w) \in Nat /\ Len(x) \in Nat /\ Len(v) \in Nat /\ BodyLen \in Nat
      /\ Len(x) \in 1..Len(w) /\ \A i \in 1..Len(x) : x[i] = w[i]
      /\ Len(v) = Len(w) - Len(x) /\ \A i \in 1..Len(v) : v[i] = w[Len(x) + i]
  BY ClientAssumption DEF Taken
<1>1. PICK u \in Seq(Token) : u = c \o x
  BY Cat
<1>2. /\ Len(u) = Len(c) + Len(x) /\ \A i \in 1..Len(c) : u[i] = c[i]
      /\ \A i \in 1..Len(x) : u[Len(c) + i] = x[i]
  BY <1>1, Cat
<1>3. /\ Len(c) + Len(w) <= h + BodyLen
      /\ \A i \in 1..Len(c) : c[i] = At(h, first, i)
      /\ \A i \in 1..Len(w) : w[i] = At(h, first, Len(c) + i)
  BY DEF Stream
<1>4. Len(u) + Len(v) = Len(c) + Len(w)
  BY <1>0, <1>2
<1>5. ASSUME NEW i \in 1..Len(u) PROVE u[i] = At(h, first, i)
  <2>0. i \in Nat /\ i >= 1 /\ i <= Len(c) + Len(x)
    BY <1>0, <1>2
  <2>1. CASE i <= Len(c)
    <3>1. i \in 1..Len(c)
      BY <1>0, <2>0, <2>1
    <3> QED
      BY <1>2, <1>3, <3>1
  <2>2. CASE i > Len(c)
    <3>1. PICK j : j = i - Len(c)
      OBVIOUS
    <3>2. j \in 1..Len(x) /\ j \in 1..Len(w) /\ Len(c) + j = i
      BY <1>0, <2>0, <2>2, <3>1
    <3>3. u[Len(c) + j] = x[j] /\ x[j] = w[j] /\ w[j] = At(h, first, Len(c) + j)
      BY <1>0, <1>2, <1>3, <3>2
    <3> QED
      BY <3>2, <3>3
  <2> QED
    BY <1>0, <2>0, <2>1, <2>2
<1>6. ASSUME NEW i \in 1..Len(v) PROVE v[i] = At(h, first, Len(u) + i)
  <2>1. PICK j : j = Len(x) + i
    OBVIOUS
  <2>2. j \in 1..Len(w) /\ Len(c) + j = Len(u) + i
    BY <1>0, <1>2, <2>1
  <2>3. v[i] = w[j] /\ w[j] = At(h, first, Len(c) + j)
    BY <1>0, <1>3, <2>1, <2>2
  <2> QED
    BY <2>2, <2>3
<1>7. Stream(h, first, u, v)
  BY <1>3, <1>4, <1>5, <1>6 DEF Stream
<1> QED
  BY <1>1, <1>4, <1>7

\* What has come stays what it is, whether or not the rest is still to come.
LEMMA ArrivingSame ==
    ASSUME NEW q \in Requests, Arriving(q), Whole(q)' => Whole(q),
           cacheBuf'[q] = cacheBuf[q], wire'[q] = wire[q]
    PROVE  Arriving(q)'
<1> SUFFICES ASSUME NEW h \in Nat \ {0}, NEW first \in {LengthLine, Header},
                    first = LengthLine => h > 1, Len(cacheBuf[q]) < h,
                    Stream(h, first, cacheBuf[q], wire[q]),
                    Whole(q) => /\ first = LengthLine
                                /\ Len(cacheBuf[q]) + Len(wire[q]) = h + BodyLen
             PROVE  Arriving(q)'
  BY DEF Arriving
<1>1. /\ Len(cacheBuf'[q]) < h /\ Stream(h, first, cacheBuf'[q], wire'[q])
      /\ Whole(q)' => first = LengthLine /\ Len(cacheBuf'[q]) + Len(wire'[q]) = h + BodyLen
  OBVIOUS
<1> QED
  BY <1>1 DEF Arriving

\* What a request has been told depends on nothing of another one.
LEMMA ToldSame ==
    ASSUME NEW q \in Requests, Told(q), pc'[q] = pc[q], method'[q] = method[q], result'[q] = result[q],
           cacheBuf'[q] = cacheBuf[q], docLen'[q] = docLen[q], total'[q] = total[q],
           got'[q] = got[q], served'[q] = served[q], recvOn'[q] = recvOn[q],
           wire'[q] = wire[q], Whole(q)' => Whole(q)
    PROVE  Told(q)'
<1>1. Fresh(q) => Fresh(q)'
  BY DEF Fresh
<1>2. Arriving(q) => Arriving(q)'
  BY ArrivingSame
<1>3. Arrived(q) => Arrived(q)'
  BY DEF Arrived
<1> QED
  BY <1>1, <1>2, <1>3 DEF Told

\* The connection is reset: what had not been read is lost.
LEMMA ToldReset ==
    ASSUME Typed, NEW q \in Requests, Told(q), wire'[q] = <<>>, conn'[q] = "reset",
           UNCHANGED <<pc, method, recvOn, cacheBuf, docLen, total, got, result, served>>
    PROVE  Told(q)'
<1>0. PICK e \in Seq(Token) : e = <<>> /\ Len(e) = 0
  <2>1. <<>> \in Seq(Token) /\ Len(<<>>) = 0
    OBVIOUS
  <2> QED
    BY <2>1
<1>1. ASSUME NEW h \in Nat, NEW first \in {LengthLine, Header}, NEW c \in Seq(Token),
             NEW w \in Seq(Token), Stream(h, first, c, w)
      PROVE  Stream(h, first, c, e)
  <2>1. Len(c) \in Nat /\ Len(w) \in Nat /\ BodyLen \in Nat
    BY ClientAssumption
  <2>2. Len(c) + Len(e) <= h + BodyLen /\ \A i \in 1..Len(c) : c[i] = At(h, first, i)
    BY <1>0, <1>1, <2>1 DEF Stream
  <2> QED
    BY <1>0, <2>2 DEF Stream
<1>2. ~Whole(q)'
  BY DEF Whole
<1>3. PICK c \in Seq(Token), g \in Seq(Token), w \in Seq(Token) :
        c = cacheBuf[q] /\ g = got[q] /\ w = wire[q]
  BY DEF Typed, HttpTypes, Conns
<1>4. Fresh(q) => Fresh(q)'
  BY DEF Fresh
<1>5. ASSUME Arriving(q) PROVE Arriving(q)'
  <2>1. PICK h \in Nat \ {0}, first \in {LengthLine, Header} :
          (first = LengthLine => h > 1) /\ Len(c) < h /\ Stream(h, first, c, w)
    BY <1>3, <1>5, Zenon DEF Arriving
  <2>2. h \in Nat
    OBVIOUS
  <2>3. Stream(h, first, c, e)
    BY <1>1, <2>1, <2>2
  <2>4. Len(cacheBuf'[q]) < h /\ Stream(h, first, cacheBuf'[q], wire'[q])
    BY <1>0, <1>3, <2>1, <2>3
  <2> QED
    BY <1>2, <2>1, <2>4 DEF Arriving
<1>6. ASSUME Arrived(q) PROVE Arrived(q)'
  <2>1. Stream(0, Header, g, w)
    BY <1>3, <1>6 DEF Arrived
  <2>2. 0 \in Nat /\ Header \in {LengthLine, Header}
    OBVIOUS
  <2>3. Stream(0, Header, g, e)
    BY <1>1, <2>1, <2>2
  <2> QED
    BY <1>0, <1>2, <1>3, <1>6, <2>3 DEF Arrived
<1> QED
  BY <1>2, <1>4, <1>5, <1>6 DEF Told

\* A step of the request that is alone: the others are not concerned.
LEMMA TellMove ==
    ASSUME Typed, OwnInv, TellInv, ~overlapped, NEW r \in Active,
           NEW place \in Places, pc' = [pc EXCEPT ![r] = place],
           \A q \in Requests \ {r} : /\ got'[q] = got[q] /\ cacheBuf'[q] = cacheBuf[q]
                                     /\ served'[q] = served[q] /\ recvOn'[q] = recvOn[q]
                                     /\ wire'[q] = wire[q],
           Told(r)'
    PROVE  TellInv'
<1>1. pc \in [Requests -> Places] /\ r \in Requests
  BY DEF Typed, TypeOK, Places, Active
<1>2. ASSUME NEW q \in Requests \ {r} PROVE Told(q)'
  <2>1. q \notin Active
    BY DEF OwnInv, Lone
  <2>2. pc[q] \in {"idle", "done", "lost"} /\ pc'[q] = pc[q]
    BY <1>1, <2>1 DEF Active
  <2>3. Told(q)
    BY DEF TellInv
  <2>4. CASE pc[q] = "idle"
    BY <2>2, <2>3, <2>4 DEF Told, Fresh
  <2>5. CASE pc[q] # "idle"
    BY <2>2, <2>3, <2>5 DEF Told
  <2> QED
    BY <2>4, <2>5
<1> QED
  BY <1>2 DEF TellInv

\* The request that is alone receives from its own connection.
LEMMA ChunkOwn ==
    ASSUME Typed, OwnInv, TellInv, ~overlapped, NEW r \in Requests, NEW chunk \in Bytes(r),
           Waits(r), Take(r, chunk)
    PROVE  /\ conn[r] \in {"up", "gone"}
           /\ wire[r] \in Seq(Token) /\ wire'[r] \in Seq(Token) /\ chunk \in Seq(Token)
           /\ Taken(chunk, wire[r], wire'[r])
           /\ recvOn'[r] = Nobody
           /\ \A q \in Requests \ {r} : wire'[q] = wire[q] /\ recvOn'[q] = recvOn[q]
<1>1. recvOn[r] = r
  <2>1. recvOn[r] # Nobody
    BY DEF Bytes
  <2>2. Told(r)
    BY DEF TellInv
  <2> QED
    BY <2>1, <2>2 DEF Told, Waits
<1>2. /\ conn[r] \in {"up", "gone"}
      /\ wire[r] \in Seq(Token) /\ chunk \in Seq(Token)
      /\ Len(chunk) \in 1..Len(wire[r]) /\ \A i \in 1..Len(chunk) : chunk[i] = wire[r][i]
  BY <1>1, ChunkTyped
<1>3. /\ wire' \in [Conns -> Seq(Token)]
      /\ Len(wire'[r]) = Len(wire[r]) - Len(chunk)
      /\ \A i \in 1..(Len(wire[r]) - Len(chunk)) : wire'[r][i] = wire[r][Len(chunk) + i]
  BY <1>1, TakeTyped
<1>4. r \in Conns /\ Requests \subseteq Conns
  BY DEF Conns
<1>5. wire'[r] \in Seq(Token)
  BY <1>3, <1>4
<1>6. PICK v : wire' = [wire EXCEPT ![r] = v]
  BY <1>1 DEF Take
<1>7. wire \in [Conns -> Seq(Token)] /\ recvOn \in [Requests -> Conns \cup {Nobody}]
  BY DEF Typed, TypeOK, HttpTypes
<1>8. \A q \in Requests \ {r} : wire'[q] = wire[q]
  BY <1>4, <1>6, <1>7
<1>9. recvOn' = [recvOn EXCEPT ![r] = Nobody]
  BY DEF Take
<1>10. recvOn'[r] = Nobody /\ \A q \in Requests \ {r} : recvOn'[q] = recvOn[q]
  BY <1>7, <1>9
<1>11. \A i \in 1..Len(wire'[r]) : wire'[r][i] = wire[r][Len(chunk) + i]
  <2>1. PICK n : n = Len(wire[r]) - Len(chunk)
    OBVIOUS
  <2>2. Len(wire'[r]) = n /\ \A i \in 1..n : wire'[r][i] = wire[r][Len(chunk) + i]
    BY <1>3, <2>1
  <2> QED
    BY <2>2
<1> QED
  BY <1>2, <1>3, <1>5, <1>8, <1>10, <1>11 DEF Taken

LEMMA TellInit == Init => TellInv
<1> SUFFICES ASSUME Init, NEW r \in Requests PROVE Told(r)
  BY DEF TellInv
<1>1. Requests \subseteq Conns
  BY DEF Conns
<1>2. pc[r] = "idle" /\ recvOn[r] = Nobody /\ served[r] = "none"
  BY DEF Init
<1>3. got[r] = <<>> /\ cacheBuf[r] = <<>> /\ wire[r] = <<>>
  BY <1>1 DEF Init
<1> QED
  BY <1>2, <1>3 DEF Told, Fresh

\* A request that was answered, in whole or in part, or was not.
LEMMA TellSend ==
    ASSUME Typed, OwnInv, TellInv, ~overlapped, NEW r \in Requests, SendHeader(r) \/ SendLast(r)
    PROVE  TellInv'
<1>0. /\ pc \in [Requests -> Places] /\ Requests \subseteq Conns /\ BodyLen \in Nat
      /\ served \in [Requests -> {"none", "whole", "less"}] /\ wire \in [Conns -> Seq(Token)]
  BY ClientAssumption DEF Typed, TypeOK, HttpTypes, Places, Conns
<1>1. /\ pc[r] \in {"request", "post"} /\ UNCHANGED <<method, got, cacheBuf, recvOn, conn>>
      /\ \/ Current # Nobody /\ Answers(r) /\ pc' = [pc EXCEPT ![r] = "head"]
         \/ UNCHANGED <<wire, served>> /\ \E place \in {"post", "head"} : pc' = [pc EXCEPT ![r] = place]
  BY DEF SendHeader, SendLast, Goto, taskVars, outVars
<1>2. r \in Active /\ Current = r
  BY <1>1 DEF Active, OwnInv, Owns, Working
<1>3. Fresh(r)
  BY <1>1 DEF TellInv, Told
<1>4. PICK e \in Seq(Token) : e = <<>> /\ Len(e) = 0
  <2>1. <<>> \in Seq(Token) /\ Len(<<>>) = 0
    OBVIOUS
  <2> QED
    BY <2>1
<1>5. got'[r] = e /\ cacheBuf'[r] = e /\ wire[r] = e /\ served[r] = "none" /\ recvOn'[r] = Nobody
  BY <1>1, <1>3, <1>4 DEF Fresh
<1>6. CASE Current # Nobody /\ Answers(r) /\ pc' = [pc EXCEPT ![r] = "head"]
  <2>1. PICK h \in Nat \ {0}, first \in {LengthLine, Header}, cut \in {0, 1}, x \in Seq(Token) :
          /\ wire' = [wire EXCEPT ![Current] = @ \o x]
          /\ first = LengthLine => h > 1
          /\ Len(x) = h + ContentLen(method[r]) - cut
          /\ \A i \in 1..Len(x) : x[i] = At(h, first, i)
          /\ served' = Kept(served, r, IF first = LengthLine /\ cut = 0 THEN "whole" ELSE "less")
    BY <1>6, AnswersIs
  <2>2. e \o x = x
    BY <1>4
  <2>3. wire' = [wire EXCEPT ![r] = x]
    BY <1>2, <1>5, <2>1, <2>2
  <2>4. wire'[r] = x /\ \A q \in Requests \ {r} : wire'[q] = wire[q]
    BY <1>0, <2>3
  <2>5. served' = [served EXCEPT ![r] = IF first = LengthLine /\ cut = 0 THEN "whole" ELSE "less"]
    BY <2>1 DEF Kept
  <2>6. /\ served'[r] = "whole" => first = LengthLine /\ cut = 0
        /\ \A q \in Requests \ {r} : served'[q] = served[q]
    BY <1>0, <2>5
  <2>7. pc'[r] = "head"
    BY <1>0, <1>6
  <2>8. ASSUME method[r] # "head" PROVE Arriving(r)'
    <3>1. Len(x) = h + BodyLen - cut
      BY <2>1, <2>8 DEF ContentLen
    <3>2. Len(e) + Len(x) <= h + BodyLen /\ Len(e) < h /\ (cut = 0 => Len(e) + Len(x) = h + BodyLen)
      BY <1>0, <1>4, <3>1
    <3>3. ASSUME NEW i \in 1..Len(x) PROVE x[i] = At(h, first, Len(e) + i)
      <4>1. Len(e) + i = i
        BY <1>4
      <4> QED
        BY <2>1, <4>1
    <3>4. \A i \in 1..Len(e) : e[i] = At(h, first, i)
      BY <1>4
    <3>5. Stream(h, first, e, x)
      BY <3>2, <3>3, <3>4 DEF Stream
    <3>6. Whole(r)' => first = LengthLine /\ Len(e) + Len(x) = h + BodyLen
      BY <2>6, <3>2 DEF Whole
    <3>7. /\ first = LengthLine => h > 1
          /\ Len(cacheBuf'[r]) < h
          /\ Stream(h, first, cacheBuf'[r], wire'[r])
          /\ Whole(r)' => first = LengthLine /\ Len(cacheBuf'[r]) + Len(wire'[r]) = h + BodyLen
      BY <1>5, <2>1, <2>4, <3>2, <3>5, <3>6
    <3> QED
      BY <3>7 DEF Arriving
  <2>9. Told(r)'
    BY <1>1, <1>4, <1>5, <2>7, <2>8 DEF Told
  <2> QED
    BY <1>1, <1>2, <1>6, <2>4, <2>6, <2>9, TellMove DEF Places
<1>7. CASE UNCHANGED <<wire, served>>
  <2>1. PICK place \in {"post", "head"} : pc' = [pc EXCEPT ![r] = place]
    BY <1>1
  <2>2. pc'[r] = place
    BY <1>0, <2>1
  <2>3. Fresh(r)'
    BY <1>4, <1>5, <1>7 DEF Fresh
  <2>4. Arriving(r)'
    <3>1. Len(e) < 1 /\ Len(e) + Len(e) <= 1 + BodyLen
      BY <1>0, <1>4
    <3>2. Stream(1, Header, e, e)
      BY <1>4, <3>1 DEF Stream
    <3>3. ~Whole(r)'
      BY <1>5, <1>7 DEF Whole
    <3>4. 1 \in Nat \ {0}
      OBVIOUS
    <3>5. Len(cacheBuf'[r]) < 1 /\ Stream(1, Header, cacheBuf'[r], wire'[r])
      BY <1>5, <1>7, <3>1, <3>2
    <3>6. Header \in {LengthLine, Header} /\ Header # LengthLine
      BY DEF Header, LengthLine
    <3> QED
      BY <3>3, <3>4, <3>5, <3>6 DEF Arriving
  <2>5. Told(r)'
    BY <1>4, <1>5, <2>2, <2>3, <2>4 DEF Told
  <2> QED
    BY <1>1, <1>2, <1>7, <2>1, <2>5, TellMove DEF Places
<1> QED
  BY <1>1, <1>6, <1>7

\* The header goes on.
LEMMA TellHeader ==
    ASSUME Typed, OwnInv, TellInv, ~overlapped, NEW r \in Requests, NEW chunk \in Bytes(r),
           RecvHeader(r, chunk)
    PROVE  TellInv'
<1>0. /\ pc \in [Requests -> Places] /\ BodyLen \in Nat
      /\ cacheBuf \in [Requests -> Seq(Token)]
  BY ClientAssumption DEF Typed, TypeOK, HttpTypes, Places
<1>1. /\ pc[r] = "head" /\ Take(r, chunk) /\ UNCHANGED <<method, got, conn, served>> /\ pc' = pc
      /\ SearchLen(cacheBuf[r] \o chunk) = 0
      /\ cacheBuf' = [cacheBuf EXCEPT ![r] = @ \o chunk]
  BY DEF RecvHeader, outVars, history
<1>2. r \in Active /\ Waits(r)
  BY <1>1 DEF Active, Waits
<1>3. PICK w \in Seq(Token), v \in Seq(Token), x \in Seq(Token) :
        w = wire[r] /\ v = wire'[r] /\ x = chunk /\ Taken(x, w, v)
  BY <1>1, <1>2, ChunkOwn
<1>4. /\ recvOn'[r] = Nobody
      /\ \A q \in Requests \ {r} : wire'[q] = wire[q] /\ recvOn'[q] = recvOn[q]
  BY <1>1, <1>2, ChunkOwn
<1>5. PICK c \in Seq(Token), b \in Seq(Token) : c = cacheBuf[r] /\ b = c \o x
  <2>1. PICK c \in Seq(Token) : c = cacheBuf[r]
    BY <1>0
  <2>2. c \o x \in Seq(Token)
    BY Cat
  <2> QED
    BY <2>1, <2>2
<1>6. /\ SearchLen(b) = 0 /\ cacheBuf'[r] = b
      /\ \A q \in Requests \ {r} : cacheBuf'[q] = cacheBuf[q]
  BY <1>0, <1>1, <1>3, <1>5
<1>7. Told(r)
  BY DEF TellInv
<1>8. ASSUME method[r] # "head" PROVE Arriving(r)'
  <2>1. Arriving(r)
    BY <1>1, <1>7, <1>8 DEF Told
  <2>2. PICK h \in Nat \ {0}, first \in {LengthLine, Header} :
          /\ first = LengthLine => h > 1
          /\ Stream(h, first, c, w)
          /\ Whole(r) => first = LengthLine /\ Len(c) + Len(w) = h + BodyLen
    BY <1>3, <1>5, <2>1, Zenon DEF Arriving
  <2>3. Stream(h, first, b, v) /\ Len(b) + Len(v) = Len(c) + Len(w)
    <3>1. h \in Nat
      OBVIOUS
    <3>2. Stream(h, first, c, w) /\ Taken(x, w, v)
      BY <1>3, <2>2, Zenon
    <3>3. Stream(h, first, c \o x, v) /\ Len(c \o x) + Len(v) = Len(c) + Len(w)
      BY <3>1, <3>2, TakeStream
    <3> QED
      BY <1>5, <3>3
  <2>4. Len(b) < h
    BY <1>6, <2>3, HeaderAt DEF Stream
  <2>5. Whole(r)' <=> Whole(r)
    BY <1>1 DEF Whole
  <2>6. /\ first = LengthLine => h > 1
        /\ Len(cacheBuf'[r]) < h
        /\ Stream(h, first, cacheBuf'[r], wire'[r])
        /\ Whole(r)' => first = LengthLine /\ Len(cacheBuf'[r]) + Len(wire'[r]) = h + BodyLen
    BY <1>3, <1>6, <2>2, <2>3, <2>4, <2>5
  <2> QED
    BY <2>6 DEF Arriving
<1>9. pc'[r] = "head" /\ got'[r] = <<>>
  BY <1>1, <1>7 DEF Told
<1>10. Told(r)'
  BY <1>1, <1>4, <1>8, <1>9 DEF Told
<1>11. pc' = [pc EXCEPT ![r] = "head"] /\ "head" \in Places
  BY <1>0, <1>1 DEF Places
<1> QED
  BY <1>1, <1>2, <1>4, <1>6, <1>10, <1>11, TellMove

\* What is behind the header is a response of which only the content is left.
LEMMA ContentStream ==
    ASSUME NEW b \in Seq(Token), NEW v \in Seq(Token), NEW h \in Nat \ {0},
           NEW first \in {LengthLine, Header}, Stream(h, first, b, v), SearchLen(b) # 0
    PROVE  /\ Content(b) \in Seq(Token) /\ Len(Content(b)) = Len(b) - h
           /\ Stream(0, Header, Content(b), v)
<1>0. Len(b) \in Nat /\ Len(v) \in Nat /\ BodyLen \in Nat /\ h \in Nat
  BY ClientAssumption
<1>1. /\ Len(b) + Len(v) <= h + BodyLen
      /\ \A i \in 1..Len(b) : b[i] = At(h, first, i)
      /\ \A i \in 1..Len(v) : v[i] = At(h, first, Len(b) + i)
  BY DEF Stream
<1>2. SearchLen(b) = h /\ h <= Len(b)
  BY <1>1, HeaderAt
<1>3. PICK k \in Seq(Token) : k = Content(b)
  BY ContentTyped
<1>4. Len(k) = Len(b) - h /\ \A i \in 1..(Len(b) - h) : k[i] = b[h + i]
  BY <1>2, <1>3, ContentTyped
<1>5. Len(k) + Len(v) <= 0 + BodyLen /\ Len(k) \in Nat
  BY <1>0, <1>1, <1>2, <1>4
<1>6. ASSUME NEW i \in 1..Len(k) PROVE k[i] = At(0, Header, i)
  <2>1. i \in Nat \ {0} /\ h + i \in 1..Len(b) /\ i \in 1..(Len(b) - h)
    BY <1>0, <1>2, <1>4
  <2>2. k[i] = b[h + i] /\ b[h + i] = At(h, first, h + i)
    BY <1>1, <1>4, <2>1
  <2>3. At(h, first, h + i) = i
    BY <1>0, <2>1, AtBody
  <2>4. At(0, Header, 0 + i) = i
    BY <2>1, AtBody
  <2>5. 0 + i = i
    BY <2>1
  <2> QED
    BY <2>2, <2>3, <2>4, <2>5
<1>7. ASSUME NEW i \in 1..Len(v) PROVE v[i] = At(0, Header, Len(k) + i)
  <2>0. PICK j : j = Len(k) + i
    OBVIOUS
  <2>1. j \in Nat \ {0} /\ h + j = Len(b) + i /\ 0 + j = j
    BY <1>0, <1>2, <1>4, <1>5, <2>0
  <2>2. v[i] = At(h, first, h + j)
    BY <1>1, <2>1
  <2>3. At(h, first, h + j) = j
    BY <1>0, <2>1, AtBody
  <2>4. At(0, Header, 0 + j) = j
    BY <2>1, AtBody
  <2> QED
    BY <2>0, <2>1, <2>2, <2>3, <2>4
<1>8. Stream(0, Header, k, v)
  BY <1>5, <1>6, <1>7 DEF Stream
<1> QED
  BY <1>3, <1>4, <1>8

\* The header ends, and what follows it is given on.
LEMMA TellHeaderEnd ==
    ASSUME Typed, OwnInv, TellInv, ~overlapped, NEW r \in Requests, NEW chunk \in Bytes(r),
           RecvHeaderEnd(r, chunk)
    PROVE  TellInv'
<1>0. /\ pc \in [Requests -> Places] /\ BodyLen \in Nat
      /\ cacheBuf \in [Requests -> Seq(Token)] /\ got \in [Requests -> Seq(Token)]
      /\ docLen \in [Requests -> {0, BodyLen}] /\ total \in [Requests -> Nat]
  BY ClientAssumption DEF Typed, TypeOK, HttpTypes, Places
<1>1. PICK c \in Seq(Token) : c = cacheBuf[r]
  BY <1>0
<1>2. pc[r] = "head" /\ Take(r, chunk) /\ UNCHANGED <<method, conn, served>>
  BY DEF RecvHeaderEnd, history
<1>3. r \in Active /\ Waits(r)
  BY <1>2 DEF Active, Waits
<1>4. PICK w \in Seq(Token), v \in Seq(Token), x \in Seq(Token) :
        w = wire[r] /\ v = wire'[r] /\ x = chunk /\ Taken(x, w, v)
  BY <1>2, <1>3, ChunkOwn
<1>5. /\ recvOn'[r] = Nobody
      /\ \A q \in Requests \ {r} : wire'[q] = wire[q] /\ recvOn'[q] = recvOn[q]
  BY <1>2, <1>3, ChunkOwn
<1>6. PICK b \in Seq(Token) : b = c \o x
  BY Cat
<1>7. /\ SearchLen(b) # 0
      /\ cacheBuf' = [cacheBuf EXCEPT ![r] = b]
      /\ docLen' = [docLen EXCEPT ![r] = ContentLength(b)]
      /\ \/ /\ method[r] = "head" /\ pc' = [pc EXCEPT ![r] = "close"] /\ UNCHANGED got
         \/ /\ method[r] # "head" /\ pc' = [pc EXCEPT ![r] = "body"]
            /\ got' = Kept(got, r, got[r] \o Content(b))
            /\ total' = [total EXCEPT ![r] = Len(Content(b))]
  BY <1>1, <1>4, <1>6 DEF RecvHeaderEnd, Goto
<1>8. \A q \in Requests \ {r} : cacheBuf'[q] = cacheBuf[q]
  BY <1>0, <1>7
<1>9. Told(r)
  BY DEF TellInv
<1>10. got[r] = <<>>
  BY <1>2, <1>9 DEF Told
<1>11. CASE method[r] = "head" /\ pc' = [pc EXCEPT ![r] = "close"] /\ UNCHANGED got
  <2>1. pc'[r] = "close" /\ method'[r] = "head" /\ got'[r] = <<>>
    BY <1>0, <1>2, <1>10, <1>11
  <2>2. Told(r)'
    BY <2>1, NonePrefix DEF Told
  <2> QED
    BY <1>2, <1>3, <1>5, <1>8, <1>11, <2>2, TellMove DEF Places
<1>12. CASE /\ method[r] # "head" /\ pc' = [pc EXCEPT ![r] = "body"]
            /\ got' = Kept(got, r, got[r] \o Content(b))
            /\ total' = [total EXCEPT ![r] = Len(Content(b))]
  <2>1. Arriving(r)
    BY <1>2, <1>9, <1>12 DEF Told
  <2>2. PICK h \in Nat \ {0}, first \in {LengthLine, Header} :
          /\ first = LengthLine => h > 1
          /\ Stream(h, first, c, w)
          /\ Whole(r) => first = LengthLine /\ Len(c) + Len(w) = h + BodyLen
    BY <1>1, <1>4, <2>1, Zenon DEF Arriving
  <2>3. Stream(h, first, b, v) /\ Len(b) + Len(v) = Len(c) + Len(w)
    <3>1. h \in Nat
      OBVIOUS
    <3>2. Stream(h, first, c, w) /\ Taken(x, w, v)
      BY <1>4, <2>2, Zenon
    <3>3. Stream(h, first, c \o x, v) /\ Len(c \o x) + Len(v) = Len(c) + Len(w)
      BY <3>1, <3>2, TakeStream
    <3> QED
      BY <1>6, <3>3
  <2>4. PICK k \in Seq(Token) : k = Content(b)
    BY ContentTyped
  <2>5. Len(k) = Len(b) - h /\ Stream(0, Header, k, v)
    <3>1. Stream(h, first, b, v) /\ SearchLen(b) # 0
      BY <1>7, <2>3
    <3> QED
      BY <2>4, <3>1, ContentStream
  <2>6. <<>> \o k = k
    OBVIOUS
  <2>7. got' = [got EXCEPT ![r] = k] /\ total' = [total EXCEPT ![r] = Len(k)]
    BY <1>10, <1>12, <2>4, <2>6 DEF Kept
  <2>8. /\ got'[r] = k /\ total'[r] = Len(k) /\ pc'[r] = "body" /\ docLen'[r] = ContentLength(b)
        /\ \A q \in Requests \ {r} : got'[q] = got[q]
    BY <1>0, <1>7, <1>12, <2>7
  <2>9. ASSUME Whole(r)' PROVE Len(k) + Len(v) = BodyLen /\ docLen'[r] = BodyLen
    <3>1. Whole(r)
      BY <1>2, <2>9 DEF Whole
    <3>2. first = LengthLine /\ h > 1 /\ Len(c) + Len(w) = h + BodyLen
      BY <2>2, <3>1, Zenon
    <3>3. Len(k) + Len(v) = BodyLen
      BY <1>0, <2>3, <2>5, <3>2
    <3>4. \A i \in 1..Len(b) : b[i] = At(h, first, i)
      BY <2>3, Zenon DEF Stream
    <3>5. ContentLength(b) = BodyLen
      BY <1>7, <3>2, <3>4, HeaderAt
    <3> QED
      BY <2>8, <3>3, <3>5
  <2>10. Arrived(r)'
    BY <1>4, <2>5, <2>8, <2>9 DEF Arrived
  <2>11. Told(r)'
    BY <1>5, <2>8, <2>10 DEF Told
  <2> QED
    BY <1>2, <1>3, <1>5, <1>8, <1>12, <2>8, <2>11, TellMove DEF Places
<1> QED
  BY <1>7, <1>11, <1>12

\* The content goes on.
LEMMA TellBody ==
    ASSUME Typed, OwnInv, TellInv, ~overlapped, NEW r \in Requests, NEW chunk \in Bytes(r),
           RecvBody(r, chunk)
    PROVE  TellInv'
<1>0. /\ pc \in [Requests -> Places] /\ BodyLen \in Nat
      /\ got \in [Requests -> Seq(Token)] /\ total \in [Requests -> Nat]
  BY ClientAssumption DEF Typed, TypeOK, HttpTypes, Places
<1>1. PICK g \in Seq(Token) : g = got[r]
  BY <1>0
<1>2. pc[r] = "body" /\ Take(r, chunk) /\ UNCHANGED <<method, conn, served, cacheBuf, docLen>>
  BY DEF RecvBody, history
<1>3. r \in Active /\ Waits(r)
  BY <1>2 DEF Active, Waits
<1>4. PICK w \in Seq(Token), v \in Seq(Token), x \in Seq(Token) :
        w = wire[r] /\ v = wire'[r] /\ x = chunk /\ Taken(x, w, v)
  BY <1>2, <1>3, ChunkOwn
<1>5. /\ recvOn'[r] = Nobody
      /\ \A q \in Requests \ {r} : wire'[q] = wire[q] /\ recvOn'[q] = recvOn[q]
  BY <1>2, <1>3, ChunkOwn
<1>6. PICK u \in Seq(Token) : u = g \o x
  BY Cat
<1>7. /\ got' = Kept(got, r, u) /\ total' = [total EXCEPT ![r] = @ + Len(x)]
      /\ \/ Complete(r, total'[r]) /\ pc' = [pc EXCEPT ![r] = "close"]
         \/ ~Complete(r, total'[r]) /\ pc' = pc
  BY <1>1, <1>4, <1>6 DEF RecvBody, Goto
<1>8. /\ got'[r] = u /\ total'[r] = total[r] + Len(x)
      /\ \A q \in Requests \ {r} : got'[q] = got[q]
  BY <1>0, <1>7 DEF Kept
<1>9. /\ Stream(0, Header, g, w) /\ total[r] = Len(g)
      /\ Whole(r) => Len(g) + Len(w) = BodyLen /\ docLen[r] = BodyLen
  <2>1. Arrived(r)
    BY <1>2 DEF TellInv, Told
  <2> QED
    BY <1>1, <1>4, <2>1 DEF Arrived
<1>10. Stream(0, Header, u, v) /\ Len(u) + Len(v) = Len(g) + Len(w)
  <2>1. 0 \in Nat /\ Header \in {LengthLine, Header}
    OBVIOUS
  <2>2. Stream(0, Header, g, w) /\ Taken(x, w, v)
    BY <1>4, <1>9, Zenon
  <2>3. Stream(0, Header, g \o x, v) /\ Len(g \o x) + Len(v) = Len(g) + Len(w)
    BY <2>1, <2>2, TakeStream
  <2> QED
    BY <1>6, <2>3
<1>11. total'[r] = Len(u) /\ Len(u) \in Nat /\ Len(v) \in Nat
  <2>1. Len(u) = Len(g) + Len(x)
    BY <1>6, Cat
  <2>2. total[r] = Len(g)
    BY <1>9, Zenon
  <2> QED
    BY <1>8, <2>1, <2>2
<1>12. Whole(r)' => Len(u) + Len(v) = BodyLen /\ docLen'[r] = BodyLen
  <2> SUFFICES ASSUME Whole(r)' PROVE Len(u) + Len(v) = BodyLen /\ docLen'[r] = BodyLen
    OBVIOUS
  <2>1. Whole(r)
    BY <1>2 DEF Whole
  <2> QED
    BY <1>2, <1>9, <1>10, <2>1
<1>13. CASE Complete(r, total'[r]) /\ pc' = [pc EXCEPT ![r] = "close"]
  <2>1. pc'[r] = "close"
    BY <1>0, <1>13
  <2>2. ASSUME Whole(r)' PROVE u = Body
    <3>1. Len(u) + Len(v) = BodyLen /\ docLen[r] = BodyLen
      BY <1>2, <1>12, <2>2
    <3>2. Len(u) >= BodyLen
      BY <1>11, <1>13, <3>1 DEF Complete
    <3>3. Len(u) = BodyLen
      BY <1>0, <1>11, <3>1, <3>2
    <3> QED
      BY <1>10, <3>3, StreamPrefix
  <2>3. IsPrefix(u, Body)
    BY <1>10, StreamPrefix
  <2>4. Told(r)'
    BY <1>8, <2>1, <2>2, <2>3 DEF Told
  <2> QED
    BY <1>2, <1>3, <1>5, <1>8, <1>13, <2>4, TellMove DEF Places
<1>14. CASE pc' = pc
  <2>1. pc'[r] = "body" /\ pc' = [pc EXCEPT ![r] = "body"]
    BY <1>0, <1>2, <1>14
  <2>2. Arrived(r)'
    BY <1>4, <1>8, <1>10, <1>11, <1>12 DEF Arrived
  <2>3. Told(r)'
    BY <1>5, <2>1, <2>2 DEF Told
  <2> QED
    BY <1>2, <1>3, <1>5, <1>8, <2>1, <2>3, TellMove DEF Places
<1> QED
  BY <1>7, <1>13, <1>14

\* Nothing comes any more, or nothing came this time.
LEMMA TellEnd ==
    ASSUME Typed, OwnInv, TellInv, ~overlapped, NEW r \in Requests,
           RecvBegin(r) \/ RecvZero(r) \/ RecvFails(r)
    PROVE  TellInv'
<1>0. /\ pc \in [Requests -> Places] /\ BodyLen \in Nat /\ r \in Conns
      /\ got \in [Requests -> Seq(Token)] /\ wire \in [Conns -> Seq(Token)]
      /\ cacheBuf \in [Requests -> Seq(Token)] /\ recvOn \in [Requests -> Conns \cup {Nobody}]
  BY ClientAssumption DEF Typed, TypeOK, HttpTypes, Places, Conns
<1>1. /\ pc[r] \in {"head", "body"}
      /\ UNCHANGED <<method, conn, wire, served, cacheBuf, docLen, total, got>>
  BY Zenon DEF RecvBegin, RecvZero, RecvFails, Waits, sockVars, outVars, history
<1>2. r \in Active /\ Current = r /\ conn[r] \in {"up", "gone", "reset"} /\ Told(r)
  BY <1>1 DEF Active, OwnInv, Owns, Working, TellInv
<1>3. r # Nobody /\ recvOn[r] \in {Nobody, r}
  BY <1>1, <1>2, ClientAssumption DEF Told
<1>4. PICK c \in {Nobody, r} : recvOn' = [recvOn EXCEPT ![r] = c]
  BY <1>2, Zenon DEF RecvBegin, RecvZero, RecvFails
<1>5. recvOn'[r] = c /\ \A q \in Requests \ {r} : recvOn'[q] = recvOn[q]
  BY <1>0, <1>4
<1>6. Whole(r)' <=> Whole(r)
  BY <1>1 DEF Whole
<1>7. CASE UNCHANGED <<pc, result>>
  <2>1. pc'[r] = pc[r] /\ pc' = [pc EXCEPT ![r] = pc[r]] /\ pc[r] \in Places
    BY <1>0, <1>7
  <2>2. Arriving(r) => Arriving(r)'
    BY <1>1, <1>6, ArrivingSame
  <2>3. Arrived(r) => Arrived(r)'
    BY <1>1, <1>6 DEF Arrived
  <2>4. Told(r)'
    BY <1>1, <1>2, <1>5, <2>1, <2>2, <2>3 DEF Told
  <2> QED
    BY <1>1, <1>2, <1>5, <2>1, <2>4, TellMove
<1>8. CASE pc' = [pc EXCEPT ![r] = "close"]
  <2>1. pc'[r] = "close"
    BY <1>0, <1>8
  <2>2. PICK g \in Seq(Token), w \in Seq(Token) : g = got[r] /\ w = wire[r]
    BY <1>0
  <2>3. ASSUME method[r] # "head", Whole(r) PROVE wire[r] = <<>> \/ (pc[r] = "body" /\ Complete(r, total[r]))
    <3>1. conn[r] \in {"up", "gone"}
      BY <2>3 DEF Whole
    <3>2. ~RecvBegin(r)
      <4> SUFFICES ASSUME RecvBegin(r) PROVE FALSE
        OBVIOUS
      <4>1. pc' = pc
        BY DEF RecvBegin
      <4> QED
        BY <1>1, <2>1, <4>1
    <3>3. CASE RecvZero(r)
      <4>1. recvOn[r] = r /\ wire[recvOn[r]] = <<>>
        BY <1>3, <3>3 DEF RecvZero
      <4> QED
        BY <4>1
    <3>4. CASE RecvFails(r)
      <4>1. recvOn[r] # Nobody
        <5> SUFFICES ASSUME recvOn[r] = Nobody PROVE FALSE
          OBVIOUS
        <5>1. Current \notin {d \in Conns : conn[d] # "opened"}
          BY <3>4 DEF RecvFails
        <5> QED
          BY <1>0, <1>2, <5>1
      <4>2. recvOn[r] = r /\ conn[r] \notin {"reset", "closed"}
        BY <1>3, <3>1, <4>1
      <4> QED
        BY <3>4, <4>1, <4>2 DEF RecvFails
    <3> QED
      BY <3>2, <3>3, <3>4
  <2>4. IsPrefix(g, Body)
    <3>1. CASE pc[r] = "head"
      BY <1>2, <2>2, <3>1, NonePrefix DEF Told
    <3>2. CASE pc[r] = "body"
      <4>1. Stream(0, Header, g, w)
        BY <1>2, <2>2, <3>2 DEF Told, Arrived
      <4> QED
        BY <4>1, StreamPrefix
    <3> QED
      BY <1>1, <3>1, <3>2
  <2>5. ASSUME method[r] # "head", Whole(r) PROVE g = Body
    <3>1. CASE pc[r] = "head"
      <4>1. wire[r] = <<>> /\ Len(w) = 0
        BY <2>2, <2>3, <2>5, <3>1
      <4>2. PICK cb \in Seq(Token) : cb = cacheBuf[r]
        BY <1>0
      <4>3. Arriving(r)
        BY <1>2, <2>5, <3>1 DEF Told
      <4>4. PICK h \in Nat \ {0} : Len(cb) < h /\ (Whole(r) => Len(cb) + Len(w) = h + BodyLen)
        BY <2>2, <4>2, <4>3, Zenon DEF Arriving
      <4>5. Len(cb) < h /\ Len(cb) + Len(w) = h + BodyLen
        BY <2>5, <4>4, Zenon
      <4>6. Len(cb) \in Nat
        OBVIOUS
      <4> QED
        BY <1>0, <4>1, <4>5, <4>6
    <3>2. CASE pc[r] = "body"
      <4>1. Stream(0, Header, g, w) /\ total[r] = Len(g) /\ Len(g) + Len(w) = BodyLen /\ docLen[r] = BodyLen
        BY <1>2, <2>2, <2>5, <3>2 DEF Told, Arrived
      <4>2. Len(g) \in Nat /\ Len(w) \in Nat
        OBVIOUS
      <4>3. Len(g) = BodyLen
        <5>1. CASE wire[r] = <<>>
          <6>1. Len(w) = 0
            BY <2>2, <5>1
          <6> QED
            BY <1>0, <4>1, <4>2, <6>1
        <5>2. CASE Complete(r, total[r])
          <6>1. Len(g) >= BodyLen
            BY <4>1, <5>2 DEF Complete
          <6> QED
            BY <1>0, <4>1, <4>2, <6>1
        <5> QED
          BY <2>3, <2>5, <5>1, <5>2
      <4> QED
        BY <4>1, <4>3, StreamPrefix
    <3> QED
      BY <1>1, <3>1, <3>2
  <2>6. Told(r)'
    BY <1>1, <1>6, <2>1, <2>2, <2>4, <2>5 DEF Told
  <2> QED
    BY <1>1, <1>2, <1>5, <1>8, <2>6, TellMove DEF Places
<1> QED
  BY <1>7, <1>8 DEF RecvBegin, RecvZero, RecvFails, Goto, outVars

\* The request is at its end, and had been given nothing of the content.
LEMMA TellFails ==
    ASSUME Typed, OwnInv, TellInv, ~overlapped, NEW r \in Active, got[r] = <<>>,
           pc' = [pc EXCEPT ![r] = "close"], result'[r] # "Finish", UNCHANGED got,
           \A q \in Requests \ {r} : /\ cacheBuf'[q] = cacheBuf[q] /\ served'[q] = served[q]
                                     /\ recvOn'[q] = recvOn[q] /\ wire'[q] = wire[q]
    PROVE  TellInv'
<1>1. pc \in [Requests -> Places] /\ r \in Requests
  BY DEF Typed, TypeOK, Places, Active
<1>2. pc'[r] = "close" /\ got'[r] = <<>>
  BY <1>1
<1>3. Told(r)'
  BY <1>2, NonePrefix DEF Told
<1> QED
  BY <1>3, TellMove DEF Places

LEMMA TellStep == Typed /\ OwnInv /\ TellInv /\ [Next]_vars => TellInv'
<1> SUFFICES ASSUME Typed, OwnInv, TellInv, [Next]_vars, ~overlapped' PROVE TellInv'
  BY DEF TellInv
<1>0. /\ pc \in [Requests -> Places] /\ Requests \subseteq Conns
      /\ conn \in [Conns -> {"none", "opened", "up", "gone", "reset", "closed"}]
      /\ wire \in [Conns -> Seq(Token)] /\ recvOn \in [Requests -> Conns \cup {Nobody}]
      /\ result \in [Requests -> {"none", "ConnectFail", "Connected", "PostFail", "RecviceFail",
                                  "Finish"}]
      /\ got \in [Requests -> Seq(Token)] /\ cacheBuf \in [Requests -> Seq(Token)]
      /\ served \in [Requests -> {"none", "whole", "less"}]
      /\ Nobody \notin Conns /\ Other \notin Requests
  BY ClientAssumption DEF Typed, TypeOK, HttpTypes, Places, Conns
<1>01. ~overlapped => \A r \in Requests : Told(r)
  BY DEF TellInv
<1>1. ASSUME NEW r \in Requests, NEW m \in Methods, Start(r, m) PROVE TellInv'
  <2>1. /\ pc[r] = "idle" /\ pc' = [pc EXCEPT ![r] = "connect"]
        /\ overlapped' = (overlapped \/ Active # {})
        /\ UNCHANGED <<wire, recvOn, cacheBuf>>
        /\ ~overlapped' => UNCHANGED <<got, served>>
    BY <1>1 DEF Start, Goto, sockVars
  <2>2. ~overlapped /\ Active = {} /\ UNCHANGED <<got, served>>
    BY <2>1
  <2>3. ASSUME NEW q \in Requests PROVE Told(q)'
    <3>1. Told(q) /\ q \notin Active
      BY <1>01, <2>2
    <3>2. pc[q] \in {"idle", "done", "lost"} /\ pc'[q] = IF q = r THEN "connect" ELSE pc[q]
      BY <1>0, <2>1, <3>1 DEF Active
    <3>3. Fresh(q)' <=> Fresh(q)
      BY <2>1, <2>2 DEF Fresh
    <3>4. CASE q = r
      <4>1. pc'[q] = "connect" /\ Fresh(q)'
        BY <2>1, <3>1, <3>2, <3>3, <3>4 DEF Told
      <4> QED
        BY <4>1 DEF Told
    <3>5. CASE q # r
      BY <2>2, <3>1, <3>2, <3>3, <3>5 DEF Told
    <3> QED
      BY <3>4, <3>5
  <2> QED
    BY <2>3 DEF TellInv
\* Before the request is sent.
<1>2. ASSUME NEW r \in Requests, pc[r] \in {"connect", "reach", "request", "post"}, ~overlapped
      PROVE  r \in Active /\ Fresh(r)
  BY <1>01, <1>2 DEF Told, Active
<1>3. ASSUME NEW r \in Requests, BadUrl(r) \/ NoSocket(r) \/ ConnectFails(r) PROVE TellInv'
  <2>1. /\ pc[r] \in {"connect", "reach"} /\ pc' = [pc EXCEPT ![r] = "close"]
        /\ result' = [result EXCEPT ![r] = "ConnectFail"]
        /\ UNCHANGED <<got, cacheBuf, served, recvOn, wire, overlapped>>
    BY <1>3, Zenon DEF BadUrl, NoSocket, ConnectFails, Goto, Report, sockVars, taskVars, history
  <2>2. ~overlapped /\ r \in Active /\ Fresh(r)
    BY <1>2, <2>1
  <2>3. result'[r] # "Finish" /\ got[r] = <<>>
    BY <1>0, <2>1, <2>2 DEF Fresh
  <2> QED
    BY <2>1, <2>2, <2>3, TellFails
<1>4. ASSUME NEW r \in Requests, LookupFails(r) PROVE TellInv'
  <2>1. /\ pc[r] = "connect" /\ wire' = [c \in Conns |-> <<>>]
        /\ pc' = [q \in Requests |-> IF q \in Active THEN "lost" ELSE pc[q]]
        /\ recvOn' = [q \in Requests |-> Nobody]
        /\ UNCHANGED <<got, cacheBuf, served, overlapped>>
    BY <1>4 DEF LookupFails, taskVars, outVars, history
  <2>2. ~overlapped /\ r \in Active /\ Fresh(r)
    BY <1>2, <2>1
  <2>3. ASSUME NEW q \in Requests PROVE Told(q)'
    <3>1. Told(q) /\ wire'[q] = <<>> /\ recvOn'[q] = Nobody
      BY <1>0, <1>01, <2>1, <2>2
    <3>2. CASE q = r
      <4>1. pc'[q] = "lost" /\ got'[q] = <<>>
        BY <2>1, <2>2, <3>2 DEF Fresh
      <4> QED
        BY <4>1 DEF Told
    <3>3. CASE q # r
      <4>1. q \notin Active
        BY <2>2, <3>3 DEF OwnInv, Lone
      <4>2. pc[q] \in {"idle", "done", "lost"} /\ pc'[q] = pc[q]
        BY <1>0, <2>1, <4>1 DEF Active
      <4>3. Fresh(q) => Fresh(q)'
        BY <2>1, <3>1 DEF Fresh
      <4> QED
        BY <2>1, <3>1, <4>2, <4>3 DEF Told
    <3> QED
      BY <3>2, <3>3
  <2> QED
    BY <2>3 DEF TellInv
\* A request that goes on, with nothing sent.
<1>5. ASSUME NEW r \in Requests, NEW place \in {"reach", "request", "post"},
             pc[r] \in {"connect", "reach", "request", "post"}, pc' = [pc EXCEPT ![r] = place],
             UNCHANGED <<got, cacheBuf, served, recvOn, wire, overlapped>>
      PROVE  TellInv'
  <2>1. ~overlapped /\ r \in Active /\ Fresh(r)
    BY <1>2, <1>5
  <2>2. pc'[r] = place /\ Fresh(r)'
    BY <1>0, <1>5, <2>1 DEF Fresh
  <2>3. Told(r)'
    BY <2>2 DEF Told
  <2> QED
    BY <1>5, <2>1, <2>3, TellMove DEF Places
<1>6. ASSUME NEW r \in Requests, Socket(r) \/ Connects(r) PROVE TellInv'
  <2>1. PICK place \in {"reach", "request"} : pc' = [pc EXCEPT ![r] = place]
    BY <1>6 DEF Socket, Connects, Goto
  <2>2. /\ pc[r] \in {"connect", "reach"}
        /\ UNCHANGED <<got, cacheBuf, served, recvOn, wire, overlapped>>
    BY <1>6 DEF Socket, Connects, taskVars, outVars, history
  <2> QED
    BY <1>5, <2>1, <2>2
<1>7. ASSUME NEW r \in Requests, SendHeader(r) \/ SendLast(r) PROVE TellInv'
  <2>1. ~overlapped
    BY <1>7 DEF SendHeader, SendLast
  <2> QED
    BY <1>7, <2>1, TellSend
<1>8. ASSUME NEW r \in Requests, SendPiece(r) PROVE TellInv'
  <2>1. /\ pc[r] = "post" /\ UNCHANGED <<got, cacheBuf, served, recvOn, wire, overlapped>>
        /\ \/ pc' = pc
           \/ /\ result' = [result EXCEPT ![r] = "PostFail"]
              /\ pc' = [pc EXCEPT ![r] = "close"]
    BY <1>8 DEF SendPiece, Goto, Report, sockVars, history
  <2>2. CASE pc' = pc
    <3>1. pc' = [pc EXCEPT ![r] = "post"]
      BY <1>0, <2>1, <2>2
    <3> QED
      BY <1>5, <2>1, <3>1
  <2>3. CASE result' = [result EXCEPT ![r] = "PostFail"] /\ pc' = [pc EXCEPT ![r] = "close"]
    <3>1. ~overlapped /\ r \in Active /\ Fresh(r)
      BY <1>2, <2>1
    <3>2. result'[r] # "Finish" /\ got[r] = <<>>
      BY <1>0, <2>3, <3>1 DEF Fresh
    <3> QED
      BY <2>1, <2>3, <3>1, <3>2, TellFails
  <2> QED
    BY <2>1, <2>2, <2>3
<1>9. ASSUME NEW r \in Requests, RecvBegin(r) \/ RecvZero(r) \/ RecvFails(r) PROVE TellInv'
  <2>1. ~overlapped
    BY <1>9, Zenon DEF RecvBegin, RecvZero, RecvFails, history
  <2> QED
    BY <1>9, <2>1, TellEnd
<1>10. ASSUME NEW r \in Requests, NEW chunk \in Bytes(r), RecvTooMuch(r, chunk) PROVE TellInv'
  <2>1. /\ pc[r] = "head" /\ Take(r, chunk) /\ pc' = [pc EXCEPT ![r] = "close"]
        /\ result' = [result EXCEPT ![r] = "RecviceFail"]
        /\ UNCHANGED <<got, cacheBuf, served, overlapped>>
    BY <1>10 DEF RecvTooMuch, Goto, Report, history
  <2>2. ~overlapped /\ r \in Active /\ Waits(r)
    BY <2>1 DEF Active, Waits
  <2>3. \A q \in Requests \ {r} : wire'[q] = wire[q] /\ recvOn'[q] = recvOn[q]
    BY <2>1, <2>2, ChunkOwn
  <2>4. result'[r] # "Finish" /\ got[r] = <<>>
    BY <1>0, <1>01, <2>1, <2>2 DEF Told
  <2> QED
    BY <2>1, <2>2, <2>3, <2>4, TellFails
<1>11. ASSUME NEW r \in Requests, NEW chunk \in Bytes(r),
              RecvHeader(r, chunk) \/ RecvHeaderEnd(r, chunk) \/ RecvBody(r, chunk)
       PROVE  TellInv'
  <2>1. ~overlapped
    BY <1>11, Zenon DEF RecvHeader, RecvHeaderEnd, RecvBody, history
  <2> QED
    BY <1>11, <2>1, TellHeader, TellHeaderEnd, TellBody
<1>12. ASSUME NEW r \in Requests, CloseSock(r) PROVE TellInv'
  <2>1. /\ pc[r] = "close" /\ pc' = [pc EXCEPT ![r] = "done"] /\ UNCHANGED <<recvOn, overlapped>>
        /\ cacheBuf' = [cacheBuf EXCEPT ![r] = <<>>] /\ got' = [got EXCEPT ![r] = <<>>]
        /\ served' = [served EXCEPT ![r] = "none"]
        /\ IF Current # Nobody THEN Close(sock) ELSE UNCHANGED <<owner, conn, wire>>
    BY <1>12 DEF CloseSock, Ended, Goto
  <2>2. ~overlapped /\ r \in Active /\ Lone /\ Held
    BY <2>1 DEF Active, OwnInv
  <2>3. ASSUME NEW q \in Requests \ {r} PROVE wire'[q] = wire[q]
    <3>1. CASE Current = Nobody
      BY <2>1, <3>1
    <3>2. CASE Current # Nobody
      <4>1. sock \in Fds /\ owner[sock] = Current /\ Current \in Conns
        BY <3>2, CurrentIs
      <4>2. Current # q
        <5> SUFFICES ASSUME Current = q PROVE FALSE
          OBVIOUS
        <5>1. pc[q] \in Working \cup {"close"}
          BY <2>2, <4>1 DEF Held
        <5>2. q \in Active
          BY <5>1 DEF Active, Working
        <5> QED
          BY <2>2, <5>2 DEF Lone
      <4>3. wire' = [wire EXCEPT ![Current] = <<>>]
        BY <2>1, <3>2, <4>1 DEF Close
      <4> QED
        BY <1>0, <4>2, <4>3
    <3> QED
      BY <3>1, <3>2
  <2>4. pc'[r] = "done" /\ got'[r] = <<>>
    BY <1>0, <2>1
  <2>5. Told(r)'
    BY <2>4 DEF Told
  <2>6. \A q \in Requests \ {r} : /\ got'[q] = got[q] /\ cacheBuf'[q] = cacheBuf[q]
                                  /\ served'[q] = served[q] /\ recvOn'[q] = recvOn[q]
    BY <1>0, <2>1
  <2> QED
    BY <2>1, <2>2, <2>3, <2>5, <2>6, TellMove DEF Places
<1>13. ASSUME NEW c \in Requests, NEW how \in {"gone", "reset"}, ServerEnds(c, how) PROVE TellInv'
  <2>1. /\ conn[c] = "up" /\ conn' = [conn EXCEPT ![c] = how]
        /\ wire' = IF how = "reset" THEN [wire EXCEPT ![c] = <<>>] ELSE wire
        /\ UNCHANGED <<pc, method, recvOn, cacheBuf, docLen, total, got, result, served, overlapped>>
    BY <1>13 DEF ServerEnds, taskVars, outVars, history
  <2>2. ~overlapped
    BY <2>1
  <2>3. ASSUME NEW q \in Requests \ {c} PROVE Told(q)'
    <3>1. Told(q) /\ wire'[q] = wire[q] /\ (Whole(q)' => Whole(q))
      BY <1>0, <1>01, <2>1, <2>2 DEF Whole
    <3> QED
      BY <2>1, <3>1, ToldSame
  <2>4. Told(c) /\ conn'[c] = how
    BY <1>0, <1>01, <2>1, <2>2
  <2>5. Told(c)'
    <3>1. CASE how = "gone"
      <4>1. wire' = wire /\ (Whole(c)' => Whole(c))
        BY <2>1, <3>1 DEF Whole
      <4> QED
        BY <2>1, <2>4, <4>1, ToldSame
    <3>2. CASE how = "reset"
      <4>1. wire' = [wire EXCEPT ![c] = <<>>]
        BY <2>1, <3>2
      <4>2. wire'[c] = <<>>
        BY <1>0, <4>1
      <4> QED
        BY <2>1, <2>4, <3>2, <4>2, ToldReset
    <3> QED
      BY <3>1, <3>2
  <2> QED
    BY <2>3, <2>5 DEF TellInv
<1>14. ASSUME OtherOpens PROVE TellInv'
  <2>1. /\ conn' = [conn EXCEPT ![Other] = "up"] /\ UNCHANGED overlapped
        /\ UNCHANGED <<pc, method, recvOn, cacheBuf, docLen, total, got, result, served, wire>>
    BY <1>14 DEF OtherOpens, taskVars, outVars, history
  <2>2. ASSUME NEW q \in Requests PROVE Told(q)'
    <3>1. Told(q) /\ (Whole(q)' => Whole(q))
      BY <1>0, <1>01, <2>1 DEF Whole
    <3> QED
      BY <2>1, <3>1, ToldSame
  <2> QED
    BY <2>2 DEF TellInv
<1>15. CASE UNCHANGED vars
  <2>1. /\ UNCHANGED <<pc, method, recvOn, cacheBuf, docLen, total, got, result, served, wire, conn>>
        /\ UNCHANGED overlapped
    BY <1>15 DEF vars, sockVars, taskVars, outVars, history
  <2>2. ASSUME NEW q \in Requests PROVE Told(q)'
    <3>1. Told(q) /\ (Whole(q)' => Whole(q))
      BY <1>01, <2>1 DEF Whole
    <3> QED
      BY <2>1, <3>1, ToldSame
  <2> QED
    BY <2>2 DEF TellInv
<1> QED
  BY <1>1, <1>3, <1>4, <1>6, <1>7, <1>8, <1>9, <1>10, <1>11, <1>12, <1>13, <1>14, <1>15,
     NextActs DEF Acts

\* THEOREM.  A request that was alone is given the beginning of the content,
\* however the response was cut into chunks, and all of it when it comes to its
\* regular end and the response, which named its length, was not broken off.
THEOREM GotContentCorrect == Spec => []GotContent
<1>1. Init => Typed /\ OwnInv /\ TellInv
  BY TypeInit, OwnInit, TellInit
<1>2. Typed /\ OwnInv /\ TellInv /\ [Next]_vars => (Typed /\ OwnInv /\ TellInv)'
  BY TypeStep, OwnStep, TellStep
<1>3. Typed /\ TellInv => GotContent
  <2> SUFFICES ASSUME Typed, TellInv, ~overlapped, NEW r \in Requests
               PROVE  /\ IsPrefix(got[r], Body)
                      /\ pc[r] = "close" /\ result[r] = "Finish" /\ method[r] # "head"
                         /\ served[r] = "whole" /\ conn[r] \in {"up", "gone"} => got[r] = Body
    BY DEF GotContent
  <2>1. Told(r) /\ pc[r] \in Places
    BY DEF TellInv, Typed, TypeOK, Places
  <2>2. CASE pc[r] = "close"
    BY <2>1, <2>2 DEF Told, Whole
  <2>3. CASE pc[r] = "body"
    <3>1. PICK g \in Seq(Token), w \in Seq(Token) : g = got[r] /\ w = wire[r]
      BY DEF Typed, HttpTypes, Conns
    <3>2. Stream(0, Header, g, w)
      BY <2>1, <2>3, <3>1 DEF Told, Arrived
    <3>3. IsPrefix(g, Body)
      BY <3>2, StreamPrefix
    <3> QED
      BY <2>3, <3>1, <3>3
  <2>4. CASE pc[r] \notin {"close", "body"}
    <3>1. got[r] = <<>>
      BY <2>1, <2>4 DEF Told, Fresh, Places
    <3> QED
      BY <2>4, <3>1, NonePrefix
  <2> QED
    BY <2>2, <2>3, <2>4
<1> QED
  BY <1>1, <1>2, <1>3, PTL DEF Spec

=============================================================================
