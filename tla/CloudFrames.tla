----------------------------- MODULE CloudFrames -----------------------------
(***************************************************************************)
(* The framing of the cloud protocol, components/hxkong_yun/mini-data.c,   *)
(* and the commands framed with it (hxkong_yun.c).  A frame is             *)
(*     head, length, parameter, tail                                       *)
(* and a length of one byte or, after the mark Long, of two.  A byte has   *)
(* Base values (256 in the code).                                          *)
(***************************************************************************)
EXTENDS Integers, Sequences, SequencesExt, FiniteSetsExt

CONSTANTS
    Base,       \* values of a byte
    HeadByte,   \* 0xAF
    TailByte    \* 0xFA

ASSUME BytesAssumption ==
    /\ Base \in Nat /\ Base > 3
    /\ HeadByte \in 1..(Base - 2)
    /\ TailByte \in 1..(Base - 2) \ {HeadByte}

Byte == 0..(Base - 1)

\* 0xFF: the length follows in two bytes.
Long == Base - 1

\* fault: the mark itself is taken for a length
MiniDataCreate_OffByOne(parm, len) ==
    LET n == len % Base
    IN  IF n = 0 THEN <<>>
        ELSE <<HeadByte, n>> \o SubSeq(parm, 1, n) \o <<TailByte>>

\* A parameter of less than Base * Base bytes in its frame.
Framed(p) ==
    LET length == IF Len(p) < Long THEN <<Len(p)>>
                  ELSE <<Long, Len(p) % Base, Len(p) \div Base>>
    IN  <<HeadByte>> \o length \o p \o <<TailByte>>

\* miniDataCreate: the length is an unsigned char, so that a longer parameter
\* loses whole multiples of Base; what comes out has no frame at all for 0.
MiniDataCreate(parm, len) ==
    LET n == len % Base IN IF n = 0 THEN <<>> ELSE Framed(SubSeq(parm, 1, n))

\* iotYunSend and the other requests: the command is the first byte.
Request(cmd, buf) == MiniDataCreate(<<cmd>> \o buf, Len(buf) + 1)

\* What miniDataGet answers: the bytes to be taken out of the cache and, when
\* they are a frame, its parameter.
NoFrame(n) == [skip |-> n, ok |-> FALSE, parm |-> <<>>]
Frame(n, p) == [skip |-> n, ok |-> TRUE, parm |-> p]

\* The bytes in front of the first head.
BeforeHead(cache, len) ==
    Min({i \in 1..len : cache[i] = HeadByte} \cup {len + 1}) - 1

\* fault: a frame is taken when its parameter is there, its tail is not awaited
MiniDataGet_OffByOne(cache, len) ==
    LET long == cache[2] = Long
        plen == IF long THEN cache[3] + Base * cache[4] ELSE cache[2]
        base == IF long THEN 5 ELSE 3
    IN  CASE len < 3 -> NoFrame(0)
          [] len >= 3 /\ BeforeHead(cache, len) > 0 -> NoFrame(BeforeHead(cache, len))
          [] OTHER ->
             IF plen = 0 THEN NoFrame(1)
             ELSE IF len < plen + base - 1 THEN NoFrame(0)
             ELSE IF cache[base + plen] # TailByte THEN NoFrame(1)
             ELSE Frame(base + plen, SubSeq(cache, base, base + plen - 1))

\* miniDataGet.  Of a long frame both bytes of the length are read, be they in
\* the first len bytes of the cache or not.
MiniDataGet(cache, len) ==
    LET long == cache[2] = Long
        plen == IF long THEN cache[3] + Base * cache[4] ELSE cache[2]
        base == IF long THEN 5 ELSE 3
    IN  CASE len < 3 -> NoFrame(0)
          [] len >= 3 /\ BeforeHead(cache, len) > 0 -> NoFrame(BeforeHead(cache, len))
          [] OTHER ->
             IF plen = 0 THEN NoFrame(1)
             ELSE IF len < plen + base THEN NoFrame(0)
             ELSE IF cache[base + plen] # TailByte THEN NoFrame(1)
             ELSE Frame(base + plen, SubSeq(cache, base, base + plen - 1))

\* A length is read that has not been received yet (mini-data.c:78).
ReadsStale(cache, len) ==
    len = 3 /\ cache[1] = HeadByte /\ cache[2] = Long

=============================================================================
