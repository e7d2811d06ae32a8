---------------------------- MODULE WebSockFrames ----------------------------
(***************************************************************************)
(* The frames of both WebSocket protocols the code knows, components/      *)
(* websocket/websocket.c.  The old one (method 1, Safari) puts a message   *)
(* between Begin1 and End1; in the new one (method 2) a frame is           *)
(*     Text, code, length of two bytes if code is Code16, mask, payload    *)
(* (from the client; the server sends no mask).  A byte has Base values,   *)
(* and masking is addition modulo Base where the code uses xor: byte i of  *)
(* the payload with byte (i - 1) % MaskLen + 1 of the mask.                *)
(***************************************************************************)
EXTENDS Integers, Sequences, SequencesExt, FiniteSetsExt

CONSTANTS
    Base,       \* values of a byte
    Text,       \* 0x81
    Code16,     \* 126: the length follows in two bytes
    MaskLen     \* bytes of the mask

ASSUME FramesAssumption ==
    /\ Base \in Nat
    /\ Code16 \in Nat \ {0}
    /\ Code16 + 1 < Base - 1
    /\ Text \in (Code16 + 2)..(Base - 2)
    /\ MaskLen \in Nat \ {0}

Byte == 0..(Base - 1)

Begin1 == 0             \* 0x00
End1 == Base - 1        \* 0xFF
Code64 == Code16 + 1    \* 127: the length follows in eight bytes

\* What was found in the cache: the bytes in front of the frame, the length of
\* the frame (0: it is not complete) and the message.
Found(begin, n, m) == [begin |-> begin, len |-> n, msg |-> m]

\* What lies behind the cache is not the cache's; it is taken for zeros.
At(bytes, i) == IF i \in DOMAIN bytes THEN bytes[i] ELSE 0
Part(bytes, from, n) == [i \in 1..n |-> At(bytes, from + i - 1)]

-----------------------------------------------------------------------------
(* Receiving.  The frame begins behind b bytes of the cache; the length of *)
(* the whole cache, size, is what is compared with, not size - b.          *)

\* zhWebSockPackMethod_1: up to the first End1, for which even the byte behind
\* the last one is looked at.
PackMethod_1(bytes, b, size) ==
    LET ends == {k \in 0..size : At(bytes, b + 1 + k) = End1}
        k == Min(ends)
    IN  IF ends = {} THEN Found(b, 0, <<>>)
        ELSE Found(b, k + 1, Part(bytes, b + 2, k - 1))

\* The header of a frame of method 2 and the length of its payload.  Of the
\* eight bytes of a 64-bit length a long takes the first four.
HeadLen(bytes, b) ==
    LET code == At(bytes, b + 2)
    IN  IF code = Code16 THEN 4 + MaskLen
        ELSE IF code = Code64 THEN 10 + MaskLen
        ELSE 2 + MaskLen

DataLen(bytes, b) ==
    LET code == At(bytes, b + 2)
    IN  IF code = Code16 THEN Base * At(bytes, b + 3) + At(bytes, b + 4)
        ELSE IF code = Code64
        THEN At(bytes, b + 3) + Base * (At(bytes, b + 4) + Base * (At(bytes, b + 5) + Base * At(bytes, b + 6)))
        ELSE code

\* fault: every byte is unmasked with the first byte of the mask
PackMethod_2_FirstMask(bytes, b, size) ==
    LET head == HeadLen(bytes, b)
        n == DataLen(bytes, b)
        mask(i) == At(bytes, b + head - MaskLen + 1)
    IN  IF head + n > size THEN Found(b, 0, <<>>)
        ELSE Found(b, head + n,
                   [i \in 1..n |-> (At(bytes, b + head + i) - mask(i)) % Base])

\* zhWebSockPackMethod_2.
PackMethod_2(bytes, b, size) ==
    LET head == HeadLen(bytes, b)
        n == DataLen(bytes, b)
        mask(i) == At(bytes, b + head - MaskLen + 1 + ((i - 1) % MaskLen))
    IN  IF head + n > size THEN Found(b, 0, <<>>)
        ELSE Found(b, head + n,
                   [i \in 1..n |-> (At(bytes, b + head + i) - mask(i)) % Base])

\* zhWebSockRecvPack: the first byte that may begin a frame is looked for.
RecvPack(hs, bytes, size) ==
    LET mark == IF hs = 1 THEN Begin1 ELSE Text
        begins == {i \in 1..size : bytes[i] = mark}
        b == Min(begins) - 1
    IN  IF hs = 0 \/ begins = {} THEN Found(0, 0, <<>>)
        ELSE IF hs = 1 THEN PackMethod_1(bytes, b, size)
        ELSE PackMethod_2(bytes, b, size)

\* Bytes the search writes to the packet.  Method 1 copies a byte beyond the message
\* and, as long as End1 is missing, all there is; method 2 copies a whole message.
PacketUse(hs, bytes, size, p) ==
    IF hs # 1 THEN Len(p.msg)
    ELSE IF p.len > 0 THEN p.len - 1
    ELSE IF size > 0 /\ At(bytes, p.begin + 1) = Begin1 THEN size + 1
    ELSE 0

-----------------------------------------------------------------------------
(* Sending *)

\* zhWebSockSendData.  Longer messages, and a link without a method, leave the
\* length of the frame unset.
SendData(hs, m) ==
    LET n == Len(m)
    IN  CASE hs = 1 -> <<Begin1>> \o m \o <<End1>>
          [] hs = 2 /\ n < Code16 -> <<Text, n>> \o m
          [] hs = 2 /\ n >= Code16 -> <<Text, Code16, n \div Base, n % Base>> \o m

-----------------------------------------------------------------------------
(* The other end *)

\* A message as a client frames it.
ClientFrame(hs, m, mask) ==
    LET n == Len(m)
        masked == [i \in 1..n |-> (m[i] + mask[((i - 1) % MaskLen) + 1]) % Base]
    IN  CASE hs = 1 -> <<Begin1>> \o m \o <<End1>>
          [] hs = 2 /\ n < Code16 -> <<Text, n>> \o mask \o masked
          [] hs = 2 /\ n >= Code16 ->
               <<Text, Code16, n \div Base, n % Base>> \o mask \o masked

\* The message a client finds in a frame.
ClientReads(hs, frame) ==
    IF hs = 1 THEN SubSeq(frame, 2, Len(frame) - 1)
    ELSE IF frame[2] = Code16
    THEN Part(frame, 5, Base * frame[3] + frame[4])
    ELSE Part(frame, 3, frame[2])

=============================================================================
