-------------------------------- MODULE WsPad --------------------------------
(***************************************************************************)
(* How the digests of a WebSocket handshake collect a message, of which    *)
(* they may be given any pieces: SHA-1 (components/websocket/sha1.c) byte  *)
(* by byte, MD5 (wsock_md5.c) block by block.  Both pad the end, each in   *)
(* its own way to the same shape.  The blocks are collected here and       *)
(* processed in WsDigest, which makes no difference to the digest.         *)
(*                                                                         *)
(* Messages are shorter than MaxLen bytes: their length in bits fits into  *)
(* two bytes.                                                              *)
(***************************************************************************)
EXTENDS Integers, Sequences, SequencesExt

BlockLen == 64
LengthAt == 56      \* bytes of the last block in front of the length
MaxLen == 8192
PadMark == 128         \* what the padding begins with

Zeros(n) == [i \in 1..n |-> 0]

-----------------------------------------------------------------------------
(* SHA-1: the context is the block that is being filled, of which index    *)
(* bytes are new, the bits so far, the blocks before, and two flags.       *)

\* One in use, its flags not set.
Context(block, index, bits, blocks) ==
    [block |-> block, index |-> index, bits |-> bits, blocks |-> blocks,
     computed |-> FALSE, corrupted |-> FALSE]

SHA1Reset == Context(Zeros(BlockLen), 0, 0, <<>>)

PutByte(c, byte) == Context([c.block EXCEPT ![c.index + 1] = byte], c.index + 1, c.bits, c.blocks)

\* SHA1ProcessMessageBlock is due.
FullBlock(c) == Context(c.block, 0, c.bits, Append(c.blocks, c.block))

\* One round of the loop in SHA1Input.
InputByte(c, byte) ==
    LET d == [PutByte(c, byte) EXCEPT !.bits = @ + 8]
    IN  IF c.corrupted THEN c
        ELSE IF d.index = BlockLen THEN FullBlock(d)
        ELSE d

SHA1Input(c, bytes) ==
    LET after[i \in 0..Len(bytes)] == IF i = 0 THEN c ELSE InputByte(after[i - 1], bytes[i])
    IN  IF bytes = <<>> THEN c
        ELSE IF c.computed \/ c.corrupted THEN [c EXCEPT !.corrupted = TRUE]
        ELSE after[Len(bytes)]

\* Zeros up to the n-th byte.
FillTo(c, n) ==
    Context([i \in 1..BlockLen |-> IF i \in (c.index + 1)..n THEN 0 ELSE c.block[i]], n, c.bits, c.blocks)

\* The last eight bytes.
EightBytes(n) == Zeros(6) \o <<n \div 256, n % 256>>
PutLength(c) ==
    Context(SubSeq(c.block, 1, LengthAt) \o EightBytes(c.bits), c.index, c.bits, c.blocks)

\* fault: the mark is let into the length's place
SHA1PadMessage_OffByOne(c) ==
    LET marked == PutByte(c, PadMark)
        filled == IF c.index > LengthAt
                  THEN FillTo(FullBlock(FillTo(marked, BlockLen)), LengthAt)
                  ELSE FillTo(marked, LengthAt)
    IN  FullBlock(PutLength(filled))

SHA1PadMessage(c) ==
    LET marked == PutByte(c, PadMark)
        filled == IF c.index > LengthAt - 1
                  THEN FillTo(FullBlock(FillTo(marked, BlockLen)), LengthAt)
                  ELSE FillTo(marked, LengthAt)
    IN  FullBlock(PutLength(filled))

SHA1Result(c) ==
    IF c.corrupted \/ c.computed THEN c ELSE [SHA1PadMessage(c) EXCEPT !.computed = TRUE]

-----------------------------------------------------------------------------
(* MD5: the context is the buffer, the bits so far and the blocks before.  *)

MD5Init == [buffer |-> Zeros(BlockLen), bits |-> 0, blocks |-> <<>>]

Overwrite(buffer, index, bytes) ==
    [i \in 1..BlockLen |-> IF i \in (index + 1)..(index + Len(bytes)) THEN bytes[i - index]
                           ELSE buffer[i]]

\* WsockMD5Update.
MD5Update(c, input) ==
    LET index == (c.bits \div 8) % BlockLen
        partLen == BlockLen - index
        whole == (Len(input) - partLen) \div BlockLen
        i == partLen + BlockLen * whole
        full == Overwrite(c.buffer, index, SubSeq(input, 1, partLen))
    IN  IF Len(input) < partLen
        THEN [buffer |-> Overwrite(c.buffer, index, input),
              bits |-> c.bits + 8 * Len(input),
              blocks |-> c.blocks]
        ELSE [buffer |-> Overwrite(full, 0, SubSeq(input, i + 1, Len(input))),
              bits |-> c.bits + 8 * Len(input),
              blocks |-> Append(c.blocks, full)
                         \o [k \in 1..whole |-> SubSeq(input, partLen + BlockLen * (k - 1) + 1,
                                                       partLen + BlockLen * k)]]

\* WsockMD5Final, up to the last block.
MD5Final(c) ==
    LET index == (c.bits \div 8) % BlockLen
        padLen == IF index < LengthAt THEN LengthAt - index ELSE BlockLen + LengthAt - index
        bits == <<c.bits % 256, c.bits \div 256>> \o Zeros(6)
    IN  MD5Update(MD5Update(c, <<PadMark>> \o Zeros(padLen - 1)), bits)

-----------------------------------------------------------------------------
(* Properties *)

\* What a message is padded to: a mark, zeros, and its length in bits.
Reference(message, length) ==
    LET zeros == (LengthAt - 1 - Len(message)) % BlockLen
    IN  message \o <<PadMark>> \o Zeros(zeros) \o length

\* Given in two pieces, a message fills the blocks the standard says, for SHA-1
\* (sha1.c:326) and for MD5 (wsock_md5.c:87).
PaddedFor(message, k) ==
    LET first == SubSeq(message, 1, k)
        rest == SubSeq(message, k + 1, Len(message))
        length == EightBytes(8 * Len(message))
        sha == SHA1Result(SHA1Input(SHA1Input(SHA1Reset, first), rest))
        md5 == MD5Final(MD5Update(MD5Update(MD5Init, first), rest))
    IN  /\ ~sha.corrupted
        /\ FlattenSeq(sha.blocks) = Reference(message, length)
        /\ FlattenSeq(md5.blocks) = Reference(message, Reverse(length))

\* So does one of any length up to two blocks and a little more.
Padded == \A n \in 0..130 : \A k \in {0, n \div 2, n} : PaddedFor([i \in 1..n |-> i], k)

=============================================================================
