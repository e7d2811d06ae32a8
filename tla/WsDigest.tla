------------------------------- MODULE WsDigest -------------------------------
(***************************************************************************)
(* The digests a WebSocket handshake is answered with: SHA-1,              *)
(* components/websocket/sha1.c, for the new protocol and MD5,              *)
(* wsock_md5.c, for the old one, on the blocks WsPad collects.             *)
(*                                                                         *)
(* A word of 32 bits is a pair of halves, the high one first.              *)
(***************************************************************************)
EXTENDS WsPad, Bitwise

-----------------------------------------------------------------------------
(* Words *)

AND(x, y) == <<x[1] & y[1], x[2] & y[2]>>
OR(x, y) == <<x[1] | y[1], x[2] | y[2]>>
XOR(x, y) == <<x[1] ^^ y[1], x[2] ^^ y[2]>>
NOT(x) == <<65535 - x[1], 65535 - x[2]>>

Add(x, y) == <<(x[1] + y[1] + ((x[2] + y[2]) \div 65536)) % 65536, (x[2] + y[2]) % 65536>>

CircularShift(n, x) ==
    LET y == IF n < 16 THEN x ELSE <<x[2], x[1]>>
        p == 2^(n % 16)
        q == 2^(16 - (n % 16))
    IN  <<(y[1] * p + y[2] \div q) % 65536, (y[2] * p + y[1] \div q) % 65536>>

\* Bytes to words and back; SHA-1 has the highest byte first, MD5 the lowest.
BigEndian(b) == <<256 * b[1] + b[2], 256 * b[3] + b[4]>>
Decode(b) == BigEndian(Reverse(b))
Bytes(w) == <<w[1] \div 256, w[1] % 256, w[2] \div 256, w[2] % 256>>
Encode(w) == Reverse(Bytes(w))

\* The i-th four bytes of a block.
Quad(block, i) == SubSeq(block, 4 * i - 3, 4 * i)

-----------------------------------------------------------------------------
(* SHA-1 *)

\* What the four parts of the rounds mix in.
SHA1Mix(t, b, c, d) ==
    CASE t \in 1..20 -> OR(AND(b, c), AND(NOT(b), d))
      [] t \in 41..60 -> OR(OR(AND(b, c), AND(b, d)), AND(c, d))
      [] OTHER -> XOR(XOR(b, c), d)
SHA1Add == << <<\h5A82, \h7999>>, <<\h6ED9, \hEBA1>>, <<\h8F1B, \hBCDC>>, <<\hCA62, \hC1D6>> >>

\* 80 rounds on the buffers A to E; w holds the 16 words the next ones come from.
\* (s is compared so that TLC evaluates one round before it begins the next.)
SHA1ProcessMessageBlock(digest, block) ==
    LET next(w) == CircularShift(1, XOR(XOR(w[14], w[9]), XOR(w[3], w[1])))
        Round(A, B, C, D, E, w, t) ==
            << Add(Add(Add(CircularShift(5, A), SHA1Mix(t, B, C, D)), Add(E, w[1])),
                   SHA1Add[((t - 1) \div 20) + 1]),
               A, CircularShift(30, B), C, D, Append(Tail(w), next(w)) >>
        state[t \in 0..80] ==
            IF t = 0 THEN digest \o << [i \in 1..16 |-> BigEndian(Quad(block, i))] >>
            ELSE LET s == state[t - 1] IN IF s = <<>> THEN s ELSE Round(s[1], s[2], s[3], s[4], s[5], s[6], t)
        last == state[80]
    IN  <<Add(digest[1], last[1]), Add(digest[2], last[2]), Add(digest[3], last[3]),
          Add(digest[4], last[4]), Add(digest[5], last[5])>>

SHA1Digest(message) ==
    FoldLeft(SHA1ProcessMessageBlock,
             << <<\h6745, \h2301>>, <<\hEFCD, \hAB89>>, <<\h98BA, \hDCFE>>,
                <<\h1032, \h5476>>, <<\hC3D2, \hE1F0>> >>,
             SHA1Result(SHA1Input(SHA1Reset, message)).blocks)

-----------------------------------------------------------------------------
(* MD5 *)

\* The constants of the 64 steps, the shifts and the words of the block.
MD5Add == <<
    \hd76a,\ha478, \he8c7,\hb756, \h2420,\h70db, \hc1bd,\hceee, \hf57c,\h0faf, \h4787,\hc62a, \ha830,\h4613, \hfd46,\h9501,
    \h6980,\h98d8, \h8b44,\hf7af, \hffff,\h5bb1, \h895c,\hd7be, \h6b90,\h1122, \hfd98,\h7193, \ha679,\h438e, \h49b4,\h0821,
    \hf61e,\h2562, \hc040,\hb340, \h265e,\h5a51, \he9b6,\hc7aa, \hd62f,\h105d, \h0244,\h1453, \hd8a1,\he681, \he7d3,\hfbc8,
    \h21e1,\hcde6, \hc337,\h07d6, \hf4d5,\h0d87, \h455a,\h14ed, \ha9e3,\he905, \hfcef,\ha3f8, \h676f,\h02d9, \h8d2a,\h4c8a,
    \hfffa,\h3942, \h8771,\hf681, \h6d9d,\h6122, \hfde5,\h380c, \ha4be,\hea44, \h4bde,\hcfa9, \hf6bb,\h4b60, \hbebf,\hbc70,
    \h289b,\h7ec6, \heaa1,\h27fa, \hd4ef,\h3085, \h0488,\h1d05, \hd9d4,\hd039, \he6db,\h99e5, \h1fa2,\h7cf8, \hc4ac,\h5665,
    \hf429,\h2244, \h432a,\hff97, \hab94,\h23a7, \hfc93,\ha039, \h655b,\h59c3, \h8f0c,\hcc92, \hffef,\hf47d, \h8584,\h5dd1,
    \h6fa8,\h7e4f, \hfe2c,\he6e0, \ha301,\h4314, \h4e08,\h11a1, \hf753,\h7e82, \hbd3a,\hf235, \h2ad7,\hd2bb, \heb86,\hd391 >>

MD5Shift == << <<7, 12, 17, 22>>, <<5, 9, 14, 20>>, <<4, 11, 16, 23>>, <<6, 10, 15, 21>> >>

MD5Pick(round, t) == CASE round = 1 -> t - 1
                       [] round = 2 -> (5 * t - 4) % 16
                       [] round = 3 -> (3 * t + 2) % 16
                       [] round = 4 -> (7 * t - 7) % 16

MD5Mix(round, b, c, d) ==
    CASE round = 1 -> OR(AND(b, c), AND(NOT(b), d))
      [] round = 2 -> OR(AND(b, d), AND(c, NOT(d)))
      [] round = 3 -> XOR(XOR(b, c), d)
      [] round = 4 -> XOR(c, OR(b, NOT(d)))

\* 64 steps on a to d, of which the first is changed and becomes the next b.
MD5Transform(digest, block) ==
    LET Step(a, b, c, d, round, t) ==
            LET x == Decode(Quad(block, MD5Pick(round, t) + 1))
                sum == Add(Add(a, MD5Mix(round, b, c, d)), Add(x, <<MD5Add[2 * t - 1], MD5Add[2 * t]>>))
            IN  <<d, Add(CircularShift(MD5Shift[round][((t - 1) % 4) + 1], sum), b), b, c>>
        state[t \in 0..64] ==
            IF t = 0 THEN digest
            ELSE LET s == state[t - 1] IN IF s = <<>> THEN s ELSE Step(s[1], s[2], s[3], s[4], ((t - 1) \div 16) + 1, t)
        last == state[64]
    IN  <<Add(digest[1], last[1]), Add(digest[2], last[2]), Add(digest[3], last[3]), Add(digest[4], last[4])>>

MDData(data) ==
    FoldLeft(MD5Transform,
             << <<\h6745, \h2301>>, <<\hefcd, \hab89>>, <<\h98ba, \hdcfe>>, <<\h1032, \h5476>> >>,
             MD5Final(MD5Update(MD5Init, data)).blocks)

-----------------------------------------------------------------------------
(* Properties *)

\* "dGhlIHNhbXBsZSBub25jZQ==258EAFA5-E914-47DA-95CA-C5AB0DC85B11", the key and the
\* answer RFC 6455 gives as an example,
NewKey == <<
    100, 71, 104, 108, 73, 72, 78, 104, 98, 88, 66, 115, 90, 83, 66, 117, 98, 50, 53, 106,
    90, 81, 61, 61, 50, 53, 56, 69, 65, 70, 65, 53, 45, 69, 57, 49, 52, 45, 52, 55, 68, 65,
    45, 57, 53, 67, 65, 45, 67, 53, 65, 66, 48, 68, 67, 56, 53, 66, 49, 49 >>
NewAnswer == << <<\hb37a, \h4f2c>>, <<\hc062, \h4f16>>, <<\h90f6, \h4606>>,
                <<\hcf38, \h5945>>, <<\hb2be, \hc4ea>> >>

\* and those of the old protocol's draft: 155712099, 173347027 and "Tm[K T2u" make
\* "fQJ,fN/4F4!~K~MH".
OldKey == <<9, 71, 250, 99, 10, 85, 16, 211, 84, 109, 91, 75, 32, 84, 50, 117>>
OldAnswer == <<102, 81, 74, 44, 102, 78, 47, 52, 70, 52, 33, 126, 75, 126, 77, 72>>

\* The examples come out right.
Answers ==
    /\ SHA1Digest(NewKey) = NewAnswer
    /\ FlattenSeq([i \in 1..4 |-> Encode(MDData(OldKey)[i])]) = OldAnswer

=============================================================================
