------------------------------- MODULE UrlCode -------------------------------
(***************************************************************************)
(* The URL code of components/http/zhHttp.c, in which the WebSocket server *)
(* sends and expects texts.  A text is the sequence of its bytes.          *)
(***************************************************************************)
EXTENDS Integers, Sequences, SequencesExt

Space == 32
Percent == 37
Plus == 43

Digits == 48..57
Upper == 65..90
Lower == 97..122

HexChar(n) == IF n < 10 THEN 48 + n ELSE 55 + n

\* The value of a hexadecimal digit, -1 if it is none.
HexValue(c) ==
    CASE c \in Digits -> c - 48
      [] c \in 65..70 -> c - 55
      [] c \in 97..102 -> c - 87
      [] OTHER -> -1

\* What stays as it is: letters, digits, "-", "." and "_".
Plain == Digits \cup Upper \cup Lower \cup {45, 46, 95}

Escape(c) ==
    IF c = Space THEN <<Plus>>
    ELSE IF c \in Plain THEN <<c>>
    ELSE <<Percent, HexChar(c \div 16), HexChar(c % 16)>>

\* zhHttpUrlEncode.
UrlEncode(text) == FlattenSeq([i \in DOMAIN text |-> Escape(text[i])])

\* zhHttpUrlDecode: an escape that is not complete stays as it is.
UrlDecode(text) ==
    LET hex(i) == IF i <= Len(text) THEN HexValue(text[i]) ELSE -1
        from[i \in 1..(Len(text) + 1)] ==
            IF i > Len(text) THEN <<>>
            ELSE IF text[i] = Plus THEN <<Space>> \o from[i + 1]
            ELSE IF text[i] = Percent /\ hex(i + 1) >= 0 /\ hex(i + 2) >= 0
            THEN <<16 * hex(i + 1) + hex(i + 2)>> \o from[i + 3]
            ELSE <<text[i]>> \o from[i + 1]
    IN  from[1]

=============================================================================
