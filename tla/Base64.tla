-------------------------------- MODULE Base64 --------------------------------
(* boost/base64.hpp, as smtp.cpp and internet_mail_format.hpp use it.  A      *)
(* string is a row of octets, a text of base64 a row of sextets and of Pad,   *)
(* the "=".                                                                   *)
EXTENDS Integers, SequencesExt, FiniteSets

Pad == 64

\* transform_width over whole groups of three octets, and back over four
\* sextets; binary_from_base64 reads "=" as 0.
Sextets(g) == <<g[1] \div 4, (g[1] % 4) * 16 + g[2] \div 16,
                (g[2] % 16) * 4 + g[3] \div 64, g[3] % 64>>
Octets(q) == LET v(k) == q[k] % 64 IN
    <<v(1) * 4 + v(2) \div 16, (v(2) % 16) * 16 + v(3) \div 4, (v(3) % 4) * 64 + v(4)>>

Groups(s, n, Convert(_)) ==
    FlattenSeq([k \in 1..(Len(s) \div n) |-> Convert(SubSeq(s, n * (k - 1) + 1, n * k))])

\* The end that is no whole group: filled with zeros, the last 3 - i
\* characters then made "=".
base64_tail(rest) ==
    LET i == Len(rest)
        four == Sextets(rest \o [k \in 1..(3 - i) |-> 0])
    IN [k \in 1..4 |-> IF k > i + 1 THEN Pad ELSE four[k]]

base64_encode(src) ==
    LET whole == (Len(src) \div 3) * 3 IN
    Groups(src, 3, Sextets)
      \o (IF whole = Len(src) THEN <<>> ELSE base64_tail(SubSeq(src, whole + 1, Len(src))))

LineBreak == 65   \* "\r\n", which base64_decode skips or strips

\* base64_encode<N>: a break after every N characters of the whole groups.
base64_encode_lines(src, n) ==
    LET whole == (Len(src) \div 3) * 3
        body == Groups(src, 3, Sextets)
    IN FlattenSeq([k \in 1..Len(body) |->
            IF k > 1 /\ (k - 1) % n = 0 THEN <<LineBreak, body[k]>> ELSE <<body[k]>>])
       \o (IF whole = Len(src) THEN <<>> ELSE base64_tail(SubSeq(src, whole + 1, Len(src))))

shrik_map == <<0, 2, 1>>

\* Of a text that is not empty.  num_to_shrik octets are taken away from in
\* front of the last one, wherever the padding put them.
base64_decode(str) ==
    LET text == SelectSeq(str, LAMBDA c : c # LineBreak)
        num == Cardinality({k \in 1..Len(text) : text[k] = Pad})
        shrik == shrik_map[num + 1]
        result == Groups(text, 4, Octets)
    IN SubSeq(result, 1, Len(result) - 1 - shrik) \o <<Last(result)>>
-----------------------------------------------------------------------------
(* Properties *)

\* Reference: the bits of a row of numbers of the given width.
BitsOf(s, width) ==
    [n \in 1..(Len(s) * width) |->
        (s[(n - 1) \div width + 1] \div 2 ^ (width - 1 - ((n - 1) % width))) % 2]

Unpadded(text) == SelectSeq(text, LAMBDA c : c # Pad)

\* Of the encoder, and of the decoder only where nothing is filled up: the
\* text holds the bits of the string, in whole groups of four characters and
\* with zeros behind them; the lines hold the same text; a string of whole
\* groups comes back.
Base64Holds(s) ==
    LET text == base64_encode(s)
        bits == BitsOf(s, 8)
        kept == BitsOf(Unpadded(text), 6) IN
    /\ Len(text) = 4 * ((Len(s) + 2) \div 3)
    /\ Len(kept) - Len(bits) \in {0, 2, 4}
    /\ SubSeq(kept, 1, Len(bits)) = bits
    /\ \A n \in (Len(bits) + 1)..Len(kept) : kept[n] = 0
    /\ \A n \in {4, 8} :
        SelectSeq(base64_encode_lines(s, n), LAMBDA c : c # LineBreak) = text
    /\ s # <<>> /\ Len(s) % 3 = 0 => base64_decode(text) = s
=============================================================================
