-------------------------------- MODULE Digest --------------------------------
(* boost/hash/digest.hpp and digest_io.hpp: digests of any lengths are        *)
(* compared with each other, and written and read as text.  A digest is a row *)
(* of octets, an octet two digits of the given base (16 in the source), a     *)
(* text a row of digits in which anything that is no digit may stand.         *)
EXTENDS Integers, SequencesExt

\* resize, through memcpy: zeros are added at the end, or octets lost there.
resize(d, octets) == [j \in 1..octets |-> IF j <= Len(d) THEN d[j] ELSE 0]

\* Digests are compared at the longer of their lengths.
common(a, b) == IF Len(a) < Len(b) THEN Len(b) ELSE Len(a)

Equal(a, b) == resize(a, common(a, b)) = resize(b, common(a, b))

\* array's operator<
lexicographic(x, y) ==
    \E j \in 1..Len(x) : x[j] < y[j] /\ \A k \in 1..(j - 1) : x[k] = y[k]

Less(a, b) == lexicographic(resize(a, common(a, b)), resize(b, common(a, b)))
LessOrEqual(a, b) == ~Less(b, a)

to_ascii(d, base) == FlattenSeq([j \in 1..Len(d) |-> <<d[j] \div base, d[j] % base>>])

\* operator>> into a digest of so many octets: what was read before the end of
\* the source or a character that is no digit, zeros for the rest, and how many
\* characters are gone from the source.
Read(source, octets, base) ==
    LET good(n) == \A k \in 1..n : source[k] \in 0..(base - 1)
        most == IF Len(source) < 2 * octets THEN Len(source) ELSE 2 * octets
        n == CHOOSE n \in 0..most : good(n) /\ (n < most => ~good(n + 1))
        a == [k \in 1..(2 * octets) |-> IF k <= n THEN source[k] ELSE 0]
    IN [digest |-> [j \in 1..octets |-> a[2 * j - 1] * base + a[2 * j]],
        fail |-> n < 2 * octets, taken |-> n]
-----------------------------------------------------------------------------
(* Properties *)

\* Between digests of any lengths operator< is a strict order that goes with
\* operator==, so digests of several algorithms may be sorted together; a
\* digest is read back from its text, and what follows it is left.
DigestsInOrder(a, b, c, base) ==
    /\ Equal(a, b) \/ Less(a, b) \/ Less(b, a)
    /\ ~(Equal(a, b) /\ Less(a, b)) /\ ~(Less(a, b) /\ Less(b, a))
    /\ Less(a, b) /\ Less(b, c) => Less(a, c)
    /\ Equal(a, b) /\ Equal(b, c) => Equal(a, c)
    /\ Equal(a, b) => (Less(a, c) = Less(b, c))
    /\ LessOrEqual(a, b) = (Less(a, b) \/ Equal(a, b))
    /\ LET read == Read(to_ascii(a, base) \o to_ascii(b, base), Len(a), base) IN
        read = [digest |-> a, fail |-> FALSE, taken |-> 2 * Len(a)]
    /\ Read(to_ascii(a, base) \o <<base>> \o to_ascii(b, base), Len(a) + 1, base)
        = [digest |-> Append(a, 0), fail |-> TRUE, taken |-> 2 * Len(a)]
=============================================================================
