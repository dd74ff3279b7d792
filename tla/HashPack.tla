------------------------------- MODULE HashPack -------------------------------
(* boost/hash/pack.hpp with detail/exploder.hpp, detail/imploder.hpp and      *)
(* detail/unbounded_shift.hpp: a row of values of one width becomes a row of  *)
(* values of another width, the bits in the order of a stream.  A value is    *)
(* the set of the positions of its ones, 0 the least significant; an endian   *)
(* says whether the first unit of a value is its biggest or its littlest, and *)
(* the same of the bits of a unit.                                            *)
EXTENDS Integers, SequencesExt

CONSTANT CharBit   \* CHAR_BIT: the bits of a byte of the host, a little-endian one

Endians == [unit : {"big", "little"}, bit : {"big", "little"}, size : {1, CharBit}]

low_bits(n, x) == x \cap 0..(n - 1)
unbounded_shl(n, x) == {p + n : p \in x}
unbounded_shr(n, x) == {p - n : p \in {q \in x : q >= n}}

\* exploder_step and imploder_step: where in the wide value the narrow one
\* stands that begins k bits into the stream.
Shift(e, wide, narrow, k) ==
    LET kb == k % e.size
        ku == k - kb IN
    CASE e.unit = "big" /\ e.bit = "big"       -> wide - (narrow + k)
      [] e.unit = "little" /\ e.bit = "little" -> k
      [] e.unit = "little" /\ e.bit = "big"    ->
            IF narrow >= e.size THEN k
            ELSE IF wide >= e.size THEN ku + (e.size - (narrow + kb))
            ELSE wide - (narrow + kb)
      [] e.unit = "big" /\ e.bit = "little"    ->
            IF narrow >= e.size THEN wide - (narrow + k)
            ELSE IF wide >= e.size THEN wide - (e.size + ku) + kb
            ELSE kb

explode(e, wide, narrow, x) ==
    [j \in 1..(wide \div narrow) |->
        low_bits(narrow, unbounded_shr(Shift(e, wide, narrow, (j - 1) * narrow), x))]

implode(e, narrow, wide, values) ==
    UNION {unbounded_shl(Shift(e, wide, narrow, (j - 1) * narrow),
                         low_bits(narrow, values[j])) : j \in 1..(wide \div narrow)}

\* real_packer: the three ways to repack.
real_pack(e, from, to, values) ==
    IF from = to THEN values
    ELSE IF from > to
    THEN FlattenSeq([i \in 1..Len(values) |-> explode(e, from, to, values[i])])
    ELSE LET n == to \div from IN
         [j \in 1..(Len(values) \div n) |->
             implode(e, from, to, SubSeq(values, (j - 1) * n + 1, j * n))]

\* The widths are those of host types and no less than the unit.
can_memcpy(e, from, to) ==
    \/ from = to
    \/ /\ e.unit = "little" /\ e.size % CharBit = 0
       /\ from >= e.size /\ to >= e.size

\* The bits of memory stay where they are.
memcpy(from, to, values) ==
    [j \in 1..((Len(values) * from) \div to) |->
        {p \in 0..(to - 1) :
            LET flat == (j - 1) * to + p IN
            (flat % from) \in values[flat \div from + 1]}]

\* pack_n and all the forms of pack, which come down to it.
pack(e, from, to, values) ==
    IF can_memcpy(e, from, to) THEN memcpy(from, to, values)
    ELSE real_pack(e, from, to, values)
-----------------------------------------------------------------------------
(* Reference: the bits of values as a stream, the first bit first.            *)

Place(e, width, i) ==
    LET size == IF e.size < width THEN e.size ELSE width
        unit == IF e.unit = "little" THEN i \div size ELSE (width \div size) - 1 - (i \div size)
        bit  == IF e.bit = "little" THEN i % size ELSE size - 1 - (i % size) IN
    unit * size + bit

Stream(e, width, values) ==
    [n \in 1..(Len(values) * width) |->
        LET i == n - 1 IN
        IF Place(e, width, i % width) \in values[i \div width + 1] THEN 1 ELSE 0]
=============================================================================
