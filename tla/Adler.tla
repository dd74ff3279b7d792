-------------------------------- MODULE Adler --------------------------------
(* boost/hash/adler.hpp, with the primes of detail/primes.hpp: sums modulo a  *)
(* prime, taken octet by octet by update_one, and by update_n in words that   *)
(* are reduced only after limit octets.  A state is [s0, s1].                 *)
EXTENDS Integers, SequencesExt

all_ones(bits) == 2 ^ bits - 1

\* BOOST_HASH_DEFINE_LARGEST_PRIME_BY_OFFSET, for 2 bits and more.
offset == <<0, 0, 2, 0, 2, 0, 4, 2, 2, 8, 2, 0, 2, 18, 14>>
largest_prime(bits) == all_ones(bits) - offset[bits - 1]

modulo(Bits) == largest_prime(Bits \div 2)

reset == [s0 |-> 0, s1 |-> 1]

update_one(Bits, state, value) ==
    LET m == modulo(Bits)
        x == IF Bits < 16 THEN value % m ELSE value
        s1 == (state.s1 + x) % m
    IN [s0 |-> (state.s0 + s1) % m, s1 |-> s1]

fast_word_bits(Bits) == IF Bits < 16 THEN 16 ELSE Bits

\* uint_t<>::least has 8, 16 or 32 bits.
Fast(Bits, n) == IF fast_word_bits(Bits) = 16 THEN n % 65536 ELSE n

\* Faulty variant of limit: twice as many.
limit_twice(Bits) ==
    2 ^ (fast_word_bits(Bits) \div 2 - 3)

limit(Bits) ==
    2 ^ (fast_word_bits(Bits) \div 2 - 4)
      - (IF Bits < 16 THEN 0 ELSE 2 ^ (fast_word_bits(Bits) \div 2 - 8))

\* BOOST_HASH_ADLER_STEP, for one octet after the other.
Steps(Bits, state, values) ==
    FoldLeft(LAMBDA s, x : LET s1 == Fast(Bits, s.s1 + x)
                           IN [s0 |-> Fast(Bits, s.s0 + s1), s1 |-> s1],
             state, values)

Reduce(Bits, s) == [s0 |-> s.s0 % modulo(Bits), s1 |-> s.s1 % modulo(Bits)]

\* Runs of limit octets, each reduced at its end, and the rest.
update_n(Bits, state, values) ==
    LET n == limit(Bits)
        runs == Len(values) \div n
        Run(k) == SubSeq(values, (k - 1) * n + 1, k * n)
        reduced == FoldLeft(LAMBDA s, k : Reduce(Bits, Steps(Bits, s, Run(k))),
                            state, [k \in 1..runs |-> k])
    IN Reduce(Bits, Steps(Bits, reduced, SubSeq(values, runs * n + 1, Len(values))))

\* As one word of Bits bits.
digest(Bits, state) == state.s0 * 2 ^ (Bits \div 2) + state.s1
-----------------------------------------------------------------------------
(* Properties *)

\* However long the input and whatever its octets, the sums of update_n never
\* leave the fast word: it agrees with update_one.
AdlerExact(Bits, values) ==
    LET state == FoldLeft(LAMBDA s, x : update_one(Bits, s, x), reset, values) IN
    /\ update_n(Bits, reset, values) = state
    /\ update_n(Bits, update_n(Bits, reset, values), values)
        = FoldLeft(LAMBDA s, x : update_one(Bits, s, x), state, values)
    /\ digest(Bits, state) \in 0..all_ones(Bits)

Prime(n) == n > 1 /\ \A d \in 2..(n - 1) : d * d > n \/ n % d # 0

\* The offsets give primes, and the largest ones.
LargestPrimes(bits) ==
    /\ Prime(largest_prime(bits))
    /\ \A n \in (largest_prime(bits) + 1)..all_ones(bits) : ~Prime(n)
=============================================================================
