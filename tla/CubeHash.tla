------------------------------- MODULE CubeHash -------------------------------
(* boost/hash/cubehash.hpp and detail/cubehash_policy.hpp.  A build has one   *)
(* of three bodies for a round of the transformation: the reference one, one  *)
(* with rows of four words in the registers of SSE2, and one unrolled over 32 *)
(* variables.  A state is a function from 0..31 to words; the operations on   *)
(* words are those of the machine.                                            *)
EXTENDS Integers, Sequences

CONSTANTS Word,                     \* the words
          Add(_, _), Xor32(_, _),     \* of the machine
          ROTL7(_), ROTL11(_),
          zero, one,
          Rounds,                   \* r
          Parameters,               \* h / 8, b and r, as words
          Blocks, MaxBlocks         \* bound: what is hashed, and how much

ASSUME CubeWordAssumption ==
    /\ zero \in Word /\ one \in Word
    /\ \A x, y \in Word : Add(x, y) \in Word /\ Xor32(x, y) \in Word
                          /\ Add(x, y) = Add(y, x)
    /\ \A x \in Word : ROTL7(x) \in Word /\ ROTL11(x) \in Word
ASSUME CubeInputAssumption ==
    /\ Rounds \in Nat /\ MaxBlocks \in Nat
    /\ Parameters \in [1..3 -> Word] /\ Blocks \subseteq Seq(Word)

States == [0..31 -> Word]

\* i ^ m, for m a power of two.
flip(i, m) == IF (i \div m) % 2 = 0 THEN i + m ELSE i - m

low(i)  == i < 16

\* for (i = 0; i < 16; ++i) x[i + 16] += x[i];
add_low(x) == [i \in 0..31 |-> IF low(i) THEN x[i] ELSE Add(x[i], x[i - 16])]

\* ... y[i ^ m] = x[i]; ... x[i] = ROTL<n>(y[i]);
turn_low7(x, m)  == [i \in 0..31 |-> IF low(i) THEN ROTL7(x[flip(i, m)]) ELSE x[i]]
turn_low11(x, m) == [i \in 0..31 |-> IF low(i) THEN ROTL11(x[flip(i, m)]) ELSE x[i]]

\* ... x[i] ^= x[i + 16];
xor_high(x) == [i \in 0..31 |-> IF low(i) THEN Xor32(x[i], x[i + 16]) ELSE x[i]]

\* ... y[i ^ m] = x[i + 16]; ... x[i + 16] = y[i];
swap_high(x, m) == [i \in 0..31 |-> IF low(i) THEN x[i] ELSE x[flip(i - 16, m) + 16]]

\* BOOST_HASH_NO_OPTIMIZATION
reference_half7(x)  == swap_high(xor_high(turn_low7(add_low(x), 8)), 2)
reference_half11(x) == swap_high(xor_high(turn_low11(add_low(x), 4)), 1)
reference_round(x)  == reference_half11(reference_half7(x))
-----------------------------------------------------------------------------
(* Registers: x[r][l] is lane l of register xr. *)

Registers == [0..7 -> [0..3 -> Word]]

_mm_loadu(state) == [r \in 0..7 |-> [l \in 0..3 |-> state[4 * r + l]]]
_mm_storeu(x) == [i \in 0..31 |-> x[i \div 4][i % 4]]

_mm_add_epi32(a, b) == [l \in 0..3 |-> Add(a[l], b[l])]
_mm_xor_si128(a, b) == [l \in 0..3 |-> Xor32(a[l], b[l])]

\* Lane l of the result is the lane the bits 2l and 2l + 1 of imm name.
_mm_shuffle_epi32(a, imm) == [l \in 0..3 |-> a[(imm \div <<1, 4, 16, 64>>[l + 1]) % 4]]

\* x4 = _mm_add_epi32(x0, x4); and so on.
sse_add(x) == [r \in 0..7 |-> IF r < 4 THEN x[r] ELSE _mm_add_epi32(x[r - 4], x[r])]

\* multiword_swap(x0, x2), (x1, x3) or (x0, x1), (x2, x3); then the shifts.
sse_turn7(x, m)  == [r \in 0..7 |->
    IF r < 4 THEN [l \in 0..3 |-> ROTL7(x[flip(r, m)][l])] ELSE x[r]]
sse_turn11(x, m) == [r \in 0..7 |->
    IF r < 4 THEN [l \in 0..3 |-> ROTL11(x[flip(r, m)][l])] ELSE x[r]]

sse_xor(x) == [r \in 0..7 |-> IF r < 4 THEN _mm_xor_si128(x[r], x[r + 4]) ELSE x[r]]

sse_shuffle(x, imm) == [r \in 0..7 |-> IF r < 4 THEN x[r] ELSE _mm_shuffle_epi32(x[r], imm)]

\* BOOST_HASH_CUBEHASH_USE_INTRINSICS; 0x4e and 0xb1.
sse_round(x) ==
    sse_shuffle(sse_xor(sse_turn11(sse_add(
        sse_shuffle(sse_xor(sse_turn7(sse_add(x), 2)), 78)), 1)), 177)
-----------------------------------------------------------------------------
(* Unrolled: the variable named with the digits of i in base two is x[i]. *)

rotl7_low(x)  == [i \in 0..31 |-> IF low(i) THEN ROTL7(x[i]) ELSE x[i]]
rotl11_low(x) == [i \in 0..31 |-> IF low(i) THEN ROTL11(x[i]) ELSE x[i]]
swap_low(x, m) == [i \in 0..31 |-> IF low(i) THEN x[flip(i, m)] ELSE x[i]]

unrolled_half7(x)  == swap_high(xor_high(swap_low(rotl7_low(add_low(x)), 8)), 2)

\* Faulty variant of unrolled_half11: the words are swapped after the xor.
unrolled_half11_late(x) == swap_high(swap_low(xor_high(rotl11_low(add_low(x))), 4), 1)

unrolled_half11(x) == swap_high(xor_high(swap_low(rotl11_low(add_low(x)), 4)), 1)

unrolled_round(x) == unrolled_half11(unrolled_half7(x))
-----------------------------------------------------------------------------
(* cubehash.hpp: a digest, round by round, each by any of the three bodies,   *)
(* beside the same digest by the reference.                                   *)

VARIABLES state, left,   \* the rounds of transform(state, n) still to be done
          blocks,        \* how many blocks have been taken
          taking,        \* "iv", "blocks" or "final"
          expected       \* history: the state by the reference

cubeVars == <<state, left, blocks, taking, expected>>

\* iv_generator: h / 8, b and r, then ten times as many rounds as for a block.
CubeInit ==
    /\ state = [i \in 0..31 |-> IF i < 3 THEN Parameters[i + 1] ELSE zero]
    /\ left = 10 * Rounds
    /\ blocks = 0 /\ taking = "iv"
    /\ expected = state

Bodies(x) == {reference_round(x), _mm_storeu(sse_round(_mm_loadu(x))), unrolled_round(x)}

transform ==
    /\ left > 0
    /\ left' = left - 1
    /\ state' \in Bodies(state)
    /\ expected' = reference_round(expected)
    /\ UNCHANGED <<blocks, taking>>

xor_block(x, block) ==
    [i \in 0..31 |-> IF i < Len(block) THEN Xor32(x[i], block[i + 1]) ELSE x[i]]

process_block ==
    /\ left = 0 /\ taking # "final" /\ blocks < MaxBlocks
    /\ \E block \in Blocks :
        /\ state' = xor_block(state, block)
        /\ expected' = xor_block(expected, block)
    /\ left' = Rounds
    /\ blocks' = blocks + 1 /\ taking' = "blocks"

\* cubehash_finalizer
finalize ==
    /\ left = 0 /\ taking # "final"
    /\ state' = [state EXCEPT ![31] = Xor32(@, one)]
    /\ expected' = [expected EXCEPT ![31] = Xor32(@, one)]
    /\ left' = 10 * Rounds
    /\ taking' = "final"
    /\ UNCHANGED blocks

CubeNext == transform \/ process_block \/ finalize

CubeSpec == CubeInit /\ [][CubeNext]_cubeVars
-----------------------------------------------------------------------------
(* Properties *)

CubeTypeOK ==
    /\ state \in States /\ expected \in States
    /\ left \in Nat /\ blocks \in Nat
    /\ taking \in {"iv", "blocks", "final"}

\* The optimised bodies compute what the reference does: a digest does not
\* depend on the build that made it.
BodiesAgree == CubeTypeOK /\ state = expected
=============================================================================
