----------------------------- MODULE BlockCypher -----------------------------
(* boost/hash/block_cyphers: SHACAL (of SHA and SHA-1), SHACAL-2 (of SHA-2),  *)
(* MD4 and MD5 turned into cyphers, and Threefish, with the rounds, tables of *)
(* indexes and orders of the code.  Words have the width of the instance: the *)
(* numbers of places to rotate by are taken modulo that width, and the tables *)
(* of constants are left open.                                                *)
(* A cypher object prepares its schedule from a key; encypher then takes a    *)
(* block forward round by round, and decypher takes the result back.          *)
EXTENDS Integers, Sequences

CONSTANTS
    WordBits, Modulus,                  \* 2^WordBits
    And(_, _), Or(_, _), Xor(_, _), Not(_), SHL(_, _), SHR(_, _),  \* of the machine
    constant(_),                        \* the policies' tables of constants
    Keys, Plaintexts, Tweaks            \* what is tried: by name of the cypher

word(n) == n % Modulus      \* unsigned arithmetic
Words == 0..(Modulus - 1)

ROTL(x, n) == Or(SHL(x, n % WordBits), SHR(x, WordBits - (n % WordBits)))
ROTR(x, n) == Or(SHR(x, n % WordBits), SHL(x, WordBits - (n % WordBits)))

Cyphers == {"shacal", "shacal1", "shacal2", "md4", "md5", "threefish"}

\* What the operators of the machine do is used by a round only so far.
ASSUME WordAssumption ==
    /\ Modulus \in Nat \ {0} /\ WordBits \in Nat \ {0}
    /\ \A x \in Words : Not(x) \in Words
    /\ \A x, y \in Words : And(x, y) \in Words /\ Or(x, y) \in Words
                           /\ Xor(x, y) \in Words /\ Xor(x, Xor(y, x)) = y
    /\ \A x \in Words, n \in 0..63 : SHR(x, n) \in Words
    /\ \A x \in Words, n \in 0..63 : /\ ROTL(x, n) \in Words /\ ROTR(x, n) \in Words
                                     /\ ROTR(ROTL(x, n), n) = x

BlockWords == [shacal |-> 5, shacal1 |-> 5, shacal2 |-> 8, md4 |-> 4, md5 |-> 4,
               threefish |-> 4]
KeyWords == [c \in Cyphers |-> IF c = "threefish" THEN 4 ELSE 16]

\* Threefish ends with a step of its own, the last subkey.
rounds == [shacal |-> 80, shacal1 |-> 80, shacal2 |-> 64, md4 |-> 48, md5 |-> 64,
           threefish |-> 73]

ASSUME InputAssumption ==
    /\ \A n \in 0..79 : constant(n) \in Words
    /\ \A c \in Cyphers : /\ Keys[c] \subseteq [1..KeyWords[c] -> Words]
                          /\ Plaintexts[c] \subseteq [1..BlockWords[c] -> Words]
    /\ Tweaks \subseteq [1..2 -> Words]

VARIABLES cypher, schedule, tweak, pass, t, block,
          trail    \* history: the blocks before each round of encypher

cypherVars == <<cypher, schedule, tweak, pass, t, block, trail>>
-----------------------------------------------------------------------------
(* SHACAL *)

Ch(x, y, z)     == Xor(And(x, y), And(Not(x), z))
Maj(x, y, z)    == Xor(Xor(And(x, y), And(x, z)), And(y, z))
Parity(x, y, z) == Xor(Xor(x, y), z)

f(n, x, y, z) == IF n < 20 THEN Ch(x, y, z)
                 ELSE IF n >= 40 /\ n < 60 THEN Maj(x, y, z)
                 ELSE Parity(x, y, z)

shacal_round(w, n, v) ==
    <<word(ROTL(v[1], 5) + f(n, v[2], v[3], v[4]) + v[5] + constant(n) + w[n + 1]),
      v[1], ROTL(v[2], 30), v[3], v[4]>>

shacal_unround(w, n, v) ==
    LET b == ROTR(v[3], 30) IN
    <<v[2], b, v[4], v[5],
      word(v[1] - ROTL(v[2], 5) - f(n, b, v[4], v[5]) - constant(n) - w[n + 1])>>

\* The next word of the schedule, SHA-1 with its rotation; n counts from 0.
shacal_next(w) ==
    LET n == Len(w) IN Xor(Xor(Xor(w[n - 2], w[n - 7]), w[n - 13]), w[n - 15])
shacal1_next(w) == ROTL(shacal_next(w), 1)
-----------------------------------------------------------------------------
(* SHACAL-2, the one of 256 bits *)

Sigma_0(x) == Xor(Xor(ROTR(x, 2), ROTR(x, 13)), ROTR(x, 22))
Sigma_1(x) == Xor(Xor(ROTR(x, 6), ROTR(x, 11)), ROTR(x, 25))
sigma_0(x) == Xor(Xor(ROTR(x, 7), ROTR(x, 18)), SHR(x, 3))
sigma_1(x) == Xor(Xor(ROTR(x, 17), ROTR(x, 19)), SHR(x, 10))

shacal2_round(w, n, v) ==
    LET T1 == v[8] + Sigma_1(v[5]) + Ch(v[5], v[6], v[7]) + constant(n) + w[n + 1]
        T2 == Sigma_0(v[1]) + Maj(v[1], v[2], v[3]) IN
    <<word(T1 + T2), v[1], v[2], v[3], word(v[4] + T1), v[5], v[6], v[7]>>

shacal2_unround(w, n, v) ==
    LET T2 == Sigma_0(v[2]) + Maj(v[2], v[3], v[4])
        T1 == word(v[1] - T2) IN
    <<v[2], v[3], v[4], word(v[5] - T1), v[6], v[7], v[8],
      word(T1 - Sigma_1(v[6]) - Ch(v[6], v[7], v[8]) - constant(n) - w[n + 1])>>

shacal2_next(w) ==
    LET n == Len(w) IN
    word(sigma_1(w[n - 1]) + w[n - 6] + sigma_0(w[n - 14]) + w[n - 15])
-----------------------------------------------------------------------------
(* MD4 and MD5: a round changes one word, a, d, c and b in turn. *)

aa(n) == 1 + ((4 - (n % 4)) % 4)
bb(n) == 1 + ((5 - (n % 4)) % 4)
cc(n) == 1 + ((6 - (n % 4)) % 4)
dd(n) == 1 + ((7 - (n % 4)) % 4)

\* (x & y) | (~x & z), and so on.
ff(x, y, z) == Or(And(x, y), And(Not(x), z))
hh(x, y, z) == Xor(Xor(x, y), z)
md4_gg(x, y, z) == Or(Or(And(x, y), And(x, z)), And(y, z))
md5_gg(x, y, z) == Or(And(x, z), And(y, Not(z)))
md5_ii(x, y, z) == Xor(y, Or(x, Not(z)))

md4_fun(n, x, y, z) == IF n < 16 THEN ff(x, y, z)
                       ELSE IF n < 32 THEN md4_gg(x, y, z) ELSE hh(x, y, z)
md5_fun(n, x, y, z) == IF n < 16 THEN ff(x, y, z)
                       ELSE IF n < 32 THEN md5_gg(x, y, z)
                       ELSE IF n < 48 THEN hh(x, y, z) ELSE md5_ii(x, y, z)

md4_key_index(n) ==
    IF n < 16 THEN n
    ELSE IF n < 32 THEN 4 * (n % 4) + ((n % 16) \div 4)
    ELSE <<0, 8, 4, 12, 2, 10, 6, 14, 1, 9, 5, 13, 3, 11, 7, 15>>[n - 31]
md5_key_index(n) ==
    IF n < 16 THEN n
    ELSE IF n < 32 THEN (1 + 5 * n) % 16
    ELSE IF n < 48 THEN (5 + 3 * n) % 16
    ELSE (7 * n) % 16

\* How far encypher rotates.
md4_s(n) == <<<<3, 7, 11, 19>>, <<3, 5, 9, 13>>, <<3, 9, 11, 15>>>>
                [(n \div 16) + 1][(n % 4) + 1]
md5_s(n) == <<<<7, 12, 17, 22>>, <<5, 9, 14, 20>>, <<4, 11, 16, 23>>, <<6, 10, 15, 21>>>>
                [(n \div 16) + 1][(n % 4) + 1]

\* How far decypher rotates: its steps are written down in their own order.
md4_un_s(n) == <<<<19, 11, 7, 3>>, <<13, 9, 5, 3>>, <<15, 11, 9, 3>>>>
                   [(n \div 16) + 1][4 - (n % 4)]
md5_un_s(n) == <<<<22, 17, 12, 7>>, <<20, 14, 9, 5>>, <<23, 16, 11, 4>>, <<21, 15, 10, 6>>>>
                   [(n \div 16) + 1][4 - (n % 4)]

\* val: the constant of sixteen rounds.
md4_val(n) == IF n < 16 THEN 0 ELSE constant(n \div 16)

md4_round(w, n, v) ==
    LET T == v[aa(n)] + md4_fun(n, v[bb(n)], v[cc(n)], v[dd(n)])
             + w[md4_key_index(n) + 1] + md4_val(n) IN
    [v EXCEPT ![aa(n)] = ROTL(word(T), md4_s(n))]

md4_unround(w, n, v) ==
    LET T == ROTR(v[aa(n)], md4_un_s(n)) IN
    [v EXCEPT ![aa(n)] = word(T - md4_fun(n, v[bb(n)], v[cc(n)], v[dd(n)])
                                - w[md4_key_index(n) + 1] - md4_val(n))]

md5_round(w, n, v) ==
    LET T == v[aa(n)] + md5_fun(n, v[bb(n)], v[cc(n)], v[dd(n)])
             + w[md5_key_index(n) + 1] + constant(n) IN
    [v EXCEPT ![aa(n)] = word(v[bb(n)] + ROTL(word(T), md5_s(n)))]

md5_unround(w, n, v) ==
    LET T == ROTR(word(v[aa(n)] - v[bb(n)]), md5_un_s(n)) IN
    [v EXCEPT ![aa(n)] = word(T - md5_fun(n, v[bb(n)], v[cc(n)], v[dd(n)])
                                - w[md5_key_index(n) + 1] - constant(n))]
-----------------------------------------------------------------------------
(* Threefish of 256 bits *)

tweak_schedule(tw) == <<tw[1], tw[2], Xor(tw[1], tw[2])>>

\* 0x5555...: taken from the table of constants.
threefish_next(w) == Xor(Xor(Xor(Xor(constant(0), w[1]), w[2]), w[3]), w[4])

\* Word i of subkey s, i from 1.
k(w, tw, s, i) ==
    w[((s + i - 1) % 5) + 1]
      + (CASE i = 1 -> 0
           [] i = 2 -> tweak_schedule(tw)[(s % 3) + 1]
           [] i = 3 -> tweak_schedule(tw)[((s + 1) % 3) + 1]
           [] i = 4 -> s)

rotation(d, j) == <<<<14, 16>>, <<52, 57>>, <<23, 40>>, <<5, 37>>,
                    <<25, 33>>, <<46, 12>>, <<58, 22>>, <<32, 32>>>>[(d % 8) + 1][j]

add_subkey(w, tw, s, v) == [i \in 1..4 |-> word(v[i] + k(w, tw, s, i))]
remove_subkey(w, tw, s, v) == [i \in 1..4 |-> word(v[i] - k(w, tw, s, i))]

\* MIX, then PERMUTE by 0, 3, 2, 1.
mix(d, v) ==
    LET y0(j) == word(v[2 * j - 1] + v[2 * j])
        y1(j) == Xor(ROTL(v[2 * j], rotation(d, j)), y0(j)) IN
    <<y0(1), y1(2), y0(2), y1(1)>>

unmix(d, v) ==
    LET f1 == <<v[1], v[4], v[3], v[2]>>
        x1(j) == ROTR(Xor(f1[2 * j - 1], f1[2 * j]), rotation(d, j))
        x0(j) == word(f1[2 * j - 1] - x1(j)) IN
    <<x0(1), x1(1), x0(2), x1(2)>>

\* A subkey every four rounds, and a last one after the last.
threefish_round(w, tw, d, v) ==
    IF d = 72 THEN add_subkey(w, tw, 18, v)
    ELSE IF d % 4 = 0 THEN mix(d, add_subkey(w, tw, d \div 4, v)) ELSE mix(d, v)

\* Faulty variant of threefish_unround: the subkey goes before the rounds it
\* came before.
threefish_unround_early(w, tw, d, v) ==
    IF d = 72 THEN remove_subkey(w, tw, 18, v)
    ELSE IF d % 4 = 3 THEN unmix(d, remove_subkey(w, tw, d \div 4, v)) ELSE unmix(d, v)

threefish_unround(w, tw, d, v) ==
    IF d = 72 THEN remove_subkey(w, tw, 18, v)
    ELSE IF d % 4 = 0 THEN remove_subkey(w, tw, d \div 4, unmix(d, v)) ELSE unmix(d, v)
-----------------------------------------------------------------------------
Round(c, w, tw, n, v) ==
    CASE c \in {"shacal", "shacal1"} -> shacal_round(w, n, v)
      [] c = "shacal2"               -> shacal2_round(w, n, v)
      [] c = "md4"                   -> md4_round(w, n, v)
      [] c = "md5"                   -> md5_round(w, n, v)
      [] c = "threefish"             -> threefish_round(w, tw, n, v)

Unround(c, w, tw, n, v) ==
    CASE c \in {"shacal", "shacal1"} -> shacal_unround(w, n, v)
      [] c = "shacal2"               -> shacal2_unround(w, n, v)
      [] c = "md4"                   -> md4_unround(w, n, v)
      [] c = "md5"                   -> md5_unround(w, n, v)
      [] c = "threefish"             -> threefish_unround(w, tw, n, v)

ScheduleWords == [c \in Cyphers |->
    IF c \in {"md4", "md5"} THEN 16 ELSE IF c = "threefish" THEN 5 ELSE rounds[c]]

NextWord(c, w) ==
    CASE c = "shacal"    -> shacal_next(w)
      [] c = "shacal1"   -> shacal1_next(w)
      [] c = "shacal2"   -> shacal2_next(w)
      [] c = "threefish" -> threefish_next(w)

CypherInit ==
    /\ cypher \in Cyphers
    /\ schedule \in Keys[cypher]
    /\ tweak \in Tweaks
    /\ pass = "prepare" /\ t = 0
    /\ block \in Plaintexts[cypher]
    /\ trail = <<>>

\* prepare_schedule, set_key: from the key, word by word.
Prepare ==
    /\ pass = "prepare"
    /\ Len(schedule) < ScheduleWords[cypher]
    /\ schedule' = Append(schedule, NextWord(cypher, schedule))
    /\ UNCHANGED <<cypher, tweak, pass, t, block, trail>>

Prepared ==
    /\ pass = "prepare"
    /\ Len(schedule) = ScheduleWords[cypher]
    /\ pass' = "encypher"
    /\ UNCHANGED <<cypher, schedule, tweak, t, block, trail>>

Encypher ==
    /\ pass = "encypher" /\ t < rounds[cypher]
    /\ block' = Round(cypher, schedule, tweak, t, block)
    /\ trail' = Append(trail, block)
    /\ t' = t + 1
    /\ UNCHANGED <<cypher, schedule, tweak, pass>>

Encyphered ==
    /\ pass = "encypher" /\ t = rounds[cypher]
    /\ pass' = "decypher"
    /\ UNCHANGED <<cypher, schedule, tweak, t, block, trail>>

Decypher ==
    /\ pass = "decypher" /\ t > 0
    /\ block' = Unround(cypher, schedule, tweak, t - 1, block)
    /\ t' = t - 1
    /\ UNCHANGED <<cypher, schedule, tweak, pass, trail>>

CypherNext == Prepare \/ Prepared \/ Encypher \/ Encyphered \/ Decypher

CypherSpec == CypherInit /\ [][CypherNext]_cypherVars
-----------------------------------------------------------------------------
(* Properties *)

CypherTypeOK ==
    /\ cypher \in Cyphers
    /\ schedule \in Seq(Words)
    /\ Len(schedule) \in KeyWords[cypher]..ScheduleWords[cypher]
    /\ pass # "prepare" => Len(schedule) = ScheduleWords[cypher]
    /\ tweak \in [1..2 -> Words]
    /\ pass \in {"prepare", "encypher", "decypher"}
    /\ t \in 0..rounds[cypher]
    /\ block \in [1..BlockWords[cypher] -> Words]
    /\ trail \in Seq([1..BlockWords[cypher] -> Words])
    /\ Len(trail) = (IF pass = "decypher" THEN rounds[cypher] ELSE t)

\* decypher goes back over the blocks encypher has gone through, from whatever
\* plaintext and with whatever key, down to the plaintext itself: no round is
\* undone with the key, the constant, the rotation or the order of another.
Retraces ==
    /\ CypherTypeOK
    /\ pass = "decypher" /\ t < Len(trail) => block = trail[t + 1]
=============================================================================
