----------------------------- MODULE HashProofs -----------------------------
(* The three bodies of the transformation of CubeHash compute the same state, *)
(* for words of any width, whatever the number of rounds, blocks and          *)
(* parameters: each half of a round comes down to one expression for a low    *)
(* word and one for a high word, which the lemmas compare.                    *)
(* And the cyphers of the library take back each of their rounds, for words   *)
(* of any width, whatever the key, the block and the constants: what a round  *)
(* adds, rotates or mixes in is a function of words it leaves alone.          *)
EXTENDS CubeHash, BlockCypher, TLAPS

\* flip stays among the 16 words of a half, and among the 4 registers of one.
LEMMA FlipLow ==
    ASSUME NEW i \in 0..15, NEW m \in {1, 2, 4, 8}
    PROVE  flip(i, m) \in 0..15
BY DEF flip

\* What each of the loops of a half leaves is a state.
LEMMA LoopsKeepStates ==
    ASSUME NEW x \in States, NEW m \in {1, 2, 4, 8}
    PROVE  /\ add_low(x) \in States /\ xor_high(x) \in States
           /\ rotl7_low(x) \in States /\ rotl11_low(x) \in States
           /\ turn_low7(x, m) \in States /\ turn_low11(x, m) \in States
           /\ swap_low(x, m) \in States /\ swap_high(x, m) \in States
<1>1. add_low(x) \in States
  <2>1. \A i \in 0..31 : (IF low(i) THEN x[i] ELSE Add(x[i], x[i - 16])) \in Word
    BY CubeWordAssumption DEF States, low
  <2>. QED  BY <2>1 DEF add_low, States
<1>2. \A i \in 0..15 : flip(i, m) \in 0..15
  BY FlipLow
<1>3. /\ turn_low7(x, m) \in States /\ turn_low11(x, m) \in States
      /\ swap_low(x, m) \in States /\ swap_high(x, m) \in States
  BY <1>2, CubeWordAssumption DEF turn_low7, turn_low11, swap_low, swap_high, States, low
<1>4. xor_high(x) \in States /\ rotl7_low(x) \in States /\ rotl11_low(x) \in States
  BY CubeWordAssumption DEF xor_high, rotl7_low, rotl11_low, States, low
<1>. QED  BY <1>1, <1>3, <1>4

\* So is what a half leaves.
LEMMA HalvesAreStates ==
    ASSUME NEW x \in States
    PROVE  /\ reference_half7(x) \in States
           /\ unrolled_half7(x) \in States
           /\ reference_half11(x) \in States
           /\ unrolled_half11(x) \in States
BY LoopsKeepStates DEF reference_half7, reference_half11, unrolled_half7, unrolled_half11

\* To rotate and then swap is to swap and then rotate.
LEMMA TurnIsSwapOfRotated ==
    ASSUME NEW x \in States, NEW m \in {1, 2, 4, 8}
    PROVE  /\ turn_low7(x, m) = swap_low(rotl7_low(x), m)
           /\ turn_low11(x, m) = swap_low(rotl11_low(x), m)
<1>1. \A i \in 0..15 : flip(i, m) \in 0..15
  BY FlipLow
<1>2. turn_low7(x, m) = swap_low(rotl7_low(x), m)
  BY <1>1 DEF turn_low7, swap_low, rotl7_low, low, States
<1>3. turn_low11(x, m) = swap_low(rotl11_low(x), m)
  BY <1>1 DEF turn_low11, swap_low, rotl11_low, low, States
<1>. QED  BY <1>2, <1>3

\* The unrolled round is the reference round.
LEMMA UnrolledRound ==
    ASSUME NEW x \in States
    PROVE  unrolled_round(x) = reference_round(x)
<1>1. ASSUME NEW y \in States PROVE add_low(y) \in States
  BY LoopsKeepStates
<1>2. ASSUME NEW y \in States
      PROVE  unrolled_half7(y) = reference_half7(y) /\ unrolled_half11(y) = reference_half11(y)
  BY <1>1, TurnIsSwapOfRotated
     DEF unrolled_half7, reference_half7, unrolled_half11, reference_half11
<1>. QED  BY <1>2, HalvesAreStates DEF unrolled_round, reference_round
-----------------------------------------------------------------------------
\* A state read from registers that were loaded from it.
LEMMA LoadStore ==
    ASSUME NEW x \in States
    PROVE  _mm_storeu(_mm_loadu(x)) = x
<1>1. \A i \in 0..31 : i \div 4 \in 0..7 /\ i % 4 \in 0..3 /\ 4 * (i \div 4) + (i % 4) = i
  <2>1. ASSUME NEW i \in 0..31
        PROVE  i \div 4 \in 0..7 /\ i % 4 \in 0..3 /\ 4 * (i \div 4) + (i % 4) = i
    <3>1. PICK q \in 0..7, m \in 0..3 : i = 4 * q + m
      OBVIOUS
    <3>2. (4 * q + m) \div 4 = q /\ (4 * q + m) % 4 = m
      OBVIOUS
    <3>3. i \div 4 = q /\ i % 4 = m
      BY <3>1, <3>2, Zenon
    <3>. QED  BY <3>1, <3>3
  <2>. QED  BY <2>1
<1>2. \A i \in 0..31 : _mm_loadu(x)[i \div 4][i % 4] = x[i]
  BY <1>1 DEF _mm_loadu
<1>. QED  BY <1>2 DEF _mm_storeu, States

\* Lane l of register r is word 4r + l; the registers below 4 are the low words.
LEMMA LaneIndex ==
    ASSUME NEW r \in 0..7, NEW l \in 0..3
    PROVE  /\ 4 * r + l \in 0..31
           /\ low(4 * r + l) <=> r < 4
           /\ r >= 4 => 4 * r + l - 16 = 4 * (r - 4) + l /\ r - 4 \in 0..3
           /\ r < 4 => /\ flip(r, 2) \in 0..3 /\ flip(r, 1) \in 0..3
                       /\ flip(4 * r + l, 8) = 4 * flip(r, 2) + l
                       /\ flip(4 * r + l, 4) = 4 * flip(r, 1) + l
BY DEF low, flip

\* The lanes that the two controls of the shuffle name.
LEMMA ShuffledLane ==
    ASSUME NEW r \in 4..7, NEW l \in 0..3
    PROVE  /\ (78 \div <<1, 4, 16, 64>>[l + 1]) % 4 \in 0..3
           /\ (177 \div <<1, 4, 16, 64>>[l + 1]) % 4 \in 0..3
           /\ flip(4 * r + l - 16, 2) + 16 = 4 * r + ((78 \div <<1, 4, 16, 64>>[l + 1]) % 4)
           /\ flip(4 * r + l - 16, 1) + 16 = 4 * r + ((177 \div <<1, 4, 16, 64>>[l + 1]) % 4)
<1>1. CASE l = 0
  <2>1. (78 \div 1) % 4 = 2 /\ (177 \div 1) % 4 = 1
    OBVIOUS
  <2>2. <<1, 4, 16, 64>>[l + 1] = 1
    BY <1>1
  <2>3. flip(4 * r + l - 16, 2) + 16 = 4 * r + 2 /\ flip(4 * r + l - 16, 1) + 16 = 4 * r + 1
    BY <1>1 DEF flip
  <2>4. (78 \div <<1, 4, 16, 64>>[l + 1]) % 4 = 2 /\ (177 \div <<1, 4, 16, 64>>[l + 1]) % 4 = 1
    BY <2>1, <2>2, Zenon
  <2>. QED  BY <2>3, <2>4
<1>2. CASE l = 1
  <2>1. (78 \div 4) % 4 = 3 /\ (177 \div 4) % 4 = 0
    OBVIOUS
  <2>2. <<1, 4, 16, 64>>[l + 1] = 4
    BY <1>2
  <2>3. flip(4 * r + l - 16, 2) + 16 = 4 * r + 3 /\ flip(4 * r + l - 16, 1) + 16 = 4 * r + 0
    BY <1>2 DEF flip
  <2>4. (78 \div <<1, 4, 16, 64>>[l + 1]) % 4 = 3 /\ (177 \div <<1, 4, 16, 64>>[l + 1]) % 4 = 0
    BY <2>1, <2>2, Zenon
  <2>. QED  BY <2>3, <2>4
<1>3. CASE l = 2
  <2>1. (78 \div 16) % 4 = 0 /\ (177 \div 16) % 4 = 3
    OBVIOUS
  <2>2. <<1, 4, 16, 64>>[l + 1] = 16
    BY <1>3
  <2>3. flip(4 * r + l - 16, 2) + 16 = 4 * r + 0 /\ flip(4 * r + l - 16, 1) + 16 = 4 * r + 3
    BY <1>3 DEF flip
  <2>4. (78 \div <<1, 4, 16, 64>>[l + 1]) % 4 = 0 /\ (177 \div <<1, 4, 16, 64>>[l + 1]) % 4 = 3
    BY <2>1, <2>2, Zenon
  <2>. QED  BY <2>3, <2>4
<1>4. CASE l = 3
  <2>1. (78 \div 64) % 4 = 1 /\ (177 \div 64) % 4 = 2
    OBVIOUS
  <2>2. <<1, 4, 16, 64>>[l + 1] = 64
    BY <1>4
  <2>3. flip(4 * r + l - 16, 2) + 16 = 4 * r + 1 /\ flip(4 * r + l - 16, 1) + 16 = 4 * r + 2
    BY <1>4 DEF flip
  <2>4. (78 \div <<1, 4, 16, 64>>[l + 1]) % 4 = 1 /\ (177 \div <<1, 4, 16, 64>>[l + 1]) % 4 = 2
    BY <2>1, <2>2, Zenon
  <2>. QED  BY <2>3, <2>4
<1>. QED  BY <1>1, <1>2, <1>3, <1>4

\* Each loop over registers does to the loaded state what the reference does.
LEMMA RegisterSteps ==
    ASSUME NEW x \in States
    PROVE  /\ sse_add(_mm_loadu(x)) = _mm_loadu(add_low(x))
           /\ sse_turn7(_mm_loadu(x), 2) = _mm_loadu(turn_low7(x, 8))
           /\ sse_turn11(_mm_loadu(x), 1) = _mm_loadu(turn_low11(x, 4))
           /\ sse_xor(_mm_loadu(x)) = _mm_loadu(xor_high(x))
           /\ sse_shuffle(_mm_loadu(x), 78) = _mm_loadu(swap_high(x, 2))
           /\ sse_shuffle(_mm_loadu(x), 177) = _mm_loadu(swap_high(x, 1))
<1>1. sse_add(_mm_loadu(x)) = _mm_loadu(add_low(x))
  <2>1. ASSUME NEW r \in 0..7
        PROVE  sse_add(_mm_loadu(x))[r] = _mm_loadu(add_low(x))[r]
    <3>1. CASE r < 4
      BY <3>1, LaneIndex DEF sse_add, _mm_loadu, add_low
    <3>2. CASE r >= 4
      <4>1. \A l \in 0..3 : Add(x[4 * (r - 4) + l], x[4 * r + l])
                              = Add(x[4 * r + l], x[4 * r + l - 16])
        BY <3>2, LaneIndex, CubeWordAssumption DEF States
      <4>. QED  BY <3>2, <4>1, LaneIndex DEF sse_add, _mm_add_epi32, _mm_loadu, add_low
    <3>. QED  BY <3>1, <3>2
  <2>. QED  BY <2>1 DEF sse_add, _mm_loadu
<1>2. sse_turn7(_mm_loadu(x), 2) = _mm_loadu(turn_low7(x, 8))
  BY LaneIndex DEF sse_turn7, _mm_loadu, turn_low7
<1>3. sse_turn11(_mm_loadu(x), 1) = _mm_loadu(turn_low11(x, 4))
  BY LaneIndex DEF sse_turn11, _mm_loadu, turn_low11
<1>4. sse_xor(_mm_loadu(x)) = _mm_loadu(xor_high(x))
  BY LaneIndex DEF sse_xor, _mm_xor_si128, _mm_loadu, xor_high
<1>5. sse_shuffle(_mm_loadu(x), 78) = _mm_loadu(swap_high(x, 2))
  BY LaneIndex, ShuffledLane DEF sse_shuffle, _mm_shuffle_epi32, _mm_loadu, swap_high
<1>6. sse_shuffle(_mm_loadu(x), 177) = _mm_loadu(swap_high(x, 1))
  BY LaneIndex, ShuffledLane DEF sse_shuffle, _mm_shuffle_epi32, _mm_loadu, swap_high
<1>. QED  BY <1>1, <1>2, <1>3, <1>4, <1>5, <1>6

\* The round over registers, stored, is the reference round.
LEMMA RegisterRound ==
    ASSUME NEW x \in States
    PROVE  _mm_storeu(sse_round(_mm_loadu(x))) = reference_round(x)
<1>1. ASSUME NEW y \in States
      PROVE  /\ add_low(y) \in States /\ xor_high(y) \in States
             /\ turn_low7(y, 8) \in States /\ turn_low11(y, 4) \in States
             /\ swap_high(y, 2) \in States
  BY LoopsKeepStates
<1>2. sse_shuffle(sse_xor(sse_turn7(sse_add(_mm_loadu(x)), 2)), 78)
        = _mm_loadu(reference_half7(x))
  BY <1>1, RegisterSteps DEF reference_half7
<1>3. reference_half7(x) \in States /\ reference_round(x) \in States
  BY HalvesAreStates DEF reference_round
<1>4. sse_round(_mm_loadu(x)) = _mm_loadu(reference_round(x))
  BY <1>1, <1>2, <1>3, RegisterSteps DEF sse_round, reference_round, reference_half11
<1>. QED  BY <1>3, <1>4, LoadStore

\* A round by any of the bodies is the reference round, and a state.
LEMMA OneRound ==
    ASSUME NEW x \in States
    PROVE  Bodies(x) = {reference_round(x)} /\ reference_round(x) \in States
BY UnrolledRound, RegisterRound, HalvesAreStates DEF Bodies, reference_round
-----------------------------------------------------------------------------
\* A digest does not depend on which of the bodies of the transformation the
\* build has, for words of any width and any parameters.
THEOREM DigestOfAnyBuild == CubeSpec => []BodiesAgree
<1>1. CubeInit => BodiesAgree
  <2>. SUFFICES ASSUME CubeInit PROVE BodiesAgree
    OBVIOUS
  <2>1. state \in States
    <3>1. \A i \in 0..31 : (IF i < 3 THEN Parameters[i + 1] ELSE zero) \in Word
      BY CubeWordAssumption, CubeInputAssumption
    <3>. QED  BY <3>1 DEF CubeInit, States
  <2>. QED  BY <2>1, CubeInputAssumption DEF CubeInit, BodiesAgree, CubeTypeOK
<1>2. BodiesAgree /\ [CubeNext]_cubeVars => BodiesAgree'
  <2>. SUFFICES ASSUME BodiesAgree, [CubeNext]_cubeVars PROVE BodiesAgree'
    OBVIOUS
  <2>1. CASE transform
    BY <2>1, OneRound DEF transform, BodiesAgree, CubeTypeOK
  <2>2. CASE process_block
    <3>1. PICK taken \in Blocks : state' = xor_block(state, taken)
                                  /\ expected' = xor_block(expected, taken)
      BY <2>2 DEF process_block
    <3>2. xor_block(state, taken) \in States
      <4>1. taken \in Seq(Word)
        BY CubeInputAssumption
      <4>2. \A i \in 0..31 : (IF i < Len(taken) THEN Xor32(state[i], taken[i + 1])
                              ELSE state[i]) \in Word
        <5>1. \A i \in 0..31 : i < Len(taken) => taken[i + 1] \in Word
          BY <4>1
        <5>. QED  BY <5>1, CubeWordAssumption DEF BodiesAgree, CubeTypeOK, States
      <4>. QED  BY <4>2 DEF xor_block, States
    <3>. QED  BY <2>2, <3>1, <3>2, CubeInputAssumption
              DEF process_block, BodiesAgree, CubeTypeOK
  <2>3. CASE finalize
    <3>1. [state EXCEPT ![31] = Xor32(@, one)] \in States
      BY CubeWordAssumption DEF BodiesAgree, CubeTypeOK, States
    <3>. QED  BY <2>3, <3>1, CubeInputAssumption DEF finalize, BodiesAgree, CubeTypeOK
  <2>4. CASE UNCHANGED cubeVars
    BY <2>4 DEF cubeVars, BodiesAgree, CubeTypeOK
  <2>. QED  BY <2>1, <2>2, <2>3, <2>4 DEF CubeNext
<1>. QED  BY <1>1, <1>2, PTL DEF CubeSpec
-----------------------------------------------------------------------------
(* The block cyphers *)

\* A remainder is known by what it leaves.
LEMMA RemainderIs ==
    ASSUME NEW m \in Nat \ {0}, NEW a \in 0..(m - 1), NEW q \in Int
    PROVE  (a + q * m) % m = a
  OBVIOUS

\* Division leaves a remainder.
LEMMA DivMod ==
    ASSUME NEW m \in Nat \ {0}, NEW x \in Int
    PROVE  /\ x % m \in 0..(m - 1) /\ x \div m \in Int
           /\ x = (x % m) + (x \div m) * m
  OBVIOUS

\* What is a word, and what the machine's operators make of words.
LEMMA WordIs ==
    /\ Words \subseteq Nat
    /\ \A x \in Int : word(x) \in Words /\ word(x) \in Int
    /\ \A x \in Words : word(x) = x
<1>1. Modulus \in Nat \ {0}
  BY WordAssumption
<1>2. ASSUME NEW x \in Int
      PROVE  word(x) \in Words /\ word(x) \in Int
  BY <1>1, DivMod DEF word, Words
<1>3. ASSUME NEW x \in Words
      PROVE  word(x) = x
  BY <1>1 DEF word, Words
<1> QED BY <1>1, <1>2, <1>3 DEF Words

\* Words are numbers.
LEMMA WordsAreNumbers == \A x \in Words : x \in Int
  BY WordIs

\* Whole turns of the machine's counter are not seen.
LEMMA WordOfTurns ==
    ASSUME NEW x \in Int, NEW q \in Int
    PROVE  word(x + q * Modulus) = word(x)
<1>1. Modulus \in Nat \ {0}
  BY WordAssumption
<1> DEFINE r == x % Modulus
           d == x \div Modulus
<1>2. r \in 0..(Modulus - 1) /\ d \in Int /\ x = r + d * Modulus
  BY <1>1, DivMod
<1> HIDE DEF r, d
<1>3. x + q * Modulus = r + (d + q) * Modulus
  BY <1>1, <1>2
<1>4. (r + (d + q) * Modulus) % Modulus = r
  BY <1>1, <1>2, RemainderIs
<1> QED BY <1>3, <1>4 DEF word, r

\* A difference may be reduced before or after it is taken.
LEMMA WordOfDifference ==
    ASSUME NEW x \in Int, NEW y \in Int
    PROVE  word(word(x) - y) = word(x - y) /\ word(x - word(y)) = word(x - y)
<1>1. Modulus \in Nat \ {0}
  BY WordAssumption
<1> DEFINE r == word(x)
           s == word(y)
<1>2. PICK p \in Int : x = r + p * Modulus
  BY <1>1, DivMod DEF word
<1>3. PICK q \in Int : y = s + q * Modulus
  BY <1>1, DivMod DEF word
<1>4. r \in Int /\ s \in Int
  BY WordIs
<1>5. /\ r = word(x) /\ s = word(y)
      /\ word(x - y + (-p) * Modulus) = word(x - y) /\ word(x - y + q * Modulus) = word(x - y)
  BY WordOfTurns
<1> HIDE DEF r, s
<1>6. r - y = x - y + (-p) * Modulus
  BY <1>1, <1>2, <1>4
<1>7. x - s = x - y + q * Modulus
  BY <1>1, <1>3, <1>4
<1> QED BY <1>5, <1>6, <1>7

\* What was added is taken away again.
LEMMA Undone ==
    ASSUME NEW a \in Words, NEW b \in Int, NEW c \in Int, c = a + b
    PROVE  word(word(c) - b) = a
<1>1. a \in Int /\ c - b = a
  BY WordIs
<1> QED BY <1>1, WordOfDifference, WordIs

\* A block is the sequence of its words.
LEMMA FourWords ==
    ASSUME NEW S, NEW v \in [1..4 -> S]
    PROVE  <<v[1], v[2], v[3], v[4]>> = v
  OBVIOUS

\* So with five words,
LEMMA FiveWords ==
    ASSUME NEW S, NEW v \in [1..5 -> S]
    PROVE  <<v[1], v[2], v[3], v[4], v[5]>> = v
  OBVIOUS

\* and with eight.
LEMMA EightWords ==
    ASSUME NEW S, NEW v \in [1..8 -> S]
    PROVE  <<v[1], v[2], v[3], v[4], v[5], v[6], v[7], v[8]>> = v
  OBVIOUS

\* What is put together of words is a block.
LEMMA BlocksOf ==
    ASSUME NEW S, NEW a \in S, NEW b \in S, NEW c \in S, NEW d \in S, NEW e \in S,
           NEW g \in S, NEW h \in S, NEW i \in S
    PROVE  /\ <<a, b, c, d>> \in [1..4 -> S]
           /\ <<a, b, c, d, e>> \in [1..5 -> S]
           /\ <<a, b, c, d, e, g, h, i>> \in [1..8 -> S]
  OBVIOUS
-----------------------------------------------------------------------------
\* The functions of the cyphers make words of words.
LEMMA FunctionsOfWords ==
    ASSUME NEW x \in Words, NEW y \in Words, NEW z \in Words
    PROVE  /\ \A n : f(n, x, y, z) \in Words
           /\ \A n : md4_fun(n, x, y, z) \in Words /\ md5_fun(n, x, y, z) \in Words
           /\ Ch(x, y, z) \in Words /\ Maj(x, y, z) \in Words
           /\ Sigma_0(x) \in Words /\ Sigma_1(x) \in Words
           /\ sigma_0(x) \in Words /\ sigma_1(x) \in Words
<1>1. /\ \A a \in Words : Not(a) \in Words
      /\ \A a, b \in Words : And(a, b) \in Words /\ Or(a, b) \in Words /\ Xor(a, b) \in Words
  BY WordAssumption
<1>2. Ch(x, y, z) \in Words /\ Maj(x, y, z) \in Words /\ Parity(x, y, z) \in Words
  BY <1>1 DEF Ch, Maj, Parity
<1>3. \A n : f(n, x, y, z) \in Words
  BY <1>2 DEF f
<1>4. /\ ff(x, y, z) \in Words /\ hh(x, y, z) \in Words /\ md4_gg(x, y, z) \in Words
      /\ md5_gg(x, y, z) \in Words /\ md5_ii(x, y, z) \in Words
  BY <1>1 DEF ff, hh, md4_gg, md5_gg, md5_ii
<1>5. \A n : md4_fun(n, x, y, z) \in Words /\ md5_fun(n, x, y, z) \in Words
  BY <1>4 DEF md4_fun, md5_fun
<1>6. \A n \in {2, 3, 6, 7, 10, 11, 13, 17, 18, 19, 22, 25} :
        ROTR(x, n) \in Words /\ SHR(x, n) \in Words
  BY WordAssumption
<1>7. Sigma_0(x) \in Words /\ Sigma_1(x) \in Words
  BY <1>1, <1>6 DEF Sigma_0, Sigma_1
<1>8. sigma_0(x) \in Words /\ sigma_1(x) \in Words
  BY <1>1, <1>6 DEF sigma_0, sigma_1
<1> QED BY <1>2, <1>3, <1>5, <1>7, <1>8

\* shacal, shacal1: a round is undone with its own constant and word.
LEMMA ShacalUndone ==
    ASSUME NEW n \in 0..79, NEW w, w[n + 1] \in Words, NEW v \in [1..5 -> Words]
    PROVE  /\ shacal_round(w, n, v) \in [1..5 -> Words]
           /\ shacal_unround(w, n, shacal_round(w, n, v)) = v
<1> DEFINE A == ROTL(v[1], 5)
           F == f(n, v[2], v[3], v[4])
           C == constant(n)
           W == w[n + 1]
           E == v[5]
           u == shacal_round(w, n, v)
<1>1. /\ v[1] \in Words /\ v[2] \in Words /\ v[3] \in Words /\ v[4] \in Words /\ v[5] \in Words
  OBVIOUS
<1>2. A \in Words /\ ROTL(v[2], 30) \in Words /\ ROTR(ROTL(v[2], 30), 30) = v[2]
  BY <1>1, WordAssumption
<1>3. F \in Words
  BY <1>1, FunctionsOfWords
<1>4. C \in Words /\ W \in Words
  BY InputAssumption
<1>5. u = <<word(A + F + E + C + W), v[1], ROTL(v[2], 30), v[3], v[4]>>
  BY DEF shacal_round
<1>14. A \in Int /\ F \in Int /\ C \in Int /\ W \in Int /\ E \in Int
  BY <1>1, <1>2, <1>3, <1>4, WordsAreNumbers
<1> HIDE DEF A, F, C, W, E
<1>6. A + F + E + C + W \in Int /\ A + F + C + W \in Int
      /\ A + F + E + C + W = E + (A + F + C + W)
  BY <1>14
<1>7. word(A + F + E + C + W) \in Words
  BY <1>6, WordIs
<1> DEFINE s == word(A + F + E + C + W)
<1>8. word(s - (A + F + C + W)) = E
  BY <1>1, <1>6, Undone DEF E
<1> HIDE DEF s
<1>9. s - A - F - C - W = s - (A + F + C + W)
  <2>1. s \in Int
    BY <1>7, WordsAreNumbers DEF s
  <2> QED BY <1>14, <2>1
<1>10. u = <<s, v[1], ROTL(v[2], 30), v[3], v[4]>>
  BY <1>5 DEF s
<1> HIDE DEF u
<1>11. u \in [1..5 -> Words]
  BY <1>1, <1>2, <1>7, <1>10, BlocksOf DEF s
<1>12. shacal_unround(w, n, u) = <<v[1], v[2], v[3], v[4], word(s - A - F - C - W)>>
  <2>1. u[1] = s /\ u[2] = v[1] /\ u[3] = ROTL(v[2], 30) /\ u[4] = v[3] /\ u[5] = v[4]
    BY <1>10
  <2> QED BY <1>2, <2>1 DEF shacal_unround, A, F, C, W
<1>13. shacal_unround(w, n, u) = v
  BY <1>8, <1>9, <1>12, FiveWords DEF E
<1> QED BY <1>11, <1>13 DEF u

\* shacal2: two words are sums, of which one gives the other back.
LEMMA Shacal2Undone ==
    ASSUME NEW n \in 0..63, NEW w, w[n + 1] \in Words, NEW v \in [1..8 -> Words]
    PROVE  /\ shacal2_round(w, n, v) \in [1..8 -> Words]
           /\ shacal2_unround(w, n, shacal2_round(w, n, v)) = v
<1> DEFINE S1 == Sigma_1(v[5])
           F == Ch(v[5], v[6], v[7])
           C == constant(n)
           W == w[n + 1]
           S0 == Sigma_0(v[1])
           M == Maj(v[1], v[2], v[3])
           E == v[8]
           D == v[4]
           u == shacal2_round(w, n, v)
<1>1. /\ v[1] \in Words /\ v[2] \in Words /\ v[3] \in Words /\ v[4] \in Words
      /\ v[5] \in Words /\ v[6] \in Words /\ v[7] \in Words /\ v[8] \in Words
  OBVIOUS
<1>2. S1 \in Words /\ F \in Words /\ S0 \in Words /\ M \in Words
  BY <1>1, FunctionsOfWords
<1>3. C \in Words /\ W \in Words /\ E \in Words /\ D \in Words
  <2>1. n \in 0..79
    OBVIOUS
  <2>2. constant(n) \in Words
    BY <2>1, InputAssumption
  <2> QED BY <1>1, <2>2
<1>4. /\ S1 \in Int /\ F \in Int /\ C \in Int /\ W \in Int
      /\ S0 \in Int /\ M \in Int /\ E \in Int /\ D \in Int
  BY <1>2, <1>3, WordsAreNumbers
<1>5. u = <<word(E + S1 + F + C + W + (S0 + M)), v[1], v[2], v[3],
            word(D + (E + S1 + F + C + W)), v[5], v[6], v[7]>>
  BY DEF shacal2_round
<1>6. E + S1 + F + C + W \in Int /\ S0 + M \in Int /\ S1 + F + C + W \in Int
      /\ E + S1 + F + C + W = E + (S1 + F + C + W)
  <2> HIDE DEF S1, F, C, W, S0, M, E, D
  <2> QED BY <1>4
<1> DEFINE T1 == E + S1 + F + C + W
           T2 == S0 + M
           a == word(T1 + T2)
           d == word(D + T1)
<1>7. T1 \in Int /\ T2 \in Int
  BY <1>6
<1>8. a \in Words /\ d \in Words
  <2> HIDE DEF T1, T2, D
  <2>1. T1 + T2 \in Int /\ D + T1 \in Int
    BY <1>4, <1>7
  <2> QED BY <2>1, WordIs
<1>9. word(a - T2) = word(T1)
  <2> HIDE DEF T1, T2
  <2>1. T1 + T2 \in Int /\ T1 + T2 - T2 = T1
    BY <1>7
  <2> QED BY <1>7, <2>1, WordOfDifference
<1>10. word(d - word(T1)) = D
  <2> HIDE DEF T1, D
  <2>1. D + T1 \in Int
    BY <1>4, <1>7
  <2>2. d \in Int
    BY <2>1, WordIs
  <2>3. word(d - word(T1)) = word(d - T1)
    <3> HIDE DEF d
    <3> QED BY <1>7, <2>2, WordOfDifference
  <2>4. word(d - T1) = D
    BY <1>3, <1>7, <2>1, Undone
  <2> QED BY <2>3, <2>4
<1>11. word(word(T1) - S1 - F - C - W) = E
  <2> HIDE DEF S1, F, C, W, E
  <2>1. word(word(T1) - (S1 + F + C + W)) = E
    BY <1>3, <1>6, Undone
  <2>2. word(T1) \in Int
    BY <1>7, WordIs
  <2> DEFINE x == word(T1)
  <2>3. x - S1 - F - C - W = x - (S1 + F + C + W)
    <3> HIDE DEF x
    <3> QED BY <1>4, <2>2 DEF x
  <2> QED BY <2>1, <2>3
<1> HIDE DEF T1, T2, a, d, u
<1>12. u = <<a, v[1], v[2], v[3], d, v[5], v[6], v[7]>>
  BY <1>5 DEF a, d, T1, T2
<1>13. u \in [1..8 -> Words]
  BY <1>1, <1>8, <1>12, BlocksOf
<1>14. /\ u[1] = a /\ u[2] = v[1] /\ u[3] = v[2] /\ u[4] = v[3]
       /\ u[5] = d /\ u[6] = v[5] /\ u[7] = v[6] /\ u[8] = v[7]
  BY <1>12
<1>15. shacal2_unround(w, n, u) = <<v[1], v[2], v[3], D, v[5], v[6], v[7], E>>
  <2>1. Sigma_0(u[2]) + Maj(u[2], u[3], u[4]) = T2
    BY <1>14 DEF T2
  <2>2. word(u[1] - T2) = word(T1)
    BY <1>9, <1>14
  <2>3. word(u[5] - word(T1)) = D
    BY <1>10, <1>14
  <2>4. word(word(T1) - Sigma_1(u[6]) - Ch(u[6], u[7], u[8]) - constant(n) - w[n + 1]) = E
    BY <1>11, <1>14
  <2> HIDE DEF D, E
  <2> QED BY <1>14, <2>1, <2>2, <2>3, <2>4 DEF shacal2_unround
<1>16. shacal2_unround(w, n, u) = v
  BY <1>15, EightWords
<1> QED BY <1>13, <1>16 DEF u
-----------------------------------------------------------------------------
\* md4, md5: the four words of a step are four words of the block.
LEMMA FourPlaces ==
    ASSUME NEW n \in Nat
    PROVE  /\ aa(n) \in 1..4 /\ bb(n) \in 1..4 /\ cc(n) \in 1..4 /\ dd(n) \in 1..4
           /\ bb(n) # aa(n) /\ cc(n) # aa(n) /\ dd(n) # aa(n)
<1>1. n % 4 \in 0..3
  OBVIOUS
<1> QED BY <1>1 DEF aa, bb, cc, dd

\* Which word of the key a step takes.
LEMMA KeyIndexes ==
    ASSUME NEW n \in 0..63
    PROVE  md5_key_index(n) \in 0..15 /\ (n < 48 => md4_key_index(n) \in 0..15)
<1>1. md5_key_index(n) \in 0..15
  BY DEF md5_key_index
<1>2. ASSUME n < 48
      PROVE  md4_key_index(n) \in 0..15
  <2>1. CASE n < 16
    BY <2>1 DEF md4_key_index
  <2>2. CASE n >= 16 /\ n < 32
    BY <2>2 DEF md4_key_index
  <2>3. CASE n >= 32
    <3>1. n - 31 \in 1..16
      BY <1>2, <2>3
    <3>2. \A i \in 1..16 : <<0, 8, 4, 12, 2, 10, 6, 14, 1, 9, 5, 13, 3, 11, 7, 15>>[i] \in 0..15
      OBVIOUS
    <3>3. md4_key_index(n) = <<0, 8, 4, 12, 2, 10, 6, 14, 1, 9, 5, 13, 3, 11, 7, 15>>[n - 31]
      BY <2>3 DEF md4_key_index
    <3> QED BY <3>1, <3>2, <3>3
  <2> QED BY <2>1, <2>2, <2>3
<1> QED BY <1>1, <1>2

\* decypher has the numbers of places in its own order; they are the same.
LEMMA SameTurns ==
    ASSUME NEW n \in 0..63
    PROVE  /\ md5_s(n) \in 0..63 /\ md5_un_s(n) = md5_s(n)
           /\ n < 48 => md4_s(n) \in 0..63 /\ md4_un_s(n) = md4_s(n)
<1>1. n \div 16 \in 0..3 /\ n % 4 \in 0..3 /\ (n < 48 => n \div 16 \in 0..2)
  OBVIOUS
<1>2. \A i \in 0..3 :
        /\ <<7, 12, 17, 22>>[i + 1] \in 0..63 /\ <<22, 17, 12, 7>>[4 - i] = <<7, 12, 17, 22>>[i + 1]
        /\ <<5, 9, 14, 20>>[i + 1] \in 0..63 /\ <<20, 14, 9, 5>>[4 - i] = <<5, 9, 14, 20>>[i + 1]
        /\ <<4, 11, 16, 23>>[i + 1] \in 0..63 /\ <<23, 16, 11, 4>>[4 - i] = <<4, 11, 16, 23>>[i + 1]
        /\ <<6, 10, 15, 21>>[i + 1] \in 0..63 /\ <<21, 15, 10, 6>>[4 - i] = <<6, 10, 15, 21>>[i + 1]
  OBVIOUS
<1>3. \A i \in 0..3 :
        /\ <<3, 7, 11, 19>>[i + 1] \in 0..63 /\ <<19, 11, 7, 3>>[4 - i] = <<3, 7, 11, 19>>[i + 1]
        /\ <<3, 5, 9, 13>>[i + 1] \in 0..63 /\ <<13, 9, 5, 3>>[4 - i] = <<3, 5, 9, 13>>[i + 1]
        /\ <<3, 9, 11, 15>>[i + 1] \in 0..63 /\ <<15, 11, 9, 3>>[4 - i] = <<3, 9, 11, 15>>[i + 1]
  OBVIOUS
<1>4. ASSUME NEW q \in 0..3, NEW i \in 0..3
      PROVE  LET s == <<<<7, 12, 17, 22>>, <<5, 9, 14, 20>>, <<4, 11, 16, 23>>, <<6, 10, 15, 21>>>>[q + 1][i + 1]
                 u == <<<<22, 17, 12, 7>>, <<20, 14, 9, 5>>, <<23, 16, 11, 4>>, <<21, 15, 10, 6>>>>[q + 1][4 - i]
             IN s \in 0..63 /\ u = s
  BY <1>2
<1>5. ASSUME NEW q \in 0..2, NEW i \in 0..3
      PROVE  LET s == <<<<3, 7, 11, 19>>, <<3, 5, 9, 13>>, <<3, 9, 11, 15>>>>[q + 1][i + 1]
                 u == <<<<19, 11, 7, 3>>, <<13, 9, 5, 3>>, <<15, 11, 9, 3>>>>[q + 1][4 - i]
             IN s \in 0..63 /\ u = s
  BY <1>3
<1>6. md5_s(n) \in 0..63 /\ md5_un_s(n) = md5_s(n)
  BY <1>1, <1>4 DEF md5_s, md5_un_s
<1>7. n < 48 => md4_s(n) \in 0..63 /\ md4_un_s(n) = md4_s(n)
  BY <1>1, <1>5 DEF md4_s, md4_un_s
<1> QED BY <1>6, <1>7

\* A word put in its place and taken out of it again.
LEMMA OneWord ==
    ASSUME NEW v \in [1..4 -> Words], NEW a \in 1..4, NEW x \in Words
    PROVE  /\ [v EXCEPT ![a] = x] \in [1..4 -> Words]
           /\ [v EXCEPT ![a] = x][a] = x
           /\ \A b \in 1..4 : b # a => [v EXCEPT ![a] = x][b] = v[b]
           /\ [[v EXCEPT ![a] = x] EXCEPT ![a] = v[a]] = v
  OBVIOUS

\* md4: a step is undone, the word rotated back and the sum taken apart.
LEMMA Md4Undone ==
    ASSUME NEW n \in 0..47, NEW w, \A i \in 1..16 : w[i] \in Words, NEW v \in [1..4 -> Words]
    PROVE  /\ md4_round(w, n, v) \in [1..4 -> Words]
           /\ md4_unround(w, n, md4_round(w, n, v)) = v
<1> DEFINE E == v[aa(n)]
           F == md4_fun(n, v[bb(n)], v[cc(n)], v[dd(n)])
           W == w[md4_key_index(n) + 1]
           C == md4_val(n)
           T == E + F + W + C
           x == ROTL(word(T), md4_s(n))
           u == md4_round(w, n, v)
<1>1. /\ aa(n) \in 1..4 /\ bb(n) \in 1..4 /\ cc(n) \in 1..4 /\ dd(n) \in 1..4
      /\ bb(n) # aa(n) /\ cc(n) # aa(n) /\ dd(n) # aa(n)
  BY FourPlaces
<1>2. E \in Words /\ v[bb(n)] \in Words /\ v[cc(n)] \in Words /\ v[dd(n)] \in Words
  BY <1>1
<1>3. F \in Words
  BY <1>2, FunctionsOfWords
<1>4. W \in Words
  <2>1. n \in 0..63 /\ n < 48
    OBVIOUS
  <2>2. md4_key_index(n) \in 0..15
    BY <2>1, KeyIndexes
  <2>3. md4_key_index(n) + 1 \in 1..16
    BY <2>2
  <2> QED BY <2>3
<1>5. C \in Int
  <2>1. n >= 16 => n \div 16 \in 0..79
    OBVIOUS
  <2>2. n >= 16 => constant(n \div 16) \in Int
    BY <2>1, InputAssumption, WordsAreNumbers
  <2> QED BY <2>2 DEF md4_val
<1>6. E \in Int /\ F \in Int /\ W \in Int
  BY <1>2, <1>3, <1>4, WordsAreNumbers
<1>7. T \in Int /\ F + W + C \in Int /\ T = E + (F + W + C)
  <2> HIDE DEF E, F, W, C
  <2> QED BY <1>5, <1>6
<1>8. word(T) \in Words /\ word(T) \in Int
  BY <1>7, WordIs
<1>9. md4_s(n) \in 0..63 /\ md4_un_s(n) = md4_s(n)
  <2>1. n \in 0..63 /\ n < 48
    OBVIOUS
  <2> QED BY <2>1, SameTurns
<1>10. x \in Words /\ ROTR(x, md4_s(n)) = word(T)
  BY <1>8, <1>9, WordAssumption
<1>11. word(word(T) - F - W - C) = E
  <2>1. word(word(T) - (F + W + C)) = E
    <3> HIDE DEF E, F, W, C, T
    <3> QED BY <1>2, <1>7, Undone
  <2> DEFINE y == word(T)
  <2>2. y - F - W - C = y - (F + W + C)
    <3> HIDE DEF y, F, W, C
    <3> QED BY <1>5, <1>6, <1>8 DEF y
  <2> QED BY <2>1, <2>2
<1>12. u = [v EXCEPT ![aa(n)] = x]
  BY DEF md4_round
<1> HIDE DEF E, F, W, C, T, x, u
<1>13. /\ u \in [1..4 -> Words] /\ u[aa(n)] = x
       /\ u[bb(n)] = v[bb(n)] /\ u[cc(n)] = v[cc(n)] /\ u[dd(n)] = v[dd(n)]
       /\ [u EXCEPT ![aa(n)] = v[aa(n)]] = v
  BY <1>1, <1>10, <1>12, OneWord
<1>14. md4_unround(w, n, u) = [u EXCEPT ![aa(n)] = E]
  BY <1>9, <1>10, <1>11, <1>13 DEF md4_unround, F, W, C
<1> QED BY <1>13, <1>14 DEF E, u

\* md5: so with the word added after the rotation.
LEMMA Md5Undone ==
    ASSUME NEW n \in 0..63, NEW w, \A i \in 1..16 : w[i] \in Words, NEW v \in [1..4 -> Words]
    PROVE  /\ md5_round(w, n, v) \in [1..4 -> Words]
           /\ md5_unround(w, n, md5_round(w, n, v)) = v
<1> DEFINE E == v[aa(n)]
           B == v[bb(n)]
           F == md5_fun(n, v[bb(n)], v[cc(n)], v[dd(n)])
           W == w[md5_key_index(n) + 1]
           C == constant(n)
           T == E + F + W + C
           R == ROTL(word(T), md5_s(n))
           x == word(B + R)
           u == md5_round(w, n, v)
<1>1. /\ aa(n) \in 1..4 /\ bb(n) \in 1..4 /\ cc(n) \in 1..4 /\ dd(n) \in 1..4
      /\ bb(n) # aa(n) /\ cc(n) # aa(n) /\ dd(n) # aa(n)
  BY FourPlaces
<1>2. E \in Words /\ B \in Words /\ v[cc(n)] \in Words /\ v[dd(n)] \in Words
  BY <1>1
<1>3. F \in Words
  BY <1>2, FunctionsOfWords
<1>4. W \in Words
  <2>1. md5_key_index(n) + 1 \in 1..16
    BY KeyIndexes
  <2> QED BY <2>1
<1>5. C \in Words
  <2>1. n \in 0..79
    OBVIOUS
  <2> QED BY <2>1, InputAssumption
<1>6. E \in Int /\ F \in Int /\ W \in Int /\ C \in Int /\ B \in Int
  BY <1>2, <1>3, <1>4, <1>5, WordsAreNumbers
<1>7. T \in Int /\ F + W + C \in Int /\ T = E + (F + W + C)
  <2> HIDE DEF E, F, W, C
  <2> QED BY <1>6
<1>8. word(T) \in Words /\ word(T) \in Int
  BY <1>7, WordIs
<1>9. md5_s(n) \in 0..63 /\ md5_un_s(n) = md5_s(n)
  BY SameTurns
<1>10. R \in Words /\ ROTR(R, md5_s(n)) = word(T)
  BY <1>8, <1>9, WordAssumption
<1>11. x \in Words /\ word(x - B) = R
  <2> HIDE DEF B, R
  <2>1. R \in Int
    BY <1>10, WordsAreNumbers
  <2>2. B + R \in Int /\ B + R = R + B
    BY <1>6, <2>1
  <2> QED BY <1>6, <1>10, <2>2, Undone, WordIs
<1>12. word(word(T) - F - W - C) = E
  <2>1. word(word(T) - (F + W + C)) = E
    <3> HIDE DEF E, F, W, C, T
    <3> QED BY <1>2, <1>7, Undone
  <2> DEFINE y == word(T)
  <2>2. y - F - W - C = y - (F + W + C)
    <3> HIDE DEF y, F, W, C
    <3> QED BY <1>6, <1>8 DEF y
  <2> QED BY <2>1, <2>2
<1>13. u = [v EXCEPT ![aa(n)] = x]
  BY DEF md5_round
<1> HIDE DEF E, B, F, W, C, T, R, x, u
<1>14. /\ u \in [1..4 -> Words] /\ u[aa(n)] = x
       /\ u[bb(n)] = v[bb(n)] /\ u[cc(n)] = v[cc(n)] /\ u[dd(n)] = v[dd(n)]
       /\ [u EXCEPT ![aa(n)] = v[aa(n)]] = v
  BY <1>1, <1>11, <1>13, OneWord
<1>15. md5_unround(w, n, u) = [u EXCEPT ![aa(n)] = E]
  BY <1>9, <1>10, <1>11, <1>12, <1>14 DEF md5_unround, B, F, W, C
<1> QED BY <1>14, <1>15 DEF E, u
-----------------------------------------------------------------------------
\* threefish: the words of a subkey are numbers, and a subkey is taken off again.
LEMMA SubkeyUndone ==
    ASSUME NEW s \in 0..18, NEW w, \A i \in 1..5 : w[i] \in Words,
           NEW tw \in [1..2 -> Words], NEW v \in [1..4 -> Words]
    PROVE  /\ add_subkey(w, tw, s, v) \in [1..4 -> Words]
           /\ remove_subkey(w, tw, s, add_subkey(w, tw, s, v)) = v
<1>1. \A i \in 1..3 : tweak_schedule(tw)[i] \in Words
  BY WordAssumption DEF tweak_schedule
<1>2. ASSUME NEW i \in 1..4
      PROVE  k(w, tw, s, i) \in Int
  <2>1. ((s + i - 1) % 5) + 1 \in 1..5 /\ (s % 3) + 1 \in 1..3 /\ ((s + 1) % 3) + 1 \in 1..3
    OBVIOUS
  <2>2. /\ w[((s + i - 1) % 5) + 1] \in Int
        /\ tweak_schedule(tw)[(s % 3) + 1] \in Int /\ tweak_schedule(tw)[((s + 1) % 3) + 1] \in Int
    BY <1>1, <2>1, WordsAreNumbers
  <2> DEFINE a == w[((s + i - 1) % 5) + 1]
             b == tweak_schedule(tw)[(s % 3) + 1]
             c == tweak_schedule(tw)[((s + 1) % 3) + 1]
  <2>3. k(w, tw, s, i) = a + (CASE i = 1 -> 0 [] i = 2 -> b [] i = 3 -> c [] i = 4 -> s)
    BY Zenon DEF k
  <2> HIDE DEF a, b, c
  <2>4. a \in Int /\ b \in Int /\ c \in Int
    BY <2>2 DEF a, b, c
  <2> QED BY <2>3, <2>4
<1> DEFINE u == add_subkey(w, tw, s, v)
<1>3. ASSUME NEW i \in 1..4
      PROVE  u[i] \in Words /\ word(u[i] - k(w, tw, s, i)) = v[i]
  <2>1. v[i] \in Words /\ v[i] \in Int /\ u[i] = word(v[i] + k(w, tw, s, i))
    BY WordsAreNumbers DEF add_subkey
  <2> HIDE DEF u
  <2>2. v[i] + k(w, tw, s, i) \in Int
    BY <1>2, <2>1
  <2>3. u[i] \in Words
    BY <2>1, <2>2, WordIs
  <2>4. word(word(v[i] + k(w, tw, s, i)) - k(w, tw, s, i)) = v[i]
    BY <1>2, <2>1, <2>2, Undone
  <2> QED BY <2>1, <2>3, <2>4, Zenon
<1>4. u \in [1..4 -> Words]
  BY <1>3 DEF add_subkey
<1>5. remove_subkey(w, tw, s, u) = [i \in 1..4 |-> v[i]]
  BY <1>3, Zenon DEF remove_subkey
<1> QED BY <1>4, <1>5

\* MIX and PERMUTE are undone by the same rotations.
LEMMA MixUndone ==
    ASSUME NEW d \in 0..72, NEW v \in [1..4 -> Words]
    PROVE  mix(d, v) \in [1..4 -> Words] /\ unmix(d, mix(d, v)) = v
<1>1. rotation(d, 1) \in 0..63 /\ rotation(d, 2) \in 0..63
  <2>1. d % 8 \in 0..7
    OBVIOUS
  <2>2. \A i \in 0..7 : \A j \in 1..2 :
          <<<<14, 16>>, <<52, 57>>, <<23, 40>>, <<5, 37>>,
            <<25, 33>>, <<46, 12>>, <<58, 22>>, <<32, 32>>>>[i + 1][j] \in 0..63
    OBVIOUS
  <2> QED BY <2>1, <2>2 DEF rotation
<1> DEFINE x(j) == v[2 * j - 1]
           y(j) == v[2 * j]
           R(j) == ROTL(y(j), rotation(d, j))
           y0(j) == word(x(j) + y(j))
           y1(j) == Xor(R(j), y0(j))
           u == mix(d, v)
<1>2. ASSUME NEW j \in 1..2
      PROVE  /\ x(j) \in Words /\ y(j) \in Words /\ y0(j) \in Words /\ y1(j) \in Words
             /\ ROTR(Xor(y0(j), y1(j)), rotation(d, j)) = y(j)
             /\ word(y0(j) - y(j)) = x(j)
  <2>1. x(j) \in Words /\ y(j) \in Words
    OBVIOUS
  <2>2. x(j) \in Int /\ y(j) \in Int
    BY <2>1, WordsAreNumbers
  <2>3. x(j) + y(j) \in Int
    BY <2>2
  <2>4. y0(j) \in Words /\ word(y0(j) - y(j)) = x(j)
    <3> HIDE DEF x, y
    <3> QED BY <2>1, <2>2, <2>3, Undone, WordIs
  <2>5. rotation(d, j) \in 0..63
    BY <1>1
  <2>6. R(j) \in Words /\ ROTR(R(j), rotation(d, j)) = y(j)
    BY <2>1, <2>5, WordAssumption
  <2>7. y1(j) \in Words /\ Xor(y0(j), y1(j)) = R(j)
    <3> HIDE DEF R, y0
    <3> QED BY <2>4, <2>6, WordAssumption
  <2> QED BY <2>1, <2>4, <2>6, <2>7
<1>3. u = <<y0(1), y1(2), y0(2), y1(1)>>
  BY DEF mix
<1> HIDE DEF y0, y1, u
<1>4. u \in [1..4 -> Words]
  BY <1>2, <1>3
<1>5. u[1] = y0(1) /\ u[2] = y1(2) /\ u[3] = y0(2) /\ u[4] = y1(1)
  BY <1>3
<1>6. unmix(d, u) = <<x(1), y(1), x(2), y(2)>>
  <2>1. /\ ROTR(Xor(u[1], u[4]), rotation(d, 1)) = y(1)
        /\ ROTR(Xor(u[3], u[2]), rotation(d, 2)) = y(2)
        /\ word(u[1] - y(1)) = x(1) /\ word(u[3] - y(2)) = x(2)
    BY <1>2, <1>5
  <2> QED BY <2>1 DEF unmix
<1> QED BY <1>4, <1>6, FourWords DEF u

\* threefish: the subkey goes on before the rounds, and off after them.
LEMMA ThreefishUndone ==
    ASSUME NEW d \in 0..72, NEW w, \A i \in 1..5 : w[i] \in Words,
           NEW tw \in [1..2 -> Words], NEW v \in [1..4 -> Words]
    PROVE  /\ threefish_round(w, tw, d, v) \in [1..4 -> Words]
           /\ threefish_unround(w, tw, d, threefish_round(w, tw, d, v)) = v
<1>1. CASE d = 72
  <2>1. 18 \in 0..18
    OBVIOUS
  <2> QED BY <1>1, <2>1, SubkeyUndone DEF threefish_round, threefish_unround
<1>2. CASE d # 72 /\ d % 4 = 0
  <2> DEFINE u == add_subkey(w, tw, d \div 4, v)
  <2>1. d \div 4 \in 0..18
    OBVIOUS
  <2>2. u \in [1..4 -> Words] /\ remove_subkey(w, tw, d \div 4, u) = v
    BY <2>1, SubkeyUndone
  <2>3. mix(d, u) \in [1..4 -> Words] /\ unmix(d, mix(d, u)) = u
    <3> HIDE DEF u
    <3> QED BY <2>2, MixUndone
  <2> QED BY <1>2, <2>2, <2>3 DEF threefish_round, threefish_unround
<1>3. CASE d # 72 /\ d % 4 # 0
  BY <1>3, MixUndone DEF threefish_round, threefish_unround
<1> QED BY <1>1, <1>2, <1>3
-----------------------------------------------------------------------------
\* Every cypher: decypher's step takes back the step of encypher it names.
LEMMA RoundUndone ==
    ASSUME NEW c \in Cyphers, NEW w \in Seq(Words), Len(w) = ScheduleWords[c],
           NEW tw \in [1..2 -> Words], NEW n \in 0..(rounds[c] - 1),
           NEW v \in [1..BlockWords[c] -> Words]
    PROVE  /\ Round(c, w, tw, n, v) \in [1..BlockWords[c] -> Words]
           /\ Unround(c, w, tw, n, Round(c, w, tw, n, v)) = v
<1>1. \A i \in 1..ScheduleWords[c] : w[i] \in Words
  OBVIOUS
<1>2. CASE c \in {"shacal", "shacal1"}
  <2>1. BlockWords[c] = 5 /\ rounds[c] = 80 /\ ScheduleWords[c] = 80
    BY <1>2 DEF BlockWords, rounds, ScheduleWords, Cyphers
  <2>2. n \in 0..79 /\ v \in [1..5 -> Words] /\ w[n + 1] \in Words
    <3>1. n \in 0..79 /\ n + 1 \in 1..80
      <4>1. n \in 0..79
        BY <2>1
      <4> QED BY <4>1
    <3>2. v \in [1..5 -> Words]
      BY <2>1
    <3>3. w[n + 1] \in Words
      BY <1>1, <2>1, <3>1
    <3> QED BY <3>1, <3>2, <3>3
  <2>3. /\ shacal_round(w, n, v) \in [1..5 -> Words]
        /\ shacal_unround(w, n, shacal_round(w, n, v)) = v
    BY <2>2, ShacalUndone
  <2> QED BY <1>2, <2>1, <2>3 DEF Round, Unround
<1>3. CASE c = "shacal2"
  <2>1. BlockWords[c] = 8 /\ rounds[c] = 64 /\ ScheduleWords[c] = 64
    BY <1>3 DEF BlockWords, rounds, ScheduleWords, Cyphers
  <2>2. n \in 0..63 /\ v \in [1..8 -> Words] /\ w[n + 1] \in Words
    <3>1. n \in 0..63 /\ n + 1 \in 1..64
      <4>1. n \in 0..63
        BY <2>1
      <4> QED BY <4>1
    <3>2. v \in [1..8 -> Words]
      BY <2>1
    <3>3. w[n + 1] \in Words
      BY <1>1, <2>1, <3>1
    <3> QED BY <3>1, <3>2, <3>3
  <2>3. /\ shacal2_round(w, n, v) \in [1..8 -> Words]
        /\ shacal2_unround(w, n, shacal2_round(w, n, v)) = v
    BY <2>2, Shacal2Undone
  <2> QED BY <1>3, <2>1, <2>3 DEF Round, Unround
<1>4. CASE c = "md4"
  <2>1. BlockWords[c] = 4 /\ rounds[c] = 48 /\ ScheduleWords[c] = 16
    BY <1>4 DEF BlockWords, rounds, ScheduleWords, Cyphers
  <2>2. n \in 0..47 /\ v \in [1..4 -> Words] /\ \A i \in 1..16 : w[i] \in Words
    BY <1>1, <2>1
  <2>3. /\ md4_round(w, n, v) \in [1..4 -> Words]
        /\ md4_unround(w, n, md4_round(w, n, v)) = v
    BY <2>2, Md4Undone
  <2> QED BY <1>4, <2>1, <2>3 DEF Round, Unround
<1>5. CASE c = "md5"
  <2>1. BlockWords[c] = 4 /\ rounds[c] = 64 /\ ScheduleWords[c] = 16
    BY <1>5 DEF BlockWords, rounds, ScheduleWords, Cyphers
  <2>2. n \in 0..63 /\ v \in [1..4 -> Words] /\ \A i \in 1..16 : w[i] \in Words
    BY <1>1, <2>1
  <2>3. /\ md5_round(w, n, v) \in [1..4 -> Words]
        /\ md5_unround(w, n, md5_round(w, n, v)) = v
    BY <2>2, Md5Undone
  <2> QED BY <1>5, <2>1, <2>3 DEF Round, Unround
<1>6. CASE c = "threefish"
  <2>1. BlockWords[c] = 4 /\ rounds[c] = 73 /\ ScheduleWords[c] = 5
    BY <1>6 DEF BlockWords, rounds, ScheduleWords, Cyphers
  <2>2. n \in 0..72 /\ v \in [1..4 -> Words] /\ \A i \in 1..5 : w[i] \in Words
    BY <1>1, <2>1
  <2>3. /\ threefish_round(w, tw, n, v) \in [1..4 -> Words]
        /\ threefish_unround(w, tw, n, threefish_round(w, tw, n, v)) = v
    BY <2>2, ThreefishUndone, ZenonT(60)
  <2> QED BY <1>6, <2>1, <2>3 DEF Round, Unround
<1> QED BY <1>2, <1>3, <1>4, <1>5, <1>6 DEF Cyphers

\* The schedules are made of words.
LEMMA NextIsWord ==
    ASSUME NEW c \in Cyphers, NEW w \in Seq(Words),
           Len(w) >= KeyWords[c], Len(w) < ScheduleWords[c]
    PROVE  NextWord(c, w) \in Words
<1>1. \A i \in 1..Len(w) : w[i] \in Words
  OBVIOUS
<1>2. \A x, y \in Words : Xor(x, y) \in Words
  BY WordAssumption
<1>3. CASE c \in {"shacal", "shacal1", "shacal2"}
  <2>1. Len(w) >= 16
    BY <1>3 DEF KeyWords, Cyphers
  <2> DEFINE n == Len(w)
  <2>2. /\ n - 1 \in 1..n /\ n - 2 \in 1..n /\ n - 6 \in 1..n /\ n - 7 \in 1..n
        /\ n - 13 \in 1..n /\ n - 14 \in 1..n /\ n - 15 \in 1..n
    BY <2>1
  <2>3. /\ w[n - 1] \in Words /\ w[n - 2] \in Words /\ w[n - 6] \in Words /\ w[n - 7] \in Words
        /\ w[n - 13] \in Words /\ w[n - 14] \in Words /\ w[n - 15] \in Words
    BY <1>1, <2>2
  <2>4. shacal_next(w) \in Words
    BY <1>2, <2>3 DEF shacal_next
  <2>5. shacal1_next(w) \in Words
    BY <2>4, WordAssumption DEF shacal1_next
  <2>6. shacal2_next(w) \in Words
    <3> DEFINE a == sigma_1(w[n - 1])
               b == w[n - 6]
               d == sigma_0(w[n - 14])
               e == w[n - 15]
    <3>1. a \in Words /\ b \in Words /\ d \in Words /\ e \in Words
      BY <2>3, FunctionsOfWords
    <3>2. a \in Int /\ b \in Int /\ d \in Int /\ e \in Int
      BY <3>1, WordsAreNumbers
    <3>3. shacal2_next(w) = word(a + b + d + e)
      BY DEF shacal2_next
    <3> HIDE DEF a, b, d, e
    <3>4. a + b + d + e \in Int
      BY <3>2
    <3> QED BY <3>3, <3>4, WordIs
  <2> QED BY <1>3, <2>4, <2>5, <2>6 DEF NextWord
<1>4. CASE c \in {"md4", "md5"}
  <2>1. KeyWords[c] = 16 /\ ScheduleWords[c] = 16
    BY <1>4 DEF KeyWords, ScheduleWords, Cyphers
  <2> QED BY <2>1
<1>5. CASE c = "threefish"
  <2>1. Len(w) >= 4 /\ constant(0) \in Words
    BY <1>5, InputAssumption DEF KeyWords, Cyphers
  <2>2. w[1] \in Words /\ w[2] \in Words /\ w[3] \in Words /\ w[4] \in Words
    BY <1>1, <2>1
  <2> QED BY <1>2, <1>5, <2>1, <2>2 DEF NextWord, threefish_next
<1> QED BY <1>3, <1>4, <1>5 DEF Cyphers
-----------------------------------------------------------------------------
\* Each block of the trail is a round behind the one before it, and the block
\* in hand is the next of the trail or, past its end, a round behind the last.
CypherInv ==
    /\ CypherTypeOK
    /\ pass = "prepare" => t = 0
    /\ \A n \in 1..(Len(trail) - 1) :
        trail[n + 1] = Round(cypher, schedule, tweak, n - 1, trail[n])
    /\ t < Len(trail) => block = trail[t + 1]
    /\ t > 0 /\ t = Len(trail) => block = Round(cypher, schedule, tweak, t - 1, trail[t])

\* The numbers of words and rounds of each cypher.
LEMMA Sizes ==
    ASSUME NEW c \in Cyphers
    PROVE  /\ rounds[c] \in Nat \ {0} /\ BlockWords[c] \in Nat
           /\ KeyWords[c] \in Nat /\ ScheduleWords[c] \in Nat /\ KeyWords[c] <= ScheduleWords[c]
  BY DEF rounds, BlockWords, KeyWords, ScheduleWords, Cyphers

\* A cypher starts with an empty trail.
LEMMA CypherStarts == CypherInit => CypherInv
<1> SUFFICES ASSUME CypherInit PROVE CypherInv
  OBVIOUS
<1>1. /\ cypher \in Cyphers /\ schedule \in [1..KeyWords[cypher] -> Words]
      /\ tweak \in [1..2 -> Words] /\ block \in [1..BlockWords[cypher] -> Words]
      /\ pass = "prepare" /\ t = 0 /\ trail = <<>>
  BY InputAssumption DEF CypherInit
<1>2. /\ rounds[cypher] \in Nat \ {0} /\ KeyWords[cypher] \in Nat
      /\ ScheduleWords[cypher] \in Nat /\ KeyWords[cypher] <= ScheduleWords[cypher]
  BY <1>1, Sizes
<1>3. schedule \in Seq(Words) /\ Len(schedule) = KeyWords[cypher]
  BY <1>1, <1>2
<1> QED BY <1>1, <1>2, <1>3 DEF CypherInv, CypherTypeOK

\* What every step may use.
LEMMA AtRound ==
    ASSUME CypherInv
    PROVE  /\ cypher \in Cyphers /\ schedule \in Seq(Words) /\ tweak \in [1..2 -> Words]
           /\ t \in Nat /\ t <= rounds[cypher] /\ rounds[cypher] \in Nat \ {0}
           /\ block \in [1..BlockWords[cypher] -> Words]
           /\ trail \in Seq([1..BlockWords[cypher] -> Words]) /\ Len(trail) \in Nat
           /\ pass # "prepare" => Len(schedule) = ScheduleWords[cypher]
  BY Sizes DEF CypherInv, CypherTypeOK

\* The schedule grows word by word, before any round.
LEMMA PrepareKeeps == CypherInv /\ Prepare => CypherInv'
<1> SUFFICES ASSUME CypherInv, Prepare PROVE CypherInv'
  OBVIOUS
<1>1. /\ pass = "prepare" /\ Len(schedule) < ScheduleWords[cypher]
      /\ schedule' = Append(schedule, NextWord(cypher, schedule))
      /\ cypher' = cypher /\ tweak' = tweak /\ pass' = pass /\ t' = t
      /\ block' = block /\ trail' = trail
  BY DEF Prepare
<1>2. /\ cypher \in Cyphers /\ schedule \in Seq(Words) /\ Len(schedule) >= KeyWords[cypher]
      /\ KeyWords[cypher] \in Nat /\ ScheduleWords[cypher] \in Nat
  BY Sizes DEF CypherInv, CypherTypeOK
<1>3. NextWord(cypher, schedule) \in Words
  BY <1>1, <1>2, NextIsWord
<1>4. /\ schedule' \in Seq(Words) /\ Len(schedule') = Len(schedule) + 1
      /\ Len(schedule') \in KeyWords[cypher]..ScheduleWords[cypher]
  BY <1>1, <1>2, <1>3
<1>5. CypherTypeOK'
  BY <1>1, <1>4 DEF CypherInv, CypherTypeOK
<1>6. t = 0 /\ Len(trail) = 0
  BY <1>1 DEF CypherInv, CypherTypeOK
<1> QED BY <1>1, <1>5, <1>6 DEF CypherInv

\* A round forward adds to the trail.
LEMMA EncypherKeeps == CypherInv /\ Encypher => CypherInv'
<1> SUFFICES ASSUME CypherInv, Encypher PROVE CypherInv'
  OBVIOUS
<1> DEFINE V == [1..BlockWords[cypher] -> Words]
           R(n, v) == Round(cypher, schedule, tweak, n, v)
<1>1. /\ pass = "encypher" /\ t < rounds[cypher]
      /\ block' = R(t, block) /\ trail' = Append(trail, block) /\ t' = t + 1
      /\ cypher' = cypher /\ schedule' = schedule /\ tweak' = tweak /\ pass' = pass
  BY DEF Encypher
<1>2. /\ cypher \in Cyphers /\ schedule \in Seq(Words) /\ tweak \in [1..2 -> Words]
      /\ t \in Nat /\ rounds[cypher] \in Nat \ {0} /\ block \in V /\ trail \in Seq(V)
      /\ Len(schedule) = ScheduleWords[cypher]
  BY <1>1, AtRound
<1>3. Len(trail) = t
  BY <1>1 DEF CypherInv, CypherTypeOK
<1>4. R(t, block) \in V
  <2>1. t \in 0..(rounds[cypher] - 1)
    BY <1>1, <1>2
  <2> QED BY <1>2, <2>1, RoundUndone
<1>5. /\ trail' \in Seq(V) /\ Len(trail') = t + 1 /\ trail'[t + 1] = block
      /\ \A n \in 1..t : trail'[n] = trail[n]
  BY <1>1, <1>2, <1>3
<1>6. CypherTypeOK'
  <2>1. t' \in 0..rounds[cypher]
    BY <1>1, <1>2
  <2> QED BY <1>1, <1>3, <1>4, <1>5, <2>1 DEF CypherInv, CypherTypeOK
<1>7. ASSUME NEW n \in 1..t
      PROVE  trail'[n + 1] = R(n - 1, trail'[n])
  <2>1. CASE n < t
    <3>1. n \in 1..(Len(trail) - 1) /\ n + 1 \in 1..t
      BY <1>2, <1>3, <2>1
    <3>2. trail[n + 1] = R(n - 1, trail[n])
      BY <3>1 DEF CypherInv
    <3>3. trail'[n + 1] = trail[n + 1] /\ trail'[n] = trail[n]
      BY <1>5, <3>1
    <3> QED BY <3>2, <3>3
  <2>2. CASE n = t
    <3>1. t > 0 /\ t \in 1..t
      BY <1>2, <2>2
    <3>2. block = R(t - 1, trail[t])
      BY <1>3, <3>1 DEF CypherInv
    <3> QED BY <1>5, <2>2, <3>1, <3>2
  <2> QED BY <1>2, <2>1, <2>2
<1>8. \A n \in 1..(Len(trail') - 1) :
        trail'[n + 1] = Round(cypher', schedule', tweak', n - 1, trail'[n])
  <2>1. Len(trail') - 1 = t
    BY <1>2, <1>5
  <2> QED BY <1>1, <1>7, <2>1
<1>9. block' = Round(cypher', schedule', tweak', t' - 1, trail'[t'])
  <2>1. t' - 1 = t
    BY <1>1, <1>2
  <2> QED BY <1>1, <1>5, <2>1
<1>10. ~(t' < Len(trail'))
  BY <1>1, <1>2, <1>5
<1> QED BY <1>1, <1>6, <1>8, <1>9, <1>10 DEF CypherInv

\* A round back arrives at the block before it on the trail.
LEMMA DecypherKeeps == CypherInv /\ Decypher => CypherInv'
<1> SUFFICES ASSUME CypherInv, Decypher PROVE CypherInv'
  OBVIOUS
<1> DEFINE V == [1..BlockWords[cypher] -> Words]
           R(n, v) == Round(cypher, schedule, tweak, n, v)
<1>1. /\ pass = "decypher" /\ t > 0
      /\ block' = Unround(cypher, schedule, tweak, t - 1, block) /\ t' = t - 1
      /\ cypher' = cypher /\ schedule' = schedule /\ tweak' = tweak
      /\ pass' = pass /\ trail' = trail
  BY DEF Decypher
<1>2. /\ cypher \in Cyphers /\ schedule \in Seq(Words) /\ tweak \in [1..2 -> Words]
      /\ t \in Nat /\ t <= rounds[cypher] /\ rounds[cypher] \in Nat \ {0}
      /\ block \in V /\ trail \in Seq(V) /\ Len(schedule) = ScheduleWords[cypher]
  BY <1>1, AtRound
<1>3. Len(trail) = rounds[cypher]
  BY <1>1 DEF CypherInv, CypherTypeOK
<1>4. t \in 1..Len(trail) /\ t - 1 \in 0..(rounds[cypher] - 1) /\ trail[t] \in V
  BY <1>1, <1>2, <1>3
<1>5. block = R(t - 1, trail[t])
  <2>1. CASE t < Len(trail)
    <3>1. t \in 1..(Len(trail) - 1)
      BY <1>2, <1>4, <2>1
    <3> QED BY <2>1, <3>1 DEF CypherInv
  <2>2. CASE t = Len(trail)
    BY <1>1, <2>2 DEF CypherInv
  <2> QED BY <1>4, <2>1, <2>2
<1>6. Unround(cypher, schedule, tweak, t - 1, R(t - 1, trail[t])) = trail[t]
  BY <1>2, <1>4, RoundUndone
<1>7. block' = trail[t]
  BY <1>1, <1>5, <1>6
<1>8. CypherTypeOK'
  <2>1. t' \in 0..rounds[cypher]
    BY <1>1, <1>2
  <2> QED BY <1>1, <1>4, <1>7, <2>1 DEF CypherInv, CypherTypeOK
<1>9. t' + 1 = t /\ t' < Len(trail)
  BY <1>1, <1>2, <1>4
<1>10. t' # Len(trail)
  BY <1>1, <1>4
<1> QED BY <1>1, <1>7, <1>8, <1>9, <1>10 DEF CypherInv

\* Every step of a cypher keeps its invariant.
LEMMA CypherKeeps == CypherInv /\ [CypherNext]_cypherVars => CypherInv'
<1> SUFFICES ASSUME CypherInv, [CypherNext]_cypherVars PROVE CypherInv'
  OBVIOUS
<1>1. CASE Prepared
  BY <1>1, AtRound DEF Prepared, CypherInv, CypherTypeOK
<1>2. CASE Encyphered
  <2>1. /\ pass' = "decypher" /\ t = rounds[cypher] /\ pass = "encypher"
        /\ UNCHANGED <<cypher, schedule, tweak, t, block, trail>>
    BY <1>2 DEF Encyphered
  <2> QED BY <2>1, AtRound DEF CypherInv, CypherTypeOK
<1>3. CASE UNCHANGED cypherVars
  BY <1>3 DEF cypherVars, CypherInv, CypherTypeOK
<1> QED BY <1>1, <1>2, <1>3, PrepareKeeps, EncypherKeeps, DecypherKeeps DEF CypherNext

\* decypher of any cypher takes encypher's steps back one by one, whatever the
\* width of the words, the constants of the rounds, the key and the block.
THEOREM CyphersGoBack == CypherSpec => []Retraces
<1>1. CypherInv => Retraces
  BY DEF CypherInv, Retraces
<1> QED BY <1>1, CypherStarts, CypherKeeps, PTL DEF CypherSpec
=============================================================================
