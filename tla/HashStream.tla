------------------------------ MODULE HashStream ------------------------------
(* boost/hash: stream_preprocessor.hpp feeds a block hash, the one of         *)
(* merkle_damgard_block_hash.hpp over davies_meyer_compressor.hpp, with the   *)
(* blocks of a message that comes in pieces.  What the compressor makes of a  *)
(* block is left open: the state of the block hash is the row of blocks that  *)
(* went into it.                                                              *)
EXTENDS HashPack

CONSTANTS Layouts,    \* records [value_bits, word_bits, block_bits, length_bits]
          Values,     \* the values a message is made of
          MaxValues   \* bound: how many values a message has

VARIABLES endian, layout,
          hash,      \* the stream_preprocessor: [value_array, seen, state]
          message,   \* history: the values since the last message ended
          digest,    \* what the last call returned, end_message or digest
          digested   \* history: the message it was asked for

vars == <<endian, layout, hash, message, digest, digested>>

BlockValues == layout.block_bits \div layout.value_bits
BlockWords == layout.block_bits \div layout.word_bits

\* seen is a number of length_type_bits bits and wraps.
LengthTypeBits ==
    IF layout.length_bits < layout.word_bits THEN layout.word_bits ELSE layout.length_bits
Wrap(n) == n % (2 ^ LengthTypeBits)

Pack(from, to, values) == pack(endian, from, to, values)

NoValue == {}   \* value_type()

Fresh == [value_array |-> [j \in 1..BlockValues |-> NoValue], seen |-> 0, state |-> <<>>]

\* block_hash.update: the compressor encyphers the state with the block as key.
Compress(state, block) == Append(state, block)

\* seen is needed only for the length.
Seen(n) == IF layout.length_bits = 0 THEN 0 ELSE n

update_one(h, value) ==
    LET i    == h.seen % layout.block_bits
        va   == [j \in 1..BlockValues |->
                    IF j = i \div layout.value_bits + 1 THEN value ELSE h.value_array[j]]
        seen == Wrap(h.seen + layout.value_bits) IN
    IF i = layout.block_bits - layout.value_bits
    THEN [value_array |-> va, seen |-> Seen(seen),
          state |-> Compress(h.state, Pack(layout.value_bits, layout.word_bits, va))]
    ELSE [value_array |-> va, seen |-> seen, state |-> h.state]

OneByOne(h, values) == FoldLeft(update_one, h, values)

\* A block that is taken as a whole: value_array is not written.
whole_block(h, block) ==
    [value_array |-> h.value_array, seen |-> Seen(Wrap(h.seen + layout.block_bits)),
     state |-> Compress(h.state, Pack(layout.value_bits, layout.word_bits, block))]

\* Faulty variant of update_n: whole blocks from wherever the last one stands.
update_n_unaligned(h, values) ==
    LET blocks == Len(values) \div BlockValues IN
    OneByOne(FoldLeft(whole_block, h,
                [b \in 1..blocks |->
                    SubSeq(values, (b - 1) * BlockValues + 1, b * BlockValues)]),
             SubSeq(values, blocks * BlockValues + 1, Len(values)))

\* One by one to the end of the block, then block by block, then the rest.
update_n(h, values) ==
    LET left    == (BlockValues - ((h.seen % layout.block_bits) \div layout.value_bits))
                     % BlockValues
        first   == IF left < Len(values) THEN left ELSE Len(values)
        blocks  == (Len(values) - first) \div BlockValues
        From(b) == first + (b - 1) * BlockValues
        aligned == OneByOne(h, SubSeq(values, 1, first)) IN
    OneByOne(FoldLeft(whole_block, aligned,
                [b \in 1..blocks |-> SubSeq(values, From(b) + 1, From(b + 1))]),
             SubSeq(values, From(blocks + 1) + 1, Len(values)))

\* imploder_step: a one, then zeros.
PadValue == unbounded_shl(Shift(endian, layout.value_bits, 1, 0), {0})

\* Zeros until there is just room for the length; TLC's recursion is a
\* function of how many are still wanted.
PadZeros(h) ==
    LET n == CHOOSE n \in 0..(BlockValues - 1) :
                (h.seen + n * layout.value_bits + layout.length_bits) % layout.block_bits = 0
    IN OneByOne(h, [j \in 1..n |-> NoValue])

\* The last words of the last block hold the length.
append_length(h, length) ==
    LET words == Pack(layout.length_bits, layout.word_bits,
                      <<{p \in 0..(layout.length_bits - 1) : (length \div 2 ^ p) % 2 = 1}>>)
        block == Pack(layout.value_bits, layout.word_bits, h.value_array) IN
    IF layout.length_bits = 0 THEN h.state
    ELSE Compress(h.state, SubSeq(block, 1, BlockWords - Len(words)) \o words)

\* The digest; the object is as new afterwards, but for value_array.
end_message(h) ==
    LET padded == PadZeros(update_one(h, PadValue)) IN
    [digest |-> append_length(padded, h.seen),
     hash   |-> [value_array |-> padded.value_array, seen |-> 0, state |-> <<>>]]

\* compute_digest in all its forms: one object for one message.
compute_digest(values) == end_message(update_n(Fresh, values)).digest
-----------------------------------------------------------------------------
Init ==
    /\ endian \in Endians
    /\ layout \in Layouts
    /\ hash = Fresh
    /\ message = <<>> /\ digest = <<>> /\ digested = <<>>

Pieces == SeqOf(Values, MaxValues - Len(message))

\* update(b, e, Category) for iterators that only go forward.
UpdateOne ==
    \E v \in Values :
        /\ Len(message) < MaxValues
        /\ hash' = update_one(hash, v)
        /\ message' = Append(message, v)
        /\ digest' = <<>> /\ digested' = <<>>
        /\ UNCHANGED <<endian, layout>>

UpdateN ==
    \E piece \in Pieces :
        /\ hash' = update_n(hash, piece)
        /\ message' = message \o piece
        /\ digest' = <<>> /\ digested' = <<>>
        /\ UNCHANGED <<endian, layout>>

EndMessage ==
    /\ hash' = end_message(hash).hash
    /\ digest' = end_message(hash).digest
    /\ digested' = message
    /\ message' = <<>>
    /\ UNCHANGED <<endian, layout>>

\* digest() works on a copy.
Digest ==
    /\ digest' = end_message(hash).digest
    /\ digested' = message
    /\ UNCHANGED <<endian, layout, hash, message>>

Reset ==
    /\ hash' = [hash EXCEPT !.seen = 0, !.state = <<>>]
    /\ message' = <<>>
    /\ digest' = <<>> /\ digested' = <<>>
    /\ UNCHANGED <<endian, layout>>

Next == UpdateOne \/ UpdateN \/ EndMessage \/ Digest \/ Reset

Spec == Init /\ [][Next]_vars
-----------------------------------------------------------------------------
(* Properties *)

MessageBits(values) == Stream(endian, layout.value_bits, values)
BlockBits(blocks) == Stream(endian, layout.word_bits, FlattenSeq(blocks))

Zeros(n) == [i \in 1..n |-> 0]

\* The padding of Merkle and Damgard: the message, a one, as few zeros as
\* possible, the length of the message.
Padded(values) ==
    LET bits == MessageBits(values)
        room == layout.block_bits - ((Len(bits) + 1 + layout.length_bits) % layout.block_bits)
        length == {p \in 0..(layout.length_bits - 1) : (Len(bits) \div 2 ^ p) % 2 = 1} IN
    bits \o <<1>> \o Zeros(room % layout.block_bits)
         \o (IF layout.length_bits = 0 THEN <<>>
             ELSE Stream(endian, layout.length_bits, <<length>>))

\* In whatever pieces a message comes, and whatever message came before it, the
\* blocks taken so far and the values kept are its bits in their order.
Absorbs ==
    LET kept == (hash.seen % layout.block_bits) \div layout.value_bits IN
    BlockBits(hash.state) \o MessageBits(SubSeq(hash.value_array, 1, kept))
        = MessageBits(message)

\* The digest is that of the padded message, and the same however it was made.
DigestOfPadded ==
    digest # <<>> => /\ BlockBits(digest) = Padded(digested)
                     /\ digest = compute_digest(digested)
=============================================================================
