------------------------------- MODULE MCParts -------------------------------
(* The parts that need little to be checked, one beside the other: an         *)
(* execution is one of them, the variables of the others stand still.  The    *)
(* main window with its crawler and the table of threads, the table alone, a  *)
(* connection through a chain of proxies, and the algorithms: CubeHash with   *)
(* words of three bits, the block cyphers with words of four, the block hash  *)
(* with bytes of two; the codecs, checksums and widths of a row of values,    *)
(* the input.                                                                 *)
EXTENDS TianyaWindow, CubeHash, BlockCypher, ProxyChain, FiniteSetsExt

VARIABLES part, input,
          endian, layout, hash, message, digest, digested                 \* HashStream

hashVars == <<endian, layout, hash, message, digest, digested>>

-----------------------------------------------------------------------------
(* Words of bits *)

Bits(n, x) == {i \in 0..(n - 1) : (x \div 2 ^ i) % 2 = 1}
Value(S)   == MapThenSumSet(LAMBDA i : 2 ^ i, S)
Apart(S, T) == (S \cup T) \ (S \cap T)

MCWord == 0..7
MCXor32(x, y) == Value(Apart(Bits(3, x), Bits(3, y)))
MCAdd(x, y) == (x + y) % 8
MCROTL7(x)  == ((x * 2) % 8) + (x \div 4)
MCROTL11(x) == ((x * 4) % 8) + (x \div 2)
MCParameters == <<4, 5, 1>>
MCBlocks == {<<3, 6>>, <<>>}

AndTable == [x, y \in 0..15 |-> Value(Bits(4, x) \cap Bits(4, y))]
OrTable  == [x, y \in 0..15 |-> Value(Bits(4, x) \cup Bits(4, y))]

And4(x, y)   == AndTable[x, y]
Or4(x, y)    == OrTable[x, y]
Xor4(x, y)   == OrTable[x, y] - AndTable[x, y]
Not4(x)      == 15 - x
SHL4(x, n)   == IF n > 3 THEN 0 ELSE (x * 2 ^ n) % 16
SHR4(x, n)   == IF n > 3 THEN 0 ELSE x \div 2 ^ n
constant4(n) == (7 * n + 5) % 16

Row(n, step) == [i \in 1..n |-> (i * step + ((i * i) \div 3)) % 16]

MCKeys == [c \in Cyphers |-> {Row(KeyWords[c], 5), Row(KeyWords[c], 11)}]
MCPlaintexts == [c \in Cyphers |-> {Row(BlockWords[c], 3), Row(BlockWords[c], 7)}]
MCTweaks == {<<0, 0>>, <<9, 14>>}

\* A length of two words in blocks of four, of one in blocks of two, and, as
\* for a hash that takes no length, none.
Hash == INSTANCE HashStream WITH
    CharBit <- 2,
    Layouts <- {[value_bits |-> 2, word_bits |-> 4, block_bits |-> 16, length_bits |-> 8],
                [value_bits |-> 1, word_bits |-> 2, block_bits |-> 4, length_bits |-> 2],
                [value_bits |-> 4, word_bits |-> 4, block_bits |-> 8, length_bits |-> 0]},
    Values <- {{0}, {}}, MaxValues <- 5

Url      == INSTANCE UrlEncode
Coded    == INSTANCE Base64
Digests  == INSTANCE Digest
Checksum == INSTANCE Adler
Columns  == INSTANCE WcWidth
Mail     == INSTANCE MailText

-----------------------------------------------------------------------------
(* The parts *)

Info(post_url, hits) == [post_url |-> post_url, hits |-> hits]

\* A list that moves: a thread comes again with more clicks, one with as many.
MovingList == <<Info("a", 2), Info("b", 1), Info("a", 3), Info("b", 1)>>

\* Chains added from the last hop to the first, up to three proxies.
Outward == {<<"tcp">>, <<"socks5", "tcp">>, <<"socks5", "socks5", "tcp">>,
            <<"http", "tcp">>, <<"http", "socks5", "socks5", "tcp">>}

\* Characters that are escaped and not, octets at the ends of their range,
\* and one character of every width.
Alphabet ==
    [url |-> {37, 45, 65, 127, 233}, base64 |-> {0, 1, 90, 255},
     digest |-> {0, 1, 2, 3}, mail |-> {32, 58, 59, 95, 195}, adler |-> {0, 254, 255}, width |-> {0, 7, 65, 161, 768, 4352}]
MaxLength == [url |-> 4, base64 |-> 5, digest |-> 5, mail |-> 4, adler |-> 32, width |-> 4]

CypherRests ==
    /\ CypherInit
    /\ cypher = "md4" /\ schedule = Row(16, 5) /\ tweak = <<0, 0>> /\ block = Row(4, 3)

HashRests ==
    /\ endian = <<>> /\ layout = <<>> /\ hash = <<>>
    /\ message = <<>> /\ digest = <<>> /\ digested = <<>>

\* A chain at rest has connected.
ChainRests ==
    /\ adds = <<"tcp">> /\ level = 0 /\ stage = "done" /\ ec = "ok"
    /\ path = <<"tcp">> /\ told = <<"ok">>
    /\ reading = FALSE /\ status = "none"

PartsInit ==
    /\ part \in {"window", "table", "chain", "cube", "cypher", "hash"} \cup DOMAIN Alphabet
    /\ Init /\ CubeInit /\ input = <<>>
    /\ IF part = "chain" THEN ChainInit ELSE ChainRests
    /\ IF part = "cypher" THEN CypherInit ELSE CypherRests
    /\ IF part = "hash" THEN Hash!Init ELSE HashRests

\* The program; or the table alone, with any row at any time.
Window == part = "window" /\ Next
TableAlone ==
    /\ part = "table" /\ Update /\ delivered' = arrived'
    /\ UNCHANGED <<phase, io, work, gui, gui_queue, win, shown>>

Chain == part = "chain" /\ ChainNext

\* The input grows; for a checksum, in which the order of what came long ago
\* does not matter, it goes on as it began.
Grow ==
    /\ part \in DOMAIN Alphabet
    /\ Len(input) < MaxLength[part]
    /\ \E v \in Alphabet[part] :
        /\ part = "adler" /\ Len(input) > 1 => v = input[Len(input)]
        /\ input' = Append(input, v)

Algorithms ==
    \/ part = "cube" /\ CubeNext /\ UNCHANGED <<input, cypherVars, hashVars>>
    \/ part = "cypher" /\ CypherNext /\ UNCHANGED <<input, cubeVars, hashVars>>
    \/ part = "hash" /\ Hash!Next /\ UNCHANGED <<input, cubeVars, cypherVars>>
    \/ Grow /\ UNCHANGED <<cubeVars, cypherVars, hashVars>>

algorithmVars == <<input, cubeVars, cypherVars, hashVars>>

PartsNext ==
    /\ \/ (Window \/ TableAlone) /\ UNCHANGED <<chainVars, algorithmVars>>
       \/ Chain /\ UNCHANGED <<vars, algorithmVars>>
       \/ Algorithms /\ UNCHANGED <<vars, chainVars>>
    /\ UNCHANGED part

partsVars == <<part, vars, chainVars, algorithmVars>>

\* The fairness of the program's two threads and of the chain.
PartsSpec ==
    /\ PartsInit /\ [][PartsNext]_partsVars
    /\ WF_vars(part = "window" /\ Io) /\ WF_vars(part = "window" /\ GuiEvent)
    /\ WF_vars(part = "window" /\ GuiShutdown) /\ WF_chainVars(Chain)
-----------------------------------------------------------------------------
(* Properties *)

\* stream_preprocessor: in whatever pieces a message comes, its bits are
\* absorbed in order and the digest is that of the padded message
\* (HashStream, Absorbs and DigestOfPadded).
HashesTheMessage == part = "hash" => Hash!Absorbs /\ Hash!DigestOfPadded

\* adler.hpp, primes.hpp: the fast sums are exact for every input, and the
\* moduli are the largest primes (Adler).
AdlerExact ==
    part = "adler" =>
        /\ \A width \in {8, 16} : Checksum!AdlerExact(width, input)
        /\ input = <<>> => \A width \in 2..12 : Checksum!LargestPrimes(width)

\* urlencode.hpp, base64.hpp, digest.hpp and internet_mail_format.hpp: a URL
\* comes back from its encoding (UrlEncode), a digest from its string, and
\* digests of any three lengths are in one order (Digest); a text of base64
\* holds what was encoded (Base64); what is read of a mail is what was written
\* (MailText).  Of a padded text of base64 and of a header folded before its
\* first piece it does not say that they come back: base64_decode and
\* imf_read_stream lose a part of them.
CodecsExact ==
    /\ part = "url" => Url!UrlEncodesBack(input)
    /\ part = "base64" => Coded!Base64Holds(input)
    /\ part = "mail" => Mail!MailTextHolds(input)
    /\ part = "digest" =>
        \A i, j \in 0..Len(input) : i <= j =>
            Digests!DigestsInOrder(SubSeq(input, 1, i), SubSeq(input, i + 1, j),
                                   SubSeq(input, j + 1, Len(input)), 4)

\* wcwidth.c: the tables are found by the search in full, a character is as
\* wide as the comment before mk_wcwidth says, and the width of a string is the
\* sum of those of its characters (WcWidth).
WidthsAdd ==
    part = "width" =>
        /\ \A n \in 0..(Len(input) + 1) : Columns!WidthsAdd(input, n)
        /\ input = <<>> => Columns!TablesAreSearched /\ Columns!WidthsNamed
=============================================================================
