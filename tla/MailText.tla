------------------------------- MODULE MailText -------------------------------
(* The text of a mail: the Qt writer's quoted-printable, its lines and its    *)
(* parts (src/mime), and the folded headers and the parts that                *)
(* internet_mail_format.hpp writes and reads.  A text is a row of octets.     *)
EXTENDS Integers, SequencesExt, FiniteSets

CR == 13
LF == 10
Equals == 61

-----------------------------------------------------------------------------
(* Quoted-printable *)

hex(digit) == IF digit < 10 THEN 48 + digit ELSE 55 + digit

Escape(byte) == <<Equals, hex(byte \div 16), hex(byte % 16)>>

encode(input) ==
    FlattenSeq([k \in 1..Len(input) |->
        IF input[k] \in 32..126 \ {Equals} THEN <<input[k]>> ELSE Escape(input[k])])

\* The table has zeros between "9" and "A".
hexVal(x) == IF x < 10 THEN x ELSE IF x < 17 THEN 0 ELSE x - 7

decode(input) ==
    LET Digit(c) == c - 48 \in 0..22
        last[n \in 0..Len(input)] ==   \* of the last n characters
            LET k == Len(input) - n + 1 IN
            IF n = 0 THEN <<>>
            ELSE IF n < 3 \/ input[k] # Equals THEN <<input[k]>> \o last[n - 1]
            ELSE (IF Digit(input[k + 1]) /\ Digit(input[k + 2])
                  THEN <<(hexVal(input[k + 1] - 48) * 16 + hexVal(input[k + 2] - 48)) % 256>>
                  ELSE SubSeq(input, k, k + 2)) \o last[n - 3]
    IN last[Len(input)]

\* MimeQPFormatter::writeData.  chars is not told of the "=" that begins the
\* line after the second kind of break.
MimeQPFormatter(data, lineLength) ==
    LET Put(st, text, chars) == [out |-> st.out \o text, chars |-> chars]
        Write(st, c) ==
            LET chars == st.chars + 1 IN
            CASE c = LF -> Put(st, <<c>>, 0)
              [] c = Equals /\ chars > lineLength - 3 -> Put(st, <<Equals, CR, LF, Equals>>, 0)
              [] chars = lineLength - 1 /\ c # LF /\ c # Equals ->
                    Put(st, <<c, Equals, CR, LF>>, 0)
              [] OTHER -> Put(st, <<c>>, chars)
    IN FoldLeft(Write, [out |-> <<>>, chars |-> 0], data).out

\* MimeBase64Formatter::writeData; C++ divides towards zero.
MimeBase64Formatter(data, lineLength) ==
    LET lines == IF data = <<>> THEN 1 ELSE (Len(data) - 1) \div lineLength + 1 IN
    FlattenSeq([i \in 1..lines |->
        SubSeq(data, (i - 1) * lineLength + 1,
               IF i = lines THEN Len(data) ELSE i * lineLength) \o <<CR, LF>>])

\* What MimeMessage::format puts between "=?utf-8?Q?" and "?=".
format(text) ==
    FlattenSeq([k \in 1..Len(encode(text)) |->
        LET c == encode(text)[k] IN
        CASE c = 32 -> <<95>> [] c = 58 -> Escape(58) [] OTHER -> <<c>>])
-----------------------------------------------------------------------------
(* Headers *)

\* std::getline until the end of the stream; what is behind the last LF is a
\* line as well, with which the end is met.
getlines(text) ==
    LET Cut(lines, c) == IF c = LF THEN Append(lines, <<>>)
                         ELSE Append(Front(lines), Append(Last(lines), c))
    IN FoldLeft(Cut, << <<>> >>, text)

\* boost::split at ";".
mail_address_split(line) ==
    LET Cut(mails, c) == IF c = 59 THEN Append(mails, <<>>)
                         ELSE Append(Front(mails), Append(Last(mails), c))
    IN FoldLeft(Cut, << <<>> >>, line)

\* xpos is one less than the length of the last line.
checked_newline_append(to, add, limit) ==
    LET xpos == Len(to) - 1 - Max({0} \cup {k \in 1..Len(to) : to[k] \in {CR, LF}})
    IN (IF xpos + Len(add) >= limit THEN to \o <<CR, LF, 9>> ELSE to) \o add

\* Addresses without a name in front of them.
Addresses(line) == [k \in 1..Len(mail_address_split(line)) |->
                        mail_address_split(line)[k] \o <<59, 32>>]

\* imf_write_stream, its loop over the headers; a header is [key, pieces].
imf_write_headers(headers, limit) ==
    LET Write(to, h) ==
            FoldLeft(LAMBDA text, piece : checked_newline_append(text, piece, limit),
                     to \o h.key \o <<58, 32>>, h.pieces) \o <<CR, LF>>
    IN FoldLeft(Write, <<>>, headers)

Space == 9..13 \cup {32}

trim_left(line) ==
    LET kept == {k \in 1..Len(line) : line[k] \notin Space} IN
    IF kept = {} THEN <<>> ELSE SubSeq(line, Min(kept), Len(line))
trim_right(line) == SubSeq(line, 1, Max({0} \cup {k \in 1..Len(line) : line[k] \notin Space}))

to_lower(key) == [k \in 1..Len(key) |-> IF key[k] \in 65..90 THEN key[k] + 32 ELSE key[k]]

\* The header a line holds, if it holds one: a key up to the first colon, and
\* a blank behind that.  The value is not touched: the pattern of
\* imf_base64inline_decode fits no encoded word.
process_line(line) ==
    LET colons == {k \in 1..Len(line) : line[k] = 58} IN
    IF colons = {} \/ Min(colons) = Len(line) THEN {}
    ELSE LET c == Min(colons)
             rest == SubSeq(line, c + 1, Len(line))
             text == {k \in 1..Len(rest) : rest[k] \notin {9, 32}}
         IN IF rest[1] \notin {9, 32} THEN {}
            ELSE {[key |-> to_lower(SubSeq(line, 1, c - 1)),
                   value |-> IF text = {} THEN <<>> ELSE SubSeq(rest, Min(text), Len(rest))]}

\* imf_read_stream up to the decoding of the body.  The first line is not
\* trimmed; a line is a header only when the one behind it has been seen.
imf_read_stream(text) ==
    LET lines == getlines(text)
        Read(st, raw) ==
            LET line == trim_right(raw) IN
            CASE st.body # <<>> -> [st EXCEPT !.body = @ \o raw \o <<LF>>]
              [] st.body = <<>> /\ line # <<>> /\ line[1] \in Space ->
                    [st EXCEPT !.pre_line = @ \o trim_left(line)]
              [] st.body = <<>> /\ st.pre_line = <<>> /\ line # <<>> /\ line[1] \notin Space ->
                    [st EXCEPT !.body = line \o <<CR, LF>>]
              [] OTHER ->
                    [st EXCEPT !.pre_line = line,
                               !.header = @ \cup {h \in process_line(st.pre_line) :
                                                    \A g \in st.header : g.key # h.key}]
    IN FoldLeft(Read, [pre_line |-> lines[1], header |-> {}, body |-> <<>>], Tail(lines))
-----------------------------------------------------------------------------
(* Parts: rows of lines, a line being an octet; a boundary is two lines more, *)
(* "--b" and "--b--".                                                         *)

Begins == 256
Ends   == 257

\* MimeMultiPart::writeContent
writeContent(parts) ==
    FlattenSeq([k \in 1..Len(parts) |-> <<Begins>> \o parts[k]]) \o <<Ends>>

\* mime_read_stream: within the parts, either boundary ends one.
mime_read_stream(lines) ==
    LET Read(st, line) ==
            CASE ~st.inside -> [st EXCEPT !.inside = (line = Begins)]
              [] st.inside /\ line \in {Begins, Ends} ->
                    [st EXCEPT !.parts = Append(@, st.part), !.part = <<>>]
              [] OTHER -> [st EXCEPT !.part = Append(@, line)]
    IN FoldLeft(Read, [inside |-> FALSE, part |-> <<>>, parts |-> <<>>], lines).parts
-----------------------------------------------------------------------------
(* Properties *)

\* Reference: the lines of a text in which each line ends with CR LF.
LinesOf(text) == [k \in 1..Len(getlines(text)) |->
                    SelectSeq(getlines(text)[k], LAMBDA c : c # CR)]
Letters(text) == SelectSeq(text, LAMBDA c : c \notin Space)

\* Every line decodes by itself, so that no escape is cut in two, and the lines
\* together are the input; no line is longer than the limit by more than the
\* "=" that is not counted.
QuotedHolds(input, lineLength) ==
    LET lines == LinesOf(MimeQPFormatter(encode(input), lineLength))
        n == Len(lines)
        Unbroken(k) == IF k < n THEN Front(lines[k]) ELSE lines[k]
    IN /\ decode(encode(input)) = input
       /\ FlattenSeq([k \in 1..n |-> decode(Unbroken(k))]) = input
       /\ \A k \in 1..n : Len(lines[k]) <= lineLength + 1 /\ (k < n => Last(lines[k]) = Equals)

\* The lines are full but for the last, and together they are the data.
LinesHold(data, lineLength) ==
    LET lines == LinesOf(MimeBase64Formatter(data, lineLength)) IN
    /\ FlattenSeq(lines) = data /\ Last(lines) = <<>>
    /\ \A k \in 1..(Len(lines) - 2) : Len(lines[k]) = lineLength
    /\ Len(lines[Len(lines) - 1]) \in (IF data = <<>> THEN {0} ELSE 1..lineLength)

\* A name without "_" in it comes back by way of RFC 2047, in which "_" is a
\* blank.  Of a name with one this is not said: format writes blanks as "_" and
\* leaves a "_" as it is.
NameHolds(text) ==
    95 \notin Range(text) =>
        decode([k \in 1..Len(format(text)) |->
                    IF format(text)[k] = 95 THEN 32 ELSE format(text)[k]]) = text

\* Two headers, "a" and "b", with the same addresses, those in line.
Written(line, limit) ==
    imf_write_headers([k \in 1..2 |-> [key |-> <<96 + k>>, pieces |-> Addresses(line)]], limit)

\* The headers as written, one more, "c", and a body.
ReadBack(line, limit) ==
    imf_read_stream(Written(line, limit) \o <<99, 58, 32, 99, CR, LF, CR, LF, 66, CR, LF>>)

\* The value a header of these has when it is read, if it is.
Values(line, limit, key) ==
    {Letters(h.value) : h \in {g \in ReadBack(line, limit).header : g.key = key}}

\* No line is over the limit but one address alone.  What is read of a header
\* is what was written, with the same letters; a header that is not folded is
\* not lost, nor is the body.
HeadersHold(line, limit) ==
    LET pieces == Addresses(line)
        sent == Letters(FlattenSeq(pieces))
        lines == LinesOf(Written(line, limit))
    IN /\ \A k \in 1..Len(lines) :
            Len(lines[k]) <= limit \/ \E p \in 1..Len(pieces) : lines[k] = <<9>> \o pieces[p]
       /\ \A key \in {<<97>>, <<98>>} : Values(line, limit, key) \subseteq {sent}
       /\ 3 + Len(FlattenSeq(pieces)) < limit => Values(line, limit, <<98>>) = {sent}
       /\ Values(line, limit, <<99>>) = {<<99>>}
       /\ Letters(ReadBack(line, limit).body) = <<66>>

\* What the writer writes between its boundaries is what the reader finds, and
\* of a mail that breaks off the last part is missing.
PartsHold(line) ==
    LET parts == mail_address_split(line) IN
    /\ mime_read_stream(<<0>> \o writeContent(parts)) = parts
    /\ mime_read_stream(Front(writeContent(parts))) = Front(parts)

\* All of these, of one input.
MailTextHolds(input) ==
    /\ NameHolds(input) /\ PartsHold(input)
    /\ \A lineLength \in 4..8 : QuotedHolds(input, lineLength) /\ LinesHold(input, lineLength)
    /\ \A limit \in 6..10 : HeadersHold(input, limit)
=============================================================================
