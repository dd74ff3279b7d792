------------------------------ MODULE UrlEncode ------------------------------
(* boost/urlencode.hpp: url_encode_iterator walks over a string and shows the *)
(* characters of its URL encoding.  Characters are their codes.  An iterator  *)
(* over the string s is [base, buf, pos]: m_baseposition counted from 1,      *)
(* cur_char_buf and cur_char_pos.                                             *)
EXTENDS Integers, SequencesExt, FiniteSets

to_hex(digit) == IF digit < 10 THEN 48 + digit ELSE 55 + digit

isalnum(c) == c \in 48..57 \/ c \in 65..90 \/ c \in 97..122

\* "-", "_", "." and "~" too.
need_encode(c) == ~isalnum(c) /\ c \notin {45, 95, 46, 126}

\* *m_baseposition; a string has a NUL behind its last character, and only
\* there does an iterator stand outside of it.
At(s, base) == IF base <= Len(s) THEN s[base] ELSE 0

fill_current(s, base) ==
    LET c == At(s, base) IN
    [base |-> base, pos |-> 0,
     buf |-> IF need_encode(c) THEN <<37, to_hex(c \div 16), to_hex(c % 16)>>
             ELSE <<0, 0, 0>>]

base_inc(s, it) == fill_current(s, it.base + 1)

\* Faulty variant of inc: the last character of the buffer is never shown.
inc_short(s, it) ==
    IF need_encode(At(s, it.base)) /\ it.pos + 1 <= 1
    THEN [it EXCEPT !.pos = @ + 1] ELSE base_inc(s, it)

inc(s, it) ==
    IF need_encode(At(s, it.base)) /\ it.pos + 1 <= 2 /\ it.buf[it.pos + 2] # 0
    THEN [it EXCEPT !.pos = @ + 1]
    ELSE base_inc(s, it)

url_encode_iterator(s, base) == fill_current(s, base)

\* operator*
Shown(s, it) == IF need_encode(At(s, it.base)) THEN it.buf[it.pos + 1] ELSE At(s, it.base)

\* operator==
Equal(a, b) == a.base = b.base /\ a.pos = b.pos

\* operator-: cur_char_pos plays no part in it.
Distance(s, a, b) ==
    (a.base - b.base)
      + 2 * Cardinality({k \in b.base..(a.base - 1) : need_encode(s[k])})

\* A copy from the begin to the end; every step goes at most three places on.
Walk(s) ==
    LET end == url_encode_iterator(s, Len(s) + 1)
        it[n \in 0..(3 * Len(s))] ==
            IF n = 0 THEN url_encode_iterator(s, 1)
            ELSE IF Equal(it[n - 1], end) THEN end ELSE inc(s, it[n - 1])
        first == CHOOSE n \in 0..(3 * Len(s)) :
                    Equal(it[n], end) /\ \A m \in 0..(n - 1) : ~Equal(it[m], end)
    IN [text |-> [n \in 1..first |-> Shown(s, it[n - 1])],
        length |-> Distance(s, end, it[0])]
-----------------------------------------------------------------------------
(* Properties *)

\* Reference: what is left of a text when the escapes are taken back.
HexDigit(c) == IF c \in 48..57 THEN c - 48 ELSE c - 55

Decoded(text) ==
    LET f[n \in 0..Len(text)] ==   \* of the last n characters
            IF n = 0 THEN <<>>
            ELSE LET k == Len(text) - n + 1 IN
                 IF text[k] = 37 /\ n >= 3
                 THEN <<16 * HexDigit(text[k + 1]) + HexDigit(text[k + 2])>> \o f[n - 3]
                 ELSE <<text[k]>> \o f[n - 1]
    IN f[Len(text)]

\* The encoding of s decodes to s, has in it only characters a URL may hold,
\* and is as long as operator- says.
UrlEncodesBack(s) ==
    LET walk == Walk(s) IN
    /\ Decoded(walk.text) = s
    /\ \A k \in 1..Len(walk.text) : walk.text[k] = 37 \/ ~need_encode(walk.text[k])
    /\ walk.length = Len(walk.text)
=============================================================================
