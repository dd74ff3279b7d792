------------------------------ MODULE SmtpProofs ------------------------------
(* Theorems about Smtp, for any number of recipients and of retries, any      *)
(* server and any way in which answers are cut, and about ProxyChain, through *)
(* which it connects, for chains of any length and any number of times the    *)
(* http hop's read comes back.                                                *)
EXTENDS Smtp, ProxyChain, FiniteSetTheorems, WellFoundedInduction, SequenceTheorems, TLAPS

(* The parts of the inductive invariant *)

Lines == [code : Int, more : BOOLEAN, space : BOOLEAN, tls : BOOLEAN]

\* A session is on its way.
InSession == result = "trying" /\ step # "wait"

\* The types, and the steps there are for a command.
StateInv ==
    /\ TypeOK
    /\ m_readbuf \in Seq(Lines) /\ wire \in Seq(Lines)
    /\ InSession => /\ cmd = "greeting" => step # "write"
                    /\ cmd \in {"connect", "handshake"} => step = "write"

\* Every attempt but the one that goes on has cost one retry.
RetryInv ==
    /\ result = "none" => step = "wait"
    /\ result # "failed" =>
        /\ retry_count <= RetryLimit + 1
        /\ attempts = IF step = "wait" THEN retry_count ELSE retry_count + 1
    /\ result = "failed" => retry_count = RetryLimit + 2 /\ attempts = RetryLimit + 2

\* One mail that was accepted may not have been reported yet.
LossInv ==
    accepted <= lost +
        (IF result = "sent" \/ (cmd = "body" /\ step \in {"read", "check"}) THEN 1 ELSE 0)

\* What failed writes left in m_writebuf are EHLOs, behind one other command at
\* most; it goes out with the next EHLO, and the other command before any EHLO.
LeftoverShape ==
    /\ leftover \in Seq({"ehlo", "starttls", "auth", "mail", "data", "body"})
    /\ \A k \in 2..Len(leftover) : leftover[k] = "ehlo"

LeftoverInv ==
    /\ LeftoverShape
    /\ InSession /\ leftover # <<>> =>
        /\ cmd \in {"connect", "greeting"} \/ (cmd = "ehlo" /\ step = "write")
        /\ Head(leftover) # "ehlo" => srv = "greet"

\* Nothing is left of the answers to earlier commands.
Quiet == m_readbuf = <<>> /\ wire = <<>>

\* What may be left of the answers to EHLO, or of those for recipients.
EarlyCodes == {250, 550}
Early(lines) == \A k \in 1..Len(lines) : lines[k].code \in EarlyCodes

\* There is a line with this code, read or due.
Has(code, read, due) ==
    \/ \E k \in 1..Len(read) : read[k].code = code
    \/ \E k \in 1..Len(due) : due[k].code = code

\* A line that ends an answer with the code that is waited for is the last one.
Awaits(code, read, due) ==
    /\ \A k \in 1..Len(read) : read[k].code = code /\ ~read[k].more =>
            k = Len(read) /\ due = <<>>
    /\ \A k \in 1..Len(due) : due[k].code = code /\ ~due[k].more => k = Len(due)

\* The answers may lag behind the recipients, but each that says so, looked at or
\* not, is for a recipient the server has accepted.
RcptInv ==
    /\ srv \in {"mail", "rcpt"}
    /\ sended_rcpt > 0 \/ Has(250, m_readbuf, wire) => srv = "rcpt"

\* Client and server before a command is written ...
WriteInv ==
    InSession /\ step = "write" =>
        /\ cmd \in {"handshake", "mail", "body"} => Quiet
        /\ cmd \in {"ehlo", "starttls", "auth", "data"} \/ IsRcpt(cmd) =>
                Early(m_readbuf) /\ Early(wire)
        /\ cmd = "mail" => srv = "authed"
        /\ IsRcpt(cmd) => RcptInv
        /\ cmd = "data" => srv = "rcpt"
        /\ cmd = "body" => srv = "data"

\* ... and until its answer has been looked at.  The answer that is waited for
\* tells what the server has done.
ReadInv ==
    InSession /\ step \in {"read", "check"} =>
        /\ cmd = "ehlo" \/ IsRcpt(cmd) => Early(m_readbuf) /\ Early(wire)
        /\ cmd \notin {"ehlo", "rcpt", "rcpt_brackets"} =>
                Awaits(Expected(cmd), m_readbuf, wire)
        /\ IsRcpt(cmd) => RcptInv
        /\ Has(Expected(cmd), m_readbuf, wire) =>
                /\ cmd = "auth" => srv = "authed"
                /\ cmd = "mail" => srv = "mail"
                /\ cmd = "data" => srv = "data"
                /\ cmd = "body" => accepted > 0

\* The offer of TLS, if it was read, has been taken before the login.
TlsInv ==
    ServerTLS /\ ehlo_whole /\ InSession =>
        /\ cmd = "ehlo" /\ step = "check" => m_readbuf = EhloAnswer
        /\ cmd = "auth" /\ step = "write" => tls

IInv == /\ StateInv /\ RetryInv /\ LossInv /\ LeftoverInv
        /\ WriteInv /\ ReadInv /\ TlsInv
        /\ InTurn /\ AuthUnderTls
-----------------------------------------------------------------------------
(* Lines and answers *)

\* What is waited for is a code.
LEMMA ExpectedIsCode == \A c \in Commands : Expected(c) \in Int
  BY DEF Expected, Commands

\* The answers to the commands before the mail are not of the codes that
\* an answer to EHLO may leave behind.
LEMMA LoginCodes ==
    \A c \in {"starttls", "auth", "data"} : Expected(c) \notin EarlyCodes
  BY DEF Expected, EarlyCodes

\* An answer: all its lines have its code, and the last one only ends it.
LEMMA AnswerLines ==
    ASSUME NEW code \in Int, NEW a \in Answers(code)
    PROVE  /\ a \in Seq(Lines)
           /\ \A k \in 1..Len(a) : a[k].code = code /\ (~a[k].more => k = Len(a))
<1> DEFINE last == Line(code, FALSE, TRUE, FALSE)
           first == Line(code, TRUE, TRUE, FALSE)
<1>1. /\ last \in Lines /\ last.code = code /\ ~last.more
      /\ first \in Lines /\ first.code = code /\ first.more
  BY DEF Line, Lines
<1>2. a = <<last>> \/ a = <<first>> \o <<last>>
  BY DEF Answers, Answer
<1> HIDE DEF last, first
<1>3. CASE a = <<last>>
  BY <1>1, <1>3
<1>4. CASE a = <<first>> \o <<last>>
  <2> DEFINE s == <<first>>
             u == <<last>>
  <2>1. /\ s \in Seq(Lines) /\ Len(s) = 1 /\ s[1] = first
        /\ u \in Seq(Lines) /\ Len(u) = 1 /\ u[1] = last
    BY <1>1
  <2>2. a = s \o u
    BY <1>4
  <2> HIDE DEF s, u
  <2>3. /\ a \in Seq(Lines) /\ Len(a) = 1 + 1
        /\ \A k \in 1..(1 + 1) : a[k] = IF k <= 1 THEN s[k] ELSE u[k - 1]
    BY <2>1, <2>2, ConcatProperties
  <2>4. \A k \in 1..2 : a[k] = IF k = 1 THEN first ELSE last
    BY <2>1, <2>3
  <2> QED
    BY <1>1, <2>3, <2>4
<1> QED
  BY <1>2, <1>3, <1>4

\* The answer to EHLO; with STARTTLS the third line offers it.
LEMMA EhloAnswerLines ==
    /\ EhloAnswer \in Seq(Lines)
    /\ \A k \in 1..Len(EhloAnswer) : EhloAnswer[k].code = 250
    /\ ServerTLS => /\ Len(EhloAnswer) = 4
                    /\ \A k \in 1..3 : EhloAnswer[k].more
                    /\ EhloAnswer[3].tls
<1> DEFINE first == <<Line(250, TRUE, FALSE, FALSE), Line(250, TRUE, TRUE, FALSE)>>
           offer == IF ServerTLS THEN <<Line(250, TRUE, FALSE, TRUE)>> ELSE <<>>
           last == Answer(250)
<1>1. /\ first \in Seq(Lines) /\ Len(first) = 2
      /\ \A k \in 1..2 : first[k].code = 250 /\ first[k].more
  BY DEF Line, Lines
<1>2. /\ offer \in Seq(Lines) /\ Len(offer) = IF ServerTLS THEN 1 ELSE 0
      /\ \A k \in 1..Len(offer) : offer[k].code = 250 /\ offer[k].more /\ offer[k].tls
  <2>1. CASE ServerTLS
    <3>1. offer = <<Line(250, TRUE, FALSE, TRUE)>>
      BY <2>1
    <3> HIDE DEF offer
    <3> QED
      BY <2>1, <3>1 DEF Line, Lines
  <2>2. CASE ~ServerTLS
    <3>1. offer = <<>>
      BY <2>2
    <3> HIDE DEF offer
    <3> QED
      BY <2>2, <3>1
  <2> QED
    BY <2>1, <2>2
<1>3. last \in Seq(Lines) /\ Len(last) = 1 /\ last[1].code = 250
  BY DEF Answer, Line, Lines
<1>4. EhloAnswer = (first \o offer) \o last
  BY DEF EhloAnswer
<1> HIDE DEF first, offer, last
<1>5. /\ first \o offer \in Seq(Lines) /\ Len(first \o offer) = 2 + Len(offer)
      /\ \A k \in 1..2 + Len(offer) :
            (first \o offer)[k] = IF k <= 2 THEN first[k] ELSE offer[k - 2]
  BY <1>1, <1>2, ConcatProperties
<1>6. /\ EhloAnswer \in Seq(Lines) /\ Len(EhloAnswer) = 3 + Len(offer)
      /\ \A k \in 1..3 + Len(offer) :
            EhloAnswer[k] = IF k <= 2 + Len(offer) THEN (first \o offer)[k]
                            ELSE last[k - (2 + Len(offer))]
  <2> DEFINE most == first \o offer
  <2> HIDE DEF most
  <2>1. most \in Seq(Lines) /\ Len(most) = 2 + Len(offer)
    BY <1>5 DEF most
  <2>2. /\ most \o last \in Seq(Lines)
        /\ Len(most \o last) = Len(most) + Len(last)
        /\ \A k \in 1..(Len(most) + Len(last)) :
                (most \o last)[k] = IF k <= Len(most) THEN most[k] ELSE last[k - Len(most)]
    <3>1. most \in Seq(Lines) /\ last \in Seq(Lines)
      BY <1>3, <2>1
    <3> QED
      BY <3>1, ConcatProperties
  <2>3. Len(most) + Len(last) = 3 + Len(offer)
    BY <1>2, <1>3, <2>1
  <2>4. EhloAnswer = most \o last
    BY <1>4 DEF most
  <2>5. \A k \in 1..3 + Len(offer) :
            EhloAnswer[k] = IF k <= 2 + Len(offer) THEN most[k] ELSE last[k - (2 + Len(offer))]
    BY <2>1, <2>2, <2>3, <2>4
  <2> QED
    BY <2>2, <2>3, <2>4, <2>5 DEF most
<1>7. \A k \in 1..Len(EhloAnswer) : EhloAnswer[k].code = 250
  BY <1>1, <1>2, <1>3, <1>5, <1>6
<1>8. ASSUME ServerTLS
      PROVE  Len(EhloAnswer) = 4 /\ (\A k \in 1..3 : EhloAnswer[k].more) /\ EhloAnswer[3].tls
  BY <1>1, <1>2, <1>5, <1>6, <1>8
<1> QED
  BY <1>6, <1>7, <1>8

\* A set of positive numbers that is not empty has a least one: of the intervals
\* that end in its members one has no other below it.
LEMMA LeastOf ==
    ASSUME NEW S \in SUBSET Nat, S # {}
    PROVE  \E k \in S : \A l \in S : k <= l
<1> DEFINE upto == {1..k : k \in S}
<1>1. upto \subseteq FiniteSubsetsOf(Nat)
  <2>1. ASSUME NEW k \in S
        PROVE  1..k \in FiniteSubsetsOf(Nat)
    <3>1. k \in Int /\ 1 \in Int
      OBVIOUS
    <3>2. IsFiniteSet(1..k)
      BY <3>1, FS_Interval
    <3>3. 1..k \subseteq Nat
      BY <3>1
    <3> QED
      BY <3>2, <3>3 DEF FiniteSubsetsOf
  <2> QED
    BY <2>1
<1>2. upto # {}
  OBVIOUS
<1>3. PICK x \in upto : \A y \in upto : <<y, x>> \notin StrictSubsetOrdering(Nat)
  <2> HIDE DEF upto
  <2> QED
    BY <1>1, <1>2, FS_StrictSubsetOrderingWellFounded, WFMin, Zenon
<1>4. PICK k \in S : x = 1..k
  OBVIOUS
<1>5. ASSUME NEW l \in S, l < k
      PROVE  FALSE
  <2>1. 1..l \in upto
    OBVIOUS
  <2>2. /\ 1..l \in SUBSET Nat /\ 1..k \in SUBSET Nat
        /\ 1..l \subseteq 1..k /\ 1..l # 1..k
    <3>1. k \in 1..k /\ k \notin 1..l
      BY <1>5
    <3> QED
      BY <1>5, <3>1
  <2>3. <<1..l, 1..k>> \in StrictSubsetOrdering(Nat)
    BY <2>2, Zenon DEF StrictSubsetOrdering
  <2> QED
    BY <1>3, <1>4, <2>1, <2>3, Zenon
<1> QED
  BY <1>5

\* FirstOther is the first line that is not "code-".
LEMMA FirstOtherIs ==
    ASSUME NEW lines \in Seq(Lines), NEW code \in Int
    PROVE  /\ FirstOther(lines, code) \in 1..(Len(lines) + 1)
           /\ \A k \in 1..Len(lines) :
                k < FirstOther(lines, code) => lines[k].code = code /\ lines[k].more
           /\ FirstOther(lines, code) <= Len(lines) =>
                LET k == FirstOther(lines, code) IN ~(lines[k].code = code /\ lines[k].more)
<1> DEFINE others == {k \in 1..Len(lines) : ~(lines[k].code = code /\ lines[k].more)}
           least == CHOOSE k \in others : \A l \in others : k <= l
<1>1. Len(lines) \in Nat
  OBVIOUS
<1>2. CASE others = {}
  BY <1>1, <1>2 DEF FirstOther
<1>3. CASE others # {}
  <2>1. others \subseteq Nat
    BY <1>1
  <2>2. \E k \in others : \A l \in others : k <= l
    <3> HIDE DEF others
    <3> QED
      BY <1>3, <2>1, LeastOf
  <2>3. least \in others /\ \A l \in others : least <= l
    BY <2>2
  <2>4. FirstOther(lines, code) = least
    BY <1>3 DEF FirstOther
  <2>5. \A k \in 1..Len(lines) : k \notin others => lines[k].code = code /\ lines[k].more
    OBVIOUS
  <2>6. least \in 1..Len(lines) /\ ~(lines[least].code = code /\ lines[least].more)
    BY <2>3
  <2>7. \A k \in 1..Len(lines) : k < least => k \notin others
    <3> HIDE DEF others, least
    <3> QED
      BY <2>1, <2>3, <2>6
  <2> HIDE DEF others, least
  <2> QED
    BY <1>1, <2>4, <2>5, <2>6, <2>7
<1> QED
  BY <1>2, <1>3

\* Lines that begin with "code-" are skipped.
LEMMA SkipsLines ==
    ASSUME NEW lines \in Seq(Lines), NEW code \in Int, NEW n \in 0..Len(lines),
           \A k \in 1..n : lines[k].code = code /\ lines[k].more
    PROVE  FirstOther(lines, code) > n
<1> DEFINE f == FirstOther(lines, code)
<1>1. /\ f \in 1..(Len(lines) + 1)
      /\ f <= Len(lines) => ~(lines[f].code = code /\ lines[f].more)
  BY FirstOtherIs
<1> HIDE DEF f
<1>2. f > n
  BY <1>1
<1> QED
  BY <1>2 DEF f

\* What check_smtp_response leaves is the end of what was read.
LEMMA RestIsEnd ==
    ASSUME NEW lines \in Seq(Lines), NEW code \in Int
    PROVE  /\ Rest(lines, code) \in Seq(Lines)
           /\ \A k \in 1..Len(Rest(lines, code)) : \E j \in 1..Len(lines) :
                Rest(lines, code)[k] = lines[j]
           /\ FirstOther(lines, code) >= Len(lines) => Rest(lines, code) = <<>>
<1> DEFINE f == FirstOther(lines, code)
           n == Len(lines)
<1>1. f \in 1..(n + 1) /\ n \in Nat
  BY FirstOtherIs
<1>2. Rest(lines, code) = SubSeq(lines, f + 1, n)
  BY DEF Rest
<1>3. \A k \in (f + 1)..n : k \in 1..n /\ lines[k] \in Lines
  BY <1>1, ElementOfSeq
<1> HIDE DEF f, n
<1>4. /\ SubSeq(lines, f + 1, n) \in Seq(Lines)
      /\ Len(SubSeq(lines, f + 1, n)) = IF f + 1 <= n THEN n - f ELSE 0
      /\ \A k \in 1..(n - f) : SubSeq(lines, f + 1, n)[k] = lines[f + k]
  BY <1>1, <1>3, SubSeqProperties
<1>5. ASSUME NEW k \in 1..Len(SubSeq(lines, f + 1, n))
      PROVE  f + k \in 1..n /\ SubSeq(lines, f + 1, n)[k] = lines[f + k]
  BY <1>1, <1>4
<1>6. f >= n => SubSeq(lines, f + 1, n) = <<>>
  BY <1>1, SubSeqEmpty
<1> QED
  BY <1>2, <1>4, <1>5, <1>6 DEF f, n

\* When the answer that is waited for has been found, nothing is left behind it.
LEMMA Consumed ==
    ASSUME NEW read \in Seq(Lines), NEW due \in Seq(Lines), NEW code \in Int,
           Awaits(code, read, due), IsOk(read, code)
    PROVE  Rest(read, code) = <<>> /\ due = <<>> /\ Has(code, read, due)
<1> DEFINE f == FirstOther(read, code)
<1>1. /\ f \in 1..(Len(read) + 1) /\ f <= Len(read)
      /\ read[f].code = code /\ ~read[f].more
  <2>1. /\ f \in 1..(Len(read) + 1)
        /\ f <= Len(read) => ~(read[f].code = code /\ read[f].more)
    BY FirstOtherIs
  <2>2. f <= Len(read) /\ read[f].code = code
    BY DEF IsOk
  <2> QED
    BY <2>1, <2>2
<1> HIDE DEF f
<1>2. f \in 1..Len(read)
  BY <1>1
<1>3. f = Len(read) /\ due = <<>>
  BY <1>1, <1>2 DEF Awaits
<1>4. Has(code, read, due)
  BY <1>1, <1>2 DEF Has
<1> QED
  BY <1>3, <1>4, RestIsEnd DEF f

\* A segment that arrives.
LEMMA SegmentProperties ==
    ASSUME NEW read \in Seq(Lines), NEW due \in Seq(Lines), NEW n \in 1..Len(due)
    PROVE  LET read2 == read \o SubSeq(due, 1, n)
               due2  == SubSeq(due, n + 1, Len(due))
           IN /\ read2 \in Seq(Lines) /\ due2 \in Seq(Lines)
              /\ Len(read2) = Len(read) + n /\ Len(due2) = Len(due) - n
              /\ \A k \in 1..Len(read2) :
                    read2[k] = IF k <= Len(read) THEN read[k] ELSE due[k - Len(read)]
              /\ \A k \in 1..Len(due2) : due2[k] = due[n + k]
              /\ n = Len(due) => due2 = <<>>
<1> DEFINE d == Len(due)
           seg == SubSeq(due, 1, n)
           due2 == SubSeq(due, n + 1, d)
<1>1. d \in Nat /\ n \in 1..d /\ \A k \in 1..d : due[k] \in Lines
  BY ElementOfSeq
<1>2. seg \in Seq(Lines) /\ Len(seg) = n /\ \A k \in 1..n : seg[k] = due[k]
  <2> HIDE DEF d
  <2>1. \A k \in 1..n : due[k] \in Lines
    BY <1>1
  <2>2. /\ SubSeq(due, 1, n) \in Seq(Lines)
        /\ Len(SubSeq(due, 1, n)) = IF 1 <= n THEN n - 1 + 1 ELSE 0
        /\ \A k \in 1..(n - 1 + 1) : SubSeq(due, 1, n)[k] = due[1 + k - 1]
    BY <1>1, <2>1, SubSeqProperties
  <2> QED
    BY <1>1, <2>2
<1>3. /\ due2 \in Seq(Lines) /\ Len(due2) = d - n
      /\ \A k \in 1..(d - n) : due2[k] = due[n + k]
  <2> HIDE DEF d
  <2>1. \A k \in (n + 1)..d : due[k] \in Lines
    BY <1>1
  <2>2. /\ SubSeq(due, n + 1, d) \in Seq(Lines)
        /\ Len(SubSeq(due, n + 1, d)) = IF n + 1 <= d THEN d - (n + 1) + 1 ELSE 0
        /\ \A k \in 1..(d - (n + 1) + 1) : SubSeq(due, n + 1, d)[k] = due[n + 1 + k - 1]
    BY <1>1, <2>1, SubSeqProperties
  <2> QED
    BY <1>1, <2>2
<1>4. n = d => due2 = <<>>
  <2> HIDE DEF d
  <2> QED
    BY <1>1, SubSeqEmpty
<1> HIDE DEF d, seg, due2
<1>5. /\ read \o seg \in Seq(Lines) /\ Len(read \o seg) = Len(read) + n
      /\ \A k \in 1..(Len(read) + n) :
            (read \o seg)[k] = IF k <= Len(read) THEN read[k] ELSE seg[k - Len(read)]
  BY <1>2, ConcatProperties
<1>6. \A k \in 1..(Len(read) + n) :
        (read \o seg)[k] = IF k <= Len(read) THEN read[k] ELSE due[k - Len(read)]
  BY <1>1, <1>2, <1>5
<1> QED
  BY <1>3, <1>4, <1>5, <1>6 DEF d, seg, due2

\* Where the answers are cut changes nothing of what is waited for.
LEMMA SegmentKeeps ==
    ASSUME NEW read \in Seq(Lines), NEW due \in Seq(Lines), NEW n \in 1..Len(due)
    PROVE  LET read2 == read \o SubSeq(due, 1, n)
               due2  == SubSeq(due, n + 1, Len(due))
           IN /\ Early(read) /\ Early(due) => Early(read2) /\ Early(due2)
              /\ \A code \in Int : Awaits(code, read, due) => Awaits(code, read2, due2)
              /\ \A code \in Int : Has(code, read2, due2) => Has(code, read, due)
<1> DEFINE read2 == read \o SubSeq(due, 1, n)
           due2  == SubSeq(due, n + 1, Len(due))
<1>1. /\ Len(read2) = Len(read) + n /\ Len(due2) = Len(due) - n
      /\ \A k \in 1..Len(read2) :
            read2[k] = IF k <= Len(read) THEN read[k] ELSE due[k - Len(read)]
      /\ \A k \in 1..Len(due2) : due2[k] = due[n + k]
      /\ n = Len(due) => due2 = <<>>
  BY SegmentProperties, SMTT(60)
<1>2. Len(read) \in Nat /\ Len(due) \in Nat /\ due # <<>>
  OBVIOUS
<1> HIDE DEF read2, due2
<1>3. ASSUME NEW k \in 1..Len(read2)
      PROVE  \/ k \in 1..Len(read) /\ read2[k] = read[k]
             \/ /\ k - Len(read) \in 1..Len(due) /\ read2[k] = due[k - Len(read)]
                /\ k - Len(read) = Len(due) => k = Len(read2) /\ due2 = <<>>
  <2>1. k \in 1..(Len(read) + n)
    BY <1>1, <1>3
  <2>2. CASE k <= Len(read)
    BY <1>1, <1>2, <2>1, <2>2
  <2>3. CASE k > Len(read)
    <3>1. k - Len(read) \in 1..n /\ read2[k] = due[k - Len(read)]
      BY <1>1, <1>2, <2>1, <2>3
    <3>2. k - Len(read) = Len(due) => n = Len(due)
      BY <1>2, <3>1
    <3>3. k - Len(read) = Len(due) => k = Len(read2) /\ due2 = <<>>
      <4> SUFFICES ASSUME k - Len(read) = Len(due)
                   PROVE  k = Len(read2) /\ due2 = <<>>
        OBVIOUS
      <4>1. n = Len(due) /\ due2 = <<>>
        BY <1>1, <3>2
      <4>2. k = Len(read) + n
        BY <1>2, <2>1, <4>1
      <4> QED
        BY <1>1, <4>1, <4>2
    <3>4. k - Len(read) \in 1..Len(due)
      BY <1>2, <3>1
    <3> QED
      BY <3>1, <3>3, <3>4
  <2> QED
    BY <1>2, <2>1, <2>2, <2>3
<1>4. ASSUME NEW k \in 1..Len(due2)
      PROVE  /\ n + k \in 1..Len(due) /\ due2[k] = due[n + k]
             /\ n + k = Len(due) => k = Len(due2)
  BY <1>1, <1>2
<1>5. ASSUME Early(read), Early(due)
      PROVE  Early(read2) /\ Early(due2)
  <2>1. \A k \in 1..Len(read2) : read2[k].code \in EarlyCodes
    BY <1>3, <1>5 DEF Early
  <2>2. \A k \in 1..Len(due2) : due2[k].code \in EarlyCodes
    BY <1>4, <1>5 DEF Early
  <2> QED
    BY <2>1, <2>2 DEF Early
<1>6. ASSUME NEW code \in Int, Awaits(code, read, due)
      PROVE  Awaits(code, read2, due2)
  <2>1. ASSUME NEW k \in 1..Len(read2), read2[k].code = code, ~read2[k].more
        PROVE  k = Len(read2) /\ due2 = <<>>
    BY <1>2, <1>3, <1>6, <2>1 DEF Awaits
  <2>2. ASSUME NEW k \in 1..Len(due2), due2[k].code = code, ~due2[k].more
        PROVE  k = Len(due2)
    BY <1>4, <1>6, <2>2 DEF Awaits
  <2> QED
    BY <2>1, <2>2 DEF Awaits
<1>7. ASSUME NEW code \in Int, Has(code, read2, due2)
      PROVE  Has(code, read, due)
  BY <1>3, <1>4, <1>7 DEF Has
<1> QED
  BY <1>5, <1>6, <1>7 DEF read2, due2

\* What follows what is on its way.
LEMMA Behind ==
    ASSUME NEW due \in Seq(Lines), NEW a \in Seq(Lines)
    PROVE  LET due2 == due \o a
           IN /\ due2 \in Seq(Lines) /\ Len(due2) = Len(due) + Len(a)
              /\ \A k \in 1..Len(due2) :
                    \/ k \in 1..Len(due) /\ due2[k] = due[k]
                    \/ k - Len(due) \in 1..Len(a) /\ due2[k] = a[k - Len(due)]
<1>1. Len(due) \in Nat /\ Len(a) \in Nat
  OBVIOUS
<1>2. /\ due \o a \in Seq(Lines) /\ Len(due \o a) = Len(due) + Len(a)
      /\ \A k \in 1..(Len(due) + Len(a)) :
            (due \o a)[k] = IF k <= Len(due) THEN due[k] ELSE a[k - Len(due)]
  BY ConcatProperties
<1>3. ASSUME NEW k \in 1..(Len(due) + Len(a))
      PROVE  \/ k \in 1..Len(due) /\ (due \o a)[k] = due[k]
             \/ k - Len(due) \in 1..Len(a) /\ (due \o a)[k] = a[k - Len(due)]
  BY <1>1, <1>2
<1> QED
  BY <1>2, <1>3

\* Early lines behind early lines.
LEMMA EarlyBehind ==
    ASSUME NEW due \in Seq(Lines), NEW a \in Seq(Lines), Early(due), Early(a)
    PROVE  due \o a \in Seq(Lines) /\ Early(due \o a)
BY Behind DEF Early

\* An answer with an early code.
LEMMA EarlyAnswer ==
    ASSUME NEW code \in EarlyCodes, NEW a \in Answers(code)
    PROVE  a \in Seq(Lines) /\ Early(a)
<1>1. code \in Int
  BY DEF EarlyCodes
<1> QED
  BY <1>1, AnswerLines DEF Early

\* A command sets out to wait for a code that no line has yet.
LEMMA AnswerDue ==
    ASSUME NEW read \in Seq(Lines), NEW due \in Seq(Lines), NEW code \in Int, NEW c \in Int,
           NEW a \in Answers(c), ~Has(code, read, due)
    PROVE  /\ due \o a \in Seq(Lines)
           /\ Awaits(code, read, due \o a)
           /\ Has(code, read, due \o a) => c = code
<1> DEFINE due2 == due \o a
<1>1. /\ a \in Seq(Lines)
      /\ \A k \in 1..Len(a) : a[k].code = c /\ (~a[k].more => k = Len(a))
  BY AnswerLines
<1>2. /\ due2 \in Seq(Lines) /\ Len(due2) = Len(due) + Len(a)
      /\ \A k \in 1..Len(due2) :
            \/ k \in 1..Len(due) /\ due2[k] = due[k]
            \/ k - Len(due) \in 1..Len(a) /\ due2[k] = a[k - Len(due)]
  BY <1>1, Behind
<1>3. Len(due) \in Nat /\ Len(a) \in Nat
  BY <1>1
<1> HIDE DEF due2
<1>4. \A k \in 1..Len(read) : read[k].code # code
  BY DEF Has
<1>5. \A k \in 1..Len(due) : due[k].code # code
  BY DEF Has
<1>6. ASSUME NEW k \in 1..Len(due2), due2[k].code = code
      PROVE  c = code /\ (~due2[k].more => k = Len(due2))
  <2>1. k - Len(due) \in 1..Len(a) /\ due2[k] = a[k - Len(due)]
    BY <1>2, <1>5, <1>6
  <2>2. a[k - Len(due)].code = c /\ (~a[k - Len(due)].more => k - Len(due) = Len(a))
    BY <1>1, <2>1
  <2> QED
    BY <1>2, <1>3, <1>6, <2>1, <2>2
<1> QED
  BY <1>2, <1>4, <1>6 DEF due2, Awaits, Has

\* There is no line with a code when all are of others, or when there is none.
LEMMA NoSuchLine ==
    ASSUME NEW read \in Seq(Lines), NEW due \in Seq(Lines), NEW code \in Int,
           \/ Early(read) /\ Early(due) /\ code \notin EarlyCodes
           \/ read = <<>> /\ due = <<>>
    PROVE  ~Has(code, read, due)
<1>1. CASE Early(read) /\ Early(due) /\ code \notin EarlyCodes
  BY <1>1 DEF Early, Has
<1>2. CASE read = <<>> /\ due = <<>>
  BY <1>2 DEF Has
<1> QED
  BY <1>1, <1>2

-----------------------------------------------------------------------------
(* What the actions share *)

\* Of a session there is nothing to say when there is none.
LEMMA OutOfSession ==
    ASSUME ~InSession', LeftoverShape'
    PROVE  LeftoverInv' /\ WriteInv' /\ ReadInv' /\ TlsInv'
  BY DEF InSession, LeftoverInv, WriteInv, ReadInv, TlsInv

\* An attempt that failed ends the session and costs one retry; if the answer to
\* the mail was due, it is counted as lost.
LEMMA Retried ==
    ASSUME StateInv, RetryInv, LossInv, InSession, RetryOrGiveUp,
           attempts' = attempts, accepted' = accepted
    PROVE  /\ ~InSession' /\ RetryInv' /\ LossInv'
           /\ retry_count' \in 0..(RetryLimit + 2) /\ lost' \in Nat
           /\ result' \in {"trying", "failed"} /\ cmd' = cmd
           /\ step' \in {"write", "read", "check", "wait"}
<1> USE SmtpAssumption
<1>1. /\ result = "trying" /\ step # "wait"
      /\ retry_count \in Nat /\ retry_count <= RetryLimit + 1
      /\ attempts = retry_count + 1
      /\ lost \in Nat /\ accepted \in Nat /\ step \in {"write", "read", "check"}
  BY DEF InSession, StateInv, TypeOK, RetryInv
<1>2. CASE retry_count <= RetryLimit
  <2>1. step' = "wait" /\ cmd' = cmd /\ result' = result /\ retry_count' = retry_count + 1
    BY <1>2 DEF RetryOrGiveUp
  <2>2. RetryInv'
    BY <1>1, <1>2, <2>1 DEF RetryInv
  <2>3. LossInv' /\ lost' \in Nat
    BY <1>1, <2>1 DEF LossInv, RetryOrGiveUp
  <2> QED
    BY <1>1, <1>2, <2>1, <2>2, <2>3 DEF InSession
<1>3. CASE ~(retry_count <= RetryLimit)
  <2>1. /\ step' = step /\ cmd' = cmd /\ result' = "failed"
        /\ retry_count' = retry_count + 1
    BY <1>3 DEF RetryOrGiveUp
  <2>2. RetryInv'
    BY <1>1, <1>3, <2>1 DEF RetryInv
  <2>3. LossInv' /\ lost' \in Nat
    BY <1>1, <2>1 DEF LossInv, RetryOrGiveUp
  <2> QED
    BY <1>1, <1>3, <2>1, <2>2, <2>3 DEF InSession
<1> QED
  BY <1>2, <1>3

\* A session goes on with the next command; it was not the mail itself.
LEMMA GoesOn ==
    ASSUME StateInv, RetryInv, LossInv, InSession, step' # "wait",
           cmd = "body" => \/ step = "write"
                           \/ cmd' = "body" /\ step' \in {"read", "check"},
           UNCHANGED <<result, retry_count, attempts, accepted, lost>>
    PROVE  RetryInv' /\ LossInv'
  BY DEF StateInv, TypeOK, RetryInv, LossInv, InSession

\* The server's part: there is one answer more, and it is the one expected if the
\* command has been obeyed, and a refusal if not.
LEMMA Served ==
    ASSUME NEW c \in Commands, c # "ehlo", Serve(c)
    PROVE  \E code \in Int : \E a \in Answers(code) :
            /\ wire' = wire \o a
            /\ \/ /\ code = Expected(c) /\ srv \in Accepts(c) /\ srv' = After(c)
                  /\ accepted' = IF c = "body" THEN accepted + 1 ELSE accepted
               \/ /\ code = 550 /\ code # Expected(c) /\ accepted' = accepted
                  /\ c # "body" => srv' = srv
<1>1. Expected(c) \in Int /\ 550 \in Int /\ 550 # Expected(c)
  BY DEF Commands, Expected
<1>2. CASE /\ srv \in Accepts(c) /\ srv' = After(c)
           /\ \E good \in IF c = "ehlo" THEN {EhloAnswer} ELSE Answers(Expected(c)) :
                wire' = wire \o good
           /\ accepted' = IF c = "body" THEN accepted + 1 ELSE accepted
  <2>1. PICK a \in Answers(Expected(c)) : wire' = wire \o a
    BY <1>2
  <2> QED
    BY <1>1, <1>2, <2>1
<1>3. CASE /\ \E refusal \in Answers(550) : wire' = wire \o refusal
           /\ srv' = IF c = "body" /\ srv = "data" THEN "authed" ELSE srv
           /\ UNCHANGED accepted
  <2>1. PICK a \in Answers(550) : wire' = wire \o a
    BY <1>3
  <2> QED
    BY <1>1, <1>3, <2>1
<1> QED
  BY <1>2, <1>3 DEF Serve

\* What the server is in afterwards.
LEMMA ServerAfter ==
    ASSUME NEW c \in Commands \ {"connect", "greeting", "handshake"}, TypeOK, Serve(c)
    PROVE  /\ srv' \in {"greet", "ready", "tls", "authed", "mail", "rcpt", "data"}
           /\ accepted' \in {accepted, accepted + 1}
           /\ c # "body" => accepted' = accepted
           /\ IsRcpt(c) /\ srv \in {"mail", "rcpt"} => srv' \in {srv, "rcpt"}
<1>1. \/ /\ srv' = After(c)
         /\ accepted' = IF c = "body" THEN accepted + 1 ELSE accepted
      \/ /\ srv' = IF c = "body" /\ srv = "data" THEN "authed" ELSE srv
         /\ accepted' = accepted
  BY Zenon DEF Serve
<1>2. /\ srv' \in {"greet", "ready", "tls", "authed", "mail", "rcpt", "data"}
      /\ IsRcpt(c) /\ srv \in {"mail", "rcpt"} => srv' \in {srv, "rcpt"}
  BY <1>1 DEF After, Commands, TypeOK, IsRcpt
<1>3. accepted' \in {accepted, accepted + 1} /\ (c # "body" => accepted' = accepted)
  BY <1>1
<1> QED
  BY <1>2, <1>3

\* The answers to EHLO, and those to what is left of other commands before it.
LEMMA EarlyServed ==
    ASSUME NEW c \in {"ehlo", "starttls", "auth", "mail", "data", "body"},
           c # "ehlo" => srv = "greet",
           wire \in Seq(Lines), Early(wire), Serve(c)
    PROVE  wire' \in Seq(Lines) /\ Early(wire') /\ accepted' = accepted
<1>1. EhloAnswer \in Seq(Lines) /\ Early(EhloAnswer)
  BY EhloAnswerLines DEF Early, EarlyCodes
<1>2. \A a \in Answers(550) : a \in Seq(Lines) /\ Early(a)
  BY EarlyAnswer DEF EarlyCodes
<1>3. CASE c = "ehlo"
  <2>1. accepted' = accepted
    BY <1>3 DEF Serve
  <2>2. CASE wire' = wire \o EhloAnswer
    BY <1>1, <2>1, <2>2, EarlyBehind
  <2>3. CASE \E a \in Answers(550) : wire' = wire \o a
    BY <1>2, <2>1, <2>3, EarlyBehind
  <2> QED
    BY <1>3, <2>2, <2>3 DEF Serve
<1>4. CASE c # "ehlo"
  <2>1. srv \notin Accepts(c)
    BY <1>4 DEF Accepts, IsRcpt
  <2>2. accepted' = accepted /\ \E a \in Answers(550) : wire' = wire \o a
    BY <2>1 DEF Serve
  <2> QED
    BY <1>2, <2>2, EarlyBehind
<1> QED
  BY <1>3, <1>4
-----------------------------------------------------------------------------
(* One step of each action *)

\* An attempt that ends with an error while nothing but the connection and
\* what is read changed.
LEMMA AttemptFails ==
    ASSUME IInv, InSession, RetryOrGiveUp,
           conn' \in {"up", "down"}, LeftoverShape', m_readbuf' \in Seq(Lines),
           UNCHANGED <<m_sslsocket, i, sended_rcpt, srv, tls, wire, accepted,
                       attempts, ehlo_whole, bare, bad_sequence>>
    PROVE  IInv'
<1>1. /\ ~InSession' /\ RetryInv' /\ LossInv'
      /\ retry_count' \in 0..(RetryLimit + 2) /\ lost' \in Nat
      /\ result' \in {"trying", "failed"} /\ cmd' = cmd
      /\ step' \in {"write", "read", "check", "wait"}
  BY Retried DEF IInv
<1>2. StateInv'
  BY <1>1 DEF IInv, StateInv, TypeOK, LeftoverShape
<1>3. InTurn' /\ AuthUnderTls'
  BY DEF IInv, InTurn, AuthUnderTls
<1> QED
  BY <1>1, <1>2, <1>3, OutOfSession DEF IInv

\* At first there is no session.
LEMMA InitIInv == Init => IInv
<1> SUFFICES ASSUME Init PROVE IInv
  OBVIOUS
<1> USE SmtpAssumption
<1>1. StateInv
  <2>1. TypeOK
    <3>1. retry_count \in 0..(RetryLimit + 2)
      BY DEF Init
    <3>2. i \in Nat /\ sended_rcpt \in 0..i
      BY DEF Init
    <3>3. {ehlo_whole, bad_sequence} \subseteq BOOLEAN /\ bare \subseteq Bare
      BY DEF Init
    <3>4. leftover \in Seq({"ehlo", "starttls", "auth", "mail", "data", "body"})
      BY DEF Init
    <3> QED
      BY <3>1, <3>2, <3>3, <3>4 DEF Init, TypeOK, Commands
  <2>2. m_readbuf \in Seq(Lines) /\ wire \in Seq(Lines)
    BY DEF Init
  <2>3. ~InSession
    BY DEF Init, InSession
  <2> QED
    BY <2>1, <2>2, <2>3 DEF StateInv
<1>2. RetryInv /\ LossInv /\ LeftoverInv
  BY DEF Init, RetryInv, LossInv, LeftoverInv, LeftoverShape, InSession
<1>3. ~InSession
  BY DEF Init, InSession
<1> QED
  BY <1>1, <1>2, <1>3 DEF Init, InSession, WriteInv, ReadInv, TlsInv, InTurn, AuthUnderTls, IInv

\* The mail is handed over: there is no session yet.
LEMMA SubmitKeeps == ASSUME IInv, Submit PROVE IInv'
<1>1. ~InSession' /\ ~InSession
  BY DEF IInv, RetryInv, Submit, InSession
<1>2. StateInv'
  BY <1>1 DEF IInv, StateInv, TypeOK, Submit, server, history
<1>3. RetryInv' /\ LossInv'
  BY DEF IInv, RetryInv, LossInv, StateInv, TypeOK, Submit, server, history
<1>4. InTurn' /\ AuthUnderTls'
  BY DEF IInv, InTurn, AuthUnderTls, Submit, history
<1>5. LeftoverShape'
  BY DEF Submit, IInv, LeftoverInv, LeftoverShape
<1> QED
  BY <1>1, <1>2, <1>3, <1>4, <1>5, OutOfSession DEF IInv

\* The first attempt begins.
LEMMA BeginKeeps == ASSUME IInv, Begin PROVE IInv'
<1>1. /\ result = "trying" /\ result' = "trying" /\ step = "wait"
      /\ cmd' = "connect" /\ step' = "write"
  BY DEF Begin, Goto
<1>2. StateInv'
  <2>1. TypeOK'
    <3>1. (retry_count \in 0..(RetryLimit + 2))'
      BY DEF IInv, StateInv, TypeOK, Begin
    <3>2. (sended_rcpt \in 0..i)'
      BY DEF IInv, StateInv, TypeOK, Begin
    <3>3. ({ehlo_whole, bad_sequence} \subseteq BOOLEAN /\ bare \subseteq Bare)'
      BY DEF IInv, StateInv, TypeOK, Begin
    <3>4. (attempts \in Nat)'
      BY DEF IInv, StateInv, TypeOK, Begin
    <3> QED
      BY <1>1, <3>1, <3>2, <3>3, <3>4 DEF IInv, StateInv, TypeOK, Begin, Commands
  <2>2. m_readbuf' \in Seq(Lines) /\ wire' \in Seq(Lines)
    BY DEF IInv, StateInv, Begin
  <2> QED
    BY <1>1, <2>1, <2>2 DEF StateInv
<1>3. RetryInv' /\ LossInv'
  BY <1>1 DEF IInv, StateInv, TypeOK, RetryInv, LossInv, Begin
<1>4. LeftoverInv' /\ WriteInv' /\ ReadInv' /\ TlsInv'
  BY <1>1 DEF Begin, IInv, LeftoverInv, LeftoverShape, WriteInv, ReadInv, TlsInv, IsRcpt
<1>5. InTurn' /\ AuthUnderTls'
  BY DEF IInv, InTurn, AuthUnderTls, Begin
<1> QED
  BY <1>2, <1>3, <1>4, <1>5 DEF IInv

\* The connection is made: a session begins with what the last one left behind.
LEMMA ConnectedKeeps == ASSUME IInv, Connected PROVE IInv'
<1>1. /\ InSession /\ cmd = "connect" /\ result' = result
      /\ cmd' = "greeting" /\ step' = "read" /\ m_readbuf' = <<>>
      /\ wire' \in Answers(220) \cup Answers(550)
  BY DEF Connected, running, Goto, InSession
<1>2. PICK c \in {220, 550} : wire' \in Answers(c)
  BY <1>1
<1>3. c \in Int /\ <<>> \in Seq(Lines)
  OBVIOUS
<1>4. wire' \in Seq(Lines) /\ <<>> \o wire' = wire'
  BY <1>2, <1>3, AnswerLines, ConcatEmptySeq
<1>5. StateInv'
  BY <1>1, <1>3, <1>4 DEF IInv, StateInv, TypeOK, Connected, Commands, history
<1>6. RetryInv' /\ LossInv'
  BY <1>1, GoesOn DEF IInv, Connected, history
<1>7. Awaits(Expected("greeting"), m_readbuf', wire')
  <2>1. Expected("greeting") \in Int
    BY ExpectedIsCode DEF Commands
  <2>2. ~Has(Expected("greeting"), <<>>, <<>>)
    BY DEF Has
  <2>3. Awaits(Expected("greeting"), <<>>, <<>> \o wire')
    BY <1>2, <1>3, <2>1, <2>2, AnswerDue
  <2> QED
    BY <1>1, <1>4, <2>3
<1>8. LeftoverInv' /\ WriteInv' /\ ReadInv' /\ TlsInv'
  BY <1>1, <1>7 DEF Connected, IInv, LeftoverInv, LeftoverShape, WriteInv, ReadInv, TlsInv, IsRcpt
<1>9. InTurn' /\ AuthUnderTls'
  BY DEF IInv, InTurn, AuthUnderTls, Connected, history
<1> QED
  BY <1>5, <1>6, <1>8, <1>9 DEF IInv

\* The connection is not made: the attempt has failed.
LEMMA ConnectFailsKeeps == ASSUME IInv, ConnectFails PROVE IInv'
<1>1. InSession /\ conn' \in {"up", "down"} /\ m_readbuf' \in Seq(Lines)
  BY DEF ConnectFails, running, InSession, server, IInv, StateInv, TypeOK
<1>2. LeftoverShape'
  BY DEF ConnectFails, IInv, LeftoverInv, LeftoverShape
<1> QED
  BY <1>1, <1>2, AttemptFails DEF ConnectFails, server

\* The bytes that are left over go out before an EHLO.
LEMMA OldWrittenKeeps == ASSUME IInv, OldWritten PROVE IInv'
<1> DEFINE Sent == {"ehlo", "starttls", "auth", "mail", "data", "body"}
           c == Head(leftover)
<1>1. /\ InSession /\ step = "write" /\ leftover # <<>> /\ ~IsRcpt(cmd) /\ Serve(c)
      /\ leftover' = Tail(leftover)
      /\ UNCHANGED <<result, cmd, step, m_readbuf>>
  BY DEF OldWritten, Writing, InSession
<1>2. /\ cmd = "ehlo" /\ (c # "ehlo" => srv = "greet")
      /\ leftover \in Seq(Sent) /\ \A k \in 2..Len(leftover) : leftover[k] = "ehlo"
  BY <1>1 DEF OldWritten, Writing, IInv, LeftoverInv, LeftoverShape, StateInv
<1>3. c \in Sent /\ Tail(leftover) \in Seq(Sent)
  BY <1>1, <1>2
<1>4. \A k \in 1..Len(leftover') : leftover'[k] = "ehlo"
  <2>1. leftover' = Tail(leftover) /\ leftover \in Seq(Sent) /\ leftover # <<>>
    BY <1>1, <1>2
  <2>2. /\ Len(leftover') = Len(leftover) - 1
        /\ \A k \in 1..Len(leftover') : leftover'[k] = leftover[k + 1]
    BY <2>1, HeadTailProperties
  <2>3. Len(leftover) \in Nat
    BY <2>1
  <2> QED
    BY <1>2, <2>2, <2>3
<1>5. Early(m_readbuf) /\ Early(wire) /\ wire \in Seq(Lines)
  BY <1>1, <1>2 DEF IInv, WriteInv, StateInv
<1>6. wire' \in Seq(Lines) /\ Early(wire') /\ accepted' = accepted
  BY <1>1, <1>2, <1>3, <1>5, EarlyServed
<1>7. srv' \in {"greet", "ready", "tls", "authed", "mail", "rcpt", "data"}
  <2>1. c \in Commands \ {"connect", "greeting", "handshake"}
    BY <1>3 DEF Commands
  <2> HIDE DEF c
  <2> QED
    BY <1>1, <2>1, ServerAfter DEF IInv, StateInv
<1>8. LeftoverInv'
  <2>1. Head(leftover') = "ehlo" \/ leftover' = <<>>
    BY <1>1, <1>3, <1>4
  <2>2. LeftoverShape'
    BY <1>1, <1>3, <1>4 DEF LeftoverShape
  <2> QED
    BY <1>1, <1>2, <2>1, <2>2 DEF LeftoverInv, InSession
<1>9. bare' \subseteq Bare /\ ("turn" \notin bare => "turn" \notin bare')
  BY DEF OldWritten, IInv, StateInv, TypeOK, Bare
<1> HIDE DEF c, Sent
<1>10. StateInv'
  <2>1. TypeOK'
    BY <1>6, <1>7, <1>8, <1>9
    DEF OldWritten, IInv, StateInv, TypeOK, LeftoverInv, LeftoverShape
  <2> QED
    BY <1>1, <1>2, <1>6, <2>1 DEF IInv, StateInv, InSession
<1>11. RetryInv' /\ LossInv'
  BY <1>6 DEF OldWritten, IInv, RetryInv, LossInv
<1>12. WriteInv' /\ ReadInv'
  BY <1>1, <1>2, <1>5, <1>6 DEF WriteInv, ReadInv, IsRcpt, Early
<1>13. TlsInv'
  BY <1>1, <1>2 DEF TlsInv
<1>14. InTurn' /\ AuthUnderTls'
  BY <1>9 DEF OldWritten, IInv, InTurn, AuthUnderTls
<1> QED
  BY <1>8, <1>10, <1>11, <1>12, <1>13, <1>14 DEF IInv

\* What a command that is written adds: of one that is not EHLO the answer.
LEMMA CommandSent ==
    ASSUME IInv, Written, cmd # "ehlo"
    PROVE  wire' \in Seq(Lines) /\ ReadInv'
<1>1. /\ InSession /\ step = "write" /\ conn = "up" /\ cmd' = cmd /\ step' = "read"
      /\ cmd \in Commands \ {"connect", "handshake", "greeting"}
      /\ m_readbuf' = m_readbuf /\ sended_rcpt' = sended_rcpt /\ Serve(cmd)
  BY DEF Written, Writing, Goto, InSession, IInv, StateInv, TypeOK
<1>2. /\ m_readbuf \in Seq(Lines) /\ wire \in Seq(Lines)
      /\ accepted \in Nat /\ Expected(cmd) \in Int
  BY <1>1, ExpectedIsCode DEF IInv, StateInv, TypeOK
<1> DEFINE Obeyed(code) ==
            \/ /\ code = Expected(cmd) /\ srv' = After(cmd)
               /\ accepted' = IF cmd = "body" THEN accepted + 1 ELSE accepted
            \/ code = 550 /\ code # Expected(cmd)
<1>3. PICK code \in Int : \E a \in Answers(code) : wire' = wire \o a /\ Obeyed(code)
  BY <1>1, Served
<1>4. PICK a \in Answers(code) : wire' = wire \o a /\ Obeyed(code)
  BY <1>3
<1>5. CASE ~IsRcpt(cmd)
  <2>1. ~Has(Expected(cmd), m_readbuf, wire)
    <3>1. CASE cmd \in {"starttls", "auth", "data"}
      BY <1>1, <1>2, <3>1, LoginCodes, NoSuchLine DEF IInv, WriteInv
    <3>2. CASE cmd \in {"mail", "body"}
      BY <1>1, <1>2, <3>2, NoSuchLine DEF IInv, WriteInv, Quiet
    <3> QED
      BY <1>1, <1>5, <3>1, <3>2 DEF Commands, IsRcpt
  <2>2. /\ wire \o a \in Seq(Lines)
        /\ Awaits(Expected(cmd), m_readbuf, wire \o a)
        /\ Has(Expected(cmd), m_readbuf, wire \o a) => code = Expected(cmd)
    BY <1>2, <2>1, AnswerDue
  <2>3. code = Expected(cmd) =>
            /\ cmd = "auth" => srv' = "authed"
            /\ cmd = "mail" => srv' = "mail"
            /\ cmd = "data" => srv' = "data"
            /\ cmd = "body" => accepted' > 0
    BY <1>2, <1>4 DEF After
  <2> QED
    BY <1>1, <1>4, <1>5, <2>2, <2>3 DEF ReadInv, IsRcpt
<1>6. CASE IsRcpt(cmd)
  <2>1. Early(m_readbuf) /\ Early(wire) /\ RcptInv
    BY <1>1, <1>6 DEF IInv, WriteInv
  <2>2. Expected(cmd) = 250 /\ After(cmd) = "rcpt"
    BY <1>6 DEF Expected, After, IsRcpt
  <2>3. a \in Seq(Lines) /\ Early(a) /\ \A k \in 1..Len(a) : a[k].code = code
    <3>1. a \in Seq(Lines) /\ \A k \in 1..Len(a) : a[k].code = code
      BY AnswerLines
    <3> QED
      BY <1>4, <2>2, <3>1 DEF Early, EarlyCodes
  <2>4. wire' \in Seq(Lines) /\ Early(wire')
    BY <1>2, <1>4, <2>1, <2>3, EarlyBehind
  <2>5. Has(250, m_readbuf, wire') => Has(250, m_readbuf, wire) \/ code = 250
    <3>1. \A k \in 1..Len(wire') :
            \/ k \in 1..Len(wire) /\ wire'[k] = wire[k]
            \/ k - Len(wire) \in 1..Len(a) /\ wire'[k] = a[k - Len(wire)]
      BY <1>2, <1>4, <2>3, Behind
    <3> QED
      BY <2>3, <3>1, SMTT(30) DEF Has
  <2>6. srv' \in {srv, "rcpt"} /\ (code = 250 => srv' = "rcpt")
    BY <1>1, <1>4, <1>6, <2>1, <2>2, ServerAfter DEF IInv, StateInv, RcptInv
  <2>7. RcptInv'
    BY <1>1, <2>1, <2>5, <2>6 DEF RcptInv
  <2> QED
    BY <1>1, <1>6, <2>1, <2>4, <2>7 DEF ReadInv, IsRcpt
<1> QED
  BY <1>5, <1>6

\* A command is out: its answer is due.
LEMMA WrittenKeeps == ASSUME IInv, Written PROVE IInv'
<1>1. /\ InSession /\ step = "write" /\ conn = "up" /\ cmd' = cmd /\ step' = "read"
      /\ cmd \in Commands \ {"connect", "handshake", "greeting"}
      /\ m_readbuf' = m_readbuf /\ result' = result /\ Serve(cmd)
      /\ leftover' = leftover
  BY DEF Written, Writing, Goto, InSession, IInv, StateInv, TypeOK
<1>2. leftover = <<>>
  BY <1>1 DEF Written, IInv, LeftoverInv, IsRcpt
<1>3. /\ srv' \in {"greet", "ready", "tls", "authed", "mail", "rcpt", "data"}
      /\ accepted \in Nat /\ accepted' \in {accepted, accepted + 1}
      /\ cmd # "body" => accepted' = accepted
  BY <1>1, ServerAfter DEF IInv, StateInv, TypeOK
<1>4. wire' \in Seq(Lines) /\ ReadInv'
  <2>1. CASE cmd = "ehlo"
    <3>1. Early(m_readbuf) /\ Early(wire) /\ wire \in Seq(Lines)
      BY <1>1, <2>1 DEF IInv, WriteInv, StateInv
    <3>2. wire' \in Seq(Lines) /\ Early(wire')
      BY <1>1, <2>1, <3>1, EarlyServed
    <3> QED
      BY <1>1, <2>1, <3>1, <3>2 DEF ReadInv, IsRcpt, Expected, Commands
  <2>2. CASE cmd # "ehlo"
    BY <2>2, CommandSent
  <2> QED
    BY <2>1, <2>2
<1>5. bare' \subseteq Bare /\ (AuthUnderTls => AuthUnderTls')
  <2>1. cmd = "auth" /\ ServerTLS /\ ehlo_whole => tls
    BY <1>1 DEF IInv, TlsInv
  <2> QED
    BY <2>1 DEF Written, IInv, StateInv, TypeOK, Bare, AuthUnderTls
<1>6. InTurn'
  <2>1. cmd \in MailCommands => srv \in Accepts(cmd)
    BY <1>1 DEF IInv, WriteInv, RcptInv, MailCommands, Accepts, IsRcpt
  <2> QED
    BY <2>1 DEF Written, IInv, InTurn
<1>7. StateInv'
  <2>1. bad_sequence' \in BOOLEAN /\ ehlo_whole' \in BOOLEAN
    BY <1>6 DEF Written, IInv, StateInv, TypeOK, InTurn
  <2>2. TypeOK'
    BY <1>1, <1>3, <1>5, <2>1 DEF Written, IInv, StateInv, TypeOK
  <2> QED
    BY <1>1, <1>4, <2>2 DEF IInv, StateInv
<1>8. RetryInv' /\ LossInv'
  BY <1>1, <1>3 DEF Written, IInv, StateInv, TypeOK, InSession, RetryInv, LossInv
<1>9. LeftoverInv' /\ WriteInv' /\ TlsInv'
  BY <1>1, <1>2 DEF Written, IInv, LeftoverInv, LeftoverShape, WriteInv, TlsInv, IsRcpt
<1> QED
  BY <1>4, <1>5, <1>6, <1>7, <1>8, <1>9 DEF IInv

\* The recipients are through: with none the attempt fails, with one the server
\* is ready for the mail, if the connection is still there.
LEMMA RcptsDoneKeeps ==
    ASSUME IInv, InSession, IsRcpt(cmd), RcptsDone(sended_rcpt),
           conn' \in {"up", "down"}, RcptInv, Early(m_readbuf), Early(wire),
           UNCHANGED <<m_sslsocket, m_readbuf, leftover, i, sended_rcpt, srv, tls, wire,
                       accepted, attempts, ehlo_whole, bare, bad_sequence>>
    PROVE  IInv'
<1>1. CASE sended_rcpt = 0
  <2>1. RetryOrGiveUp
    BY <1>1 DEF RcptsDone
  <2>2. LeftoverShape' /\ m_readbuf' \in Seq(Lines)
    BY DEF IInv, StateInv, TypeOK, LeftoverInv, LeftoverShape
  <2> QED
    BY <2>1, <2>2, AttemptFails
<1>2. CASE sended_rcpt # 0
  <2>1. /\ cmd' = "data" /\ step' = "write" /\ UNCHANGED <<retry_count, result, lost>>
        /\ sended_rcpt > 0
    BY <1>2 DEF RcptsDone, Goto, IInv, StateInv, TypeOK
  <2>2. StateInv'
    BY <2>1 DEF IInv, StateInv, TypeOK, Commands
  <2>3. RetryInv' /\ LossInv'
    BY <2>1, GoesOn DEF IInv, IsRcpt
  <2>4. leftover = <<>> /\ LeftoverInv'
    BY DEF IInv, LeftoverInv, LeftoverShape, IsRcpt
  <2>5. WriteInv' /\ ReadInv' /\ TlsInv'
    BY <2>1 DEF WriteInv, ReadInv, TlsInv, IsRcpt, RcptInv, Early
  <2>6. InTurn' /\ AuthUnderTls'
    BY DEF IInv, InTurn, AuthUnderTls
  <2> QED
    BY <2>2, <2>3, <2>4, <2>5, <2>6 DEF IInv
<1> QED
  BY <1>1, <1>2

\* A command may be out in part: what is left of it stays in m_writebuf.
LEMMA WriteFailsKeeps == ASSUME IInv, WriteFails PROVE IInv'
<1>1. /\ InSession /\ step = "write" /\ cmd \notin {"connect", "handshake", "greeting"}
      /\ conn' = "down" /\ m_readbuf' \in Seq(Lines)
  BY DEF WriteFails, Writing, InSession, IInv, StateInv, TypeOK
<1>2. CASE IsRcpt(cmd)
  <2>1. RcptInv /\ Early(m_readbuf) /\ Early(wire)
    BY <1>1, <1>2 DEF IInv, WriteInv
  <2> QED
    BY <1>1, <1>2, <2>1, RcptsDoneKeeps DEF WriteFails
<1>3. CASE ~IsRcpt(cmd)
  <2> DEFINE Sent == {"ehlo", "starttls", "auth", "mail", "data", "body"}
  <2>1. leftover' = Append(leftover, cmd) /\ leftover \in Seq(Sent) /\ cmd \in Sent
    BY <1>1, <1>3 DEF WriteFails, IInv, StateInv, TypeOK, Commands, IsRcpt
  <2>2. leftover # <<>> => cmd = "ehlo"
    BY <1>1 DEF IInv, LeftoverInv
  <2>3. \A k \in 2..Len(leftover) : leftover[k] = "ehlo"
    BY DEF IInv, LeftoverInv, LeftoverShape
  <2>4. /\ leftover' \in Seq(Sent) /\ Len(leftover') = Len(leftover) + 1
        /\ \A k \in 1..Len(leftover') :
                leftover'[k] = IF k <= Len(leftover) THEN leftover[k] ELSE cmd
    <3> HIDE DEF Sent
    <3> QED
      BY <2>1, AppendProperties
  <2>5. \A k \in 2..Len(leftover') : leftover'[k] = "ehlo"
    <3>1. Len(leftover) \in Nat /\ (Len(leftover) = 0 => leftover = <<>>)
      BY <2>1
    <3> HIDE DEF Sent
    <3> QED
      BY <2>2, <2>3, <2>4, <3>1
  <2>6. LeftoverShape'
    BY <2>4, <2>5 DEF LeftoverShape
  <2> QED
    BY <1>1, <1>3, <2>6, AttemptFails DEF WriteFails
<1> QED
  BY <1>2, <1>3

\* The connection is lost before the answer has been read.
LEMMA ReadFailsKeeps == ASSUME IInv, ReadFails PROVE IInv'
<1>1. InSession /\ step = "read" /\ conn' = "down" /\ m_readbuf' \in Seq(Lines)
  BY DEF ReadFails, InSession, IInv, StateInv, TypeOK
<1>2. CASE IsRcpt(cmd)
  <2>1. RcptInv /\ Early(m_readbuf) /\ Early(wire)
    BY <1>1, <1>2 DEF IInv, ReadInv
  <2> QED
    BY <1>1, <1>2, <2>1, RcptsDoneKeeps DEF ReadFails
<1>3. CASE ~IsRcpt(cmd)
  <2>1. LeftoverShape'
    BY DEF ReadFails, IInv, LeftoverInv, LeftoverShape
  <2> QED
    BY <1>1, <1>3, <2>1, AttemptFails DEF ReadFails
<1> QED
  BY <1>2, <1>3

\* All recipients have been sent.
LEMMA RcptLoopEndsKeeps == ASSUME IInv, RcptLoopEnds PROVE IInv'
<1>1. InSession /\ IsRcpt(cmd) /\ step = "write"
  BY DEF RcptLoopEnds, running, InSession, IsRcpt
<1>2. RcptInv /\ Early(m_readbuf) /\ Early(wire)
  BY <1>1 DEF IInv, WriteInv
<1>3. conn' = conn /\ conn \in {"up", "down"}
  BY DEF RcptLoopEnds, server, IInv, StateInv, TypeOK
<1> QED
  BY <1>1, <1>2, <1>3, RcptsDoneKeeps DEF RcptLoopEnds, server

\* TLS, or not.
LEMMA HandshakeKeeps == ASSUME IInv, Handshake PROVE IInv'
<1>1. InSession /\ cmd = "handshake" /\ step = "write"
  BY DEF Handshake, running, InSession
<1>2. CASE conn' = "down" /\ RetryOrGiveUp /\ UNCHANGED <<tls, srv>>
  <2>1. LeftoverShape' /\ m_readbuf' \in Seq(Lines)
    BY DEF Handshake, IInv, StateInv, TypeOK, LeftoverInv, LeftoverShape
  <2> QED
    BY <1>1, <1>2, <2>1, AttemptFails DEF Handshake
<1>3. CASE /\ conn = "up" /\ srv = "tls"
           /\ tls' = TRUE /\ srv' = "ready"
           /\ Goto("auth", "write")
           /\ UNCHANGED <<conn, retry_count, result, lost>>
  <2>1. /\ cmd' = "auth" /\ step' = "write" /\ result' = result
        /\ m_readbuf' = <<>> /\ wire' = <<>>
    BY <1>1, <1>3 DEF Goto, Handshake, IInv, WriteInv, Quiet
  <2>2. StateInv'
    BY <1>3, <2>1 DEF Handshake, IInv, StateInv, TypeOK, Commands
  <2>3. RetryInv' /\ LossInv'
    BY <1>1, <1>3, <2>1, GoesOn DEF Handshake, IInv
  <2>4. leftover' = <<>> /\ LeftoverInv'
    BY <1>1 DEF Handshake, IInv, LeftoverInv, LeftoverShape
  <2>5. Early(m_readbuf') /\ Early(wire')
    BY <2>1 DEF Early
  <2>6. WriteInv' /\ ReadInv' /\ TlsInv'
    BY <1>3, <2>1, <2>5 DEF WriteInv, ReadInv, TlsInv, IsRcpt
  <2>7. InTurn' /\ AuthUnderTls'
    BY DEF Handshake, IInv, InTurn, AuthUnderTls
  <2> QED
    BY <2>2, <2>3, <2>4, <2>6, <2>7 DEF IInv
<1> QED
  BY <1>2, <1>3 DEF Handshake

\* What is read, and what is waited for, when a read is done.
LEMMA ReadDoneBuffers ==
    ASSUME IInv, ReadDone
    PROVE  /\ m_readbuf' \in Seq(Lines) /\ wire' \in Seq(Lines)
           /\ Early(m_readbuf) /\ Early(wire) => Early(m_readbuf') /\ Early(wire')
           /\ \A code \in Int : Awaits(code, m_readbuf, wire) => Awaits(code, m_readbuf', wire')
           /\ \A code \in Int : Has(code, m_readbuf', wire') => Has(code, m_readbuf, wire)
<1>1. m_readbuf \in Seq(Lines) /\ wire \in Seq(Lines)
  BY DEF IInv, StateInv
<1>2. CASE Matches(m_readbuf)
  <2>1. UNCHANGED <<m_readbuf, wire>>
    BY <1>2 DEF ReadDone
  <2> QED
    BY <1>1, <2>1
<1>3. CASE ~Matches(m_readbuf)
  <2>1. PICK n \in 1..Len(wire) :
            /\ Matches(m_readbuf \o SubSeq(wire, 1, n))
            /\ m_readbuf' = m_readbuf \o SubSeq(wire, 1, n)
            /\ wire' = SubSeq(wire, n + 1, Len(wire))
    BY <1>3 DEF ReadDone
  <2>2. m_readbuf' \in Seq(Lines) /\ wire' \in Seq(Lines)
    BY <1>1, <2>1, SegmentProperties
  <2>3. /\ Early(m_readbuf) /\ Early(wire) => Early(m_readbuf') /\ Early(wire')
        /\ \A code \in Int : Awaits(code, m_readbuf, wire) => Awaits(code, m_readbuf', wire')
        /\ \A code \in Int : Has(code, m_readbuf', wire') => Has(code, m_readbuf, wire)
    BY <1>1, <2>1, SegmentKeeps
  <2> QED
    BY <2>2, <2>3
<1> QED
  BY <1>2, <1>3

\* Lines of an answer arrive, as many as there are in a segment.
LEMMA ReadDoneKeeps == ASSUME IInv, ReadDone PROVE IInv'
<1>1. /\ InSession /\ step = "read" /\ cmd' = cmd /\ step' = "check" /\ result' = result
      /\ cmd \in Commands \ {"connect", "handshake"}
  BY DEF ReadDone, Goto, InSession, IInv, StateInv, TypeOK
<1>2. m_readbuf' \in Seq(Lines) /\ wire' \in Seq(Lines)
  BY ReadDoneBuffers
<1>3. StateInv'
  <2>1. ehlo_whole' \in BOOLEAN
    <3>1. CASE cmd = "ehlo"
      BY <3>1 DEF ReadDone
    <3>2. CASE cmd # "ehlo"
      BY <3>2 DEF ReadDone, IInv, StateInv, TypeOK
    <3> QED
      BY <3>1, <3>2
  <2>2. TypeOK'
    BY <1>1, <2>1 DEF ReadDone, IInv, StateInv, TypeOK
  <2> QED
    BY <1>1, <1>2, <2>2 DEF StateInv
<1>4. RetryInv' /\ LossInv'
  BY <1>1, GoesOn DEF ReadDone, IInv
<1>5. ReadInv'
  <2>1. Expected(cmd) \in Int
    BY <1>1, ExpectedIsCode
  <2>2. /\ Awaits(Expected(cmd), m_readbuf, wire) => Awaits(Expected(cmd), m_readbuf', wire')
        /\ Has(Expected(cmd), m_readbuf', wire') => Has(Expected(cmd), m_readbuf, wire)
        /\ Has(250, m_readbuf', wire') => Has(250, m_readbuf, wire)
        /\ Early(m_readbuf) /\ Early(wire) => Early(m_readbuf') /\ Early(wire')
    BY <2>1, ReadDoneBuffers
  <2>3. UNCHANGED <<srv, accepted, sended_rcpt>>
    BY DEF ReadDone
  <2> QED
    BY <1>1, <1>2, <2>2, <2>3 DEF IInv, ReadInv, RcptInv
<1>6. TlsInv'
  BY <1>1 DEF ReadDone, TlsInv
<1>7. LeftoverInv' /\ WriteInv'
  BY <1>1 DEF ReadDone, IInv, LeftoverInv, LeftoverShape, WriteInv
<1>8. InTurn' /\ AuthUnderTls'
  BY DEF ReadDone, IInv, InTurn, AuthUnderTls
<1> QED
  BY <1>3, <1>4, <1>5, <1>6, <1>7, <1>8 DEF IInv

\* EHLO is followed by STARTTLS if its answer, read in one piece, offers it.
LEMMA OfferTaken ==
    ASSUME CheckCaps, ServerTLS, m_readbuf = EhloAnswer
    PROVE  cmd' = "starttls"
<1>1. /\ EhloAnswer \in Seq(Lines) /\ Len(EhloAnswer) = 4 /\ EhloAnswer[3].tls
      /\ \A k \in 1..3 : EhloAnswer[k].code = 250 /\ EhloAnswer[k].more
  <2>1. /\ EhloAnswer \in Seq(Lines) /\ Len(EhloAnswer) = 4 /\ EhloAnswer[3].tls
        /\ \A k \in 1..3 : EhloAnswer[k].more
    BY EhloAnswerLines
  <2>2. \A k \in 1..4 : EhloAnswer[k].code = 250
    BY <2>1, EhloAnswerLines
  <2> QED
    BY <2>1, <2>2
<1>2. FirstOther(EhloAnswer, 250) > 3
  <2> DEFINE code == 250
             n == 3
  <2>1. EhloAnswer \in Seq(Lines) /\ code \in Int /\ n \in 0..Len(EhloAnswer)
    BY <1>1
  <2>2. \A k \in 1..n : EhloAnswer[k].code = code /\ EhloAnswer[k].more
    BY <1>1
  <2> HIDE DEF code, n
  <2>3. FirstOther(EhloAnswer, code) > n
    BY <2>1, <2>2, SkipsLines, Zenon
  <2> QED
    BY <2>3 DEF code, n
<1>3. \E k \in 1..Len(m_readbuf) : k < FirstOther(m_readbuf, 250) /\ m_readbuf[k].tls
  BY <1>1, <1>2
<1>4. m_sslsocket' = "current" /\ cmd = "ehlo"
  BY <1>3 DEF CheckCaps, running
<1> QED
  BY <1>4 DEF CheckCaps, Goto, Following

\* The answer to EHLO is looked at, for STARTTLS.
LEMMA CheckCapsKeeps == ASSUME IInv, CheckCaps PROVE IInv'
<1>1. /\ InSession /\ cmd = "ehlo" /\ step = "check" /\ step' = "write"
      /\ cmd' \in {"starttls", "auth"} /\ result' = result
  BY DEF CheckCaps, running, InSession, Goto, Following
<1>2. m_readbuf' \in Seq(Lines) /\ Early(m_readbuf') /\ Early(wire')
  <2>1. m_readbuf \in Seq(Lines) /\ m_readbuf' = Rest(m_readbuf, 250) /\ 250 \in Int
    BY DEF CheckCaps, IInv, StateInv
  <2>2. Early(m_readbuf) /\ Early(wire) /\ wire' = wire
    BY <1>1 DEF CheckCaps, server, IInv, ReadInv
  <2>3. /\ m_readbuf' \in Seq(Lines)
        /\ \A k \in 1..Len(m_readbuf') : \E j \in 1..Len(m_readbuf) : m_readbuf'[k] = m_readbuf[j]
    BY <2>1, RestIsEnd
  <2> QED
    BY <2>2, <2>3 DEF Early
<1>3. StateInv'
  <2>1. m_sslsocket' \in {"none", "current", "stale"}
    BY DEF CheckCaps, IInv, StateInv, TypeOK
  <2>2. TypeOK' /\ wire' = wire
    BY <1>1, <2>1 DEF CheckCaps, server, history, IInv, StateInv, TypeOK, Commands
  <2> QED
    BY <1>1, <1>2, <2>2 DEF IInv, StateInv
<1>4. RetryInv' /\ LossInv'
  BY <1>1, GoesOn DEF CheckCaps, server, history, IInv
<1>5. leftover' = <<>> /\ LeftoverInv'
  BY <1>1 DEF CheckCaps, IInv, LeftoverInv, LeftoverShape
<1>6. TlsInv'
  BY <1>1, OfferTaken DEF CheckCaps, server, history, IInv, TlsInv, InSession
<1>7. WriteInv' /\ ReadInv'
  BY <1>1, <1>2 DEF WriteInv, ReadInv, IsRcpt
<1>8. InTurn' /\ AuthUnderTls'
  BY DEF CheckCaps, history, IInv, InTurn, AuthUnderTls
<1> QED
  BY <1>3, <1>4, <1>5, <1>6, <1>7, <1>8 DEF IInv

\* The answer that was waited for, found: what it tells holds, and nothing is
\* left.
LEMMA AnswerFound ==
    ASSUME IInv, InSession, step = "check", cmd \notin {"ehlo", "rcpt", "rcpt_brackets"},
           m_readbuf' = Rest(m_readbuf, Expected(cmd)), wire' = wire,
           IsOk(m_readbuf, Expected(cmd))
    PROVE  /\ m_readbuf' = <<>> /\ wire' = <<>>
           /\ cmd = "auth" => srv = "authed"
           /\ cmd = "mail" => srv = "mail"
           /\ cmd = "data" => srv = "data"
           /\ cmd = "body" => accepted > 0
<1>1. m_readbuf \in Seq(Lines) /\ wire \in Seq(Lines) /\ Expected(cmd) \in Int
  BY ExpectedIsCode DEF IInv, StateInv, TypeOK
<1>2. Awaits(Expected(cmd), m_readbuf, wire)
  BY DEF IInv, ReadInv
<1>3. /\ Rest(m_readbuf, Expected(cmd)) = <<>> /\ wire = <<>>
      /\ Has(Expected(cmd), m_readbuf, wire)
  BY <1>1, <1>2, Consumed
<1> QED
  BY <1>3 DEF IInv, ReadInv

\* The answer to a command is looked at.
LEMMA CheckKeeps == ASSUME IInv, Check PROVE IInv'
<1>1. /\ InSession /\ step = "check" /\ cmd \notin {"ehlo", "body", "rcpt", "rcpt_brackets"}
      /\ cmd \notin {"connect", "handshake"}
      /\ m_readbuf' = Rest(m_readbuf, Expected(cmd)) /\ wire' = wire
  BY DEF Check, InSession, IsRcpt, server, IInv, StateInv
<1>2. m_readbuf' \in Seq(Lines)
  <2>1. m_readbuf \in Seq(Lines) /\ Expected(cmd) \in Int
    BY ExpectedIsCode DEF IInv, StateInv, TypeOK
  <2> QED
    BY <1>1, <2>1, RestIsEnd
<1>3. CASE ~IsOk(m_readbuf, Expected(cmd))
  <2>1. RetryOrGiveUp /\ UNCHANGED <<i, sended_rcpt>>
    BY <1>3 DEF Check
  <2>2. conn' \in {"up", "down"} /\ LeftoverShape'
    BY DEF Check, server, IInv, StateInv, TypeOK, LeftoverInv, LeftoverShape
  <2> QED
    BY <1>1, <1>2, <2>1, <2>2, AttemptFails DEF Check, server
<1>4. CASE IsOk(m_readbuf, Expected(cmd))
  <2>1. /\ step' = "write" /\ cmd' = Following(cmd, m_sslsocket)
        /\ cmd = "mail" => i' = 0 /\ sended_rcpt' = 0
        /\ cmd # "mail" => UNCHANGED <<i, sended_rcpt>>
        /\ UNCHANGED <<retry_count, result, lost>>
    BY <1>4 DEF Check, Goto
  <2>2. \/ cmd = "greeting" /\ cmd' = "ehlo"
        \/ cmd = "starttls" /\ cmd' = "handshake"
        \/ cmd = "auth" /\ cmd' = "mail"
        \/ cmd = "mail" /\ cmd' = "rcpt"
        \/ cmd = "data" /\ cmd' = "body"
    <3>1. cmd \in {"greeting", "starttls", "auth", "mail", "data"}
      BY <1>1 DEF IInv, StateInv, TypeOK, Commands
    <3> QED
      BY <2>1, <3>1 DEF Following
  <2>3. /\ m_readbuf' = <<>> /\ wire' = <<>>
        /\ cmd = "auth" => srv = "authed"
        /\ cmd = "mail" => srv = "mail"
        /\ cmd = "data" => srv = "data"
    BY <1>1, <1>4, AnswerFound
  <2>4. UNCHANGED <<m_sslsocket, leftover, conn, srv, tls, wire, accepted, attempts,
                    ehlo_whole, bare, bad_sequence>>
    BY DEF Check, server
  <2>5. StateInv'
    <3>1. (i \in Nat /\ sended_rcpt \in 0..i)'
      BY <2>1 DEF IInv, StateInv, TypeOK
    <3>2. TypeOK'
      BY <2>1, <2>2, <2>4, <3>1 DEF IInv, StateInv, TypeOK, Commands
    <3> QED
      BY <1>2, <2>1, <2>2, <2>4, <3>2 DEF IInv, StateInv
  <2>6. RetryInv' /\ LossInv'
    BY <1>1, <2>1, <2>4, GoesOn DEF IInv
  <2>7. LeftoverInv'
    BY <1>1, <2>1, <2>2, <2>4 DEF IInv, LeftoverInv, LeftoverShape, InSession
  <2>8. WriteInv'
    BY <2>1, <2>2, <2>3, <2>4 DEF WriteInv, Quiet, Early, Has, IsRcpt, RcptInv
  <2>9. ReadInv' /\ TlsInv'
    BY <2>1, <2>2 DEF ReadInv, TlsInv
  <2>10. InTurn' /\ AuthUnderTls'
    BY <2>4 DEF IInv, InTurn, AuthUnderTls
  <2> QED
    BY <2>5, <2>6, <2>7, <2>8, <2>9, <2>10 DEF IInv
<1> QED
  BY <1>3, <1>4

\* The answer for a recipient is looked at.
LEMMA CheckRcptKeeps == ASSUME IInv, CheckRcpt PROVE IInv'
<1>1. /\ InSession /\ step = "check" /\ IsRcpt(cmd) /\ step' = "write"
      /\ cmd' \in {"rcpt", "rcpt_brackets"}
      /\ UNCHANGED <<result, retry_count, m_sslsocket, leftover, conn, srv, tls, wire, accepted,
                     attempts, ehlo_whole, bare, bad_sequence, lost>>
  BY DEF CheckRcpt, InSession, Goto, server, history
<1>2. /\ RcptInv /\ Early(m_readbuf) /\ Early(wire)
      /\ m_readbuf \in Seq(Lines) /\ wire \in Seq(Lines)
  BY <1>1 DEF IInv, ReadInv, StateInv
<1>3. /\ m_readbuf' \in Seq(Lines)
      /\ \A k \in 1..Len(m_readbuf') : \E j \in 1..Len(m_readbuf) : m_readbuf'[k] = m_readbuf[j]
  BY <1>2, RestIsEnd DEF CheckRcpt
<1>4. /\ Early(m_readbuf') /\ (Has(250, m_readbuf', wire) => Has(250, m_readbuf, wire))
      /\ IsOk(m_readbuf, 250) => srv = "rcpt"
  <2>1. IsOk(m_readbuf, 250) => Has(250, m_readbuf, wire)
    <3>1. \A code \in Int : FirstOther(m_readbuf, code) \in 1..(Len(m_readbuf) + 1)
      BY <1>2, FirstOtherIs
    <3>2. FirstOther(m_readbuf, 250) \in 1..(Len(m_readbuf) + 1)
      BY <3>1
    <3> QED
      BY <3>2 DEF IsOk, Has
  <2>2. wire' = wire
    BY <1>1
  <2>3. Early(m_readbuf') /\ (Has(250, m_readbuf', wire) => Has(250, m_readbuf, wire))
    BY <1>2, <1>3 DEF Early, Has
  <2>4. IsOk(m_readbuf, 250) => srv = "rcpt"
    BY <1>2, <2>1 DEF RcptInv
  <2> QED
    BY <2>2, <2>3, <2>4
<1>5. /\ (i \in Nat /\ sended_rcpt \in 0..i)'
      /\ sended_rcpt' > 0 => srv = "rcpt"
  <2>1. i \in Nat /\ sended_rcpt \in 0..i /\ (sended_rcpt > 0 => srv = "rcpt")
    BY <1>2 DEF IInv, StateInv, TypeOK, RcptInv
  <2> QED
    BY <1>4, <2>1 DEF CheckRcpt
<1>6. StateInv'
  <2>1. TypeOK'
    BY <1>1, <1>5 DEF IInv, StateInv, TypeOK, Commands
  <2> QED
    BY <1>1, <1>2, <1>3, <2>1 DEF StateInv
<1>7. RetryInv' /\ LossInv'
  BY <1>1, GoesOn DEF IInv, IsRcpt
<1>8. LeftoverInv'
  BY <1>1 DEF IInv, LeftoverInv, LeftoverShape, InSession, IsRcpt
<1>9. WriteInv' /\ ReadInv' /\ TlsInv'
  <2>1. RcptInv'
    BY <1>1, <1>2, <1>4, <1>5 DEF RcptInv
  <2> QED
    BY <1>1, <1>2, <1>4, <2>1 DEF WriteInv, ReadInv, TlsInv, IsRcpt
<1>10. InTurn' /\ AuthUnderTls'
  BY <1>1 DEF IInv, InTurn, AuthUnderTls
<1> QED
  BY <1>6, <1>7, <1>8, <1>9, <1>10 DEF IInv

\* The answer for the mail itself is looked at.
LEMMA CheckBodyKeeps == ASSUME IInv, CheckBody PROVE IInv'
<1>1. /\ InSession /\ cmd = "body" /\ step = "check" /\ wire' = wire
      /\ m_readbuf' = Rest(m_readbuf, 250)
  BY DEF CheckBody, running, InSession, server
<1>2. m_readbuf' \in Seq(Lines)
  BY <1>1, RestIsEnd DEF IInv, StateInv
<1>3. CASE ~IsOk(m_readbuf, 250)
  <2>1. conn' \in {"up", "down"} /\ LeftoverShape'
    BY DEF CheckBody, server, IInv, StateInv, TypeOK, LeftoverInv, LeftoverShape
  <2> QED
    BY <1>1, <1>2, <1>3, <2>1, AttemptFails DEF CheckBody, server
<1>4. CASE IsOk(m_readbuf, 250)
  <2>1. /\ result' = "sent"
        /\ UNCHANGED <<retry_count, cmd, step, lost, m_sslsocket, leftover, i, sended_rcpt,
                       conn, srv, tls, wire, accepted, attempts, ehlo_whole, bare,
                       bad_sequence>>
    BY <1>4 DEF CheckBody, server
  <2>2. ~InSession'
    BY <2>1 DEF InSession
  <2>3. StateInv'
    BY <1>2, <2>1, <2>2 DEF IInv, StateInv, TypeOK
  <2>4. RetryInv'
    BY <1>1, <2>1 DEF IInv, RetryInv, InSession
  <2>5. LossInv'
    BY <1>1, <2>1 DEF IInv, LossInv
  <2>6. InTurn' /\ AuthUnderTls' /\ LeftoverShape'
    BY <2>1 DEF IInv, InTurn, AuthUnderTls, LeftoverInv, LeftoverShape
  <2> QED
    BY <2>2, <2>3, <2>4, <2>5, <2>6, OutOfSession DEF IInv
<1> QED
  BY <1>3, <1>4
-----------------------------------------------------------------------------
(* The theorems *)

\* The invariant holds in every state: in the initial ones, and each action of
\* Next keeps it.
THEOREM Invariance == Spec => []IInv
<1>1. IInv /\ [Next]_vars => IInv'
  <2> SUFFICES ASSUME IInv, [Next]_vars PROVE IInv'
    OBVIOUS
  <2>1. CASE Submit
    BY <2>1, SubmitKeeps
  <2>2. CASE Begin
    BY <2>2, BeginKeeps
  <2>3. CASE Connected
    BY <2>3, ConnectedKeeps
  <2>4. CASE ConnectFails
    BY <2>4, ConnectFailsKeeps
  <2>5. CASE Written
    BY <2>5, WrittenKeeps
  <2>6. CASE WriteFails
    BY <2>6, WriteFailsKeeps
  <2>7. CASE ReadDone
    BY <2>7, ReadDoneKeeps
  <2>8. CASE ReadFails
    BY <2>8, ReadFailsKeeps
  <2>9. CASE CheckCaps
    BY <2>9, CheckCapsKeeps
  <2>10. CASE Check
    BY <2>10, CheckKeeps
  <2>11. CASE Handshake
    BY <2>11, HandshakeKeeps
  <2>12. CASE CheckRcpt
    BY <2>12, CheckRcptKeeps
  <2>13. CASE RcptLoopEnds
    BY <2>13, RcptLoopEndsKeeps
  <2>14. CASE CheckBody
    BY <2>14, CheckBodyKeeps
  <2>15. CASE OldWritten
    BY <2>15, OldWrittenKeeps
  <2>16. CASE UNCHANGED vars
    <3>1. InSession' = InSession
      BY <2>16 DEF vars, client, InSession
    <3>2. StateInv' /\ RetryInv' /\ LossInv' /\ LeftoverInv'
      BY <2>16, <3>1 DEF IInv, vars, client, server, history, StateInv, TypeOK, RetryInv,
                         LossInv, LeftoverInv, LeftoverShape
    <3>3. WriteInv'
      BY <2>16, <3>1 DEF IInv, vars, client, server, WriteInv, Quiet, RcptInv
    <3>4. ReadInv'
      BY <2>16, <3>1 DEF IInv, vars, client, server, ReadInv, RcptInv
    <3>5. TlsInv' /\ InTurn' /\ AuthUnderTls'
      BY <2>16, <3>1 DEF IInv, vars, client, server, history, TlsInv, InTurn, AuthUnderTls
    <3> QED
      BY <3>2, <3>3, <3>4, <3>5 DEF IInv
  <2> QED
    BY <2>1, <2>2, <2>3, <2>4, <2>5, <2>6, <2>7, <2>8, <2>9, <2>10, <2>11, <2>12, <2>13,
       <2>14, <2>15, <2>16 DEF Next, Attempt
<1> QED
  BY <1>1, InitIInv, PTL DEF Spec

\* In every session of every attempt answers, commands and TLS stay in step: no
\* answer is taken for that of another command (check_smtp_response on a buffer
\* shared by the attempts, answers of one line or more that may lag behind the
\* recipients), and AUTH in its turn is encrypted if the answer to EHLO was read.
\* Of the bytes of a login left over in m_writebuf it says nothing (LoginEncrypted).
THEOREM SessionSafe == Spec => []SessionInv
<1>1. IInv => SessionInv
  BY DEF IInv, StateInv, SessionInv
<1> QED
  BY <1>1, Invariance, PTL

\* A mail reaches the server twice only when the answer to it was lost or
\* refused: the retry loop of mx::smtp sends again only what was not answered.
THEOREM DuplicatesSafe == Spec => []DuplicatesNeedLoss
<1>1. IInv => DuplicatesNeedLoss
  BY DEF IInv, StateInv, TypeOK, LossInv, DuplicatesNeedLoss
<1> QED
  BY <1>1, Invariance, PTL

\* retry_count++ <= RetryLimit: there are at most RetryLimit + 2 attempts, and
\* the handler is told of a failure only after the last of them.
AttemptsBound ==
    attempts <= RetryLimit + 2 /\ (result = "failed" => attempts = RetryLimit + 2)

\* The attempts are bounded and counted, whatever fails in whichever of them:
\* the loop around the coroutine of mx::smtp gives up after the last retry only.
THEOREM AttemptsSafe == Spec => []AttemptsBound
<1>1. IInv => AttemptsBound
  BY SmtpAssumption DEF IInv, StateInv, TypeOK, RetryInv, AttemptsBound
<1> QED
  BY <1>1, Invariance, PTL

\* Every step is one of MailDelivery or changes nothing it speaks of; the handler
\* is told success only for a mail the server has accepted.
LEMMA StepRefines == ASSUME IInv, [Next]_vars PROVE [Delivery!Next]_(Delivery!vars)
<1>1. ASSUME UNCHANGED accepted,
             result' = result \/ (result = "trying" /\ result' = "failed")
      PROVE  [Delivery!Next]_(Delivery!vars)
  BY <1>1 DEF Delivery!Next, Delivery!Report, Delivery!vars
<1>2. RetryOrGiveUp /\ result = "trying" => result' = result \/ result' = "failed"
  BY DEF RetryOrGiveUp
<1>3. CASE Submit
  BY <1>3 DEF Submit, server, Delivery!Next, Delivery!Submit
<1>4. CASE OldWritten \/ Written
  <2>1. PICK c \in Commands \ {"connect", "greeting", "handshake"} : Serve(c)
    <3>1. CASE OldWritten
      <4>1. /\ leftover \in Seq({"ehlo", "starttls", "auth", "mail", "data", "body"})
            /\ leftover # <<>> /\ Serve(Head(leftover))
        BY <3>1 DEF OldWritten, IInv, StateInv, TypeOK
      <4>2. Head(leftover) \in Commands \ {"connect", "greeting", "handshake"}
        BY <4>1 DEF Commands
      <4> QED
        BY <4>1, <4>2
    <3>2. CASE Written
      BY <3>2 DEF Written, Writing, IInv, StateInv, TypeOK, InSession
    <3> QED
      BY <1>4, <3>1, <3>2
  <2>2. accepted' \in {accepted, accepted + 1}
    BY <2>1, ServerAfter DEF IInv, StateInv
  <2>3. result = "trying" /\ result' = result
    BY <1>4 DEF OldWritten, Written, Writing
  <2> QED
    BY <2>2, <2>3 DEF Delivery!Next, Delivery!Accept, Delivery!vars
<1>5. CASE CheckBody
  <2>1. CASE ~IsOk(m_readbuf, 250)
    BY <1>1, <1>2, <1>5, <2>1 DEF CheckBody, running, server
  <2>2. CASE IsOk(m_readbuf, 250)
    <3>1. /\ InSession /\ step = "check" /\ cmd = "body" /\ Expected(cmd) = 250
          /\ m_readbuf' = Rest(m_readbuf, 250) /\ wire' = wire
      BY <1>5 DEF CheckBody, running, server, InSession, Expected
    <3>2. accepted > 0
      BY <2>2, <3>1, AnswerFound
    <3>3. result = "trying" /\ result' = "sent" /\ accepted' = accepted
      BY <1>5, <2>2 DEF CheckBody, running, server
    <3> QED
      BY <3>2, <3>3 DEF Delivery!Next, Delivery!Report
  <2> QED
    BY <2>1, <2>2
<1>6. CASE Begin \/ Connected \/ ReadDone \/ CheckCaps \/ CheckRcpt
  BY <1>1, <1>6 DEF Begin, Connected, ReadDone, CheckCaps, CheckRcpt, server
<1>7. CASE ConnectFails \/ Handshake
  BY <1>1, <1>2, <1>7 DEF ConnectFails, Handshake, running, server
<1>8. CASE WriteFails \/ ReadFails \/ RcptLoopEnds
  BY <1>1, <1>2, <1>8 DEF WriteFails, Writing, ReadFails, RcptLoopEnds, RcptsDone, running, server
<1>9. CASE Check
  BY <1>1, <1>2, <1>9 DEF Check, server
<1>10. CASE UNCHANGED vars
  BY <1>1, <1>10 DEF vars, client, server
<1> QED
  BY <1>3, <1>4, <1>5, <1>6, <1>7, <1>8, <1>9, <1>10 DEF Next, Attempt

\* mx::smtp keeps what async_sendmail promises: the handler is called at most
\* once, told success only for a mail the server accepted, and nothing is sent
\* once it has been called.
THEOREM Delivers == Spec => DeliverySpec
<1>1. Init => Delivery!Init
  BY DEF Init, Delivery!Init
<1>2. IInv /\ [Next]_vars => [Delivery!Next]_(Delivery!vars)
  BY StepRefines
<1> QED
  BY <1>1, <1>2, Invariance, PTL DEF Spec, DeliverySpec, Delivery!Spec
-----------------------------------------------------------------------------
(* The chain of proxies *)

Hops     == {"tcp", "socks5", "http"}
Outcomes == {"ok", "refused", "proxy_refused", "failed"}

\* The chains add()ed from the last hop to the first: the tcp hop is the last.
OutwardOnly ==
    \A a \in Orders : \A k \in 1..Len(a) : a[k] = "tcp" => k = Len(a)

(* The parts of the inductive invariants *)

\* What the sequences hold.
SeqInv == path \in Seq(Hops) /\ told \in Seq(Outcomes)

\* The way down ends at the first tcp hop; each hop on the way back up adds
\* itself to the path once at the most.
LevelInv ==
    /\ \A k \in 1..level : adds[k] # "tcp"
    /\ stage = "resolve" => path = <<>>
    /\ stage \in Socks5Stages => Len(path) + level + 1 <= Len(adds)
    /\ stage = "return" => Len(path) + level <= Len(adds)

\* The handler is called when everything else is over, and a read is left only
\* by an http hop.
ToldInv ==
    /\ stage # "done" => told = <<>>
    /\ stage = "done" /\ ~Contains(adds, "http") => Len(told) = 1
    /\ reading => Contains(adds, "http")

\* That read is left by a caller's own operation, through the http hop alone,
\* and before its answer the http hop is not in the path.
ReadingInv ==
    reading => /\ level = 0 /\ adds[1] = "http"
               /\ stage \in {"return", "done"}
               /\ (status = "none" => Len(path) < Len(adds))

BaseInv == ChainTypeOK /\ SeqInv /\ LevelInv /\ ToldInv /\ ReadingInv

\* The hops that agreed are the last n of the chain, from the tcp hop on.
Through(n) ==
    Len(path) = n /\ \A k \in 1..n : path[k] = adds[Len(adds) - k + 1]

\* In a chain that leads outward each level builds on all those below it.
OutwardInv ==
    /\ stage \in Socks5Stages => ec = "ok" /\ Through(Len(adds) - level - 1)
    /\ stage = "resolve" => ec = "ok"
    /\ stage = "return" => /\ ec = "ok" /\ ~reading => Through(Len(adds) - level)
                           /\ ec = "refused" => level = Len(adds) - 1
    /\ reading => \/ Through(Len(adds) - 1)
                  \/ (Through(Len(adds)) /\ status # "none")
    /\ Contains(told, "ok") => \/ Through(Len(adds))
                              \/ (Through(Len(adds) - 1) /\ Contains(adds, "http"))
    /\ RefusalIsMapped
-----------------------------------------------------------------------------
(* Chains *)

\* What is assumed of a chain: it has a tcp hop, and an http hop that is not
\* the first has one before it.
LEMMA ChainProperties ==
    ASSUME adds \in Orders
    PROVE  /\ adds \in Seq(Hops) /\ Len(adds) \in Nat \ {0}
           /\ \E k \in 1..Len(adds) : adds[k] = "tcp"
           /\ \A k \in 2..Len(adds) : adds[k] = "http" => \E j \in 1..(k - 1) : adds[j] = "tcp"
<1>1. /\ adds \in Seq(Hops)
      /\ Contains(adds, "tcp")
      /\ \A k \in 2..Len(adds) : adds[k] = "http" => \E j \in 1..(k - 1) : adds[j] = "tcp"
  BY ChainAssumption DEF Hops
<1>2. \E k \in 1..Len(adds) : adds[k] = "tcp"
  BY <1>1 DEF Contains
<1>3. Len(adds) \in Nat \ {0}
  BY <1>1, <1>2
<1> QED
  BY <1>1, <1>2, <1>3

\* back() after level pops is the hop that was added as number level + 1.
LEMMA HopIs ==
    ASSUME adds \in Orders, level \in 0..(Len(adds) - 1)
    PROVE  hop = adds[level + 1] /\ hop \in Hops
<1> DEFINE n == Len(adds)
<1>1. adds \in Seq(Hops) /\ n \in Nat
  BY ChainProperties
<1>2. m_chain = [k \in 1..n |-> adds[(n - k) + 1]]
  BY DEF m_chain, Reverse
<1>3. Len(m_chain) = n
  BY <1>1, <1>2
<1> HIDE DEF n
<1>4. n - level \in 1..n /\ (n - (n - level)) + 1 = level + 1
  BY <1>1 DEF n
<1>5. hop = adds[level + 1]
  BY <1>2, <1>3, <1>4 DEF hop
<1> QED
  BY <1>1, <1>5 DEF n

\* A path through the whole chain is the chain.
LEMMA ThroughAll ==
    ASSUME adds \in Orders, path \in Seq(Hops), Through(Len(adds))
    PROVE  path = m_chain
<1> DEFINE n == Len(adds)
<1>1. n \in Nat
  BY ChainProperties
<1>2. m_chain = [k \in 1..n |-> adds[(n - k) + 1]]
  BY DEF m_chain, Reverse
<1>3. Len(path) = n /\ \A k \in 1..n : path[k] = adds[n - k + 1]
  BY DEF Through
<1> HIDE DEF n
<1>4. path = [k \in 1..n |-> path[k]]
  BY <1>3
<1> QED
  BY <1>2, <1>3, <1>4

\* A path through all hops but the last is the chain without it.
LEMMA ThroughFront ==
    ASSUME adds \in Orders, path \in Seq(Hops), Through(Len(adds) - 1)
    PROVE  path = Front(m_chain)
<1> DEFINE n == Len(adds)
<1>1. n \in Nat \ {0} /\ adds \in Seq(Hops)
  BY ChainProperties
<1>2. m_chain = [k \in 1..n |-> adds[(n - k) + 1]]
  BY DEF m_chain, Reverse
<1>3. Len(path) = n - 1 /\ \A k \in 1..(n - 1) : path[k] = adds[n - k + 1]
  BY DEF Through
<1> HIDE DEF n
<1>4. Len(m_chain) = n /\ 1..(n - 1) \subseteq 1..n
  BY <1>1, <1>2
<1>5. Front(m_chain) = [k \in 1..(n - 1) |-> m_chain[k]]
  BY <1>1, <1>4 DEF Front
<1>6. path = [k \in 1..(n - 1) |-> path[k]]
  BY <1>3
<1>7. \A k \in 1..(n - 1) : path[k] = m_chain[k]
  BY <1>2, <1>3, <1>4
<1> QED
  BY <1>5, <1>6, <1>7

\* One hop more.
LEMMA OneFurther ==
    ASSUME adds \in Orders, level \in 0..(Len(adds) - 1), path \in Seq(Hops),
           UNCHANGED <<adds, level>>,
           path' = Append(path, hop), Through(Len(adds) - level - 1)
    PROVE  Through(Len(adds) - level)'
<1> DEFINE n == Len(adds)
           m == n - level - 1
<1>1. n \in Nat /\ level \in 0..(n - 1) /\ m \in Nat
  BY ChainProperties
<1>2. hop = adds[level + 1] /\ hop \in Hops
  BY HopIs
<1>3. Len(path) = m /\ \A k \in 1..m : path[k] = adds[n - k + 1]
  BY DEF Through
<1> HIDE DEF n
<1>4. /\ Len(path') = m + 1
      /\ \A k \in 1..m : path'[k] = path[k]
      /\ path'[m + 1] = hop
  BY <1>1, <1>2, <1>3, AppendProperties
<1>5. m + 1 = n - level /\ n - (m + 1) + 1 = level + 1
  BY <1>1
<1>6. ASSUME NEW k \in 1..(n - level)
      PROVE  path'[k] = adds[n - k + 1]
  <2>1. CASE k = m + 1
    BY <1>2, <1>4, <1>5, <2>1
  <2>2. CASE k # m + 1
    <3>1. k \in 1..m
      BY <1>1, <1>5, <2>2
    <3> QED
      BY <1>3, <1>4, <3>1
  <2> QED
    BY <2>1, <2>2
<1> QED
  BY <1>4, <1>5, <1>6 DEF Through, n
-----------------------------------------------------------------------------
(* Any chain *)

\* At first all hops of the chain are above the level and nobody has been told.
LEMMA InitBase == ChainInit => BaseInv
<1> SUFFICES ASSUME ChainInit PROVE BaseInv
  OBVIOUS
<1>1. adds \in Orders /\ Len(adds) \in Nat \ {0}
  BY ChainProperties DEF ChainInit
<1>2. ChainTypeOK
  <2>1. level \in 0..(Len(adds) - 1)
    BY <1>1 DEF ChainInit
  <2>2. Len(path) <= Len(adds) /\ Len(told) <= MaxReentries + 1
    BY <1>1, ChainAssumption DEF ChainInit
  <2> QED
    BY <1>1, <2>1, <2>2 DEF ChainInit, ChainTypeOK
<1>3. SeqInv /\ LevelInv /\ ToldInv /\ ReadingInv
  BY DEF ChainInit, SeqInv, LevelInv, ToldInv, ReadingInv, Socks5Stages
<1> QED
  BY <1>2, <1>3 DEF BaseInv

\* Down to the next hop, which is there: the hops so far are not tcp.
LEMMA ResolveProxyBase == ASSUME BaseInv, ResolveProxy PROVE BaseInv'
<1>1. /\ adds \in Orders /\ level \in 0..(Len(adds) - 1)
      /\ hop # "tcp" /\ level' = level + 1
      /\ UNCHANGED <<adds, stage, ec, path, told, reading, status>>
  BY DEF BaseInv, ChainTypeOK, ResolveProxy
<1>2. hop = adds[level + 1]
  BY <1>1, HopIs
<1>3. Len(adds) \in Nat /\ \E k \in 1..Len(adds) : adds[k] = "tcp"
  BY <1>1, ChainProperties
<1>4. \A k \in 1..(level + 1) : adds[k] # "tcp"
  BY <1>1, <1>2 DEF BaseInv, LevelInv
<1>5. level + 1 \in 0..(Len(adds) - 1)
  BY <1>1, <1>3, <1>4
<1>6. ChainTypeOK'
  BY <1>1, <1>5 DEF BaseInv, ChainTypeOK
<1>7. LevelInv'
  BY <1>1, <1>4 DEF BaseInv, LevelInv, ResolveProxy, Socks5Stages
<1>8. SeqInv' /\ ToldInv'
  BY <1>1 DEF BaseInv, SeqInv, ToldInv
<1>9. ReadingInv'
  BY <1>1 DEF BaseInv, ReadingInv, ResolveProxy
<1> QED
  BY <1>6, <1>7, <1>8, <1>9 DEF BaseInv

\* The handler at a level is called: one level up, or, at the top, the caller's.
LEMMA ReturnBase == ASSUME BaseInv, CallHandler PROVE BaseInv'
<1>1. /\ adds \in Orders /\ level \in 0..(Len(adds) - 1) /\ Len(adds) \in Nat
      /\ path \in Seq(Hops) /\ Len(path) + level <= Len(adds) /\ told = <<>>
      /\ UNCHANGED <<adds, path, reading, status>>
  BY ChainProperties DEF BaseInv, ChainTypeOK, SeqInv, LevelInv, ToldInv, CallHandler
<1>2. CASE level > 0
  <2>1. /\ level' = level - 1 /\ told' = told
        /\ ec' \in Outcomes /\ stage' \in {"handshake", "return"}
    BY <1>2 DEF CallHandler, BaseInv, ChainTypeOK, proxy_error_mapper, Resumed, Outcomes
  <2>2. level' \in 0..(Len(adds) - 1)
    BY <1>1, <1>2, <2>1
  <2>3. ChainTypeOK'
    BY <1>1, <2>1, <2>2 DEF BaseInv, ChainTypeOK, Outcomes
  <2>4. LevelInv'
    BY <1>1, <1>2, <2>1 DEF BaseInv, LevelInv, Socks5Stages
  <2>5. SeqInv' /\ ToldInv'
    BY <1>1, <2>1 DEF BaseInv, SeqInv, ToldInv
  <2>6. ReadingInv'
    BY <1>1, <1>2 DEF BaseInv, ReadingInv
  <2> QED
    BY <2>3, <2>4, <2>5, <2>6 DEF BaseInv
<1>3. CASE ~(level > 0)
  <2>1. told' = Append(told, ec) /\ stage' = "done" /\ UNCHANGED <<level, ec>>
    BY <1>3 DEF CallHandler
  <2>2. told' \in Seq(Outcomes) /\ Len(told') = 1
    BY <1>1, <2>1 DEF BaseInv, ChainTypeOK, Outcomes
  <2>3. ChainTypeOK'
    BY <1>1, <2>1, <2>2, ChainAssumption DEF BaseInv, ChainTypeOK
  <2>4. LevelInv'
    BY <1>1, <2>1 DEF BaseInv, LevelInv, Socks5Stages
  <2>5. SeqInv' /\ ToldInv'
    BY <1>1, <2>1, <2>2 DEF BaseInv, SeqInv, ToldInv
  <2>6. ReadingInv'
    BY <1>1, <2>1 DEF BaseInv, ReadingInv
  <2> QED
    BY <2>3, <2>4, <2>5, <2>6 DEF BaseInv
<1> QED
  BY <1>2, <1>3

\* An http hop has no tcp hop above it and is below none: it is the caller's.
LEMMA HttpIsTop ==
    ASSUME adds \in Orders, level \in 0..(Len(adds) - 1), LevelInv, hop = "http"
    PROVE  level = 0
<1> SUFFICES ASSUME level > 0 PROVE FALSE
  OBVIOUS
<1>1. level + 1 \in 2..Len(adds) /\ adds[level + 1] = "http"
  BY HopIs, ChainProperties
<1>2. PICK j \in 1..level : adds[j] = "tcp"
  BY <1>1, ChainProperties
<1> QED
  BY <1>2 DEF LevelInv

\* A handshake goes on, or ends with the hop in the path or without it.
LEMMA HandshakeBase ==
    ASSUME BaseInv, stage \in Socks5Stages, stage' \in Socks5Stages \cup {"return"},
           path' = path \/ (stage' = "return" /\ path' = Append(path, hop)),
           ec' \in Outcomes,
           \/ reading' = reading
           \/ reading' = TRUE /\ hop = "http" /\ stage' = "return" /\ path' = path,
           UNCHANGED <<adds, level, told, status>>
    PROVE  BaseInv'
<1>1. /\ adds \in Orders /\ level \in 0..(Len(adds) - 1) /\ Len(adds) \in Nat
      /\ adds \in Seq(Hops)
      /\ path \in Seq(Hops) /\ Len(path) + level + 1 <= Len(adds) /\ told = <<>>
  BY ChainProperties DEF BaseInv, ChainTypeOK, SeqInv, LevelInv, ToldInv, Socks5Stages
<1>2. hop = adds[level + 1] /\ hop \in Hops
  BY <1>1, HopIs
<1>3. /\ path' \in Seq(Hops)
      /\ path' = path \/ (stage' = "return" /\ Len(path') = Len(path) + 1)
  <2>1. Append(path, hop) \in Seq(Hops) /\ Len(Append(path, hop)) = Len(path) + 1
    BY <1>1, <1>2, AppendProperties
  <2> QED
    BY <1>1, <2>1
<1>4. Len(path) \in Nat /\ Len(path') \in Nat
  BY <1>1, <1>3
<1>5. ChainTypeOK'
  <2>1. Len(path') <= Len(adds)
    BY <1>1, <1>3, <1>4
  <2>2. reading' \in BOOLEAN
    BY DEF BaseInv, ChainTypeOK
  <2> QED
    BY <2>1, <2>2 DEF BaseInv, ChainTypeOK, Outcomes, Socks5Stages
<1>6. LevelInv'
  <2>1. stage' # "resolve"
    BY DEF Socks5Stages
  <2>2. stage' \in Socks5Stages => Len(path') + level + 1 <= Len(adds)
    BY <1>1, <1>3 DEF Socks5Stages
  <2>3. stage' = "return" => Len(path') + level <= Len(adds)
    BY <1>1, <1>3, <1>4
  <2> QED
    BY <2>1, <2>2, <2>3 DEF BaseInv, LevelInv
<1>7. ToldInv'
  <2>1. hop = "http" => Contains(adds, "http")
    <3>1. level + 1 \in 1..Len(adds)
      BY <1>1
    <3> QED
      BY <1>2, <3>1 DEF Contains
  <2> QED
    BY <1>1, <2>1 DEF BaseInv, ToldInv, Socks5Stages
<1>8. ReadingInv'
  <2>1. ~reading
    BY DEF BaseInv, ReadingInv, Socks5Stages
  <2> SUFFICES ASSUME reading' PROVE ReadingInv'
    BY DEF ReadingInv
  <2>2. reading' = TRUE /\ hop = "http" /\ stage' = "return" /\ path' = path
    BY <2>1
  <2>3. level = 0
    BY <1>1, <2>2, HttpIsTop DEF BaseInv
  <2>4. adds[1] = "http"
    <3>1. level + 1 = 1 /\ adds[level + 1] = "http"
      BY <1>2, <2>2, <2>3
    <3> QED
      BY <3>1
  <2>5. Len(path) < Len(adds)
    BY <1>1, <1>4, <2>3
  <2> QED
    BY <2>2, <2>3, <2>4, <2>5 DEF ReadingInv
<1> QED
  BY <1>3, <1>5, <1>6, <1>7, <1>8 DEF BaseInv, SeqInv

\* The read of an http hop comes back; the handler is called again, and with
\* the proxy's first answer the hop may join the path.
LEMMA HttpReadBase == ASSUME BaseInv, HttpReadEnds \/ HttpReadFails PROVE BaseInv'
<1>1. /\ stage = "done" /\ reading /\ Len(told) <= MaxReentries
      /\ \E e \in {"ok", "failed"} : told' = Append(told, e)
      /\ reading' \in {reading, FALSE} /\ status' \in {status, "200", "other"}
      /\ \/ path' = path /\ (status' = "none" => status = "none")
         \/ path' = Append(path, hop) /\ status = "none" /\ status' = "200"
      /\ UNCHANGED <<adds, level, stage, ec>>
  BY DEF HttpReadEnds, HttpReadFails
<1>2. /\ told \in Seq(Outcomes) /\ Contains(adds, "http") /\ MaxReentries \in Nat
      /\ path \in Seq(Hops) /\ adds \in Orders /\ level \in 0..(Len(adds) - 1)
      /\ Len(path) <= Len(adds) /\ Len(adds) \in Nat
      /\ level = 0 /\ adds[1] = "http" /\ (status = "none" => Len(path) < Len(adds))
  BY <1>1, ChainAssumption, ChainProperties DEF BaseInv, SeqInv, ToldInv, ReadingInv, ChainTypeOK
<1>3. told' \in Seq(Outcomes) /\ Len(told') = Len(told) + 1
  BY <1>1, <1>2 DEF Outcomes
<1>4. /\ Append(path, hop) \in Seq(Hops) /\ Len(Append(path, hop)) = Len(path) + 1
  <2>1. hop \in Hops
    BY <1>2, HopIs
  <2> QED
    BY <1>2, <2>1, AppendProperties
<1>5. path' \in Seq(Hops) /\ Len(path') <= Len(adds) /\ (status' = "none" => Len(path') < Len(adds))
  <2>1. Len(path) \in Nat
    BY <1>2
  <2>2. CASE path' = path /\ (status' = "none" => status = "none")
    BY <1>2, <2>1, <2>2
  <2>3. CASE path' = Append(path, hop) /\ status = "none" /\ status' = "200"
    BY <1>2, <1>4, <2>1, <2>3
  <2> QED
    BY <1>1, <2>2, <2>3
<1>6. ChainTypeOK'
  <2>1. Len(told') <= MaxReentries + 1
    BY <1>1, <1>2, <1>3
  <2>2. reading' \in BOOLEAN /\ status' \in {"none", "200", "other"}
    BY <1>1 DEF BaseInv, ChainTypeOK
  <2> QED
    BY <1>1, <1>5, <2>1, <2>2 DEF BaseInv, ChainTypeOK
<1>7. SeqInv' /\ LevelInv' /\ ToldInv'
  BY <1>1, <1>2, <1>3, <1>5 DEF BaseInv, SeqInv, LevelInv, ToldInv, Socks5Stages
<1>8. ReadingInv'
  BY <1>1, <1>2, <1>5 DEF ReadingInv
<1> QED
  BY <1>6, <1>7, <1>8 DEF BaseInv

\* The steps of a handshake, all of the same form.
LEMMA HandshakeSteps ==
    ASSUME BaseInv, TcpHandshake \/ Socks5Goes \/ Socks5Breaks \/ HttpHandshake
    PROVE  /\ stage \in Socks5Stages /\ stage' \in Socks5Stages \cup {"return"}
           /\ path' = path \/ (stage' = "return" /\ path' = Append(path, hop))
           /\ ec' \in Outcomes
           /\ \/ reading' = reading
              \/ reading' = TRUE /\ hop = "http" /\ stage' = "return" /\ path' = path
           /\ UNCHANGED <<adds, level, told, status>>
<1>1. CASE TcpHandshake
  BY <1>1 DEF TcpHandshake, Socks5Stages, Outcomes
<1>2. CASE Socks5Goes
  <2>1. stage' \in Socks5Stages \cup {"return"}
    BY <1>2 DEF Socks5Goes, Socks5Next, Socks5Stages
  <2> QED
    BY <1>2, <2>1 DEF Socks5Goes, BaseInv, ChainTypeOK, Outcomes
<1>3. CASE Socks5Breaks
  BY <1>3 DEF Socks5Breaks, Outcomes
<1>4. CASE HttpHandshake
  BY <1>4 DEF HttpHandshake, Socks5Stages, Outcomes
<1> QED
  BY <1>1, <1>2, <1>3, <1>4

\* Every step keeps it.
LEMMA NextBase == ASSUME BaseInv, [ChainNext]_chainVars PROVE BaseInv'
<1>1. CASE ResolveTcp
  <2>1. /\ stage = "resolve" /\ stage' = "handshake"
        /\ UNCHANGED <<adds, level, ec, path, told, reading, status>>
    BY <1>1 DEF ResolveTcp
  <2>2. path = <<>> /\ level \in 0..(Len(adds) - 1) /\ Len(adds) \in Nat
    BY <2>1, ChainProperties DEF BaseInv, LevelInv, ChainTypeOK
  <2>3. LevelInv'
    BY <2>1, <2>2 DEF BaseInv, LevelInv, Socks5Stages
  <2>4. ChainTypeOK' /\ SeqInv' /\ ToldInv' /\ ReadingInv'
    BY <2>1 DEF BaseInv, ChainTypeOK, SeqInv, ToldInv, ReadingInv
  <2> QED
    BY <2>3, <2>4 DEF BaseInv
<1>2. CASE ResolveProxy
  BY <1>2, ResolveProxyBase
<1>3. CASE CallHandler
  BY <1>3, ReturnBase
<1>4. CASE TcpHandshake \/ Socks5Goes \/ Socks5Breaks \/ HttpHandshake
  BY <1>4, HandshakeSteps, HandshakeBase
<1>5. CASE HttpReadEnds \/ HttpReadFails
  BY <1>5, HttpReadBase
<1>6. CASE UNCHANGED chainVars
  BY <1>6 DEF chainVars, BaseInv, ChainTypeOK, SeqInv, LevelInv, ToldInv, ReadingInv, Socks5Stages
<1> QED
  BY <1>1, <1>2, <1>3, <1>4, <1>5, <1>6 DEF ChainNext

\* The handler has been called only at the end, and once.
LEMMA BaseOnce == BaseInv => HandlerOnce
<1> SUFFICES ASSUME BaseInv, ~Contains(adds, "http") PROVE Len(told) <= 1
  BY DEF HandlerOnce
<1>1. CASE stage = "done"
  <2>1. Len(told) = 1
    BY <1>1 DEF BaseInv, ToldInv
  <2> QED
    BY <2>1
<1>2. CASE stage # "done"
  BY <1>2 DEF BaseInv, ToldInv
<1> QED
  BY <1>1, <1>2

\* On any chain that ends at a tcp hop the recursion of proxy_chain goes down to
\* the tcp hop and no further, each hop adds itself to the path once at the most,
\* and nobody is told anything before the end.
THEOREM Base == ChainSpec => []BaseInv
  BY InitBase, NextBase, PTL DEF ChainSpec

\* The state keeps its types on every chain that leads to a tcp hop in the end:
\* the way down never runs out of hops, the path never has more hops than the
\* chain.
THEOREM ChainTypeCorrect == ChainSpec => []ChainTypeOK
<1>1. BaseInv => ChainTypeOK
  BY DEF BaseInv
<1> QED
  BY <1>1, Base, PTL

\* The handler given to async_proxy_connect is called at most once, whatever
\* fails at whichever level, on any chain without an http hop.
THEOREM CalledOnce == ChainSpec => []HandlerOnce
<1>1. BaseInv => HandlerOnce
  BY BaseOnce
<1> QED
  BY <1>1, Base, PTL
-----------------------------------------------------------------------------
(* Chains that lead outward *)

\* At first there is no path and no error.
LEMMA InitOutward == ChainInit => OutwardInv
<1> SUFFICES ASSUME ChainInit PROVE OutwardInv
  OBVIOUS
<1>1. ~Contains(told, "ok") /\ ~Contains(told, "refused")
  BY DEF ChainInit, Contains
<1> QED
  BY <1>1 DEF ChainInit, OutwardInv, RefusalIsMapped, Socks5Stages

\* A handshake at a level: with success the hop has been added to the path.
LEMMA HandshakeOutward ==
    ASSUME OutwardOnly, BaseInv, OutwardInv,
           TcpHandshake \/ Socks5Goes \/ Socks5Breaks \/ HttpHandshake
    PROVE  OutwardInv'
<1> DEFINE n == Len(adds)
<1>1. /\ adds \in Orders /\ n \in Nat \ {0} /\ level \in 0..(n - 1)
      /\ path \in Seq(Hops) /\ told = <<>> /\ ec = "ok"
      /\ Through(n - level - 1)
      /\ stage \in Socks5Stages /\ UNCHANGED <<adds, level, told>>
  BY HandshakeSteps, ChainProperties DEF BaseInv, ChainTypeOK, SeqInv, ToldInv, OutwardInv, Socks5Stages
<1>2. hop = adds[level + 1]
  BY <1>1, HopIs
<1>3. ~Contains(told', "ok") /\ ~Contains(told', "refused")
  BY <1>1 DEF Contains
<1>4. path' = Append(path, hop) => Through(n - level)'
  BY <1>1, OneFurther
<1>5. path' = path => Through(n - level - 1)'
  BY <1>1 DEF Through
<1>6. ~reading
  BY <1>1 DEF BaseInv, ReadingInv, Socks5Stages
<1>7. hop = "tcp" => level = n - 1
  <2>1. level + 1 \in 1..n
    BY <1>1
  <2>2. hop = "tcp" => level + 1 = n
    BY <1>1, <1>2, <2>1 DEF OutwardOnly
  <2> QED
    BY <1>1, <2>2
<1>8. hop = "http" => level = 0
  BY <1>1, HttpIsTop DEF BaseInv
<1>9. CASE TcpHandshake
  <2>1. /\ hop = "tcp" /\ stage' = "return" /\ reading' = reading
        /\ ec' = "ok" => path' = Append(path, hop)
    BY <1>9 DEF TcpHandshake
  <2> QED
    BY <1>1, <1>3, <1>4, <1>6, <1>7, <2>1 DEF OutwardInv, RefusalIsMapped, Socks5Stages
<1>10. CASE Socks5Goes
  <2>1. /\ stage' \in Socks5Stages \cup {"return"} /\ ec' = ec /\ reading' = reading
        /\ stage' = "return" => path' = Append(path, hop)
        /\ stage' # "return" => path' = path
    BY <1>10, HandshakeSteps DEF Socks5Goes
  <2> QED
    BY <1>1, <1>3, <1>4, <1>5, <1>6, <2>1 DEF OutwardInv, RefusalIsMapped, Socks5Stages
<1>11. CASE Socks5Breaks
  <2>1. stage' = "return" /\ ec' = "failed" /\ reading' = reading
    BY <1>11 DEF Socks5Breaks
  <2> QED
    BY <1>1, <1>3, <1>6, <2>1 DEF OutwardInv, RefusalIsMapped, Socks5Stages
<1>12. CASE HttpHandshake
  <2>1. /\ hop = "http" /\ stage' = "return" /\ ec' \in {"ok", "failed"}
        /\ path' = path /\ (reading' = TRUE \/ (ec' = "failed" /\ reading' = reading))
    BY <1>12 DEF HttpHandshake
  <2>2. n - level - 1 = n - 1 /\ level = 0
    BY <1>1, <1>8, <2>1
  <2>3. Through(n - 1)'
    BY <1>1, <2>1, <2>2 DEF Through
  <2> QED
    BY <1>1, <1>3, <1>6, <2>1, <2>2, <2>3 DEF OutwardInv, RefusalIsMapped, Socks5Stages
<1> QED
  BY <1>9, <1>10, <1>11, <1>12

\* The handler at a level is called: the path so far is the chain below it.
LEMMA ReturnOutward == ASSUME OutwardOnly, BaseInv, OutwardInv, CallHandler PROVE OutwardInv'
<1> DEFINE n == Len(adds)
<1>1. /\ adds \in Orders /\ n \in Nat \ {0} /\ level \in 0..(n - 1) /\ told = <<>>
      /\ ec \in Outcomes
      /\ ec = "ok" /\ ~reading => Through(n - level)
      /\ ec = "refused" => level = n - 1
      /\ reading => Through(n - 1) \/ (Through(n) /\ status # "none")
      /\ reading => level = 0 /\ Contains(adds, "http")
      /\ stage = "return" /\ UNCHANGED <<adds, path, reading, status>>
  BY ChainProperties DEF BaseInv, ChainTypeOK, ToldInv, ReadingInv, OutwardInv, CallHandler, Outcomes
<1>2. \A m \in Nat : Through(m) => Through(m)'
  BY <1>1 DEF Through
<1>3. n \in Nat /\ (reading => Through(n - 1)' \/ (Through(n)' /\ status # "none"))
  BY <1>1, <1>2
<1>4. CASE level > 0
  <2>1. /\ level' = level - 1 /\ ec' = proxy_error_mapper(ec) /\ stage' = Resumed(ec')
        /\ told' = told
    BY <1>4 DEF CallHandler
  <2>2. ec' # "refused" /\ (ec' = "ok" => ec = "ok")
    BY <2>1 DEF proxy_error_mapper
  <2>3. stage' = IF ec' = "ok" THEN "handshake" ELSE "return"
    BY <2>1 DEF Resumed
  <2>4. ec' = "ok" => Through(n - level - 1)'
    <3>1. (n - level - 1)' = n - level
      BY <1>1, <2>1
    <3> QED
      BY <1>1, <1>4, <2>2, <3>1 DEF Through
  <2>5. ~Contains(told', "ok") /\ ~Contains(told', "refused")
    BY <1>1, <2>1 DEF Contains
  <2> QED
    BY <1>1, <1>3, <2>2, <2>3, <2>4, <2>5 DEF OutwardInv, RefusalIsMapped, Socks5Stages
<1>5. CASE ~(level > 0)
  <2>1. told' = Append(told, ec) /\ stage' = "done" /\ UNCHANGED <<level, ec>> /\ level = 0
    BY <1>1, <1>5 DEF CallHandler
  <2>2. Contains(told', "ok") => ec = "ok"
    BY <1>1, <2>1 DEF Contains
  <2>3. Contains(told', "refused") => ec = "refused"
    BY <1>1, <2>1 DEF Contains
  <2>4. n - level = n
    BY <1>1, <2>1
  <2>5. ec = "ok" => Through(n)' \/ (Through(n - 1)' /\ Contains(adds, "http"))
    BY <1>1, <1>2, <1>3, <2>4
  <2>6. ec = "refused" => n = 1
    BY <1>1, <2>1
  <2>7. reading' = reading /\ status' = status /\ (Contains(adds, "http"))' = Contains(adds, "http")
    BY <1>1
  <2>8. (Through(Len(adds)))' = Through(n)' /\ (Through(Len(adds) - 1))' = Through(n - 1)'
    OBVIOUS
  <2> QED
    BY <1>1, <1>3, <2>1, <2>2, <2>3, <2>5, <2>6, <2>7, <2>8 DEF OutwardInv, RefusalIsMapped, Socks5Stages
<1> QED
  BY <1>4, <1>5

\* With the proxy's answer the path may become the whole chain.
LEMMA ReadOutward ==
    ASSUME BaseInv, OutwardInv, HttpReadEnds \/ HttpReadFails
    PROVE  OutwardInv'
<1> DEFINE n == Len(adds)
<1>1. /\ adds \in Orders /\ n \in Nat \ {0} /\ path \in Seq(Hops) /\ told \in Seq(Outcomes)
      /\ stage = "done" /\ reading /\ level = 0 /\ Contains(adds, "http")
      /\ Through(n - 1) \/ (Through(n) /\ status # "none")
      /\ UNCHANGED <<adds, level, stage, ec>>
  BY ChainProperties
     DEF BaseInv, ChainTypeOK, SeqInv, ToldInv, ReadingInv, OutwardInv, HttpReadEnds, HttpReadFails
<1>2. PICK e \in {"ok", "failed"} : told' = Append(told, e)
  BY DEF HttpReadEnds, HttpReadFails
<1>3. Contains(told', "refused") => Contains(told, "refused")
  <2>1. \A k \in 1..Len(told') : told'[k] = "refused" => k \in 1..Len(told) /\ told[k] = "refused"
    BY <1>1, <1>2
  <2> QED
    BY <2>1 DEF Contains
<1>4. Through(n - 1)' \/ (Through(n)' /\ status' # "none")
  <2>1. CASE path' = path /\ (status # "none" => status' # "none")
    BY <1>1, <2>1 DEF Through
  <2>2. CASE path' = Append(path, hop) /\ status = "none" /\ status' = "200"
    <3>1. n - level - 1 = n - 1 /\ n - level = n /\ level \in 0..(n - 1)
      BY <1>1
    <3>2. Through(n - level - 1)
      BY <1>1, <2>2, <3>1
    <3>3. Through(n - level)'
      BY <1>1, <2>2, <3>1, <3>2, OneFurther
    <3>4. (n - level)' = n /\ n' = n
      BY <1>1, <3>1
    <3> QED
      BY <1>1, <2>2, <3>3, <3>4 DEF Through
  <2> QED
    BY <2>1, <2>2 DEF HttpReadEnds, HttpReadFails
<1>5. n' = n /\ (n - 1)' = n - 1
  BY <1>1
<1> QED
  BY <1>1, <1>3, <1>4, <1>5 DEF OutwardInv, RefusalIsMapped, Socks5Stages

\* Every step keeps it, on a chain in the right order.
LEMMA NextOutward == ASSUME OutwardOnly, BaseInv, OutwardInv, [ChainNext]_chainVars PROVE OutwardInv'
<1>1. CASE ResolveTcp
  <2>1. /\ stage = "resolve" /\ hop = "tcp" /\ stage' = "handshake" /\ path = <<>>
        /\ told = <<>> /\ adds \in Orders /\ level \in 0..(Len(adds) - 1) /\ ec = "ok"
        /\ UNCHANGED <<adds, level, ec, path, told, reading, status>>
    BY <1>1 DEF ResolveTcp, BaseInv, ChainTypeOK, LevelInv, ToldInv, OutwardInv
  <2>2. level + 1 = Len(adds) /\ Len(adds) \in Nat
    <3>1. Len(adds) \in Nat /\ level + 1 \in 1..Len(adds) /\ adds[level + 1] = "tcp"
      BY <2>1, HopIs, ChainProperties
    <3> QED
      BY <2>1, <3>1 DEF OutwardOnly
  <2>3. Through(Len(adds) - level - 1)'
    <3>1. (Len(adds) - level - 1)' = 0
      BY <2>1, <2>2
    <3> QED
      BY <2>1, <3>1 DEF Through
  <2>4. ~Contains(told', "ok") /\ ~Contains(told', "refused")
    BY <2>1 DEF Contains
  <2>5. ~reading
    BY <2>1 DEF BaseInv, ReadingInv
  <2> QED
    BY <2>1, <2>3, <2>4, <2>5 DEF OutwardInv, RefusalIsMapped, Socks5Stages
<1>2. CASE ResolveProxy
  BY <1>2 DEF ResolveProxy, OutwardInv, Through, RefusalIsMapped, Socks5Stages
<1>3. CASE CallHandler
  BY <1>3, ReturnOutward
<1>4. CASE TcpHandshake \/ Socks5Goes \/ Socks5Breaks \/ HttpHandshake
  BY <1>4, HandshakeOutward
<1>5. CASE HttpReadEnds \/ HttpReadFails
  BY <1>5, ReadOutward
<1>6. CASE UNCHANGED chainVars
  BY <1>6 DEF chainVars, OutwardInv, Through, RefusalIsMapped, Socks5Stages
<1> QED
  BY <1>1, <1>2, <1>3, <1>4, <1>5, <1>6 DEF ChainNext

\* So it holds in every state, on every such chain.
LEMMA Outward == ASSUME OutwardOnly PROVE ChainSpec => [](BaseInv /\ OutwardInv)
  BY InitBase, NextBase, InitOutward, NextOutward, PTL DEF ChainSpec

\* On a chain add()ed from the last hop to the first the handler is called once,
\* and a refusal from behind a proxy reaches it as the proxy's refusal, mapped at
\* every level of the recursion.
THEOREM ChainSafe == ASSUME OutwardOnly PROVE ChainSpec => []ChainInv
<1>1. BaseInv /\ OutwardInv => ChainInv
  BY BaseOnce DEF BaseInv, OutwardInv, ChainInv
<1> QED
  BY <1>1, Outward, PTL

\* On such a chain a connection reported as made goes through every hop of it,
\* the tcp connection first and each proxy through those before; of an http
\* proxy at the end this is not said, but of all hops before it.
THEOREM HopsSafe == ASSUME OutwardOnly PROVE ChainSpec => []AllHops
<1>1. BaseInv /\ OutwardInv => AllHops
  <2> SUFFICES ASSUME BaseInv, OutwardInv, Contains(told, "ok")
               PROVE  path = m_chain \/ (Contains(adds, "http") /\ path = Front(m_chain))
    BY DEF AllHops
  <2>1. adds \in Orders /\ path \in Seq(Hops)
    BY DEF BaseInv, ChainTypeOK, SeqInv
  <2>2. Through(Len(adds)) => path = m_chain
    BY <2>1, ThroughAll
  <2>3. Through(Len(adds) - 1) => path = Front(m_chain)
    BY <2>1, ThroughFront
  <2> QED
    BY <2>2, <2>3 DEF OutwardInv
<1> QED
  BY <1>1, Outward, PTL
=============================================================================
