-------------------------------- MODULE Smtp --------------------------------
(* src/smtpclient/smtp.hpp and smtp.cpp: mx::smtp delivers one mail.  Every   *)
(* handler is a copy of the object (std::bind( *this, ...)) that goes on with  *)
(* the coroutine; an error anywhere starts all over after a delay, up to a    *)
(* number of times.  The buffers and sockets are shared by the copies, so     *)
(* what an attempt leaves in them meets the next attempt.                     *)
EXTENDS Integers, SequencesExt

CONSTANTS RetryLimit,  \* 20 in the code
          Rcpts,       \* the number of recipients
          ServerTLS,   \* the server offers STARTTLS
          Split        \* an answer may arrive in several segments

ASSUME SmtpAssumption ==
    /\ RetryLimit \in Nat /\ Rcpts \in Nat
    /\ {ServerTLS, Split} \subseteq BOOLEAN

(* A line of an answer.  more: a "-" follows the code, the answer goes on;    *)
(* space: the regular expression that ends a read matches up to this line.    *)
Line(code, more, space, tls) ==
    [code |-> code, more |-> more, space |-> space, tls |-> tls]
Answer(code) == <<Line(code, FALSE, TRUE, FALSE)>>

\* An answer may have several lines, a refusal too: two of them stand for more.
Answers(code) == {Answer(code), <<Line(code, TRUE, TRUE, FALSE)>> \o Answer(code)}

\* A name, a size (with a space in it), perhaps STARTTLS, the last line.
EhloAnswer ==
    <<Line(250, TRUE, FALSE, FALSE), Line(250, TRUE, TRUE, FALSE)>>
        \o (IF ServerTLS THEN <<Line(250, TRUE, FALSE, TRUE)>> ELSE <<>>)
        \o Answer(250)

VARIABLES
    \* the client
    result,       \* "none", "trying", or what the handler was told
    retry_count,
    cmd,          \* the command in hand
    step,         \* "write", "read" or "check" it; or "wait" for a retry
    m_sslsocket,  \* "none", "current" or "stale": built on an earlier socket
    m_readbuf,
    leftover,     \* what writes that failed have left in m_writebuf
    i, sended_rcpt,
    \* the server and the connection to it
    conn,         \* "up" or "down"
    srv,          \* the server's state
    tls,          \* the connection is encrypted
    wire,         \* lines on their way to the client
    accepted,     \* how often the server accepted the mail
    \* history
    attempts,
    ehlo_whole,    \* the answer to EHLO was read in one piece, and nothing else
    bare,          \* what sent the login, or the end of it, unencrypted
    bad_sequence,  \* a command of the mail itself was out of turn
    lost           \* attempts that broke waiting for the last answer

client  == <<result, retry_count, cmd, step, m_sslsocket, m_readbuf, leftover,
             i, sended_rcpt>>
server  == <<conn, srv, tls, wire, accepted>>
history == <<attempts, ehlo_whole, bare, bad_sequence, lost>>
vars    == <<client, server, history>>

Commands == {"connect", "greeting", "ehlo", "starttls", "handshake", "auth",
             "mail", "rcpt", "rcpt_brackets", "data", "body"}

\* "turn": AUTH in its turn, although the answer to EHLO was read whole; "left":
\* what is left of an AUTH after such an answer; "unseen": either after another.
Bare == {"turn", "unseen", "left"}

MailCommands == {"mail", "rcpt", "rcpt_brackets", "data", "body"}

\* The answer a command waits for.
Expected(c) == CASE c \in {"greeting", "starttls"}  -> 220
                 [] c = "auth"                      -> 235
                 [] c = "data"                      -> 354
                 [] OTHER                           -> 250

TypeOK ==
    /\ result \in {"none", "trying", "sent", "failed"}
    /\ retry_count \in 0..(RetryLimit + 2)
    /\ cmd \in Commands
    /\ step \in {"write", "read", "check", "wait"}
    /\ m_sslsocket \in {"none", "current", "stale"}
    /\ leftover \in Seq({"ehlo", "starttls", "auth", "mail", "data", "body"})
    /\ i \in Nat /\ sended_rcpt \in 0..i
    /\ conn \in {"up", "down"}
    /\ srv \in {"greet", "ready", "tls", "authed", "mail", "rcpt", "data"}
    /\ tls \in BOOLEAN
    /\ accepted \in Nat /\ attempts \in Nat /\ lost \in Nat
    /\ {ehlo_whole, bad_sequence} \subseteq BOOLEAN /\ bare \subseteq Bare

Init ==
    /\ result = "none" /\ retry_count = 0
    /\ cmd = "connect" /\ step = "wait"
    /\ m_sslsocket = "none" /\ m_readbuf = <<>> /\ leftover = <<>>
    /\ i = 0 /\ sended_rcpt = 0
    /\ conn = "down" /\ srv = "greet" /\ tls = FALSE /\ wire = <<>>
    /\ accepted = 0
    /\ attempts = 0 /\ ehlo_whole = FALSE /\ bare = {}
    /\ bad_sequence = FALSE /\ lost = 0
-----------------------------------------------------------------------------
(* The server: what a command does in a state, and the answer. It may refuse  *)
(* anything.                                                                  *)
Accepts(c) ==
    CASE c = "ehlo"                          -> {"greet", "ready"}
      [] c = "starttls"                      -> {"ready"}
      [] c = "auth"                          -> {"ready"}
      [] c = "mail"                          -> {"authed"}
      [] c \in {"rcpt", "rcpt_brackets"}     -> {"mail", "rcpt"}
      [] c = "data"                          -> {"rcpt"}
      [] c = "body"                          -> {"data"}

After(c) ==
    CASE c = "ehlo"                          -> "ready"
      [] c = "starttls"                      -> "tls"
      [] c = "auth"                          -> "authed"
      [] c = "mail"                          -> "mail"
      [] c \in {"rcpt", "rcpt_brackets"}     -> "rcpt"
      [] c = "data"                          -> "data"
      [] c = "body"                          -> "authed"

Serve(c) ==
    \/ /\ srv \in Accepts(c)
       /\ c = "starttls" => ServerTLS
       /\ srv' = After(c)
       /\ \E good \in IF c = "ehlo" THEN {EhloAnswer} ELSE Answers(Expected(c)) :
            wire' = wire \o good
       /\ accepted' = IF c = "body" THEN accepted + 1 ELSE accepted
    \/ /\ \E refusal \in Answers(550) : wire' = wire \o refusal
       /\ srv' = IF c = "body" /\ srv = "data" THEN "authed" ELSE srv
       /\ UNCHANGED accepted
-----------------------------------------------------------------------------
(* The client *)
running(c, s) == result = "trying" /\ cmd = c /\ step = s

Goto(c, s) == cmd' = c /\ step' = s

\* An attempt failed: another one is due later, or the handler is told.
RetryOrGiveUp ==
    /\ retry_count' = retry_count + 1
    /\ IF retry_count <= RetryLimit
       THEN step' = "wait" /\ UNCHANGED <<cmd, result>>
       ELSE result' = "failed" /\ UNCHANGED <<cmd, step>>
    /\ lost' = IF cmd = "body" /\ step \in {"read", "check"} THEN lost + 1 ELSE lost

\* send_rcpt_tos_op is over: it failed if no recipient was accepted.
RcptsDone(count) ==
    IF count = 0 THEN RetryOrGiveUp
    ELSE Goto("data", "write") /\ UNCHANGED <<retry_count, result, lost>>

\* Faulty variant of Following: STARTTLS is never sent.
FollowingPlain(c, ssl) ==
    CASE c = "greeting"  -> "ehlo"
      [] c = "ehlo"      -> "auth"
      [] c = "auth"      -> "mail"
      [] c = "mail"      -> "rcpt"
      [] c = "data"      -> "body"

\* The next command of a coroutine that goes well.
Following(c, ssl) ==
    CASE c = "greeting"  -> "ehlo"
      [] c = "ehlo"      -> IF ssl # "none" THEN "starttls" ELSE "auth"
      [] c = "starttls"  -> "handshake"
      [] c = "handshake" -> "auth"
      [] c = "auth"      -> "mail"
      [] c = "mail"      -> "rcpt"
      [] c = "data"      -> "body"

Submit ==
    /\ result = "none"
    /\ result' = "trying"
    /\ UNCHANGED <<retry_count, cmd, step, m_sslsocket, m_readbuf, leftover, i,
                   sended_rcpt, server, history>>

\* The posted first call, or delayedcallsec's timer: m_socket.reset(new ...).
Begin ==
    /\ result = "trying" /\ step = "wait"
    /\ Goto("connect", "write")
    /\ m_sslsocket' = IF m_sslsocket = "none" THEN "none" ELSE "stale"
    /\ conn' = "down" /\ tls' = FALSE /\ wire' = <<>> /\ srv' = "greet"
    /\ attempts' = attempts + 1
    /\ UNCHANGED <<result, retry_count, m_readbuf, leftover, i, sended_rcpt,
                   accepted, ehlo_whole, bare, bad_sequence, lost>>

Connected ==
    /\ running("connect", "write")
    /\ conn' = "up"
    /\ wire' \in Answers(220) \cup Answers(550)
    /\ m_readbuf' = <<>>
    /\ Goto("greeting", "read")
    /\ UNCHANGED <<result, retry_count, m_sslsocket, leftover, i, sended_rcpt,
                   srv, tls, accepted, history>>

ConnectFails ==
    /\ running("connect", "write")
    /\ RetryOrGiveUp
    /\ UNCHANGED <<m_sslsocket, m_readbuf, leftover, i, sended_rcpt, server,
                   attempts, ehlo_whole, bare, bad_sequence>>

IsRcpt(c) == c \in {"rcpt", "rcpt_brackets"}

\* A command goes out; the recipients are written from a buffer of their own.
Writing ==
    /\ result = "trying" /\ step = "write" /\ cmd \notin {"connect", "handshake"}
    /\ IsRcpt(cmd) => i < Rcpts

\* What m_writebuf still holds goes first.  The server refuses the end of a
\* command, or the text of a mail, and may accept an EHLO.
OldWritten ==
    /\ Writing /\ ~IsRcpt(cmd) /\ leftover # <<>>
    /\ conn = "up"
    /\ Serve(Head(leftover))
    /\ leftover' = Tail(leftover)
    /\ bare' = IF Head(leftover) = "auth" /\ ~tls
               THEN bare \cup {IF ehlo_whole THEN "left" ELSE "unseen"} ELSE bare
    /\ UNCHANGED <<result, retry_count, cmd, step, m_sslsocket, m_readbuf, i,
                   sended_rcpt, conn, tls, attempts, ehlo_whole, bad_sequence, lost>>

Written ==
    /\ Writing /\ (IsRcpt(cmd) \/ leftover = <<>>)
    /\ conn = "up"
    /\ Serve(cmd)
    /\ bad_sequence' = (bad_sequence \/ (srv \notin Accepts(cmd) /\ cmd \in MailCommands))
    /\ bare' = IF cmd = "auth" /\ ~tls
               THEN bare \cup {IF ehlo_whole THEN "turn" ELSE "unseen"} ELSE bare
    /\ Goto(cmd, "read")
    /\ UNCHANGED <<result, retry_count, m_sslsocket, m_readbuf, leftover, i,
                   sended_rcpt, conn, tls, attempts, ehlo_whole, lost>>

\* The command, or its end, stays in m_writebuf.  The loop over the recipients
\* breaks at an error, with the count so far, and its buffer goes with it.
WriteFails ==
    /\ Writing
    /\ conn' = "down"
    /\ IF IsRcpt(cmd)
       THEN RcptsDone(sended_rcpt) /\ UNCHANGED leftover
       ELSE RetryOrGiveUp /\ leftover' = Append(leftover, cmd)
    /\ UNCHANGED <<m_sslsocket, m_readbuf, i, sended_rcpt, srv, tls, wire,
                   accepted, attempts, ehlo_whole, bare, bad_sequence>>

Matches(lines) == \E k \in 1..Len(lines) : lines[k].space

\* async_read_until, up to "[0-9]*? .*?\n": what is in the buffer may do, else
\* segments are read until something matches, whole lines at a time.
ReadDone ==
    /\ result = "trying" /\ step = "read"
    /\ IF Matches(m_readbuf)
       THEN UNCHANGED <<m_readbuf, wire>>
       ELSE /\ conn = "up"
            /\ \E n \in 1..Len(wire) :
                /\ Split \/ n = Len(wire)
                /\ Matches(m_readbuf \o SubSeq(wire, 1, n))
                /\ m_readbuf' = m_readbuf \o SubSeq(wire, 1, n)
                /\ wire' = SubSeq(wire, n + 1, Len(wire))
    /\ ehlo_whole' = IF cmd = "ehlo" THEN m_readbuf' = EhloAnswer ELSE ehlo_whole
    /\ Goto(cmd, "check")
    /\ UNCHANGED <<result, retry_count, m_sslsocket, leftover, i, sended_rcpt,
                   conn, srv, tls, accepted, attempts, bare, bad_sequence,
                   lost>>

ReadFails ==
    /\ result = "trying" /\ step = "read"
    /\ conn' = "down"
    /\ IF IsRcpt(cmd) THEN RcptsDone(sended_rcpt) ELSE RetryOrGiveUp
    /\ UNCHANGED <<m_sslsocket, m_readbuf, leftover, i, sended_rcpt, srv, tls,
                   wire, accepted, attempts, ehlo_whole, bare, bad_sequence>>

\* check_smtp_response: skip the lines "code-", then there must be "code ".
\* The lines looked at are consumed.
FirstOther(lines, code) ==
    LET others == {k \in 1..Len(lines) : ~(lines[k].code = code /\ lines[k].more)}
    IN IF others = {} THEN Len(lines) + 1
       ELSE CHOOSE k \in others : \A l \in others : k <= l
\* Faulty variant of IsOk: the code of the last line is not compared.
IsAnyAnswer(lines, code) == FirstOther(lines, code) <= Len(lines)
IsOk(lines, code) ==
    LET k == FirstOther(lines, code) IN k <= Len(lines) /\ lines[k].code = code
Rest(lines, code) == SubSeq(lines, FirstOther(lines, code) + 1, Len(lines))

\* check_server_cap: its error is dropped; "STARTTLS" builds a new m_sslsocket.
CheckCaps ==
    /\ running("ehlo", "check")
    /\ m_readbuf' = Rest(m_readbuf, 250)
    /\ m_sslsocket' =
        IF \E k \in 1..Len(m_readbuf) :
            k < FirstOther(m_readbuf, 250) /\ m_readbuf[k].tls
        THEN "current" ELSE m_sslsocket
    /\ Goto(Following(cmd, m_sslsocket'), "write")
    /\ UNCHANGED <<result, retry_count, leftover, i, sended_rcpt, server, history>>

\* check_wellcome_msg, check_login_status, check_status_for.
Check ==
    /\ result = "trying" /\ step = "check"
    /\ cmd \notin {"ehlo", "body"} /\ ~IsRcpt(cmd)
    /\ m_readbuf' = Rest(m_readbuf, Expected(cmd))
    /\ IF IsOk(m_readbuf, Expected(cmd))
       THEN /\ Goto(Following(cmd, m_sslsocket), "write")
            /\ IF cmd = "mail" THEN i' = 0 /\ sended_rcpt' = 0
               ELSE UNCHANGED <<i, sended_rcpt>>
            /\ UNCHANGED <<retry_count, result, lost>>
       ELSE RetryOrGiveUp /\ UNCHANGED <<i, sended_rcpt>>
    /\ UNCHANGED <<m_sslsocket, leftover, server, attempts, ehlo_whole,
                   bare, bad_sequence>>

\* A stale stream works on a socket that is gone: it may do anything.
Handshake ==
    /\ running("handshake", "write")
    /\ \/ /\ conn = "up" /\ srv = "tls"
          /\ tls' = TRUE /\ srv' = "ready"
          /\ Goto("auth", "write")
          /\ UNCHANGED <<conn, retry_count, result, lost>>
       \/ conn' = "down" /\ RetryOrGiveUp /\ UNCHANGED <<tls, srv>>
    /\ UNCHANGED <<m_sslsocket, m_readbuf, leftover, i, sended_rcpt, wire,
                   accepted, attempts, ehlo_whole, bare, bad_sequence>>

\* send_rcpt_tos_op: an address refused is tried once more in brackets.
CheckRcpt ==
    /\ result = "trying" /\ step = "check" /\ IsRcpt(cmd)
    /\ m_readbuf' = Rest(m_readbuf, 250)
    /\ LET ok == IsOk(m_readbuf, 250)
       IN IF ~ok /\ cmd = "rcpt"
          THEN Goto("rcpt_brackets", "write") /\ UNCHANGED <<i, sended_rcpt>>
          ELSE /\ sended_rcpt' = IF ok THEN sended_rcpt + 1 ELSE sended_rcpt
               /\ i' = i + 1
               /\ Goto("rcpt", "write")
    /\ UNCHANGED <<result, retry_count, m_sslsocket, leftover, server, history>>

\* Faulty variant of RcptLoopEnds: the bound of the loop is off by one.
RcptLoopNeverEnds ==
    /\ running("rcpt", "write")
    /\ i = Rcpts + 1
    /\ RcptsDone(sended_rcpt)
    /\ UNCHANGED <<m_sslsocket, m_readbuf, leftover, i, sended_rcpt, server,
                   attempts, ehlo_whole, bare, bad_sequence>>

\* The loop is over.
RcptLoopEnds ==
    /\ running("rcpt", "write")
    /\ i = Rcpts
    /\ RcptsDone(sended_rcpt)
    /\ UNCHANGED <<m_sslsocket, m_readbuf, leftover, i, sended_rcpt, server,
                   attempts, ehlo_whole, bare, bad_sequence>>

\* Faulty variant of CheckBody: the next mail of the same session is sent.
CheckBodyGoesOn ==
    /\ running("body", "check")
    /\ m_readbuf' = Rest(m_readbuf, 250)
    /\ IF IsOk(m_readbuf, 250)
       THEN Goto("mail", "write") /\ UNCHANGED <<retry_count, result, lost>>
       ELSE RetryOrGiveUp
    /\ UNCHANGED <<m_sslsocket, leftover, i, sended_rcpt, server, attempts,
                   ehlo_whole, bare, bad_sequence>>

\* The answer to the mail itself: the handler is told.
CheckBody ==
    /\ running("body", "check")
    /\ m_readbuf' = Rest(m_readbuf, 250)
    /\ IF IsOk(m_readbuf, 250)
       THEN result' = "sent" /\ UNCHANGED <<retry_count, cmd, step, lost>>
       ELSE RetryOrGiveUp
    /\ UNCHANGED <<m_sslsocket, leftover, i, sended_rcpt, server, attempts,
                   ehlo_whole, bare, bad_sequence>>
-----------------------------------------------------------------------------
Attempt ==
    \/ Begin \/ Connected \/ ConnectFails
    \/ OldWritten \/ Written \/ WriteFails \/ ReadDone \/ ReadFails
    \/ CheckCaps \/ Check \/ Handshake \/ CheckRcpt \/ RcptLoopEnds \/ CheckBody

Next == Submit \/ Attempt

Spec == Init /\ [][Next]_vars

(* The timer expires, what was written is answered or the connection breaks:  *)
(* there is no timeout, so this is what a read relies on.                     *)
FairSpec == Spec /\ WF_vars(Attempt)
-----------------------------------------------------------------------------
(* Properties *)

\* The handler's view: called once, told success only for a mail the server
\* accepted, and nothing sent afterwards.
Delivery == INSTANCE MailDelivery
DeliverySpec == Delivery!Spec

\* Whatever is left in the buffers by an attempt that broke, and however the
\* answers are cut and counted, an answer is never taken for that of another
\* command: once the login is past, the server gets every command of the mail in
\* its turn, and no text of the mail where it expects a command.  What a write that
\* failed has left goes out before, with the next EHLO, and is refused there.
InTurn == ~bad_sequence

\* A mail is delivered twice only if the answer to it was lost or refused.
DuplicatesNeedLoss == accepted <= lost + 1

\* The comment on STARTTLS: if the server supports it, TLS is turned on before
\* the login.  It holds of the AUTH that is written in its turn if the answer to
\* EHLO was read in one piece: check_server_cap drops its error, and of an answer
\* that is cut, or that stands behind others, it may not see the offer of TLS.
AuthUnderTls == ServerTLS => "turn" \notin bare

\* The same of every byte of the login: once the whole answer to EHLO was read, the
\* login does not cross the wire unencrypted (smtp.hpp:292).  The code breaks it:
\* when the write of AUTH under TLS fails, the login stays in m_writebuf, and the
\* EHLO of the next attempt takes it along before TLS is turned on.
LoginEncrypted == ServerTLS => bare \subseteq {"unseen"}

\* Answers, commands and TLS stay in step in every session of every attempt.
SessionInv == TypeOK /\ InTurn /\ AuthUnderTls

\* Every mail handed over is reported in the end, and as failed only after the
\* first attempt and RetryLimit + 1 retries: "retry_count++ <= 20" is 21 of them.
Reported == result = "trying" ~>
    (result = "sent" \/ (result = "failed" /\ attempts = RetryLimit + 2))
=============================================================================
