---------------------------- MODULE QtSmtpClient ----------------------------
(* src/mime/src/smtpclient.cpp: SmtpClient, a mail client driven by the       *)
(* events of a Qt socket.  changeState enters a state, which for most states  *)
(* sends one command; processResponse moves on when the answer is the one the *)
(* state expects and signals an error when it is not, without leaving the     *)
(* state.  Whoever uses it acts when the end of its last operation or an      *)
(* error was signalled, in a slot or later, and may quit at any time.  It does *)
(* not act on stateChanged, and no slot waits.                                *)
EXTENDS Naturals, SequencesExt

CONSTANTS Mails,         \* the mails the program may send
          Recipients,    \* their addresses: To, then Cc, then Bcc
          Types,         \* the kinds of connection: "Tcp", "Ssl", "Tls"
          Methods,       \* the ways to log in: "plain", "login"
          MaxMails       \* bound: how many mails are sent

Addresses == UNION {ToSet(Recipients[m]) : m \in Mails}

ASSUME MailsAssumption == Recipients \in [Mails -> Seq(Addresses)]

VARIABLES
    \* the client
    connectionType, state, isReadyConnected, isAuthenticated, isMailSent,
    resetting,     \* mailReset is being signalled, changeState(ReadyState) follows
    email,         \* the mail in hand, or NoMail
    addressIt,     \* how many of its recipients have been sent
    \* the program
    waiting,       \* the signal waited for in waitForEvent, or "none"
    woken,         \* that loop has been told to quit
    lastSignal,    \* what was signalled since the last operation, or "none"
    quitted,       \* quit() was called on this connection
    overtaken,     \* the last operation was called from a slot of mailReset
    \* the socket and the server behind it
    socket,        \* "unconnected", "connecting", "connected" or "closing"
    encryption,    \* "none", "handshake" or "on"
    out, in,       \* commands and lines of answers on their way
    srv, envelope, \* the server's state and the recipients it has accepted
    \* history
    stored,        \* the mails the server has accepted, each with its recipients
    calls,         \* the mails given to sendMail
    exposed        \* a name, a mail or a password crossed an unencrypted line

flags   == <<isReadyConnected, isAuthenticated, isMailSent, resetting>>
client  == <<connectionType, state, isReadyConnected, isAuthenticated,
             isMailSent, resetting, email, addressIt>>
program == <<waiting, woken, lastSignal, quitted, overtaken>>
line    == <<socket, encryption, out, in>>
server  == <<srv, envelope, stored>>
vars    == <<client, program, line, server, calls, exposed>>

NoMail == "no mail"

Command(name, arg) == [name |-> name, arg |-> arg]

\* A line of an answer; more: a "-" follows the code.
Reply(code, more) == [code |-> code, more |-> more]

Init ==
    /\ connectionType \in Types
    /\ state = "UnconnectedState"
    /\ isReadyConnected = FALSE /\ isAuthenticated = FALSE /\ isMailSent = FALSE
    /\ resetting = FALSE /\ email = NoMail /\ addressIt = 0
    /\ waiting = "none" /\ woken = FALSE /\ lastSignal = "none"
    /\ quitted = FALSE /\ overtaken = FALSE
    /\ socket = "unconnected" /\ encryption = "none" /\ out = <<>> /\ in = <<>>
    /\ srv = "closed" /\ envelope = <<>> /\ stored = <<>>
    /\ calls = <<>> /\ exposed = FALSE
-----------------------------------------------------------------------------
(* Signals and commands *)

\* Faulty variant of Emit: the loop listens to the success alone.
emit_without_error(signal) ==
    /\ lastSignal' = signal
    /\ woken' = (woken \/ waiting = signal)
    /\ UNCHANGED <<waiting, quitted, overtaken>>

\* A signal, which ends the loop of waitForEvent if it is the one waited for
\* or an error.
Emit(signal) ==
    /\ lastSignal' = signal
    /\ woken' = (woken \/ waiting = signal \/ (waiting # "none" /\ signal = "error"))
    /\ UNCHANGED <<waiting, quitted, overtaken>>

Silent == UNCHANGED program

\* changeState to a state that sends a command.
Ask(s, name, arg) ==
    /\ state' = s
    /\ out' = Append(out, Command(name, arg))
    /\ exposed' = (exposed \/ (/\ connectionType = "Tls" /\ encryption # "on"
                              /\ name \notin {"EHLO", "STARTTLS", "QUIT", "RSET"}))

\* changeState to a state that sends nothing.
Enter(s) == state' = s /\ UNCHANGED <<out, exposed>>

\* Faulty variant of NextRecipient: DATA follows the last RCPT at once.
data_too_early ==
    IF addressIt + 1 < Len(Recipients[email])
    THEN /\ addressIt' = addressIt + 1
         /\ Ask("_MAIL_2_RCPT", "RCPT", Recipients[email][addressIt'])
    ELSE /\ state' = "_MAIL_3_DATA"
         /\ out' = out \o <<Command("RCPT", Last(Recipients[email])), Command("DATA", NoMail)>>
         /\ UNCHANGED <<addressIt, exposed>>

\* _MAIL_1_RCPT_INIT and _MAIL_2_RCPT: the next address of To, of Cc, of Bcc;
\* DATA when there is none left.
NextRecipient ==
    IF addressIt < Len(Recipients[email])
    THEN /\ addressIt' = addressIt + 1
         /\ Ask("_MAIL_2_RCPT", "RCPT", Recipients[email][addressIt'])
    ELSE /\ Ask("_MAIL_3_DATA", "DATA", NoMail)
         /\ UNCHANGED addressIt
-----------------------------------------------------------------------------
(* The public methods *)

\* The program has been told that its last operation has ended.
MayAct == waiting = "none" /\ ~quitted /\ lastSignal # "none"

\* A new operation: nothing has been signalled for it.
Begin(quits) == /\ lastSignal' = "none" /\ woken' = FALSE
                /\ quitted' = quits /\ overtaken' = resetting /\ UNCHANGED waiting

connectToHost ==
    /\ waiting = "none"
    /\ state = "UnconnectedState"
    /\ state' = "ConnectingState"
    /\ socket' = "connecting" /\ encryption' = "none" /\ out' = <<>> /\ in' = <<>>
    /\ Begin(FALSE)
    /\ UNCHANGED <<connectionType, flags, email, addressIt, server, calls, exposed>>

\* Faulty variant of login: the guard on the connection is missing.
login_too_early(method) ==
    /\ waiting = "none" /\ socket = "connected" /\ ~isAuthenticated
    /\ Ask("_AUTH_PLAIN_0", "AUTH PLAIN", NoMail)
    /\ Begin(FALSE)
    /\ UNCHANGED <<connectionType, flags, email, addressIt, socket, encryption, in,
                   server, calls>>

login(method) ==
    /\ MayAct
    /\ isReadyConnected /\ ~isAuthenticated
    /\ IF method = "plain" THEN Ask("_AUTH_PLAIN_0", "AUTH PLAIN", NoMail)
                           ELSE Ask("_AUTH_LOGIN_0", "AUTH LOGIN", NoMail)
    /\ Begin(FALSE)
    /\ UNCHANGED <<connectionType, flags, email, addressIt, socket, encryption, in,
                   server, calls>>

\* Faulty variant of sendMail: the mark of the last mail stays.
send_with_old_mark(m) ==
    /\ MayAct
    /\ isReadyConnected /\ Len(calls) < MaxMails
    /\ email' = m /\ addressIt' = 0
    /\ Ask("_MAIL_0_FROM", "MAIL", NoMail)
    /\ calls' = Append(calls, m)
    /\ Begin(FALSE)
    /\ UNCHANGED <<connectionType, flags, socket, encryption, in, server>>

sendMail(m) ==
    /\ MayAct
    /\ isReadyConnected /\ Len(calls) < MaxMails
    /\ isMailSent' = FALSE
    /\ email' = m /\ addressIt' = 0
    /\ Ask("_MAIL_0_FROM", "MAIL", NoMail)
    /\ calls' = Append(calls, m)
    /\ Begin(FALSE)
    /\ UNCHANGED <<connectionType, isReadyConnected, isAuthenticated, resetting, socket,
                   encryption, in, server>>

\* isReset is cleared here and never set.
reset ==
    /\ MayAct
    /\ isReadyConnected
    /\ Ask("ResetState", "RSET", NoMail)
    /\ Begin(FALSE)
    /\ UNCHANGED <<connectionType, flags, email, addressIt, socket, encryption, in,
                   server, calls>>

\* quit() looks at nothing, and a socket that is not open takes nothing: a
\* client that is not connected has quitted for ever.  On a connection the
\* program quits once.
quit ==
    /\ waiting = "none" /\ (quitted => socket = "unconnected")
    /\ IF socket = "unconnected" THEN Enter("_QUITTING_State")
                                 ELSE Ask("_QUITTING_State", "QUIT", NoMail)
    /\ Begin(TRUE)
    /\ UNCHANGED <<connectionType, flags, email, addressIt, socket, encryption, in,
                   server, calls>>

\* The waitFor functions, each with its early returns, called right after the
\* operation; no timeout is given.
wait(signal) ==
    /\ waiting = "none" /\ lastSignal = "none" /\ ~resetting
    /\ CASE signal = "readyConnected" ->
                state # "UnconnectedState" /\ ~isReadyConnected /\ ~quitted
         [] signal = "authenticated"  -> isReadyConnected /\ ~isAuthenticated
         [] signal = "mailSent"       -> isReadyConnected /\ ~isMailSent
         [] signal = "mailReset"      -> isReadyConnected
         [] signal = "disconnected"   -> isReadyConnected /\ quitted
    /\ signal = CASE state \in {"_AUTH_PLAIN_0", "_AUTH_LOGIN_0"} -> "authenticated"
                  [] state = "_MAIL_0_FROM"                       -> "mailSent"
                  [] state = "ResetState"                         -> "mailReset"
                  [] state = "_QUITTING_State"                    -> "disconnected"
                  [] OTHER -> IF overtaken THEN signal ELSE "readyConnected"
    /\ waiting' = signal
    /\ UNCHANGED <<client, woken, lastSignal, quitted, overtaken, line, server, calls, exposed>>

WaitReturns ==
    /\ waiting # "none" /\ woken /\ ~resetting
    /\ waiting' = "none" /\ woken' = FALSE
    /\ UNCHANGED <<client, lastSignal, quitted, overtaken, line, server, calls, exposed>>
-----------------------------------------------------------------------------
(* The slots *)

Expected(s) ==
    CASE s \in {"ConnectedState", "_TLS_0_STARTTLS"}          -> 220
      [] s = "_QUITTING_State"                                -> 221
      [] s \in {"_AUTH_PLAIN_0", "_AUTH_LOGIN_2_PASS"}        -> 235
      [] s \in {"ResetState", "_EHLO_State", "_TLS_2_EHLO",
                "_MAIL_0_FROM", "_MAIL_2_RCPT",
                "_MAIL_4_SEND_DATA"}                          -> 250
      [] s \in {"_AUTH_LOGIN_0", "_AUTH_LOGIN_1_USER"}        -> 334
      [] s = "_MAIL_3_DATA"                                   -> 354
      [] OTHER                                                -> 0

\* The command that follows the answer just processed.
Continue(s, name, arg) ==
    /\ Ask(s, name, arg)
    /\ Silent
    /\ UNCHANGED <<flags, addressIt, socket, encryption>>

Ready(signal) ==
    /\ Enter("ReadyState") /\ Emit(signal)
    /\ isReadyConnected' = (isReadyConnected \/ signal = "readyConnected")
    /\ isAuthenticated' = (isAuthenticated \/ signal = "authenticated")
    /\ isMailSent' = (isMailSent \/ signal = "mailSent")
    /\ UNCHANGED <<resetting, addressIt, socket, encryption>>

\* RSET is answered: mailReset is signalled first, and a slot of it may call
\* the client.
SignalReset ==
    /\ Emit("mailReset") /\ resetting' = TRUE
    /\ UNCHANGED <<state, isReadyConnected, isAuthenticated, isMailSent, addressIt,
                   socket, encryption, out, exposed>>

\* Then the client is ready, whatever the slot has called.
ReadyAfterReset ==
    /\ resetting /\ resetting' = FALSE
    /\ Enter("ReadyState") /\ Silent
    /\ UNCHANGED <<connectionType, isReadyConnected, isAuthenticated, isMailSent, email,
                   addressIt, socket, encryption, in, server, calls>>

\* The answer the state expects has come.
processResponse ==
    CASE state = "ConnectedState"     -> Continue("_EHLO_State", "EHLO", NoMail)
      [] state = "_EHLO_State"        ->
            IF connectionType # "Tls" THEN Ready("readyConnected")
            ELSE Continue("_TLS_0_STARTTLS", "STARTTLS", NoMail)
      [] state = "_TLS_0_STARTTLS"    ->
            /\ Enter("_TLS_1_ENCRYPT") /\ Silent
            /\ encryption' = "handshake"
            /\ UNCHANGED <<flags, addressIt, socket>>
      [] state = "_TLS_2_EHLO"        -> Ready("readyConnected")
      [] state = "_AUTH_PLAIN_0"      -> Ready("authenticated")
      [] state = "_AUTH_LOGIN_0"      -> Continue("_AUTH_LOGIN_1_USER", "USER", NoMail)
      [] state = "_AUTH_LOGIN_1_USER" -> Continue("_AUTH_LOGIN_2_PASS", "PASS", NoMail)
      [] state = "_AUTH_LOGIN_2_PASS" -> Ready("authenticated")
      [] state \in {"_MAIL_0_FROM", "_MAIL_2_RCPT"} ->
            NextRecipient /\ Silent /\ UNCHANGED <<flags, socket, encryption>>
      [] state = "_MAIL_3_DATA"       -> Continue("_MAIL_4_SEND_DATA", "BODY", email)
      [] state = "_MAIL_4_SEND_DATA"  -> Ready("mailSent")
      [] state = "ResetState"         -> SignalReset
      [] state = "_QUITTING_State"    ->
            /\ Enter("DisconnectingState") /\ Silent
            /\ socket' = "closing"
            /\ isReadyConnected' = FALSE
            /\ UNCHANGED <<isAuthenticated, isMailSent, resetting, addressIt, encryption>>

\* Everything that has come is read; only the last line is looked at, and
\* only if no other line of the same answer follows.
socketReadyRead ==
    /\ socket = "connected" /\ in # <<>> /\ ~resetting
    /\ \E n \in 1..Len(in) :
        /\ in' = SubSeq(in, n + 1, Len(in))
        /\ IF ~in[n].more /\ in[n].code = Expected(state)
           THEN processResponse
           ELSE /\ IF ~in[n].more /\ (in[n].code >= 400 \/ Expected(state) # 0)
                   THEN Emit("error") ELSE Silent
                /\ UNCHANGED <<state, flags, addressIt, socket, encryption, out, exposed>>
    /\ UNCHANGED <<connectionType, email, server, calls>>

\* socketStateChanged(ConnectedState), whatever the state was.
Connected ==
    /\ socket = "connecting" /\ socket' = "connected"
    /\ state' = "ConnectedState"
    /\ encryption' = IF connectionType = "Ssl" THEN "on" ELSE "none"
    /\ srv' = "greet" /\ envelope' = <<>>
    /\ \E code \in {220, 554} : in' = <<Reply(code, FALSE)>>
    /\ UNCHANGED <<connectionType, flags, email, addressIt, program, out, stored,
                   calls, exposed>>

socketEncrypted ==
    /\ encryption = "handshake" /\ socket = "connected" /\ srv = "handshake"
    /\ encryption' = "on" /\ srv' = "greet"
    /\ IF state = "_TLS_1_ENCRYPT"
       THEN /\ state' = "_TLS_2_EHLO"
            /\ out' = Append(out, Command("EHLO", NoMail))
       ELSE UNCHANGED <<state, out>>
    /\ UNCHANGED <<connectionType, flags, email, addressIt, program, socket, in,
                   envelope, stored, calls, exposed>>

\* changeState(UnconnectedState), after socketError if the client did not close
\* the socket itself.
Disconnected ==
    /\ socket # "unconnected" /\ socket' = "unconnected" /\ ~resetting
    /\ state' = "UnconnectedState"
    /\ isReadyConnected' = FALSE /\ isAuthenticated' = FALSE
    /\ lastSignal' = "disconnected"
    /\ woken' = (woken \/ waiting = "disconnected"
                        \/ (waiting # "none" /\ socket # "closing"))
    /\ out' = <<>> /\ in' = <<>> /\ encryption' = "none"
    /\ srv' = "closed" /\ envelope' = <<>>
    /\ UNCHANGED <<connectionType, isMailSent, resetting, email, addressIt, waiting,
                   quitted, overtaken, stored, calls, exposed>>
-----------------------------------------------------------------------------
(* The server: one answer for each command, a good one or a refusal. *)

Answer(good, refusal) == in' = in \o good \/ in' = Append(in, Reply(refusal, FALSE))
Only(code) == <<Reply(code, FALSE)>>

ServeSession(c) ==
    /\ UNCHANGED <<envelope, stored>>
    /\ CASE c.name = "EHLO" ->
                /\ srv' = IF srv = "greet" THEN "ready" ELSE srv
                /\ Answer(<<Reply(250, TRUE), Reply(250, FALSE)>>, 550)
         [] c.name = "STARTTLS" ->
                \/ srv' = "handshake" /\ in' = in \o Only(220)
                \/ in' = in \o Only(454) /\ UNCHANGED srv
         [] c.name \in {"AUTH PLAIN", "PASS"} -> Answer(Only(235), 535) /\ UNCHANGED srv
         [] c.name \in {"AUTH LOGIN", "USER"} -> Answer(Only(334), 535) /\ UNCHANGED srv
         [] c.name = "QUIT" -> srv' = "closed" /\ in' = in \o Only(221)

Refuse == in' = Append(in, Reply(503, FALSE)) /\ UNCHANGED server

\* A transaction: MAIL, one RCPT or more, DATA and the mail.
ServeMail(c) ==
    \/ Refuse
    \/ /\ c.name = "RSET"
       /\ srv' = "ready" /\ envelope' = <<>> /\ in' = in \o Only(250)
       /\ UNCHANGED stored
    \/ /\ c.name = "MAIL" /\ srv = "ready"
       /\ srv' = "mail" /\ envelope' = <<>> /\ in' = in \o Only(250)
       /\ UNCHANGED stored
    \/ /\ c.name = "RCPT" /\ srv = "mail"   \* 251: the address has moved
       /\ envelope' = Append(envelope, c.arg)
       /\ \E code \in {250, 251} : in' = in \o Only(code)
       /\ UNCHANGED <<srv, stored>>
    \/ /\ c.name = "DATA" /\ srv = "mail" /\ envelope # <<>>
       /\ srv' = "data" /\ in' = in \o Only(354)
       /\ UNCHANGED <<envelope, stored>>

\* Until the end of the mail every line is a line of the mail.
ServeData(c) ==
    IF c.name = "BODY"
    THEN /\ srv' = "ready" /\ envelope' = <<>>
         /\ \/ /\ stored' = Append(stored, [mail |-> c.arg, rcpts |-> envelope])
               /\ in' = in \o Only(250)
            \/ in' = in \o Only(554) /\ UNCHANGED stored
    ELSE UNCHANGED <<server, in>>

Serve ==
    /\ socket = "connected" /\ out # <<>> /\ srv \notin {"closed", "handshake"}
    /\ out' = Tail(out)
    /\ LET c == Head(out) IN
        \/ srv = "data" /\ ServeData(c)
        \/ srv # "data" /\ c.name \in {"MAIL", "RCPT", "DATA", "BODY", "RSET"} /\ ServeMail(c)
        \/ srv # "data" /\ c.name \notin {"MAIL", "RCPT", "DATA", "BODY", "RSET"}
                        /\ ServeSession(c)
    /\ UNCHANGED <<client, program, socket, encryption, calls, exposed>>
-----------------------------------------------------------------------------
Signals == {"readyConnected", "authenticated", "mailSent", "mailReset", "disconnected"}

Next ==
    \/ connectToHost \/ reset \/ quit
    \/ \E m \in Methods : login(m)
    \/ \E m \in Mails : sendMail(m)
    \/ \E s \in Signals : wait(s)
    \/ WaitReturns
    \/ Connected \/ socketEncrypted \/ socketReadyRead \/ ReadyAfterReset \/ Disconnected
    \/ Serve

\* Qt's event loop runs, a slot returns and the server answers; a connection that one side has
\* closed ends.
Spec == /\ Init /\ [][Next]_vars
        /\ WF_vars(Connected) /\ WF_vars(socketEncrypted)
        /\ WF_vars(Disconnected /\ (socket = "closing" \/ srv = "closed"))
        /\ WF_vars(socketReadyRead) /\ WF_vars(ReadyAfterReset) /\ WF_vars(Serve) /\ WF_vars(WaitReturns)
-----------------------------------------------------------------------------
(* Properties *)

\* mailSent: a mail is reported as sent only if the server has taken in this
\* very mail, for every one of its recipients, and for each call of sendMail it
\* has taken in at most one.
SentMeansStored ==
    /\ isMailSent => /\ stored # <<>>
                     /\ Last(stored) = [mail |-> email, rcpts |-> Recipients[email]]
    /\ Len(stored) <= Len(calls)

\* With STARTTLS neither a password nor a mail crosses the line unencrypted.
NothingExposed == ~exposed

\* The states in which an answer is expected; RSET has been answered when
\* mailReset is signalled.
Asking == Expected(state) # 0 /\ (resetting => overtaken)

\* A program that does not quit in between is in step with the server: an
\* answer is outstanding exactly while the state expects one and no error has
\* been signalled, and then it is the only one.  Not so after an operation that
\* a slot of mailReset has called, whose state is overwritten and whose answer
\* nobody expects, until an error ends it and the next one begins.
InStep ==
    socket = "connected" /\ ~quitted /\ ~overtaken =>
        LET due == Len(out) + Cardinality({k \in 1..Len(in) : ~in[k].more}) IN
        due = IF Asking /\ lastSignal # "error" THEN 1 ELSE 0

\* Every operation on a connection ends with a signal and every wait returns,
\* without the help of a timeout, but for what a slot of mailReset has called.
\* quit() before connectToHost is signalled by nothing.
EverySignalled ==
    /\ lastSignal = "none" /\ socket # "unconnected" /\ ~overtaken ~> lastSignal # "none"
    /\ waiting # "none" /\ ~overtaken ~> waiting = "none"
=============================================================================
