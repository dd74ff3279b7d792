------------------------- MODULE QtSmtpClientProofs -------------------------
(* Theorems about QtSmtpClient, for any mails with any recipients, any number *)
(* of mails, and a server that may refuse anything.                           *)
EXTENDS QtSmtpClient, FiniteSetTheorems, SequenceTheorems, TLAPS

(* The parts of the inductive invariant *)

MailStates  == {"_MAIL_0_FROM", "_MAIL_2_RCPT", "_MAIL_3_DATA", "_MAIL_4_SEND_DATA"}
LoginStates == {"_AUTH_PLAIN_0", "_AUTH_LOGIN_0", "_AUTH_LOGIN_1_USER", "_AUTH_LOGIN_2_PASS"}
EarlyStates == {"ConnectedState", "_EHLO_State", "_TLS_0_STARTTLS", "_TLS_1_ENCRYPT",
                "_TLS_2_EHLO"}
LastStates  == {"_QUITTING_State", "DisconnectingState"}
States == MailStates \cup LoginStates \cup EarlyStates \cup LastStates
            \cup {"UnconnectedState", "ConnectingState", "ReadyState", "ResetState"}

\* Where the slots of mailReset can lead.
SlotStates == {"ResetState", "_AUTH_PLAIN_0", "_AUTH_LOGIN_0", "_MAIL_0_FROM",
               "_QUITTING_State"}

Names == {"EHLO", "STARTTLS", "AUTH PLAIN", "AUTH LOGIN", "USER", "PASS", "MAIL", "RCPT",
          "DATA", "BODY", "RSET", "QUIT"}

Args     == {NoMail} \cup Mails \cup Addresses
Commands == [name : Names, arg : Args]
Replies  == [code : Nat \ {0}, more : BOOLEAN]
Copies   == [mail : Args, rcpts : Seq(Args)]

Typed ==
    /\ state \in States
    /\ isReadyConnected \in BOOLEAN /\ isAuthenticated \in BOOLEAN /\ isMailSent \in BOOLEAN
    /\ quitted \in BOOLEAN /\ resetting \in BOOLEAN /\ overtaken \in BOOLEAN
    /\ out \in Seq(Commands)
    /\ in \in Seq(Replies)
    /\ srv \in {"closed", "greet", "ready", "mail", "data", "handshake"}
    /\ envelope \in Seq(Args)
    /\ stored \in Seq(Copies)
    /\ calls \in Seq(Mails)
    /\ addressIt \in Nat
    /\ state \in MailStates => email \in Mails /\ addressIt <= Len(Recipients[email])

\* Which states there are on a connection, and after quit().
PlaceInv ==
    /\ socket \in {"unconnected", "connecting", "connected", "closing"}
    /\ socket = "unconnected" => state \in {"UnconnectedState", "_QUITTING_State"}
    /\ state = "UnconnectedState" => socket = "unconnected"
    /\ socket = "connecting" => state \in {"ConnectingState", "_QUITTING_State"}
    /\ state = "ConnectingState" => socket = "connecting"
    /\ socket = "closing" => quitted
    /\ quitted => state \in EarlyStates \cup LastStates \cup {"UnconnectedState", "ReadyState"}
    /\ state \in LastStates => quitted
    /\ isReadyConnected => state \notin EarlyStates /\ socket = "connected"
    /\ state = "ResetState" \/ resetting => isReadyConnected
    /\ socket = "connecting" /\ ~quitted => lastSignal = "none" /\ out = <<>>
    /\ socket = "connecting" => ~overtaken

\* While mailReset is signalled, and after what its slots have called.
ResetInv ==
    /\ resetting => state \in SlotStates
    /\ resetting /\ ~overtaken => state = "ResetState" /\ lastSignal = "mailReset"
    /\ overtaken /\ socket = "connected" =>
        /\ lastSignal \in {"none", "error"}
        /\ IF resetting THEN lastSignal = "none" ELSE state = "ReadyState"

\* With STARTTLS nothing but its handshake comes before the encryption.
SecureInv ==
    /\ ~exposed
    /\ connectionType = "Tls" /\ socket = "connected"
       /\ (isReadyConnected \/ state \in MailStates \cup LoginStates \cup
                                {"ReadyState", "ResetState", "_TLS_2_EHLO"})
        => encryption = "on"

\* The command whose answer a state expects, and those whose answers are not
\* expected any more once a slot of mailReset has returned.
Asks(s) == CASE s \in {"_EHLO_State", "_TLS_2_EHLO"} -> {"EHLO"}
             [] s = "_TLS_0_STARTTLS"    -> {"STARTTLS"}
             [] s = "_AUTH_PLAIN_0"      -> {"AUTH PLAIN"}
             [] s = "_AUTH_LOGIN_0"      -> {"AUTH LOGIN"}
             [] s = "_AUTH_LOGIN_1_USER" -> {"USER"}
             [] s = "_AUTH_LOGIN_2_PASS" -> {"PASS"}
             [] s = "ResetState"         -> {"RSET"}
             [] s = "_MAIL_0_FROM"       -> {"MAIL"}
             [] s = "_MAIL_2_RCPT"       -> {"RCPT"}
             [] s = "_MAIL_3_DATA"       -> {"DATA"}
             [] s = "_MAIL_4_SEND_DATA"  -> {"BODY"}
             [] s = "ReadyState"         -> {"AUTH PLAIN", "AUTH LOGIN", "MAIL", "RSET"}
             [] OTHER                    -> {}

InSession == socket = "connected" /\ ~quitted
Awaiting  == Asking /\ lastSignal # "error"
Ignoring  == overtaken /\ ~resetting /\ lastSignal # "error"

\* One whole answer.
Whole(answer) == /\ answer # <<>> /\ ~answer[Len(answer)].more
                 /\ \A k \in 1..(Len(answer) - 1) : answer[k].more

TurnInv == InSession =>
    IF Awaiting \/ Ignoring
    THEN /\ lastSignal = "none"
         /\ \/ Len(out) = 1 /\ out[1].name \in Asks(state) /\ in = <<>>
            \/ out = <<>> /\ Whole(in)
            \/ Ignoring /\ out = <<>> /\ in = <<>>
    ELSE out = <<>> /\ in = <<>>

\* The good answer has come, or has been given.
Good == out = <<>> /\ in # <<>> /\ in[Len(in)].code = Expected(state)

Told(k) == SubSeq(Recipients[email], 1, k)

\* What the server has done by then.
ServerInv == InSession =>
    /\ srv # "closed"
    /\ srv = "data" => \/ state = "_MAIL_3_DATA" /\ Good
                       \/ state = "_MAIL_4_SEND_DATA" /\ out # <<>>
    /\ srv = "handshake" => \/ state = "_TLS_0_STARTTLS" /\ Good
                            \/ state = "_TLS_1_ENCRYPT"
    /\ state = "_TLS_1_ENCRYPT" => lastSignal = "none"
    /\ state = "_MAIL_0_FROM" => addressIt = 0
    /\ state = "_MAIL_0_FROM" /\ Good => srv = "mail" /\ envelope = <<>>
    /\ state = "_MAIL_2_RCPT" =>
        /\ addressIt > 0
        /\ out # <<>> => /\ srv = "mail" /\ envelope = Told(addressIt - 1)
                         /\ out[1].arg = Recipients[email][addressIt]
        /\ Good => srv = "mail" /\ envelope = Told(addressIt)
    /\ state = "_MAIL_3_DATA" =>
        /\ out # <<>> => srv = "mail" /\ envelope = Recipients[email]
        /\ Good => srv = "data" /\ envelope = Recipients[email]
    /\ state = "_MAIL_4_SEND_DATA" =>
        /\ out # <<>> => /\ srv = "data" /\ envelope = Recipients[email]
                         /\ out[1].arg = email
        /\ Good => stored # <<>>
                   /\ Last(stored) = [mail |-> email, rcpts |-> Recipients[email]]

\* A mail under way, or to be sent on, has not been stored yet.
StoreInv ==
    /\ SentMeansStored
    /\ isMailSent => state \notin MailStates
    /\ \A k \in 1..Len(out) : out[k].name = "BODY" =>
        k = 1 /\ ~isMailSent /\ Len(stored) < Len(calls)
    /\ state \in MailStates \ {"_MAIL_4_SEND_DATA"} => Len(stored) < Len(calls)

IInv == Typed /\ PlaceInv /\ ResetInv /\ SecureInv /\ TurnInv /\ ServerInv /\ StoreInv

-----------------------------------------------------------------------------
(* The tables *)

\* The answer that is expected in each state.
LEMMA Codes ==
    /\ Expected("ConnectedState") = 220 /\ Expected("_TLS_0_STARTTLS") = 220
    /\ Expected("_QUITTING_State") = 221
    /\ Expected("_AUTH_PLAIN_0") = 235 /\ Expected("_AUTH_LOGIN_2_PASS") = 235
    /\ Expected("ResetState") = 250 /\ Expected("_EHLO_State") = 250
    /\ Expected("_TLS_2_EHLO") = 250 /\ Expected("_MAIL_0_FROM") = 250
    /\ Expected("_MAIL_2_RCPT") = 250 /\ Expected("_MAIL_4_SEND_DATA") = 250
    /\ Expected("_AUTH_LOGIN_0") = 334 /\ Expected("_AUTH_LOGIN_1_USER") = 334
    /\ Expected("_MAIL_3_DATA") = 354
    /\ Expected("UnconnectedState") = 0 /\ Expected("ConnectingState") = 0
    /\ Expected("_TLS_1_ENCRYPT") = 0 /\ Expected("ReadyState") = 0
    /\ Expected("DisconnectingState") = 0
  BY DEF Expected

\* The command that each state has sent.
LEMMA Questions ==
    /\ Asks("ConnectedState") = {} /\ Asks("_QUITTING_State") = {}
    /\ Asks("_EHLO_State") = {"EHLO"} /\ Asks("_TLS_2_EHLO") = {"EHLO"}
    /\ Asks("_TLS_0_STARTTLS") = {"STARTTLS"}
    /\ Asks("_AUTH_PLAIN_0") = {"AUTH PLAIN"} /\ Asks("_AUTH_LOGIN_0") = {"AUTH LOGIN"}
    /\ Asks("_AUTH_LOGIN_1_USER") = {"USER"} /\ Asks("_AUTH_LOGIN_2_PASS") = {"PASS"}
    /\ Asks("ResetState") = {"RSET"}
    /\ Asks("_MAIL_0_FROM") = {"MAIL"} /\ Asks("_MAIL_2_RCPT") = {"RCPT"}
    /\ Asks("_MAIL_3_DATA") = {"DATA"} /\ Asks("_MAIL_4_SEND_DATA") = {"BODY"}
    /\ Asks("ReadyState") = {"AUTH PLAIN", "AUTH LOGIN", "MAIL", "RSET"}
  BY DEF Asks

-----------------------------------------------------------------------------
(* Sequences *)

\* Something added behind.
LEMMA AddOne ==
    ASSUME NEW S, NEW s \in Seq(S), NEW e \in S
    PROVE  /\ Append(s, e) \in Seq(S) /\ Len(Append(s, e)) = Len(s) + 1
           /\ Append(s, e)[Len(s) + 1] = e
           /\ \A k \in 1..Len(s) : Append(s, e)[k] = s[k]
           /\ Append(s, e) # <<>>
           /\ s = <<>> => Len(s) = 0
           /\ Last(Append(s, e)) = e
  BY DEF Last

\* The head taken away.
LEMMA TakeOne ==
    ASSUME NEW S, NEW s \in Seq(S), s # <<>>
    PROVE  /\ Tail(s) \in Seq(S) /\ Len(Tail(s)) = Len(s) - 1 /\ Len(s) > 0
           /\ \A k \in 1..Len(Tail(s)) : Tail(s)[k] = s[k + 1]
           /\ Head(s) = s[1] /\ s[1] \in S
           /\ Len(s) = 1 => Tail(s) = <<>>
  OBVIOUS

\* One answer, or one with a line before it, put behind nothing.
LEMMA AnswerLines ==
    ASSUME NEW c \in Nat \ {0}
    PROVE  /\ Only(c) \in Seq(Replies) /\ Len(Only(c)) = 1 /\ Only(c) # <<>>
           /\ Only(c)[1] = Reply(c, FALSE) /\ Only(c)[1].code = c /\ ~Only(c)[1].more
           /\ Whole(Only(c)) /\ Only(c)[Len(Only(c))].code = c
  BY DEF Only, Replies, Reply, Whole

LEMMA EhloLines ==
    LET a == <<Reply(250, TRUE), Reply(250, FALSE)>> IN
    /\ a \in Seq(Replies) /\ Len(a) = 2 /\ a # <<>>
    /\ Whole(a) /\ a[Len(a)].code = 250
  BY DEF Replies, Reply, Whole

\* What is put behind nothing.
LEMMA FirstLines ==
    ASSUME NEW S, NEW s \in Seq(S)
    PROVE  <<>> \o s = s
  OBVIOUS
-----------------------------------------------------------------------------
(* The program *)

LEMMA Begins == Init => IInv
<1> SUFFICES ASSUME Init PROVE IInv
  OBVIOUS
<1>1. Typed
  <2>1. state \in States /\ state \notin MailStates
    BY DEF Init, States, MailStates
  <2>2. /\ out \in Seq(Commands) /\ in \in Seq(Replies) /\ envelope \in Seq(Args)
        /\ stored \in Seq(Copies) /\ calls \in Seq(Mails)
    BY DEF Init
  <2> QED BY <2>1, <2>2 DEF Init, Typed
<1>2. PlaceInv /\ ResetInv /\ SecureInv
  BY DEF Init, PlaceInv, ResetInv, SecureInv, EarlyStates, LastStates
<1>3. TurnInv /\ ServerInv
  BY DEF Init, TurnInv, ServerInv, InSession
<1>4. StoreInv
  BY DEF Init, StoreInv, SentMeansStored, MailStates
<1> QED BY <1>1, <1>2, <1>3, <1>4 DEF IInv

\* When the program may act on a connection that is ready, nothing is on its
\* way.
LEMMA Idle ==
    ASSUME IInv, MayAct, isReadyConnected
    PROVE  /\ InSession /\ out = <<>> /\ in = <<>>
           /\ srv \notin {"closed", "data", "handshake"}
           /\ connectionType = "Tls" => encryption = "on"
<1>1. InSession
  BY DEF IInv, PlaceInv, MayAct, InSession
<1>2. out = <<>> /\ in = <<>>
  BY <1>1 DEF IInv, TurnInv, MayAct
<1>3. srv \notin {"closed", "data", "handshake"}
  BY <1>1, <1>2 DEF IInv, ServerInv, Good, PlaceInv, EarlyStates
<1> QED BY <1>1, <1>2, <1>3 DEF IInv, SecureInv, InSession

\* A command that is sent when nothing is on its way is the only one.
LEMMA OneAsked ==
    ASSUME Typed, out = <<>>, in' = <<>>, NEW s, NEW name \in Names, NEW arg \in Args,
           Ask(s, name, arg), name \in Asks(s), Expected(s) # 0, lastSignal' = "none",
           resetting' => overtaken'
    PROVE  /\ TurnInv' /\ ~Good'
           /\ out' \in Seq(Commands) /\ Len(out') = 1 /\ out' # <<>>
           /\ out'[1] = Command(name, arg) /\ out'[1].name = name /\ out'[1].arg = arg
<1>1. Command(name, arg) \in Commands
  BY DEF Command, Commands
<1>2. /\ out' \in Seq(Commands) /\ Len(out') = 1 /\ out' # <<>>
      /\ out'[1] = Command(name, arg)
  BY <1>1, AddOne DEF Ask, Typed
<1>3. out'[1].name = name /\ out'[1].arg = arg
  BY <1>2 DEF Command
<1>4. TurnInv'
  BY <1>2, <1>3 DEF TurnInv, Awaiting, Asking, Ask
<1> QED BY <1>2, <1>3, <1>4 DEF Good

\* Which states a state is not.
LEMMA Apart ==
    /\ MailStates \subseteq States /\ LoginStates \subseteq States
    /\ EarlyStates \subseteq States /\ LastStates \subseteq States
    /\ {"UnconnectedState", "ConnectingState", "ReadyState", "ResetState"} \subseteq States
    /\ \A s \in LoginStates \cup {"ResetState"} \cup MailStates :
        s \notin EarlyStates \cup LastStates \cup {"UnconnectedState", "ConnectingState"}
    /\ \A s \in LoginStates \cup {"ResetState"} : s \notin MailStates
  BY DEF States, MailStates, LoginStates, EarlyStates, LastStates

\* login and reset: a command outside a mail.
LEMMA CommandStep ==
    ASSUME IInv, MayAct, isReadyConnected,
           NEW s \in {"_AUTH_PLAIN_0", "_AUTH_LOGIN_0", "ResetState"}, NEW name \in Names,
           name \in Asks(s), name # "BODY", Expected(s) # 0,
           Ask(s, name, NoMail), Begin(FALSE),
           UNCHANGED <<connectionType, flags, email, addressIt, socket, encryption, in,
                       server, calls>>
    PROVE  IInv'
<1>1. /\ InSession /\ out = <<>> /\ in = <<>>
      /\ srv \notin {"closed", "data", "handshake"}
      /\ connectionType = "Tls" => encryption = "on"
  BY Idle
<1>2. /\ lastSignal' = "none" /\ quitted' = FALSE /\ overtaken' = resetting
      /\ state' = s /\ NoMail \in Args
  BY DEF Begin, Ask, Args
<1>3. UNCHANGED <<connectionType, isReadyConnected, isAuthenticated, isMailSent, resetting,
                  email, addressIt, socket, encryption, in, srv, envelope, stored, calls>>
  BY DEF flags, server
<1>4. /\ TurnInv' /\ ~Good'
      /\ out' \in Seq(Commands) /\ Len(out') = 1 /\ out' # <<>>
      /\ out'[1].name = name
  BY <1>1, <1>2, <1>3, OneAsked DEF IInv
<1>5. /\ s \in States /\ s \notin MailStates /\ s \in SlotStates
      /\ s \notin EarlyStates \cup LastStates \cup {"UnconnectedState", "ConnectingState"}
  BY Apart DEF LoginStates, SlotStates
<1>6. Typed'
  BY <1>2, <1>3, <1>4, <1>5 DEF IInv, Typed, Ask
<1>7. PlaceInv' /\ ResetInv'
  BY <1>1, <1>2, <1>3, <1>5 DEF IInv, Typed, PlaceInv, ResetInv, InSession
<1>8. SecureInv'
  BY <1>1, <1>2, <1>3 DEF IInv, SecureInv, Ask
<1>9. s \notin {"_TLS_0_STARTTLS", "_TLS_1_ENCRYPT", "_MAIL_0_FROM", "_MAIL_2_RCPT",
                "_MAIL_3_DATA", "_MAIL_4_SEND_DATA"}
  BY <1>5 DEF EarlyStates, MailStates
<1>10. ServerInv'
  BY <1>1, <1>2, <1>3, <1>9 DEF ServerInv
<1>11. StoreInv'
  BY <1>2, <1>3, <1>4, <1>5 DEF IInv, StoreInv, SentMeansStored
<1> QED BY <1>4, <1>6, <1>7, <1>8, <1>10, <1>11 DEF IInv

\* login.
LEMMA LoginStep ==
    ASSUME IInv, NEW method, login(method)
    PROVE  IInv'
<1>1. /\ MayAct /\ isReadyConnected /\ Begin(FALSE)
      /\ UNCHANGED <<connectionType, flags, email, addressIt, socket, encryption, in,
                     server, calls>>
  BY DEF login, flags
<1>2. CASE method = "plain"
  <2>1. Ask("_AUTH_PLAIN_0", "AUTH PLAIN", NoMail)
    BY <1>2 DEF login
  <2>2. "AUTH PLAIN" \in Asks("_AUTH_PLAIN_0") /\ Expected("_AUTH_PLAIN_0") # 0
    <3>1. Expected("_AUTH_PLAIN_0") # 0
      BY Codes
    <3> QED BY <3>1, Questions
  <2>3. "AUTH PLAIN" \in Names
    BY DEF Names
  <2> QED BY <1>1, <2>1, <2>2, <2>3, CommandStep
<1>3. CASE method # "plain"
  <2>1. Ask("_AUTH_LOGIN_0", "AUTH LOGIN", NoMail)
    BY <1>3 DEF login
  <2>2. "AUTH LOGIN" \in Asks("_AUTH_LOGIN_0") /\ Expected("_AUTH_LOGIN_0") # 0
    <3>1. Expected("_AUTH_LOGIN_0") # 0
      BY Codes
    <3> QED BY <3>1, Questions
  <2>3. "AUTH LOGIN" \in Names
    BY DEF Names
  <2> QED BY <1>1, <2>1, <2>2, <2>3, CommandStep
<1> QED BY <1>2, <1>3

\* reset.
LEMMA ResetStep ==
    ASSUME IInv, reset
    PROVE  IInv'
<1>1. /\ MayAct /\ isReadyConnected /\ Begin(FALSE) /\ Ask("ResetState", "RSET", NoMail)
      /\ UNCHANGED <<connectionType, flags, email, addressIt, socket, encryption, in,
                     server, calls>>
  BY DEF reset, flags
<1>2. "RSET" \in Asks("ResetState") /\ Expected("ResetState") # 0 /\ "RSET" \in Names
  <2>1. Expected("ResetState") # 0
    BY Codes
  <2> QED BY <2>1, Questions DEF Names
<1> QED BY <1>1, <1>2, CommandStep

\* sendMail: the marks of the mail before are gone.
LEMMA SendStep ==
    ASSUME IInv, NEW m \in Mails, sendMail(m)
    PROVE  IInv'
<1>1. /\ InSession /\ out = <<>> /\ in = <<>>
      /\ srv \notin {"closed", "data", "handshake"}
      /\ connectionType = "Tls" => encryption = "on"
  BY Idle DEF sendMail
<1>2. /\ Ask("_MAIL_0_FROM", "MAIL", NoMail)
      /\ lastSignal' = "none" /\ quitted' = FALSE /\ state' = "_MAIL_0_FROM"
      /\ overtaken' = resetting
      /\ NoMail \in Args /\ isMailSent' = FALSE /\ email' = m /\ addressIt' = 0
      /\ calls' = Append(calls, m)
  BY DEF sendMail, Begin, Ask, Args
<1>3. UNCHANGED <<connectionType, isReadyConnected, isAuthenticated, resetting,
                  socket, encryption, in, srv, envelope, stored>>
  BY DEF sendMail, server
<1>4. "MAIL" \in Asks("_MAIL_0_FROM") /\ Expected("_MAIL_0_FROM") # 0 /\ "MAIL" \in Names
  <2>1. Expected("_MAIL_0_FROM") # 0
    BY Codes
  <2> QED BY <2>1, Questions DEF Names
<1>5. /\ TurnInv' /\ ~Good'
      /\ out' \in Seq(Commands) /\ Len(out') = 1 /\ out' # <<>>
      /\ out'[1].name = "MAIL"
  BY <1>1, <1>2, <1>3, <1>4, OneAsked DEF IInv
<1>6. /\ "_MAIL_0_FROM" \in MailStates /\ "_MAIL_0_FROM" \in States
      /\ "_MAIL_0_FROM" \notin EarlyStates \cup LastStates /\ "_MAIL_0_FROM" \in SlotStates
  BY DEF MailStates, States, EarlyStates, LastStates, SlotStates
<1>7. calls' \in Seq(Mails) /\ Len(calls') = Len(calls) + 1
  BY <1>2, AddOne DEF IInv, Typed
<1>8. 0 <= Len(Recipients[m])
  BY MailsAssumption
<1>9. Typed'
  BY <1>2, <1>3, <1>5, <1>6, <1>7, <1>8 DEF IInv, Typed, Ask
<1>10. PlaceInv' /\ ResetInv'
  BY <1>1, <1>2, <1>3, <1>6 DEF IInv, Typed, PlaceInv, ResetInv, InSession
<1>11. SecureInv'
  BY <1>1, <1>2, <1>3 DEF IInv, SecureInv, Ask
<1>12. ServerInv'
  BY <1>1, <1>2, <1>3, <1>5 DEF ServerInv
<1>13. Len(stored) \in Nat /\ Len(calls) \in Nat
  BY DEF IInv, Typed
<1>14. StoreInv'
  BY <1>2, <1>3, <1>5, <1>7, <1>13 DEF IInv, StoreInv, SentMeansStored
<1> QED BY <1>5, <1>9, <1>10, <1>11, <1>12, <1>14 DEF IInv

\* quit.
LEMMA QuitStep ==
    ASSUME IInv, quit
    PROVE  IInv'
<1>1. /\ quitted' = TRUE /\ state' = "_QUITTING_State" /\ NoMail \in Args
      /\ lastSignal' = "none" /\ overtaken' = resetting
      /\ ~exposed'
      /\ \/ out' = out /\ socket = "unconnected"
         \/ out' = Append(out, Command("QUIT", NoMail)) /\ socket # "unconnected"
  BY DEF quit, Begin, Ask, Enter, Args, IInv, SecureInv
<1>2. /\ UNCHANGED <<connectionType, isReadyConnected, isAuthenticated, isMailSent, resetting,
                     email, addressIt, socket, encryption, in, srv, envelope, stored, calls>>
      /\ quitted => socket = "unconnected"
  BY DEF quit, server, flags
<1>3. /\ "_QUITTING_State" \in LastStates /\ "_QUITTING_State" \in States
      /\ "_QUITTING_State" \notin EarlyStates \cup MailStates \cup LoginStates
      /\ "_QUITTING_State" \in SlotStates
      /\ Command("QUIT", NoMail) \in Commands
  BY <1>1 DEF LastStates, States, MailStates, EarlyStates, LoginStates, SlotStates, Command,
              Commands, Names
<1>4. /\ out' \in Seq(Commands) /\ Len(out) \in Nat
      /\ \A k \in 1..Len(out') : out'[k].name = "BODY" =>
            k \in 1..Len(out) /\ out'[k] = out[k]
  <2>1. CASE out' = out
    BY <2>1 DEF IInv, Typed
  <2>2. CASE out' = Append(out, Command("QUIT", NoMail))
    <3>1. /\ out' \in Seq(Commands) /\ Len(out') = Len(out) + 1 /\ Len(out) \in Nat
          /\ out'[Len(out) + 1] = Command("QUIT", NoMail)
          /\ \A k \in 1..Len(out) : out'[k] = out[k]
      BY <1>3, <2>2, AddOne DEF IInv, Typed
    <3> QED BY <3>1 DEF Command
  <2> QED BY <1>1, <2>1, <2>2
<1>5. Typed'
  BY <1>1, <1>2, <1>3, <1>4 DEF IInv, Typed
<1>6. PlaceInv'
  BY <1>1, <1>2, <1>3 DEF IInv, PlaceInv
<1>7. ResetInv'
  BY <1>1, <1>2, <1>3 DEF IInv, Typed, ResetInv
<1>8. SecureInv'
  BY <1>1, <1>2, <1>3 DEF IInv, SecureInv
<1>9. TurnInv' /\ ServerInv'
  BY <1>1 DEF TurnInv, ServerInv, InSession
<1>10. StoreInv'
  BY <1>1, <1>2, <1>3, <1>4 DEF IInv, StoreInv, SentMeansStored
<1> QED BY <1>5, <1>6, <1>7, <1>8, <1>9, <1>10 DEF IInv

\* connectToHost.
LEMMA ConnectStep ==
    ASSUME IInv, connectToHost
    PROVE  IInv'
<1>1. /\ state = "UnconnectedState" /\ state' = "ConnectingState" /\ socket' = "connecting"
      /\ encryption' = "none" /\ out' = <<>> /\ in' = <<>>
      /\ lastSignal' = "none" /\ quitted' = FALSE /\ overtaken' = resetting
      /\ UNCHANGED <<connectionType, isReadyConnected, isAuthenticated, isMailSent, resetting,
                     email, addressIt, srv, envelope, stored, calls, exposed>>
  BY DEF connectToHost, Begin, server, flags
<1>2. /\ "ConnectingState" \in States
      /\ "ConnectingState" \notin MailStates \cup EarlyStates \cup LastStates
  BY DEF States, MailStates, EarlyStates, LastStates
<1>3. out' \in Seq(Commands) /\ in' \in Seq(Replies) /\ Len(out') = 0
  BY <1>1
<1>4. Typed'
  BY <1>1, <1>2, <1>3 DEF IInv, Typed
<1>5. ~resetting /\ ~isReadyConnected
  BY <1>1 DEF IInv, PlaceInv
<1>6. PlaceInv' /\ ResetInv'
  BY <1>1, <1>2, <1>5 DEF IInv, PlaceInv, ResetInv
<1>7. SecureInv' /\ TurnInv' /\ ServerInv'
  BY <1>1 DEF IInv, SecureInv, TurnInv, ServerInv, InSession
<1>8. StoreInv'
  BY <1>1, <1>2, <1>3 DEF IInv, StoreInv, SentMeansStored
<1> QED BY <1>4, <1>6, <1>7, <1>8 DEF IInv

\* What the program waits for changes nothing on the connection.
LEMMA WaitStep ==
    ASSUME IInv,
           UNCHANGED <<client, lastSignal, quitted, overtaken, line, server, calls, exposed>>
    PROVE  IInv'
<1>1. UNCHANGED <<connectionType, state, isReadyConnected, isAuthenticated, isMailSent,
                  resetting, overtaken, email, addressIt, lastSignal, quitted, socket,
                  encryption, out, in, srv, envelope, stored, calls, exposed>>
  BY DEF client, line, server
<1>2. Typed' /\ PlaceInv' /\ ResetInv' /\ SecureInv'
  BY <1>1 DEF IInv, Typed, PlaceInv, ResetInv, SecureInv
<1>3. TurnInv'
  BY <1>1 DEF IInv, TurnInv, InSession, Awaiting, Asking, Ignoring
<1>4. ServerInv'
  BY <1>1 DEF IInv, ServerInv, InSession, Good, Told
<1>5. StoreInv'
  BY <1>1 DEF IInv, StoreInv, SentMeansStored
<1> QED BY <1>2, <1>3, <1>4, <1>5 DEF IInv
-----------------------------------------------------------------------------
(* The socket *)

\* The connection is there and the server greets.
LEMMA ConnectedStep ==
    ASSUME IInv, Connected
    PROVE  IInv'
<1>1. /\ socket = "connecting" /\ socket' = "connected" /\ state' = "ConnectedState"
      /\ srv' = "greet" /\ envelope' = <<>>
      /\ UNCHANGED <<connectionType, isReadyConnected, isAuthenticated, isMailSent, resetting,
                     email, addressIt, lastSignal, quitted, overtaken, out, stored, calls,
                     exposed>>
  BY DEF Connected, flags, program
<1>2. PICK code \in {220, 554} : in' = Only(code)
  BY DEF Connected, Only
<1>3. in' \in Seq(Replies) /\ Whole(in') /\ in' # <<>>
  <2>1. code \in Nat \ {0}
    OBVIOUS
  <2>2. Only(code) \in Seq(Replies) /\ Whole(Only(code)) /\ Only(code) # <<>>
    BY <2>1, AnswerLines, ZenonT(60)
  <2> QED BY <1>2, <2>2
<1>4. /\ "ConnectedState" \in States
      /\ "ConnectedState" \in EarlyStates /\ "ConnectedState" \notin MailStates \cup LastStates
      /\ "ConnectedState" \notin LoginStates
  BY DEF States, MailStates, EarlyStates, LastStates, LoginStates
<1>5. /\ ~isReadyConnected /\ ~resetting /\ ~overtaken
      /\ ~quitted => lastSignal = "none" /\ out = <<>>
  BY <1>1 DEF IInv, PlaceInv
<1>6. Typed'
  BY <1>1, <1>3, <1>4 DEF IInv, Typed
<1>7. PlaceInv' /\ ResetInv'
  BY <1>1, <1>4, <1>5 DEF IInv, PlaceInv, ResetInv
<1>8. SecureInv'
  BY <1>1, <1>4, <1>5 DEF IInv, SecureInv
<1>9. Expected("ConnectedState") # 0
  BY Codes
<1>10. TurnInv'
  BY <1>1, <1>3, <1>5, <1>9 DEF TurnInv, InSession, Awaiting, Asking, Ignoring
<1>11. ServerInv'
  BY <1>1 DEF ServerInv
<1>12. StoreInv'
  BY <1>1, <1>4 DEF IInv, StoreInv, SentMeansStored
<1> QED BY <1>6, <1>7, <1>8, <1>10, <1>11, <1>12 DEF IInv

\* The connection is gone.
LEMMA DisconnectedStep ==
    ASSUME IInv, Disconnected
    PROVE  IInv'
<1>1. /\ socket' = "unconnected" /\ state' = "UnconnectedState"
      /\ isReadyConnected' = FALSE /\ isAuthenticated' = FALSE
      /\ out' = <<>> /\ in' = <<>> /\ srv' = "closed" /\ envelope' = <<>>
      /\ ~resetting
      /\ UNCHANGED <<connectionType, isMailSent, resetting, email, addressIt, quitted, overtaken,
                     stored, calls, exposed>>
  BY DEF Disconnected
<1>2. "UnconnectedState" \in States /\ "UnconnectedState" \notin MailStates \cup LastStates
  BY DEF States, MailStates, LastStates
<1>3. out' \in Seq(Commands) /\ in' \in Seq(Replies) /\ envelope' \in Seq(Args) /\ Len(out') = 0
  BY <1>1
<1>4. Typed'
  BY <1>1, <1>2, <1>3 DEF IInv, Typed
<1>5. PlaceInv' /\ ResetInv'
  BY <1>1, <1>2 DEF IInv, PlaceInv, ResetInv
<1>6. SecureInv' /\ TurnInv' /\ ServerInv'
  BY <1>1 DEF IInv, SecureInv, TurnInv, ServerInv, InSession
<1>7. StoreInv'
  BY <1>1, <1>2, <1>3 DEF IInv, StoreInv, SentMeansStored
<1> QED BY <1>4, <1>5, <1>6, <1>7 DEF IInv

\* The handshake is over; the client says EHLO again.
LEMMA EncryptedStep ==
    ASSUME IInv, socketEncrypted
    PROVE  IInv'
<1>1. /\ srv = "handshake" /\ socket = "connected" /\ encryption' = "on" /\ srv' = "greet"
      /\ UNCHANGED <<connectionType, isReadyConnected, isAuthenticated, isMailSent, resetting,
                     email, addressIt, lastSignal, quitted, overtaken, socket, in, envelope,
                     stored, calls, exposed>>
  BY DEF socketEncrypted, flags, program
<1>2. CASE state = "_TLS_1_ENCRYPT"
  <2>1. state' = "_TLS_2_EHLO" /\ out' = Append(out, Command("EHLO", NoMail))
    BY <1>2 DEF socketEncrypted
  <2>2. /\ "_TLS_2_EHLO" \in States /\ "_TLS_2_EHLO" \in EarlyStates
        /\ "_TLS_2_EHLO" \notin MailStates \cup LastStates
        /\ "_TLS_1_ENCRYPT" \in EarlyStates /\ Command("EHLO", NoMail) \in Commands
    BY DEF States, MailStates, EarlyStates, LastStates, Command, Commands, Names, Args
  <2>3. /\ out' \in Seq(Commands) /\ Len(out') = Len(out) + 1 /\ Len(out) \in Nat
        /\ out'[Len(out) + 1] = Command("EHLO", NoMail) /\ out' # <<>>
        /\ \A k \in 1..Len(out) : out'[k] = out[k]
        /\ out = <<>> => Len(out) = 0
    <3>1. out \in Seq(Commands)
      BY DEF IInv, Typed
    <3> QED BY <2>1, <2>2, <3>1, AddOne
  <2>4. Typed'
    BY <1>1, <2>1, <2>2, <2>3 DEF IInv, Typed
  <2>5. PlaceInv' /\ ResetInv'
    <3>1. ~resetting /\ ~overtaken
      BY <1>1, <1>2 DEF IInv, ResetInv, SlotStates
    <3> QED BY <1>1, <1>2, <2>1, <2>2, <3>1 DEF IInv, PlaceInv, ResetInv
  <2>6. SecureInv'
    BY <1>1 DEF IInv, SecureInv
  <2>7. InSession => out = <<>> /\ in = <<>>
    <3>1. Expected("_TLS_1_ENCRYPT") = 0
      BY Codes
    <3>2. ~Ignoring
      BY <1>1, <1>2 DEF IInv, ResetInv, Ignoring
    <3> QED BY <1>2, <3>1, <3>2 DEF IInv, TurnInv, Awaiting, Asking
  <2>8. out'[Len(out) + 1].name \in Asks("_TLS_2_EHLO")
    <3>1. out'[Len(out) + 1].name = "EHLO"
      BY <2>3 DEF Command
    <3>2. "EHLO" \in Asks("_TLS_2_EHLO")
      BY Questions
    <3> QED BY <3>1, <3>2
  <2>9. Expected("_TLS_2_EHLO") # 0
    BY Codes
  <2>10. TurnInv'
    <3> SUFFICES ASSUME InSession' PROVE TurnInv'
      BY DEF TurnInv
    <3>1. InSession
      BY <1>1 DEF InSession
    <3>2. lastSignal = "none" /\ out = <<>> /\ in = <<>> /\ ~resetting
      BY <1>1, <1>2, <2>7, <3>1 DEF IInv, ServerInv, ResetInv, SlotStates
    <3> QED BY <1>1, <2>1, <2>3, <2>8, <2>9, <3>2 DEF TurnInv, Awaiting, Asking
  <2>11. ServerInv'
    BY <1>1, <2>1 DEF ServerInv
  <2>12. \A k \in 1..Len(out') : out'[k].name = "BODY" => k \in 1..Len(out)
    BY <2>3 DEF Command
  <2>13. StoreInv'
    BY <1>1, <2>1, <2>2, <2>3, <2>12 DEF IInv, StoreInv, SentMeansStored
  <2> QED BY <2>4, <2>5, <2>6, <2>10, <2>11, <2>13 DEF IInv
<1>3. CASE state # "_TLS_1_ENCRYPT"
  <2>1. UNCHANGED <<state, out>>
    BY <1>3 DEF socketEncrypted
  <2>2. Typed' /\ PlaceInv' /\ ResetInv' /\ SecureInv'
    BY <1>1, <2>1 DEF IInv, Typed, PlaceInv, ResetInv, SecureInv
  <2>3. TurnInv'
    BY <1>1, <2>1 DEF IInv, TurnInv, InSession, Awaiting, Asking, Ignoring
  <2>4. InSession => state = "_TLS_0_STARTTLS"
    BY <1>1, <1>3 DEF IInv, ServerInv
  <2>5. ServerInv'
    BY <1>1, <2>1, <2>4 DEF ServerInv, InSession
  <2>6. StoreInv'
    BY <1>1, <2>1 DEF IInv, StoreInv, SentMeansStored
  <2> QED BY <2>2, <2>3, <2>5, <2>6 DEF IInv
<1> QED BY <1>2, <1>3

-----------------------------------------------------------------------------
(* An answer is read *)

\* The good answer that the state waits for is being read.
Heard ==
    /\ IInv /\ socket = "connected"
    /\ in' \in Seq(Replies)
    /\ UNCHANGED <<connectionType, email, srv, envelope, stored, calls>>
    /\ Expected(state) # 0
    /\ ~resetting /\ ~overtaken
    /\ InSession => out = <<>> /\ in' = <<>> /\ Good /\ lastSignal = "none"

\* Reading on in a sequence.
LEMMA ReadOn ==
    ASSUME NEW S, NEW s \in Seq(S), NEW n \in 1..Len(s)
    PROVE  /\ SubSeq(s, n + 1, Len(s)) \in Seq(S)
           /\ Len(SubSeq(s, n + 1, Len(s))) = Len(s) - n
           /\ \A k \in 1..(Len(s) - n) : SubSeq(s, n + 1, Len(s))[k] = s[n + k]
           /\ n = Len(s) => SubSeq(s, n + 1, Len(s)) = <<>>
           /\ n < Len(s) => SubSeq(s, n + 1, Len(s)) # <<>>
           /\ s # <<>> /\ Len(s) \in Nat /\ s[n] \in S
<1>1. Len(s) \in Nat /\ s[n] \in S
  OBVIOUS
<1>2. s # <<>>
  BY <1>1
<1>3. /\ SubSeq(s, n + 1, Len(s)) \in Seq(S)
      /\ Len(SubSeq(s, n + 1, Len(s))) = Len(s) - n
  BY <1>1
<1>4. \A k \in 1..(Len(s) - n) : SubSeq(s, n + 1, Len(s))[k] = s[n + k]
  BY <1>1
<1>5. n = Len(s) => SubSeq(s, n + 1, Len(s)) = <<>>
  BY <1>1, <1>3
<1>6. n < Len(s) => SubSeq(s, n + 1, Len(s)) # <<>>
  <2> DEFINE rest == SubSeq(s, n + 1, Len(s))
  <2>1. Len(rest) = Len(s) - n /\ Len(s) \in Nat
    BY <1>1, <1>3
  <2> HIDE DEF rest
  <2>2. n < Len(s) => rest # <<>>
    BY <2>1
  <2> QED BY <2>2 DEF rest
<1> QED BY <1>1, <1>2, <1>3, <1>4, <1>5, <1>6

\* In a session the last line is the only one that ends an answer.
LEMMA WholeRead ==
    ASSUME IInv, InSession, in # <<>>, NEW n \in 1..Len(in)
    PROVE  /\ Awaiting \/ Ignoring
           /\ out = <<>> /\ Whole(in) /\ lastSignal = "none"
           /\ ~in[n].more <=> n = Len(in)
<1>1. (Awaiting \/ Ignoring) /\ out = <<>> /\ Whole(in) /\ lastSignal = "none"
  BY DEF IInv, TurnInv
<1> QED BY <1>1 DEF Whole, IInv, Typed

\* Where an answer is not expected any more, the state is ready.
LEMMA IgnoringReady ==
    ASSUME IInv, InSession, Ignoring
    PROVE  /\ state = "ReadyState" /\ Expected(state) = 0 /\ ~Asking /\ ~Good
           /\ Asks(state) = {"AUTH PLAIN", "AUTH LOGIN", "MAIL", "RSET"}
<1>1. state = "ReadyState"
  BY DEF IInv, ResetInv, Ignoring, InSession
<1>2. Expected(state) = 0
  BY <1>1, Codes
<1>3. ~Good
  <2> SUFFICES ASSUME Good PROVE FALSE
    OBVIOUS
  <2>1. in \in Seq(Replies) /\ in # <<>> /\ in[Len(in)].code = 0
    BY <1>2 DEF Good, IInv, Typed
  <2>2. in[Len(in)] \in Replies
    BY <2>1
  <2> QED BY <2>1, <2>2 DEF Replies
<1> QED BY <1>1, <1>2, <1>3, Questions DEF Asking

\* An answer that the state does not wait for, or a line that another one
\* follows: an error or nothing is signalled.
LEMMA IgnoreStep ==
    ASSUME IInv, socket = "connected", in # <<>>, ~resetting, NEW n \in 1..Len(in),
           in' = SubSeq(in, n + 1, Len(in)),
           in[n].more \/ in[n].code # Expected(state),
           IF ~in[n].more /\ (in[n].code >= 400 \/ Expected(state) # 0)
           THEN Emit("error") ELSE Silent,
           UNCHANGED <<state, flags, addressIt, socket, encryption, out, exposed,
                       connectionType, email, server, calls>>
    PROVE  IInv'
<1>1. /\ UNCHANGED <<state, isReadyConnected, isAuthenticated, isMailSent, resetting, addressIt,
                     socket, encryption, out, exposed, connectionType, email, srv, envelope,
                     stored, calls, quitted, overtaken>>
      /\ lastSignal' \in {lastSignal, "error"}
  BY DEF flags, server, Emit, Silent, program
<1>2. in \in Seq(Replies)
  BY DEF IInv, Typed
<1>3. /\ in' \in Seq(Replies) /\ Len(in') = Len(in) - n
      /\ \A k \in 1..(Len(in) - n) : in'[k] = in[n + k]
      /\ n = Len(in) => in' = <<>>
      /\ n < Len(in) => in' # <<>>
      /\ Len(in) \in Nat
  BY <1>2, ReadOn, SMTT(30)
<1>4. Typed' /\ PlaceInv' /\ ResetInv' /\ SecureInv'
  <2>1. Typed' /\ SecureInv'
    BY <1>1, <1>3 DEF IInv, Typed, SecureInv
  <2>2. PlaceInv' /\ ResetInv'
    BY <1>1 DEF IInv, PlaceInv, ResetInv
  <2> QED BY <2>1, <2>2
<1>5. StoreInv'
  BY <1>1 DEF IInv, StoreInv, SentMeansStored
<1>6. TurnInv' /\ ServerInv'
  <2>1. CASE ~InSession
    BY <1>1, <2>1 DEF InSession, TurnInv, ServerInv
  <2>2. CASE InSession /\ in[n].more
    <3>1. /\ Awaiting \/ Ignoring
          /\ out = <<>> /\ Whole(in) /\ lastSignal = "none" /\ n < Len(in)
      BY <2>2, <1>3, WholeRead
    <3>2. lastSignal' = lastSignal
      BY <2>2 DEF Silent, program
    <3>3. in'[Len(in')] = in[Len(in)] /\ in' # <<>> /\ in # <<>>
      <4>1. Len(in) - n \in 1..(Len(in) - n) /\ n + (Len(in) - n) = Len(in)
        BY <1>3, <3>1
      <4> QED BY <1>3, <3>1, <4>1 DEF Whole
    <3>4. Whole(in')
      <4>1. ASSUME NEW k \in 1..(Len(in') - 1) PROVE in'[k].more
        <5>1. k \in 1..(Len(in) - n) /\ n + k \in 1..(Len(in) - 1)
          BY <1>3, SMTT(30)
        <5> QED BY <1>3, <3>1, <5>1 DEF Whole
      <4> QED BY <3>1, <3>3, <4>1 DEF Whole
    <3>5. TurnInv'
      BY <1>1, <3>1, <3>2, <3>4 DEF TurnInv, Awaiting, Asking, Ignoring
    <3>6. Good' <=> Good
      BY <1>1, <3>3 DEF Good
    <3>7. ServerInv'
      BY <1>1, <2>2, <3>2, <3>6 DEF IInv, ServerInv, Told
    <3> QED BY <3>5, <3>7
  <2>3. CASE InSession /\ ~in[n].more
    <3>1. (Awaiting \/ Ignoring) /\ out = <<>> /\ n = Len(in) /\ lastSignal = "none"
      BY <2>3, WholeRead
    <3>2. in' = <<>>
      BY <1>3, <3>1
    <3>3. Awaiting => Expected(state) # 0 /\ lastSignal' = "error"
      BY <2>3 DEF Awaiting, Asking, Emit
    <3>4. Ignoring => ~Asking
      BY <2>3, IgnoringReady
    <3>5. TurnInv'
      BY <1>1, <3>1, <3>2, <3>3, <3>4 DEF TurnInv, Awaiting, Asking, Ignoring, Silent, Emit, program
    <3>6. ~Good /\ ~Good'
      BY <2>3, <3>1, <3>2 DEF Good
    <3>7. state # "_TLS_1_ENCRYPT"
      <4>1. Ignoring => state = "ReadyState"
        BY <2>3, IgnoringReady
      <4>2. Expected("_TLS_1_ENCRYPT") = 0
        BY Codes
      <4> QED BY <3>1, <3>3, <4>1, <4>2
    <3>8. ServerInv'
      BY <1>1, <2>3, <3>1, <3>6, <3>7 DEF IInv, ServerInv, Told
    <3> QED BY <3>5, <3>8
  <2> QED BY <2>1, <2>2, <2>3
<1> QED BY <1>4, <1>5, <1>6 DEF IInv

\* The command that follows an answer.
LEMMA FollowUp ==
    ASSUME Heard, NEW s \in States, NEW name \in Names, NEW arg \in Args,
           Ask(s, name, arg), name \in Asks(s), Expected(s) # 0, Silent,
           UNCHANGED <<flags, socket, encryption>>,
           quitted => s \in EarlyStates,
           isReadyConnected => s \notin EarlyStates,
           s \notin LastStates \cup {"UnconnectedState", "ConnectingState", "ResetState"},
           name \in {"EHLO", "STARTTLS"} \/ (connectionType = "Tls" => encryption = "on"),
           s \in {"_EHLO_State", "_TLS_0_STARTTLS"} \/ (connectionType = "Tls" => encryption = "on")
    PROVE  /\ PlaceInv' /\ SecureInv' /\ TurnInv'
           /\ out' \in Seq(Commands) /\ Len(out') = Len(out) + 1 /\ Len(out) \in Nat
           /\ out'[Len(out) + 1].name = name
           /\ \A k \in 1..Len(out) : out'[k] = out[k]
           /\ InSession => out' # <<>> /\ out'[1].arg = arg /\ Len(out) = 0
           /\ InSession' <=> InSession
           /\ UNCHANGED <<isReadyConnected, isAuthenticated, isMailSent, resetting, quitted,
                          overtaken, lastSignal>>
           /\ state' = s /\ ~exposed' /\ ResetInv'
<1>1. /\ UNCHANGED <<isReadyConnected, isAuthenticated, isMailSent, resetting, quitted,
                     overtaken, lastSignal, socket, encryption, connectionType>>
      /\ state' = s /\ IInv /\ ~resetting /\ ~overtaken
  BY DEF Heard, Ask, Silent, program, flags
<1>2. Command(name, arg) \in Commands
  BY DEF Command, Commands
<1>3. /\ out' \in Seq(Commands) /\ Len(out') = Len(out) + 1 /\ Len(out) \in Nat
      /\ out'[Len(out) + 1] = Command(name, arg) /\ out' # <<>>
      /\ \A k \in 1..Len(out) : out'[k] = out[k]
      /\ out = <<>> => Len(out) = 0
  <2>1. out \in Seq(Commands) /\ out' = Append(out, Command(name, arg))
    BY <1>1 DEF Ask, IInv, Typed
  <2> QED BY <1>2, <2>1, AddOne
<1>4. out'[Len(out) + 1].name = name /\ out'[Len(out) + 1].arg = arg
  BY <1>3 DEF Command
<1>5. PlaceInv' /\ ResetInv'
  BY <1>1 DEF IInv, PlaceInv, ResetInv, Heard
<1>6. SecureInv' /\ ~exposed'
  BY <1>1 DEF IInv, SecureInv, Ask, Heard, MailStates, LoginStates
<1>7. TurnInv'
  BY <1>1, <1>3, <1>4 DEF TurnInv, InSession, Heard, Awaiting, Asking
<1>8. InSession => out' # <<>> /\ out'[1].arg = arg /\ Len(out) = 0
  BY <1>3, <1>4 DEF Heard
<1> QED BY <1>1, <1>3, <1>4, <1>5, <1>6, <1>7, <1>8 DEF InSession

\* A command before the login or of it.
LEMMA FollowCommand ==
    ASSUME Heard, NEW s \in EarlyStates \cup LoginStates, NEW name \in Names \ {"BODY"},
           Continue(s, name, NoMail), name \in Asks(s), Expected(s) # 0,
           s # "_TLS_1_ENCRYPT", state \notin MailStates \cup {"_TLS_0_STARTTLS"},
           quitted => s \in EarlyStates,
           isReadyConnected => s \notin EarlyStates,
           name \in {"EHLO", "STARTTLS"} \/ (connectionType = "Tls" => encryption = "on"),
           s \in {"_EHLO_State", "_TLS_0_STARTTLS"} \/ (connectionType = "Tls" => encryption = "on")
    PROVE  IInv'
<1>1. Ask(s, name, NoMail) /\ Silent /\ UNCHANGED <<flags, addressIt, socket, encryption>>
  BY DEF Continue
<1>2. /\ s \in States /\ NoMail \in Args /\ s \notin MailStates
      /\ s \notin LastStates \cup {"UnconnectedState", "ConnectingState", "ResetState"}
  BY DEF EarlyStates, LoginStates, States, Args, MailStates, LastStates
<1>3. /\ PlaceInv' /\ ResetInv' /\ SecureInv' /\ TurnInv'
      /\ out' \in Seq(Commands) /\ Len(out') = Len(out) + 1 /\ Len(out) \in Nat
      /\ out'[Len(out) + 1].name = name
      /\ \A k \in 1..Len(out) : out'[k] = out[k]
      /\ InSession => out' # <<>>
      /\ InSession' <=> InSession
      /\ UNCHANGED <<isReadyConnected, isAuthenticated, isMailSent, resetting, quitted, overtaken,
                     lastSignal>>
      /\ state' = s /\ ~exposed'
  BY <1>1, <1>2, FollowUp
<1>4. /\ IInv /\ in' \in Seq(Replies)
      /\ UNCHANGED <<connectionType, email, srv, envelope, stored, calls, addressIt>>
  BY <1>1 DEF Heard
<1>5. Typed'
  BY <1>2, <1>3, <1>4 DEF IInv, Typed
<1>6. \A k \in 1..Len(out') : out'[k].name = "BODY" => k \in 1..Len(out)
  BY <1>3
<1>7. StoreInv'
  BY <1>2, <1>3, <1>4, <1>6 DEF IInv, StoreInv, SentMeansStored
<1>8. InSession => srv \notin {"closed", "data", "handshake"}
  <2>1. state # "_TLS_1_ENCRYPT"
    BY Codes DEF Heard
  <2> QED BY <2>1 DEF Heard, IInv, ServerInv, MailStates
<1>9. s \notin {"_TLS_1_ENCRYPT", "_MAIL_0_FROM", "_MAIL_2_RCPT", "_MAIL_3_DATA",
                "_MAIL_4_SEND_DATA"}
  BY <1>2 DEF MailStates
<1>10. ServerInv'
  BY <1>3, <1>4, <1>8, <1>9 DEF ServerInv
<1> QED BY <1>3, <1>5, <1>7, <1>10 DEF IInv

\* The operation is over.
LEMMA ReadyStep ==
    ASSUME Heard, NEW signal, Ready(signal),
           signal = "mailSent" <=> state = "_MAIL_4_SEND_DATA",
           state \notin {"_MAIL_3_DATA", "_TLS_0_STARTTLS"},
           connectionType = "Tls" => encryption = "on"
    PROVE  IInv'
<1>1. /\ state' = "ReadyState" /\ lastSignal' = signal
      /\ isReadyConnected' \in BOOLEAN /\ isAuthenticated' \in BOOLEAN
      /\ isMailSent' = (isMailSent \/ signal = "mailSent")
      /\ UNCHANGED <<out, exposed, resetting, quitted, overtaken, addressIt, socket,
                     encryption>>
  BY DEF Ready, Enter, Emit
<1>2. /\ IInv /\ in' \in Seq(Replies) /\ socket = "connected"
      /\ UNCHANGED <<connectionType, email, srv, envelope, stored, calls>>
      /\ InSession => out = <<>> /\ in' = <<>> /\ Good
      /\ ~resetting /\ ~overtaken
  BY DEF Heard
<1>3. /\ "ReadyState" \in States
      /\ "ReadyState" \notin MailStates \cup EarlyStates \cup LastStates
  BY DEF States, MailStates, EarlyStates, LastStates
<1>4. Typed'
  BY <1>1, <1>2, <1>3 DEF IInv, Typed
<1>5. PlaceInv' /\ ResetInv'
  BY <1>1, <1>2, <1>3 DEF IInv, PlaceInv, ResetInv
<1>6. SecureInv'
  BY <1>1, <1>2 DEF IInv, SecureInv
<1>7. Expected("ReadyState") = 0
  BY Codes
<1>8. TurnInv'
  BY <1>1, <1>2, <1>7 DEF TurnInv, InSession, Awaiting, Asking, Ignoring
<1>9. InSession => srv \notin {"closed", "data", "handshake"}
  <2>1. state # "_TLS_1_ENCRYPT"
    BY Codes DEF Heard
  <2> QED BY <1>2, <2>1 DEF IInv, ServerInv
<1>10. ServerInv'
  BY <1>1, <1>2, <1>9 DEF ServerInv, InSession
<1>11. CASE signal = "mailSent"
  <2>1. InSession
    BY <1>2, <1>11 DEF IInv, PlaceInv, InSession, MailStates, EarlyStates, LastStates
  <2>2. stored # <<>> /\ Last(stored) = [mail |-> email, rcpts |-> Recipients[email]]
    BY <1>2, <1>11, <2>1 DEF IInv, ServerInv
  <2>3. Len(out') = 0
    BY <1>1, <1>2, <2>1
  <2>4. StoreInv'
    BY <1>1, <1>2, <1>3, <2>2, <2>3 DEF IInv, StoreInv, SentMeansStored
  <2> QED BY <1>4, <1>5, <1>6, <1>8, <1>10, <2>4 DEF IInv
<1>12. CASE signal # "mailSent"
  <2>1. isMailSent' = isMailSent
    BY <1>1, <1>2, <1>12 DEF IInv, Typed
  <2>2. StoreInv'
    BY <1>1, <1>2, <1>3, <2>1 DEF IInv, StoreInv, SentMeansStored
  <2> QED BY <1>4, <1>5, <1>6, <1>8, <1>10, <2>2 DEF IInv
<1> QED BY <1>11, <1>12

\* RSET is answered and mailReset is signalled.
LEMMA SignalStep ==
    ASSUME Heard, state = "ResetState", SignalReset
    PROVE  IInv'
<1>1. /\ lastSignal' = "mailReset" /\ resetting' = TRUE
      /\ UNCHANGED <<state, isReadyConnected, isAuthenticated, isMailSent, addressIt, socket,
                     encryption, out, exposed, quitted, overtaken>>
  BY DEF SignalReset, Emit
<1>2. /\ IInv /\ in' \in Seq(Replies) /\ socket = "connected"
      /\ UNCHANGED <<connectionType, email, srv, envelope, stored, calls>>
      /\ InSession => out = <<>> /\ in' = <<>>
      /\ ~resetting /\ ~overtaken
  BY DEF Heard
<1>3. Typed'
  BY <1>1, <1>2 DEF IInv, Typed
<1>4. PlaceInv' /\ ResetInv'
  BY <1>1, <1>2 DEF IInv, PlaceInv, ResetInv, SlotStates
<1>5. SecureInv' /\ StoreInv'
  BY <1>1, <1>2 DEF IInv, SecureInv, StoreInv, SentMeansStored
<1>6. TurnInv'
  BY <1>1, <1>2 DEF TurnInv, InSession, Awaiting, Asking, Ignoring
<1>7. ServerInv'
  BY <1>1, <1>2 DEF IInv, ServerInv, InSession
<1> QED BY <1>3, <1>4, <1>5, <1>6, <1>7 DEF IInv

\* The slots have returned: the state of what they have called is lost.
LEMMA AfterResetStep ==
    ASSUME IInv, ReadyAfterReset
    PROVE  IInv'
<1>1. /\ resetting /\ resetting' = FALSE /\ state' = "ReadyState"
      /\ UNCHANGED <<connectionType, isReadyConnected, isAuthenticated, isMailSent, email,
                     addressIt, lastSignal, quitted, overtaken, socket, encryption, out, in,
                     srv, envelope, stored, calls, exposed>>
  BY DEF ReadyAfterReset, Enter, Silent, program, server
<1>2. socket = "connected" /\ isReadyConnected /\ state \in SlotStates
  BY <1>1 DEF IInv, PlaceInv, ResetInv
<1>3. /\ "ReadyState" \in States
      /\ "ReadyState" \notin MailStates \cup EarlyStates \cup LastStates
  BY DEF States, MailStates, EarlyStates, LastStates
<1>4. Typed'
  BY <1>1, <1>3 DEF IInv, Typed
<1>5. PlaceInv' /\ ResetInv'
  BY <1>1, <1>2, <1>3 DEF IInv, PlaceInv, ResetInv
<1>6. SecureInv'
  BY <1>1, <1>2 DEF IInv, SecureInv
<1>7. StoreInv'
  BY <1>1, <1>3 DEF IInv, StoreInv, SentMeansStored
<1>8. InSession => state # "_QUITTING_State"
  BY DEF IInv, PlaceInv, InSession, LastStates
<1>9. TurnInv'
  <2> SUFFICES ASSUME InSession PROVE TurnInv'
    BY <1>1 DEF TurnInv, InSession
  <2>1. Expected("ReadyState") = 0
    BY Codes
  <2>2. ~Awaiting' /\ ~Ignoring
    BY <1>1, <2>1 DEF Awaiting, Asking, Ignoring
  <2>3. CASE overtaken
    <3>1. lastSignal = "none"
      BY <1>1, <1>2, <2>3 DEF IInv, ResetInv
    <3>2. Asks(state) \subseteq Asks("ReadyState")
      BY <1>2, <1>8, Questions DEF SlotStates
    <3>3. Ignoring'
      BY <1>1, <2>3, <3>1 DEF Ignoring
    <3>4. \/ Len(out) = 1 /\ out[1].name \in Asks("ReadyState") /\ in = <<>>
          \/ out = <<>> /\ Whole(in)
          \/ out = <<>> /\ in = <<>>
      BY <2>2, <3>2 DEF IInv, TurnInv
    <3> QED BY <1>1, <3>1, <3>3, <3>4 DEF TurnInv
  <2>4. CASE ~overtaken
    <3>1. ~Awaiting /\ ~Ignoring'
      BY <1>1, <2>4 DEF Awaiting, Asking, Ignoring
    <3>2. out = <<>> /\ in = <<>>
      BY <2>2, <3>1 DEF IInv, TurnInv
    <3> QED BY <1>1, <2>2, <3>1, <3>2 DEF TurnInv
  <2> QED BY <2>3, <2>4
<1>10. ServerInv'
  <2>1. state \notin {"_MAIL_3_DATA", "_MAIL_4_SEND_DATA", "_TLS_0_STARTTLS", "_TLS_1_ENCRYPT"}
    BY <1>2 DEF SlotStates
  <2>2. InSession => srv \notin {"closed", "data", "handshake"}
    BY <2>1 DEF IInv, ServerInv
  <2> QED BY <1>1, <2>2 DEF ServerInv, InSession
<1> QED BY <1>4, <1>5, <1>6, <1>7, <1>9, <1>10 DEF IInv

\* The server has agreed to the handshake.
LEMMA HandshakeStep ==
    ASSUME Heard, state = "_TLS_0_STARTTLS",
           Enter("_TLS_1_ENCRYPT"), Silent, UNCHANGED <<flags, addressIt, socket>>
    PROVE  IInv'
<1>1. /\ state' = "_TLS_1_ENCRYPT"
      /\ UNCHANGED <<out, exposed, resetting, quitted, overtaken, lastSignal, addressIt, socket,
                     isReadyConnected, isAuthenticated, isMailSent>>
  BY DEF Enter, Silent, program, flags
<1>2. /\ IInv /\ in' \in Seq(Replies) /\ socket = "connected"
      /\ UNCHANGED <<connectionType, email, srv, envelope, stored, calls>>
      /\ InSession => out = <<>> /\ in' = <<>> /\ lastSignal = "none"
      /\ ~resetting /\ ~overtaken
  BY DEF Heard
<1>3. /\ "_TLS_1_ENCRYPT" \in States /\ "_TLS_1_ENCRYPT" \in EarlyStates
      /\ "_TLS_1_ENCRYPT" \notin MailStates \cup LastStates \cup LoginStates
      /\ "_TLS_0_STARTTLS" \in EarlyStates
  BY DEF States, MailStates, EarlyStates, LastStates, LoginStates
<1>4. Typed'
  BY <1>1, <1>2, <1>3 DEF IInv, Typed
<1>5. PlaceInv' /\ ResetInv'
  BY <1>1, <1>2, <1>3 DEF IInv, PlaceInv, ResetInv
<1>6. ~isReadyConnected
  BY <1>2, <1>3 DEF IInv, PlaceInv, Heard
<1>7. SecureInv'
  BY <1>1, <1>2, <1>3, <1>6 DEF IInv, SecureInv
<1>8. Expected("_TLS_1_ENCRYPT") = 0
  BY Codes
<1>9. TurnInv'
  BY <1>1, <1>2, <1>8 DEF TurnInv, InSession, Awaiting, Asking, Ignoring
<1>10. InSession => srv \notin {"closed", "data"}
  BY <1>2 DEF IInv, ServerInv, Heard
<1>11. ServerInv'
  BY <1>1, <1>2, <1>10 DEF ServerInv, InSession
<1>12. StoreInv'
  BY <1>1, <1>2, <1>3 DEF IInv, StoreInv, SentMeansStored
<1> QED BY <1>4, <1>5, <1>7, <1>9, <1>11, <1>12 DEF IInv

\* The server has agreed to QUIT.
LEMMA ClosingStep ==
    ASSUME Heard, state = "_QUITTING_State",
           Enter("DisconnectingState"), Silent, socket' = "closing",
           isReadyConnected' = FALSE,
           UNCHANGED <<isAuthenticated, isMailSent, resetting, addressIt, encryption>>
    PROVE  IInv'
<1>1. /\ state' = "DisconnectingState"
      /\ UNCHANGED <<out, exposed, quitted, overtaken>>
  BY DEF Enter, Silent, program
<1>2. /\ IInv /\ in' \in Seq(Replies) /\ socket = "connected"
      /\ UNCHANGED <<connectionType, email, srv, envelope, stored, calls>>
      /\ ~resetting /\ ~overtaken
  BY DEF Heard
<1>3. /\ "DisconnectingState" \in States /\ "DisconnectingState" \in LastStates
      /\ "DisconnectingState" \notin MailStates \cup EarlyStates
      /\ "_QUITTING_State" \in LastStates
  BY DEF States, MailStates, EarlyStates, LastStates
<1>4. Typed'
  BY <1>1, <1>2, <1>3 DEF IInv, Typed
<1>5. PlaceInv' /\ ResetInv'
  BY <1>1, <1>2, <1>3 DEF IInv, PlaceInv, ResetInv
<1>6. SecureInv' /\ TurnInv' /\ ServerInv'
  BY <1>1, <1>2 DEF IInv, SecureInv, TurnInv, ServerInv, InSession
<1>7. StoreInv'
  BY <1>1, <1>2, <1>3 DEF IInv, StoreInv, SentMeansStored
<1> QED BY <1>4, <1>5, <1>6, <1>7 DEF IInv

\* The recipients told so far.
LEMMA ToldOn ==
    ASSUME email \in Mails
    PROVE  /\ Told(0) = <<>> /\ Told(Len(Recipients[email])) = Recipients[email]
           /\ Len(Recipients[email]) \in Nat
           /\ \A k \in 1..Len(Recipients[email]) :
                /\ Recipients[email][k] \in Args
                /\ Append(Told(k - 1), Recipients[email][k]) = Told(k)
<1> DEFINE r == Recipients[email]
<1>1. r \in Seq(Addresses) /\ Len(r) \in Nat
  BY MailsAssumption
<1> HIDE DEF r
<1>2. SubSeq(r, 1, 0) = <<>> /\ SubSeq(r, 1, Len(r)) = r
  BY <1>1
<1>3. ASSUME NEW k \in 1..Len(r)
      PROVE  r[k] \in Args /\ Append(SubSeq(r, 1, k - 1), r[k]) = SubSeq(r, 1, k)
  <2>1. r[k] \in Addresses
    BY <1>1
  <2>2. /\ SubSeq(r, 1, k - 1) \in Seq(Addresses) /\ Len(SubSeq(r, 1, k - 1)) = k - 1
        /\ \A i \in 1..(k - 1) : SubSeq(r, 1, k - 1)[i] = r[i]
    BY <1>1
  <2>3. /\ SubSeq(r, 1, k) \in Seq(Addresses) /\ Len(SubSeq(r, 1, k)) = k
        /\ \A i \in 1..k : SubSeq(r, 1, k)[i] = r[i]
    BY <1>1
  <2> DEFINE a == SubSeq(r, 1, k - 1)
             b == SubSeq(r, 1, k)
             c == Append(a, r[k])
  <2>4. /\ c \in Seq(Addresses) /\ Len(c) = k /\ c[k] = r[k]
        /\ \A i \in 1..(k - 1) : c[i] = r[i]
    BY <2>1, <2>2, AddOne
  <2> HIDE DEF a, b, c
  <2>5. \A i \in 1..k : c[i] = b[i]
    <3> SUFFICES ASSUME NEW i \in 1..k PROVE c[i] = b[i]
      OBVIOUS
    <3>1. i = k \/ i \in 1..(k - 1)
      BY <1>1
    <3> QED BY <2>3, <2>4, <3>1 DEF b
  <2>6. c = b
    BY <2>3, <2>4, <2>5 DEF b
  <2> QED BY <2>1, <2>6 DEF a, b, c, Args
<1> QED BY <1>2, <1>3 DEF Told, r

\* From MAIL to the last RCPT, from there to DATA, from there to the mail.
LEMMA MailStep ==
    ASSUME Heard, state \in MailStates \ {"_MAIL_4_SEND_DATA"},
           NEW s \in MailStates, NEW name \in Names, NEW arg \in Args,
           Ask(s, name, arg), name \in Asks(s), Expected(s) # 0, Silent,
           UNCHANGED <<flags, socket, encryption>>,
           name # "BODY" => s # "_MAIL_4_SEND_DATA",
           addressIt' \in Nat, addressIt' <= Len(Recipients[email]),
           s # "_MAIL_0_FROM",
           s = "_MAIL_2_RCPT" => /\ addressIt' > 0 /\ srv = "mail"
                                 /\ envelope = Told(addressIt' - 1)
                                 /\ arg = Recipients[email][addressIt'],
           s = "_MAIL_3_DATA" => srv = "mail" /\ envelope = Recipients[email],
           s = "_MAIL_4_SEND_DATA" => /\ srv = "data" /\ envelope = Recipients[email]
                                      /\ arg = email,
           s # "_MAIL_4_SEND_DATA" => srv # "data"
    PROVE  IInv'
<1>1. /\ IInv /\ in' \in Seq(Replies) /\ socket = "connected"
      /\ UNCHANGED <<connectionType, email, srv, envelope, stored, calls>>
  BY DEF Heard
<1>2. ~quitted /\ InSession /\ email \in Mails
  BY <1>1 DEF IInv, Typed, PlaceInv, InSession, MailStates, EarlyStates, LastStates
<1>3. /\ s \in States /\ s \notin EarlyStates
      /\ s \notin LastStates \cup {"UnconnectedState", "ConnectingState", "ResetState"}
  BY Apart DEF MailStates
<1>4. connectionType = "Tls" => encryption = "on"
  BY <1>1 DEF IInv, SecureInv
<1>5. /\ PlaceInv' /\ ResetInv' /\ SecureInv' /\ TurnInv'
      /\ out' \in Seq(Commands) /\ Len(out') = Len(out) + 1
      /\ out'[Len(out) + 1].name = name
      /\ out' # <<>> /\ out'[1].arg = arg /\ Len(out) = 0
      /\ InSession'
      /\ UNCHANGED <<isReadyConnected, isAuthenticated, isMailSent, resetting, quitted, overtaken,
                     lastSignal>>
      /\ state' = s
  BY <1>2, <1>3, <1>4, FollowUp
<1>6. Typed'
  BY <1>1, <1>2, <1>3, <1>5 DEF IInv, Typed
<1>7. srv \notin {"closed", "handshake"}
  <2>1. state # "_TLS_1_ENCRYPT" /\ state # "_TLS_0_STARTTLS"
    BY DEF MailStates
  <2> QED BY <1>1, <1>2, <2>1 DEF IInv, ServerInv
<1>8. s # "_TLS_1_ENCRYPT"
  BY DEF MailStates
<1>9. ~Good'
  BY <1>5 DEF Good
<1>10. ServerInv'
  BY <1>1, <1>5, <1>7, <1>8, <1>9 DEF ServerInv, Told
<1>11. ~isMailSent /\ Len(stored) < Len(calls)
  BY <1>1 DEF IInv, StoreInv
<1>12. \A k \in 1..Len(out') : k = 1
  BY <1>5
<1>13. StoreInv'
  BY <1>1, <1>5, <1>11, <1>12 DEF IInv, StoreInv, SentMeansStored
<1> QED BY <1>5, <1>6, <1>10, <1>13 DEF IInv

\* RCPT, or DATA after the last.
LEMMA RecipientStep ==
    ASSUME Heard, state \in {"_MAIL_0_FROM", "_MAIL_2_RCPT"},
           NextRecipient, Silent, UNCHANGED <<flags, socket, encryption>>
    PROVE  IInv'
<1>1. /\ IInv /\ socket = "connected"
      /\ InSession => Good
  BY DEF Heard
<1>2. state \in MailStates \ {"_MAIL_4_SEND_DATA"}
  BY DEF MailStates
<1>3. InSession /\ email \in Mails /\ addressIt \in Nat /\ addressIt <= Len(Recipients[email])
  BY <1>1, <1>2 DEF IInv, Typed, PlaceInv, InSession, MailStates, EarlyStates, LastStates
<1>4. srv = "mail" /\ envelope = Told(addressIt)
  BY <1>1, <1>3, ToldOn DEF IInv, ServerInv
<1>5. Len(Recipients[email]) \in Nat
  BY <1>3, ToldOn
<1>6. CASE addressIt < Len(Recipients[email])
  <2>1. /\ addressIt' = addressIt + 1
        /\ Ask("_MAIL_2_RCPT", "RCPT", Recipients[email][addressIt'])
    BY <1>6 DEF NextRecipient
  <2>2. Recipients[email][addressIt'] \in Args
    BY <1>3, <1>5, <1>6, <2>1, ToldOn
  <2>3. Expected("_MAIL_2_RCPT") # 0
    BY Codes
  <2>4. "RCPT" \in Asks("_MAIL_2_RCPT") /\ "RCPT" \in Names /\ "_MAIL_2_RCPT" \in MailStates
    BY Questions DEF Names, MailStates
  <2>5. addressIt' \in Nat /\ addressIt' <= Len(Recipients[email]) /\ addressIt' > 0
        /\ addressIt' - 1 = addressIt
    BY <1>3, <1>5, <1>6, <2>1
  <2> QED BY <1>2, <1>4, <2>1, <2>2, <2>3, <2>4, <2>5, MailStep
<1>7. CASE ~(addressIt < Len(Recipients[email]))
  <2>1. addressIt' = addressIt /\ Ask("_MAIL_3_DATA", "DATA", NoMail)
    BY <1>7 DEF NextRecipient
  <2>2. envelope = Recipients[email]
    <3>1. addressIt = Len(Recipients[email])
      BY <1>3, <1>5, <1>7
    <3> QED BY <1>3, <1>4, <3>1, ToldOn
  <2>3. Expected("_MAIL_3_DATA") # 0
    BY Codes
  <2>4. /\ "DATA" \in Asks("_MAIL_3_DATA") /\ "DATA" \in Names /\ NoMail \in Args
        /\ "_MAIL_3_DATA" \in MailStates
    BY Questions DEF Names, Args, MailStates
  <2> QED BY <1>2, <1>3, <1>4, <2>1, <2>2, <2>3, <2>4, MailStep
<1> QED BY <1>6, <1>7

\* The mail itself.
LEMMA BodyStep ==
    ASSUME Heard, state = "_MAIL_3_DATA", Continue("_MAIL_4_SEND_DATA", "BODY", email)
    PROVE  IInv'
<1>1. /\ Ask("_MAIL_4_SEND_DATA", "BODY", email) /\ Silent
      /\ UNCHANGED <<flags, socket, encryption>> /\ addressIt' = addressIt
  BY DEF Continue
<1>2. /\ IInv /\ socket = "connected"
      /\ InSession => Good
  BY DEF Heard
<1>3. state \in MailStates \ {"_MAIL_4_SEND_DATA"} /\ "_MAIL_4_SEND_DATA" \in MailStates
  BY DEF MailStates
<1>4. InSession /\ email \in Mails /\ addressIt \in Nat /\ addressIt <= Len(Recipients[email])
  BY <1>2, <1>3 DEF IInv, Typed, PlaceInv, InSession, MailStates, EarlyStates, LastStates
<1>5. srv = "data" /\ envelope = Recipients[email]
  BY <1>2, <1>4 DEF IInv, ServerInv
<1>6. Expected("_MAIL_4_SEND_DATA") # 0
  BY Codes
<1>7. "BODY" \in Asks("_MAIL_4_SEND_DATA") /\ "BODY" \in Names /\ email \in Args
  BY <1>4, Questions DEF Names, Args
<1> QED BY <1>1, <1>3, <1>4, <1>5, <1>6, <1>7, MailStep

\* The states in which an answer is expected.
LEMMA AskingStates ==
    ASSUME state \in States, Expected(state) # 0
    PROVE  state \in {"ConnectedState", "_EHLO_State", "_TLS_0_STARTTLS", "_TLS_2_EHLO",
                      "_QUITTING_State", "ResetState"} \cup LoginStates \cup MailStates
<1>1. state \notin {"UnconnectedState", "ConnectingState", "_TLS_1_ENCRYPT", "ReadyState",
                    "DisconnectingState"}
  BY Codes
<1> QED BY <1>1 DEF States, EarlyStates, LastStates, LoginStates, MailStates

\* On the way to the first login nothing is ready, and afterwards all is
\* encrypted that should be.
LEMMA Earliness ==
    ASSUME IInv, socket = "connected"
    PROVE  /\ state \in EarlyStates => ~isReadyConnected
           /\ state \in LoginStates \cup MailStates => ~quitted
           /\ state \in LoginStates \cup MailStates \cup {"ResetState", "_TLS_2_EHLO"} =>
                (connectionType = "Tls" => encryption = "on")
<1>1. state \in LoginStates \cup MailStates => ~quitted
  BY DEF IInv, PlaceInv, LoginStates, MailStates, EarlyStates, LastStates
<1> QED BY <1>1 DEF IInv, PlaceInv, SecureInv

\* processResponse.
LEMMA ResponseStep ==
    ASSUME Heard, processResponse
    PROVE  IInv'
<1>1. IInv /\ socket = "connected" /\ state \in States /\ Expected(state) # 0
  BY DEF Heard, IInv, Typed
<1>2. /\ state \in EarlyStates => ~isReadyConnected
      /\ state \in LoginStates \cup MailStates => ~quitted
      /\ state \in LoginStates \cup MailStates \cup {"ResetState", "_TLS_2_EHLO"} =>
           (connectionType = "Tls" => encryption = "on")
  BY <1>1, Earliness
<1>3. CASE state = "ConnectedState"
  <2>1. Continue("_EHLO_State", "EHLO", NoMail)
    BY <1>3 DEF processResponse
  <2>2. ~isReadyConnected
    BY <1>2, <1>3 DEF EarlyStates
  <2>3. Expected("_EHLO_State") # 0
    BY Codes
  <2>4. "EHLO" \in Asks("_EHLO_State") /\ "EHLO" \in Names \ {"BODY"}
    BY Questions DEF Names
  <2>5. "_EHLO_State" \in EarlyStates /\ state \notin MailStates \cup {"_TLS_0_STARTTLS"}
    BY <1>3 DEF EarlyStates, MailStates
  <2> QED BY <2>1, <2>2, <2>3, <2>4, <2>5, FollowCommand
<1>4. CASE state = "_EHLO_State" /\ connectionType # "Tls"
  <2>1. Ready("readyConnected")
    BY <1>4 DEF processResponse
  <2> QED BY <1>4, <2>1, ReadyStep
<1>5. CASE state = "_EHLO_State" /\ connectionType = "Tls"
  <2>1. Continue("_TLS_0_STARTTLS", "STARTTLS", NoMail)
    BY <1>5 DEF processResponse
  <2>2. ~isReadyConnected
    BY <1>2, <1>5 DEF EarlyStates
  <2>3. Expected("_TLS_0_STARTTLS") # 0
    BY Codes
  <2>4. "STARTTLS" \in Asks("_TLS_0_STARTTLS") /\ "STARTTLS" \in Names \ {"BODY"}
    BY Questions DEF Names
  <2>5. "_TLS_0_STARTTLS" \in EarlyStates /\ state \notin MailStates \cup {"_TLS_0_STARTTLS"}
    BY <1>5 DEF EarlyStates, MailStates
  <2> QED BY <2>1, <2>2, <2>3, <2>4, <2>5, FollowCommand
<1>6. CASE state = "_TLS_0_STARTTLS"
  BY <1>6, HandshakeStep DEF processResponse
<1>7. CASE state = "_TLS_2_EHLO"
  <2>1. Ready("readyConnected")
    BY <1>7 DEF processResponse
  <2> QED BY <1>2, <1>7, <2>1, ReadyStep
<1>8. CASE state \in {"_AUTH_PLAIN_0", "_AUTH_LOGIN_2_PASS"}
  <2>1. Ready("authenticated")
    BY <1>8 DEF processResponse
  <2>2. connectionType = "Tls" => encryption = "on"
    BY <1>2, <1>8 DEF LoginStates
  <2> QED BY <1>8, <2>1, <2>2, ReadyStep
<1>9. CASE state = "_AUTH_LOGIN_0"
  <2>1. Continue("_AUTH_LOGIN_1_USER", "USER", NoMail)
    BY <1>9 DEF processResponse
  <2>2. ~quitted /\ (connectionType = "Tls" => encryption = "on")
    BY <1>2, <1>9 DEF LoginStates
  <2>3. Expected("_AUTH_LOGIN_1_USER") # 0
    BY Codes
  <2>4. "USER" \in Asks("_AUTH_LOGIN_1_USER") /\ "USER" \in Names \ {"BODY"}
    BY Questions DEF Names
  <2>5. /\ "_AUTH_LOGIN_1_USER" \in LoginStates /\ "_AUTH_LOGIN_1_USER" \notin EarlyStates
        /\ state \notin MailStates \cup {"_TLS_0_STARTTLS"}
    BY <1>9 DEF LoginStates, EarlyStates, MailStates
  <2> QED BY <2>1, <2>2, <2>3, <2>4, <2>5, FollowCommand
<1>10. CASE state = "_AUTH_LOGIN_1_USER"
  <2>1. Continue("_AUTH_LOGIN_2_PASS", "PASS", NoMail)
    BY <1>10 DEF processResponse
  <2>2. ~quitted /\ (connectionType = "Tls" => encryption = "on")
    BY <1>2, <1>10 DEF LoginStates
  <2>3. Expected("_AUTH_LOGIN_2_PASS") # 0
    BY Codes
  <2>4. "PASS" \in Asks("_AUTH_LOGIN_2_PASS") /\ "PASS" \in Names \ {"BODY"}
    BY Questions DEF Names
  <2>5. /\ "_AUTH_LOGIN_2_PASS" \in LoginStates /\ "_AUTH_LOGIN_2_PASS" \notin EarlyStates
        /\ state \notin MailStates \cup {"_TLS_0_STARTTLS"}
    BY <1>10 DEF LoginStates, EarlyStates, MailStates
  <2> QED BY <2>1, <2>2, <2>3, <2>4, <2>5, FollowCommand
<1>11. CASE state \in {"_MAIL_0_FROM", "_MAIL_2_RCPT"}
  <2>1. NextRecipient /\ Silent /\ UNCHANGED <<flags, socket, encryption>>
    BY <1>11 DEF processResponse
  <2> QED BY <1>11, <2>1, RecipientStep
<1>12. CASE state = "_MAIL_3_DATA"
  BY <1>12, BodyStep DEF processResponse
<1>13. CASE state = "_MAIL_4_SEND_DATA"
  <2>1. Ready("mailSent")
    BY <1>13 DEF processResponse
  <2>2. connectionType = "Tls" => encryption = "on"
    BY <1>2, <1>13 DEF MailStates
  <2> QED BY <1>13, <2>1, <2>2, ReadyStep
<1>14. CASE state = "ResetState"
  <2>1. SignalReset
    BY <1>14 DEF processResponse
  <2> QED BY <1>14, <2>1, SignalStep
<1>15. CASE state = "_QUITTING_State"
  BY <1>15, ClosingStep DEF processResponse
<1> QED BY <1>1, <1>3, <1>4, <1>5, <1>6, <1>7, <1>8, <1>9, <1>10, <1>11, <1>12, <1>13, <1>14,
           <1>15, AskingStates DEF LoginStates, MailStates

\* socketReadyRead.
LEMMA ReadStep ==
    ASSUME IInv, socketReadyRead
    PROVE  IInv'
<1>1. /\ socket = "connected" /\ in # <<>> /\ ~resetting
      /\ UNCHANGED <<connectionType, email, server, calls>>
  BY DEF socketReadyRead
<1>2. PICK n \in 1..Len(in) :
        /\ in' = SubSeq(in, n + 1, Len(in))
        /\ IF ~in[n].more /\ in[n].code = Expected(state)
           THEN processResponse
           ELSE /\ IF ~in[n].more /\ (in[n].code >= 400 \/ Expected(state) # 0)
                   THEN Emit("error") ELSE Silent
                /\ UNCHANGED <<state, flags, addressIt, socket, encryption, out, exposed>>
  BY DEF socketReadyRead
<1>3. in \in Seq(Replies)
  BY DEF IInv, Typed
<1>4. in[n] \in Replies /\ in' \in Seq(Replies) /\ (n = Len(in) => in' = <<>>)
  BY <1>2, <1>3, ReadOn
<1>5. CASE ~in[n].more /\ in[n].code = Expected(state)
  <2>1. Expected(state) # 0
    BY <1>4, <1>5 DEF Replies
  <2>2. ~overtaken
    <3>1. Expected("ReadyState") = 0
      BY Codes
    <3> QED BY <1>1, <2>1, <3>1 DEF IInv, ResetInv
  <2>3. InSession => out = <<>> /\ in' = <<>> /\ Good /\ lastSignal = "none"
    <3> SUFFICES ASSUME InSession PROVE out = <<>> /\ in' = <<>> /\ Good /\ lastSignal = "none"
      OBVIOUS
    <3>1. out = <<>> /\ n = Len(in) /\ lastSignal = "none"
      BY <1>1, <1>5, WholeRead
    <3> QED BY <1>1, <1>4, <1>5, <3>1 DEF Good
  <2>4. Heard
    BY <1>1, <1>4, <2>1, <2>2, <2>3 DEF Heard, server
  <2> QED BY <1>2, <1>5, <2>4, ResponseStep
<1>6. CASE ~(~in[n].more /\ in[n].code = Expected(state))
  <2>1. in[n].more \/ in[n].code # Expected(state)
    BY <1>6
  <2>2. /\ IF ~in[n].more /\ (in[n].code >= 400 \/ Expected(state) # 0)
           THEN Emit("error") ELSE Silent
        /\ UNCHANGED <<state, flags, addressIt, socket, encryption, out, exposed>>
    BY <1>2, <1>6
  <2> QED BY <1>1, <1>2, <2>1, <2>2, IgnoreStep
<1> QED BY <1>5, <1>6
-----------------------------------------------------------------------------
(* The server *)

\* Of all the codes a refusal has none that a state waits for.
LEMMA ExpectedCodes ==
    \A s : Expected(s) \in {0, 220, 221, 235, 250, 334, 354}
  BY DEF Expected

\* The state that has sent a command.
LEMMA WhoAsks ==
    ASSUME NEW s, NEW name \in Asks(s)
    PROVE  /\ name # "QUIT"
           /\ name = "EHLO" => s \in {"_EHLO_State", "_TLS_2_EHLO"}
           /\ name = "STARTTLS" => s = "_TLS_0_STARTTLS"
           /\ name \in {"AUTH PLAIN", "AUTH LOGIN", "USER", "PASS"}
                => s \in LoginStates \cup {"ReadyState"}
           /\ name = "RSET" => s \in {"ResetState", "ReadyState"}
           /\ name = "MAIL" => s \in {"_MAIL_0_FROM", "ReadyState"}
           /\ name = "RCPT" => s = "_MAIL_2_RCPT"
           /\ name = "DATA" => s = "_MAIL_3_DATA"
           /\ name = "BODY" <=> s = "_MAIL_4_SEND_DATA"
  BY DEF Asks, LoginStates

\* A command is before the server: in a session it is the one the client has
\* just sent, and no answer is under way.
LEMMA Asked ==
    ASSUME IInv, InSession, out # <<>>
    PROVE  /\ Awaiting \/ Ignoring
           /\ Len(out) = 1 /\ in = <<>> /\ ~Good /\ Tail(out) = <<>>
           /\ out[1].name \in Asks(state) /\ lastSignal = "none"
<1>1. out \in Seq(Commands)
  BY DEF IInv, Typed
<1>2. /\ Awaiting \/ Ignoring
      /\ Len(out) = 1 /\ in = <<>> /\ out[1].name \in Asks(state) /\ lastSignal = "none"
  BY DEF IInv, TurnInv
<1> QED BY <1>1, <1>2, TakeOne DEF Good

\* The answer to it, if the server gives one.
Answered(code) ==
    /\ in' \in Seq(Replies)
    /\ in = <<>> => Whole(in') /\ in'[Len(in')].code = code

LEMMA OneAnswer ==
    ASSUME in \in Seq(Replies), NEW code \in Nat \ {0},
           in' = in \o Only(code) \/ in' = Append(in, Reply(code, FALSE))
    PROVE  Answered(code)
<1>1. Reply(code, FALSE) \in Replies /\ Only(code) \in Seq(Replies)
  BY DEF Reply, Replies, Only
<1>2. in \o Only(code) = Append(in, Reply(code, FALSE))
  BY <1>1, AppendIsConcat DEF Only
<1>3. in' \in Seq(Replies) /\ in' = Append(in, Reply(code, FALSE))
  <2>1. in' = Append(in, Reply(code, FALSE))
    BY <1>2
  <2> QED BY <1>1, <2>1, AddOne
<1>4. in = <<>> => in' = Only(code)
  BY <1>1, <1>2, <1>3, FirstLines
<1> QED BY <1>3, <1>4, AnswerLines DEF Answered

LEMMA EhloAnswer ==
    ASSUME in \in Seq(Replies), in' = in \o <<Reply(250, TRUE), Reply(250, FALSE)>>
    PROVE  Answered(250)
<1> DEFINE a == <<Reply(250, TRUE), Reply(250, FALSE)>>
<1>1. a \in Seq(Replies) /\ Whole(a) /\ a[Len(a)].code = 250
  BY EhloLines
<1> HIDE DEF a
<1>2. in \o a \in Seq(Replies) /\ (in = <<>> => in \o a = a)
  BY <1>1, FirstLines
<1>3. in' = in \o a
  BY DEF a
<1>4. in' \in Seq(Replies)
  BY <1>2, <1>3
<1>5. in = <<>> => Whole(in') /\ in'[Len(in')].code = 250
  <2> SUFFICES ASSUME in = <<>> PROVE Whole(in') /\ in'[Len(in')].code = 250
    OBVIOUS
  <2>1. in' = a
    BY <1>2, <1>3
  <2>2. Whole(in')
    BY <1>1, <2>1
  <2>3. in'[Len(in')].code = 250
    BY <1>1, <2>1
  <2> QED BY <2>2, <2>3
<1> QED BY <1>4, <1>5 DEF Answered

\* The codes the server answers with.
Given == {220, 221, 235, 250, 251, 334, 354, 454, 503, 535, 550, 554}

LEMMA ServerAnswers ==
    ASSUME in \in Seq(Replies)
    PROVE  /\ \A code \in Given :
                in' = in \o Only(code) \/ in' = Append(in, Reply(code, FALSE)) => Answered(code)
           /\ in' = in \o <<Reply(250, TRUE), Reply(250, FALSE)>> => Answered(250)
<1>1. ASSUME NEW code \in Given,
             in' = in \o Only(code) \/ in' = Append(in, Reply(code, FALSE))
      PROVE  Answered(code)
  <2>1. code \in Nat \ {0}
    BY DEF Given
  <2> QED BY <1>1, <2>1, OneAnswer
<1> QED BY <1>1, EhloAnswer

\* What the server has done when it gives the answer that is waited for.
Promise(code) ==
    /\ srv' # "closed"
    /\ srv' = "data" => state = "_MAIL_3_DATA" /\ code = Expected(state)
    /\ srv' = "handshake" => state = "_TLS_0_STARTTLS" /\ code = Expected(state)
    /\ code = Expected(state) =>
        /\ state = "_MAIL_0_FROM" => srv' = "mail" /\ envelope' = <<>>
        /\ state = "_MAIL_2_RCPT" => srv' = "mail" /\ envelope' = Told(addressIt)
        /\ state = "_MAIL_3_DATA" => srv' = "data" /\ envelope' = Recipients[email]
        /\ state = "_MAIL_4_SEND_DATA" =>
            /\ stored' # <<>>
            /\ Last(stored') = [mail |-> email, rcpts |-> Recipients[email]]

LEMMA ServedStep ==
    ASSUME IInv, socket = "connected", out # <<>>, out' = Tail(out),
           UNCHANGED <<client, program, socket, encryption, calls, exposed>>,
           NEW code,
           in' \in Seq(Replies), InSession => Answered(code) /\ Promise(code),
           srv' \in {"closed", "greet", "ready", "mail", "data", "handshake"},
           envelope' \in Seq(Args), stored' \in Seq(Copies),
           \/ stored' = stored
           \/ out[1].name = "BODY" /\ Len(stored') = Len(stored) + 1
    PROVE  IInv'
<1>1. UNCHANGED <<connectionType, state, isReadyConnected, isAuthenticated, isMailSent, resetting,
                  email, addressIt, lastSignal, quitted, overtaken, socket, encryption, calls,
                  exposed>>
  BY DEF client, program
<1>2. out \in Seq(Commands) /\ stored \in Seq(Copies) /\ calls \in Seq(Mails)
  BY DEF IInv, Typed
<1>3. /\ out' \in Seq(Commands) /\ Len(out') = Len(out) - 1 /\ Len(out) \in Nat
      /\ \A k \in 1..Len(out') : out'[k] = out[k + 1]
  BY <1>2, TakeOne
<1>4. Typed'
  BY <1>1, <1>3 DEF IInv, Typed
<1>5. PlaceInv' /\ ResetInv' /\ SecureInv'
  <2>1. socket # "connecting"
    OBVIOUS
  <2> QED BY <1>1, <2>1 DEF IInv, PlaceInv, ResetInv, SecureInv
<1>6. TurnInv' /\ ServerInv'
  <2>1. CASE ~InSession
    BY <1>1, <2>1 DEF InSession, TurnInv, ServerInv
  <2>2. CASE InSession
    <3>1. (Awaiting \/ Ignoring) /\ in = <<>> /\ out' = <<>> /\ lastSignal = "none"
      BY <2>2, Asked
    <3>2. Whole(in') /\ in'[Len(in')].code = code
      BY <2>2, <3>1 DEF Answered
    <3>3. TurnInv'
      BY <1>1, <3>1, <3>2 DEF TurnInv, Awaiting, Asking, Ignoring
    <3>4. Good' <=> code = Expected(state)
      BY <1>1, <3>1, <3>2 DEF Good, Whole
    <3>5. /\ state = "_TLS_1_ENCRYPT" => lastSignal = "none"
          /\ state = "_MAIL_0_FROM" => addressIt = 0
          /\ state = "_MAIL_2_RCPT" => addressIt > 0
      BY <2>2 DEF IInv, ServerInv
    <3>6. ServerInv'
      BY <1>1, <2>2, <3>1, <3>4, <3>5 DEF ServerInv, Promise, Told
    <3> QED BY <3>3, <3>6
  <2> QED BY <2>1, <2>2
<1>7. StoreInv'
  <2>1. \A k \in 1..Len(out') : k + 1 \in 1..Len(out) /\ k + 1 # 1
    BY <1>3
  <2>2. \A k \in 1..Len(out') : out'[k].name # "BODY"
    BY <1>3, <2>1 DEF IInv, StoreInv
  <2>3. CASE stored' = stored
    BY <1>1, <2>2, <2>3 DEF IInv, StoreInv, SentMeansStored
  <2>4. CASE out[1].name = "BODY" /\ Len(stored') = Len(stored) + 1
    <3>1. 1 \in 1..Len(out)
      BY <1>2, TakeOne
    <3>2. ~isMailSent /\ Len(stored) < Len(calls)
      BY <2>4, <3>1 DEF IInv, StoreInv
    <3>3. state \in MailStates \ {"_MAIL_4_SEND_DATA"} => FALSE
      <4> SUFFICES ASSUME state \in MailStates \ {"_MAIL_4_SEND_DATA"} PROVE FALSE
        OBVIOUS
      <4>1. InSession
        BY DEF IInv, PlaceInv, InSession, MailStates, EarlyStates, LastStates
      <4> QED BY <2>4, <4>1, Asked, WhoAsks
    <3>4. Len(stored) \in Nat /\ Len(calls) \in Nat
      BY <1>2
    <3>5. Len(stored') <= Len(calls)
      BY <2>4, <3>2, <3>4
    <3> QED BY <1>1, <2>2, <3>2, <3>3, <3>5 DEF StoreInv, SentMeansStored
  <2> QED BY <2>3, <2>4
<1> QED BY <1>4, <1>5, <1>6, <1>7 DEF IInv

\* What every answer of the server leaves alone.
Served ==
    /\ IInv /\ socket = "connected" /\ out # <<>> /\ out' = Tail(out)
    /\ srv \notin {"closed", "handshake"}
    /\ UNCHANGED <<client, program, socket, encryption, calls, exposed>>

LEMMA ServedTypes ==
    ASSUME Served
    PROVE  /\ IInv /\ in \in Seq(Replies) /\ envelope \in Seq(Args) /\ stored \in Seq(Copies)
           /\ srv \in {"greet", "ready", "mail", "data"}
           /\ out[1] = Head(out) /\ out[1].arg \in Args
           /\ InSession => in = <<>> /\ out[1].name \in Asks(state) /\ ~Good
           /\ InSession => (srv = "data" => state = "_MAIL_4_SEND_DATA")
<1>1. IInv /\ in \in Seq(Replies) /\ envelope \in Seq(Args) /\ stored \in Seq(Copies)
      /\ srv \in {"greet", "ready", "mail", "data"} /\ out \in Seq(Commands)
  BY DEF Served, IInv, Typed
<1>2. out[1] = Head(out) /\ out[1] \in Commands
  BY <1>1, TakeOne DEF Served
<1>3. InSession => in = <<>> /\ out[1].name \in Asks(state) /\ ~Good
  BY <1>1, Asked DEF Served
<1>4. InSession => (srv = "data" => state = "_MAIL_4_SEND_DATA")
  BY <1>1, <1>3 DEF IInv, ServerInv
<1> QED BY <1>1, <1>2, <1>3, <1>4 DEF Commands

\* An answer, the server's memory staying as it is but for its state.
LEMMA AnswerStep ==
    ASSUME Served, NEW code, Answered(code), UNCHANGED <<envelope, stored>>,
           srv' \in {"closed", "greet", "ready", "handshake"} \/ srv' = srv,
           srv' = srv => srv # "data",
           InSession => srv' # "closed",
           srv' = "handshake" /\ InSession
                => state = "_TLS_0_STARTTLS" /\ code = Expected(state),
           code = Expected(state) /\ InSession => state \notin MailStates
    PROVE  IInv'
<1>1. /\ IInv /\ socket = "connected" /\ out # <<>> /\ out' = Tail(out)
      /\ UNCHANGED <<client, program, socket, encryption, calls, exposed>>
  BY DEF Served
<1>2. /\ envelope \in Seq(Args) /\ stored \in Seq(Copies)
      /\ srv \in {"greet", "ready", "mail", "data"}
  BY ServedTypes
<1>3. InSession => Promise(code)
  BY <1>2 DEF Promise, MailStates
<1>4. in' \in Seq(Replies)
  BY DEF Answered
<1>5. srv' \in {"closed", "greet", "ready", "mail", "data", "handshake"}
  BY <1>2
<1>6. envelope' \in Seq(Args) /\ stored' \in Seq(Copies) /\ stored' = stored
  BY <1>2
<1> QED BY <1>1, <1>3, <1>4, <1>5, <1>6, ServedStep

\* The commands before a mail.
LEMMA SessionStep ==
    ASSUME Served, srv # "data", NEW c, c = out[1],
           c.name \notin {"MAIL", "RCPT", "DATA", "BODY", "RSET"}, ServeSession(c)
    PROVE  IInv'
<1>1. /\ in \in Seq(Replies) /\ srv \in {"greet", "ready", "mail"}
      /\ InSession => c.name \in Asks(state)
      /\ UNCHANGED <<envelope, stored>>
  BY ServedTypes DEF ServeSession
<1>2. InSession => /\ c.name # "QUIT" /\ state \notin MailStates
                   /\ c.name = "STARTTLS" => state = "_TLS_0_STARTTLS"
  <2> SUFFICES ASSUME InSession
               PROVE  /\ c.name # "QUIT" /\ state \notin MailStates
                      /\ c.name = "STARTTLS" => state = "_TLS_0_STARTTLS"
    OBVIOUS
  <2>1. c.name \in Asks(state)
    BY <1>1
  <2>2. c.name # "QUIT" /\ (c.name = "STARTTLS" => state = "_TLS_0_STARTTLS")
    BY <2>1, WhoAsks
  <2>3. state \notin MailStates
    BY <2>1, Questions DEF MailStates
  <2> QED BY <2>2, <2>3
<1>3. c.name \in {"EHLO", "STARTTLS", "AUTH PLAIN", "PASS", "AUTH LOGIN", "USER", "QUIT"}
  <2>1. out \in Seq(Commands)
    BY DEF Served, IInv, Typed
  <2>2. out[1] \in Commands
    BY <2>1, TakeOne DEF Served
  <2> QED BY <2>2 DEF Commands, Names
<1>4. CASE c.name = "EHLO"
  <2>1. srv' = IF srv = "greet" THEN "ready" ELSE srv
    BY <1>4 DEF ServeSession
  <2>2. \/ in' = in \o <<Reply(250, TRUE), Reply(250, FALSE)>>
        \/ in' = Append(in, Reply(550, FALSE))
    BY <1>4 DEF ServeSession, Answer
  <2>3. PICK code \in {250, 550} : Answered(code)
    <3>1. CASE in' = in \o <<Reply(250, TRUE), Reply(250, FALSE)>>
      <4>1. Answered(250)
        BY <1>1, <3>1, ServerAnswers
      <4> QED BY <4>1
    <3>2. CASE in' = Append(in, Reply(550, FALSE))
      <4>1. Answered(550)
        BY <1>1, <3>2, ServerAnswers DEF Given
      <4> QED BY <4>1
    <3> QED BY <2>2, <3>1, <3>2
  <2> QED BY <1>1, <1>2, <2>1, <2>3, AnswerStep
<1>5. CASE c.name = "STARTTLS"
  <2>1. CASE srv' = "handshake" /\ in' = in \o Only(220)
    <3>1. Answered(220)
      BY <1>1, <2>1, ServerAnswers DEF Given
    <3>2. Expected("_TLS_0_STARTTLS") = 220
      BY Codes
    <3> QED BY <1>1, <1>2, <1>5, <2>1, <3>1, <3>2, AnswerStep
  <2>2. CASE in' = in \o Only(454) /\ UNCHANGED srv
    <3>1. Answered(454)
      BY <1>1, <2>2, ServerAnswers DEF Given
    <3> QED BY <1>1, <1>2, <2>2, <3>1, AnswerStep
  <2> QED BY <1>5, <2>1, <2>2 DEF ServeSession
<1>6. CASE c.name \in {"AUTH PLAIN", "PASS", "AUTH LOGIN", "USER"}
  <2>1. /\ srv' = srv
        /\ Answer(Only(235), 535) \/ Answer(Only(334), 535)
    <3>1. CASE c.name \in {"AUTH PLAIN", "PASS"}
      BY <3>1, ZenonT(60) DEF ServeSession
    <3>2. CASE c.name \in {"AUTH LOGIN", "USER"}
      BY <3>2, ZenonT(60) DEF ServeSession
    <3> QED BY <1>6, <3>1, <3>2
  <2>2. PICK code \in {235, 334, 535} : Answered(code)
    <3>1. CASE in' = in \o Only(235)
      <4>1. Answered(235)
        BY <1>1, <3>1, ServerAnswers DEF Given
      <4> QED BY <4>1
    <3>2. CASE in' = in \o Only(334)
      <4>1. Answered(334)
        BY <1>1, <3>2, ServerAnswers DEF Given
      <4> QED BY <4>1
    <3>3. CASE in' = Append(in, Reply(535, FALSE))
      <4>1. Answered(535)
        BY <1>1, <3>3, ServerAnswers DEF Given
      <4> QED BY <4>1
    <3> QED BY <2>1, <3>1, <3>2, <3>3 DEF Answer
  <2> QED BY <1>1, <1>2, <2>1, <2>2, AnswerStep
<1>7. CASE c.name = "QUIT"
  <2>1. srv' = "closed" /\ in' = in \o Only(221)
    BY <1>7 DEF ServeSession
  <2>2. Answered(221)
    BY <1>1, <2>1, ServerAnswers DEF Given
  <2> QED BY <1>1, <1>2, <1>7, <2>1, <2>2, AnswerStep
<1> QED BY <1>3, <1>4, <1>5, <1>6, <1>7

\* The commands of a mail.
LEMMA ServeMailStep ==
    ASSUME Served, srv # "data", NEW c, c = out[1], ServeMail(c)
    PROVE  IInv'
<1>1. /\ in \in Seq(Replies) /\ envelope \in Seq(Args) /\ stored \in Seq(Copies)
      /\ srv \in {"greet", "ready", "mail"} /\ c.arg \in Args
      /\ InSession => c.name \in Asks(state)
  BY ServedTypes
<1>2. /\ IInv /\ socket = "connected" /\ out # <<>> /\ out' = Tail(out)
      /\ UNCHANGED <<client, program, socket, encryption, calls, exposed>>
  BY DEF Served
<1>3. CASE Refuse
  <2>1. in' = Append(in, Reply(503, FALSE)) /\ UNCHANGED <<srv, envelope, stored>>
    BY <1>3 DEF Refuse, server
  <2>2. Answered(503)
    BY <1>1, <2>1, ServerAnswers DEF Given
  <2>3. 503 # Expected(state)
    BY ExpectedCodes
  <2> QED BY <1>1, <2>1, <2>2, <2>3, AnswerStep
<1>4. CASE /\ c.name = "RSET" /\ srv' = "ready" /\ envelope' = <<>> /\ in' = in \o Only(250)
           /\ UNCHANGED stored
  <2>1. Answered(250)
    BY <1>1, <1>4, ServerAnswers DEF Given
  <2>2. InSession => state \in {"ResetState", "ReadyState"}
    BY <1>1, <1>4, WhoAsks
  <2>3. InSession => Promise(250)
    BY <1>4, <2>2 DEF Promise
  <2>4. envelope' \in Seq(Args) /\ stored' \in Seq(Copies) /\ in' \in Seq(Replies)
    BY <1>1, <1>4, <2>1 DEF Answered
  <2> QED BY <1>2, <1>4, <2>1, <2>3, <2>4, ServedStep
<1>5. CASE /\ c.name = "MAIL" /\ srv = "ready" /\ srv' = "mail" /\ envelope' = <<>>
           /\ in' = in \o Only(250) /\ UNCHANGED stored
  <2>1. Answered(250)
    BY <1>1, <1>5, ServerAnswers DEF Given
  <2>2. InSession => state \in {"_MAIL_0_FROM", "ReadyState"}
    BY <1>1, <1>5, WhoAsks
  <2>3. InSession => Promise(250)
    BY <1>5, <2>2 DEF Promise
  <2>4. envelope' \in Seq(Args) /\ stored' \in Seq(Copies) /\ in' \in Seq(Replies)
    BY <1>1, <1>5, <2>1 DEF Answered
  <2> QED BY <1>2, <1>5, <2>1, <2>3, <2>4, ServedStep
<1>6. CASE /\ c.name = "RCPT" /\ srv = "mail" /\ envelope' = Append(envelope, c.arg)
           /\ \E code \in {250, 251} : in' = in \o Only(code)
           /\ UNCHANGED <<srv, stored>>
  <2>1. PICK code \in {250, 251} : in' = in \o Only(code)
    BY <1>6
  <2>2. Answered(code)
    <3>1. code \in Given
      BY DEF Given
    <3> QED BY <1>1, <2>1, <3>1, ServerAnswers
  <2>3. InSession => Promise(code)
    <3> SUFFICES ASSUME InSession PROVE Promise(code)
      OBVIOUS
    <3>1. state = "_MAIL_2_RCPT"
      <4>1. "RCPT" \in Asks(state)
        BY <1>1, <1>6
      <4> QED BY <4>1, WhoAsks
    <3>2. /\ envelope = Told(addressIt - 1) /\ out[1].arg = Recipients[email][addressIt]
          /\ addressIt > 0
      BY <1>2, <3>1 DEF IInv, ServerInv
    <3>3. email \in Mails /\ addressIt \in Nat /\ addressIt <= Len(Recipients[email])
      BY <1>2, <3>1 DEF IInv, Typed, MailStates
    <3>4. envelope' = Told(addressIt)
      <4>1. addressIt \in 1..Len(Recipients[email])
        BY <3>2, <3>3, ToldOn
      <4> QED BY <1>6, <3>2, <3>3, <4>1, ToldOn
    <3> QED BY <1>6, <3>1, <3>4 DEF Promise
  <2>4. envelope' \in Seq(Args) /\ stored' \in Seq(Copies) /\ in' \in Seq(Replies)
    BY <1>1, <1>6, <2>2, AddOne DEF Answered
  <2>5. srv' = "mail" /\ stored' = stored
    BY <1>6
  <2> QED BY <1>2, <2>2, <2>3, <2>4, <2>5, ServedStep
<1>7. CASE /\ c.name = "DATA" /\ srv = "mail" /\ envelope # <<>> /\ srv' = "data"
           /\ in' = in \o Only(354) /\ UNCHANGED <<envelope, stored>>
  <2>1. Answered(354)
    BY <1>1, <1>7, ServerAnswers DEF Given
  <2>2. InSession => Promise(354)
    <3> SUFFICES ASSUME InSession PROVE Promise(354)
      OBVIOUS
    <3>1. state = "_MAIL_3_DATA"
      BY <1>1, <1>7, WhoAsks
    <3>2. envelope = Recipients[email]
      BY <1>2, <3>1 DEF IInv, ServerInv
    <3>3. Expected("_MAIL_3_DATA") = 354
      BY Codes
    <3> QED BY <1>7, <3>1, <3>2, <3>3 DEF Promise
  <2>3. envelope' \in Seq(Args) /\ stored' \in Seq(Copies) /\ in' \in Seq(Replies)
    BY <1>1, <1>7, <2>1 DEF Answered
  <2> QED BY <1>2, <1>7, <2>1, <2>2, <2>3, ServedStep
<1> QED BY <1>3, <1>4, <1>5, <1>6, <1>7 DEF ServeMail

\* The mail, or what passes for a line of it.
LEMMA ServeDataStep ==
    ASSUME Served, srv = "data", NEW c, c = out[1], ServeData(c)
    PROVE  IInv'
<1>1. /\ in \in Seq(Replies) /\ envelope \in Seq(Args) /\ stored \in Seq(Copies)
      /\ c.arg \in Args
      /\ InSession => c.name \in Asks(state) /\ state = "_MAIL_4_SEND_DATA"
  BY ServedTypes
<1>2. /\ IInv /\ socket = "connected" /\ out # <<>> /\ out' = Tail(out)
      /\ UNCHANGED <<client, program, socket, encryption, calls, exposed>>
  BY DEF Served
<1>3. CASE c.name # "BODY"
  <2>1. UNCHANGED <<srv, envelope, stored, in>>
    BY <1>3 DEF ServeData, server
  <2>2. ~InSession
    BY <1>1, <1>3, Questions
  <2> QED BY <1>1, <1>2, <2>1, <2>2, ServedStep
<1>4. CASE /\ c.name = "BODY" /\ srv' = "ready" /\ envelope' = <<>>
           /\ stored' = Append(stored, [mail |-> c.arg, rcpts |-> envelope])
           /\ in' = in \o Only(250)
  <2>1. Answered(250)
    BY <1>1, <1>4, ServerAnswers DEF Given
  <2>2. [mail |-> c.arg, rcpts |-> envelope] \in Copies
    BY <1>1 DEF Copies
  <2>3. /\ stored' \in Seq(Copies) /\ Len(stored') = Len(stored) + 1 /\ stored' # <<>>
        /\ Last(stored') = [mail |-> c.arg, rcpts |-> envelope]
    BY <1>1, <1>4, <2>2, AddOne
  <2>4. InSession => Promise(250)
    <3> SUFFICES ASSUME InSession PROVE Promise(250)
      OBVIOUS
    <3>1. envelope = Recipients[email] /\ out[1].arg = email
      BY <1>1, <1>2 DEF IInv, ServerInv
    <3> QED BY <1>1, <1>4, <2>3, <3>1 DEF Promise
  <2>5. envelope' \in Seq(Args) /\ in' \in Seq(Replies)
    BY <1>4, <2>1 DEF Answered
  <2> QED BY <1>2, <1>4, <2>1, <2>3, <2>4, <2>5, ServedStep
<1>5. CASE /\ c.name = "BODY" /\ srv' = "ready" /\ envelope' = <<>>
           /\ in' = in \o Only(554) /\ UNCHANGED stored
  <2>1. Answered(554)
    BY <1>1, <1>5, ServerAnswers DEF Given
  <2>2. InSession => Promise(554)
    BY <1>5, ExpectedCodes DEF Promise
  <2>3. envelope' \in Seq(Args) /\ in' \in Seq(Replies) /\ stored' \in Seq(Copies)
    BY <1>1, <1>5, <2>1 DEF Answered
  <2> QED BY <1>2, <1>5, <2>1, <2>2, <2>3, ServedStep
<1> QED BY <1>3, <1>4, <1>5 DEF ServeData

LEMMA ServeStep ==
    ASSUME IInv, Serve
    PROVE  IInv'
<1>1. Served
  BY DEF Serve, Served
<1>2. PICK c : c = out[1]
  OBVIOUS
<1>3. c = Head(out)
  BY <1>1, <1>2, ServedTypes
<1>4. CASE srv = "data" /\ ServeData(c)
  BY <1>1, <1>2, <1>4, ServeDataStep
<1>5. CASE srv # "data" /\ ServeMail(c)
  BY <1>1, <1>2, <1>5, ServeMailStep
<1>6. CASE /\ srv # "data" /\ c.name \notin {"MAIL", "RCPT", "DATA", "BODY", "RSET"}
           /\ ServeSession(c)
  BY <1>1, <1>2, <1>6, SessionStep
<1> QED BY <1>3, <1>4, <1>5, <1>6 DEF Serve
-----------------------------------------------------------------------------
(* The theorems *)

LEMMA Invariance == Spec => []IInv
<1>1. IInv /\ [Next]_vars => IInv'
  <2> SUFFICES ASSUME IInv, [Next]_vars PROVE IInv'
    OBVIOUS
  <2>1. CASE connectToHost
    BY <2>1, ConnectStep
  <2>2. CASE reset
    BY <2>2, ResetStep
  <2>3. CASE quit
    BY <2>3, QuitStep
  <2>4. CASE \E m \in Methods : login(m)
    BY <2>4, LoginStep
  <2>5. CASE \E m \in Mails : sendMail(m)
    BY <2>5, SendStep
  <2>6. CASE \E s \in Signals : wait(s)
    BY <2>6, WaitStep DEF wait
  <2>7. CASE WaitReturns
    BY <2>7, WaitStep DEF WaitReturns
  <2>8. CASE Connected
    BY <2>8, ConnectedStep
  <2>9. CASE socketEncrypted
    BY <2>9, EncryptedStep
  <2>10. CASE socketReadyRead
    BY <2>10, ReadStep
  <2>11. CASE Disconnected
    BY <2>11, DisconnectedStep
  <2>12. CASE Serve
    BY <2>12, ServeStep
  <2>13. CASE ReadyAfterReset
    BY <2>13, AfterResetStep
  <2>14. CASE UNCHANGED vars
    BY <2>14, WaitStep DEF vars, program
  <2> QED BY <2>1, <2>2, <2>3, <2>4, <2>5, <2>6, <2>7, <2>8, <2>9, <2>10, <2>11, <2>12, <2>13,
       <2>14
       DEF Next
<1> QED BY Begins, <1>1, PTL DEF Spec

\* A mail reported as sent has been taken in for every one of its recipients,
\* and none is taken in twice for one call of sendMail.
THEOREM SentSafe == Spec => []SentMeansStored
<1>1. IInv => SentMeansStored
  BY DEF IInv, StoreInv
<1> QED BY Invariance, <1>1, PTL

\* With STARTTLS nothing crosses the line before it is encrypted.
THEOREM ExposesNothing == Spec => []NothingExposed
<1>1. IInv => NothingExposed
  BY DEF IInv, SecureInv, NothingExposed
<1> QED BY Invariance, <1>1, PTL

\* Client and server are in step, but for what a slot of mailReset has called:
\* one answer is due when one is expected, and else none.
THEOREM StaysInStep == Spec => []InStep
<1>1. IInv => InStep
  <2> SUFFICES ASSUME IInv, socket = "connected", ~quitted, ~overtaken
               PROVE  LET due == Len(out) + Cardinality({k \in 1..Len(in) : ~in[k].more}) IN
                      due = IF Asking /\ lastSignal # "error" THEN 1 ELSE 0
    BY DEF InStep
  <2>0. ~Ignoring
    BY DEF Ignoring
  <2> DEFINE ends == {k \in 1..Len(in) : ~in[k].more}
  <2>1. InSession /\ in \in Seq(Replies) /\ out \in Seq(Commands)
    BY DEF InSession, IInv, Typed
  <2>2. ASSUME in = <<>> PROVE Cardinality(ends) = 0
    <3>1. ends = {}
      BY <2>2
    <3> QED BY <3>1, FS_EmptySet
  <2>3. CASE Awaiting /\ Len(out) = 1 /\ in = <<>>
    BY <2>2, <2>3 DEF Awaiting
  <2>4. CASE Awaiting /\ out = <<>> /\ Whole(in)
    <3>1. ends = {Len(in)}
      BY <2>1, <2>4 DEF Whole
    <3>2. Cardinality(ends) = 1
      BY <3>1, FS_Singleton
    <3>3. Len(out) = 0
      BY <2>4
    <3> QED BY <2>4, <3>2, <3>3 DEF Awaiting
  <2>5. CASE ~Awaiting /\ out = <<>> /\ in = <<>>
    <3>1. Len(out) = 0
      BY <2>5
    <3> QED BY <2>2, <2>5, <3>1 DEF Awaiting
  <2> QED BY <2>0, <2>1, <2>3, <2>4, <2>5 DEF IInv, TurnInv
<1> QED BY Invariance, <1>1, PTL
=============================================================================
