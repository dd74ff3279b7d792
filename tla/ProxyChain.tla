----------------------------- MODULE ProxyChain -----------------------------
(* avboost's avproxy: async_proxy_connect makes one connection through a      *)
(* chain of proxies.  The operation on a chain resolves the hop at its back,  *)
(* which for a proxy is an async_proxy_connect on the rest of the chain, then *)
(* has the hop shake hands, then calls its handler.  The level is how many    *)
(* hops were popped: 0 is the caller's own operation.                         *)
EXTENDS Integers, SequencesExt

CONSTANTS Orders,        \* the chains to try, each in the order of its add()s
          MaxReentries   \* bound: how often the http hop's read comes back

\* A chain leads to a tcp hop in the end; the http hop only ends a chain.
ASSUME ChainAssumption ==
    /\ MaxReentries \in Nat
    /\ \A adds \in Orders :
        /\ adds \in Seq({"tcp", "socks5", "http"})
        /\ Contains(adds, "tcp")
        /\ \A k \in 2..Len(adds) :
            adds[k] = "http" => \E j \in 1..(k - 1) : adds[j] = "tcp"

VARIABLES adds,      \* the hops, in the order they were added
          level, stage,
          ec,        \* "ok", "refused", "proxy_refused", "failed"
          path,      \* the hops that agreed to go on, in order
          told,      \* what the caller's handler was called with
          reading,   \* the http hop left a read in flight
          status     \* what the http proxy answered: "none", "200" or "other"

chainVars == <<adds, level, stage, ec, path, told, reading, status>>

\* Faulty variant of m_chain: add() appends.
AppendedChain == adds

\* add() inserts at the front; back() is the hop added first.
m_chain == Reverse(adds)
hop == m_chain[Len(m_chain) - level]

ChainInit ==
    /\ adds \in Orders
    /\ level = 0 /\ stage = "resolve" /\ ec = "ok"
    /\ path = <<>> /\ told = <<>>
    /\ reading = FALSE /\ status = "none"

ChainTypeOK ==
    /\ adds \in Orders
    /\ level \in 0..(Len(adds) - 1)
    /\ stage \in {"resolve", "handshake", "method", "command", "reply", "address",
                  "return", "done"}
    /\ ec \in {"ok", "refused", "proxy_refused", "failed"}
    /\ Len(path) <= Len(adds)
    /\ Len(told) <= MaxReentries + 1
    /\ reading \in BOOLEAN
    /\ status \in {"none", "200", "other"}
-----------------------------------------------------------------------------
(* async_proxy_connect_op *)

\* tcp::_resolve has nothing below it.
ResolveTcp ==
    /\ stage = "resolve" /\ hop = "tcp"
    /\ stage' = "handshake"
    /\ UNCHANGED <<adds, level, ec, path, told, reading, status>>

\* socks5 and http connect to the rest of the chain, clone_poped().
ResolveProxy ==
    /\ stage = "resolve" /\ hop # "tcp"
    /\ level' = level + 1
    /\ UNCHANGED <<adds, stage, ec, path, told, reading, status>>

proxy_error_mapper(e) == IF e = "refused" THEN "proxy_refused" ELSE e

\* Faulty variant of Resumed: an error ends the operation without its handler.
ResumedSilently(e) == IF e = "ok" THEN "handshake" ELSE "done"

\* "if (! ec)": shake hands, or else straight to the handler.
Resumed(e) == IF e = "ok" THEN "handshake" ELSE "return"

\* m_handler(ec): the operation one level up resumes, or the caller is told.
CallHandler ==
    /\ stage = "return"
    /\ IF level > 0
       THEN /\ level' = level - 1
            /\ ec' = proxy_error_mapper(ec)
            /\ stage' = Resumed(ec')
            /\ UNCHANGED told
       ELSE /\ told' = Append(told, ec)
            /\ stage' = "done"
            /\ UNCHANGED <<level, ec>>
    /\ UNCHANGED <<adds, path, reading, status>>
-----------------------------------------------------------------------------
(* The handshakes *)

\* async_connect: resolve the hop's name and connect to one of its addresses.
TcpHandshake ==
    /\ stage = "handshake" /\ hop = "tcp"
    /\ ec' \in {"ok", "refused", "failed"}
    /\ path' = IF ec' = "ok" THEN Append(path, hop) ELSE path
    /\ stage' = "return"
    /\ UNCHANGED <<adds, level, told, reading, status>>

Socks5Stages == {"handshake", "method", "command", "reply", "address"}

Socks5Next == [handshake |-> "method", method |-> "command",
               command |-> "reply", reply |-> "address", address |-> "return"]

\* Greeting, the method granted, the command, its result, the address bound:
\* each was written or read, and what was read is as expected.
Socks5Goes ==
    /\ stage \in Socks5Stages /\ hop = "socks5"
    /\ stage' = Socks5Next[stage]
    /\ path' = IF stage' = "return" THEN Append(path, hop) ELSE path
    /\ UNCHANGED <<adds, level, ec, told, reading, status>>

\* Faulty variant of Socks5Breaks: no return after the call of the handler.
Socks5BreaksOn ==
    /\ stage \in Socks5Stages /\ hop = "socks5"
    /\ ec' = "failed"
    /\ stage' = Socks5Next[stage]
    /\ told' = IF level = 0 THEN Append(told, "failed") ELSE told
    /\ UNCHANGED <<adds, level, path, reading, status>>

\* A write or a read failed, the proxy refused, or it bound a domain name.
Socks5Breaks ==
    /\ stage \in Socks5Stages /\ hop = "socks5"
    /\ ec' = "failed"
    /\ stage' = "return"
    /\ UNCHANGED <<adds, level, path, told, reading, status>>

\* CONNECT is written, or that failed.  No yield follows the start of the read,
\* so that check_status() looks into an empty buffer and returns a variable
\* nobody has set: it is 200 or it is not, whatever the proxy will answer.
HttpHandshake ==
    /\ stage = "handshake" /\ hop = "http"
    /\ \/ ec' \in {"ok", "failed"} /\ reading' = TRUE
       \/ ec' = "failed" /\ UNCHANGED reading
    /\ stage' = "return"
    /\ UNCHANGED <<adds, level, path, told, status>>

\* The read ends and resumes the coroutine behind its first yield: the answer
\* that was read is thrown away, and there is another read, another look into
\* an empty buffer, another call of the handler.  The first answer is the
\* proxy's to CONNECT, with which it grants the connection or does not.
HttpReadEnds ==
    /\ stage = "done" /\ reading
    /\ Len(told) <= MaxReentries
    /\ IF status = "none"
       THEN /\ status' \in {"200", "other"}
            /\ path' = IF status' = "200" THEN Append(path, hop) ELSE path
       ELSE UNCHANGED <<status, path>>
    /\ told' \in {Append(told, "ok"), Append(told, "failed")}
    /\ UNCHANGED <<adds, level, stage, ec, reading>>

\* Only a read that fails is the last.
HttpReadFails ==
    /\ stage = "done" /\ reading
    /\ Len(told) <= MaxReentries
    /\ told' = Append(told, "failed")
    /\ reading' = FALSE
    /\ UNCHANGED <<adds, level, stage, ec, path, status>>

ChainNext == \/ ResolveTcp \/ ResolveProxy \/ CallHandler
        \/ TcpHandshake \/ Socks5Goes \/ Socks5Breaks
        \/ HttpHandshake \/ HttpReadEnds \/ HttpReadFails

ChainSpec == ChainInit /\ [][ChainNext]_chainVars

\* Every write and read comes to an end.
FairChainSpec == ChainSpec /\ WF_chainVars(ChainNext)
-----------------------------------------------------------------------------
(* autoproxychain *)

\* The order in which it adds the hops, for the environment variable set.
AutoOrder(env) ==
    CASE env = "socks5_proxy" -> <<"tcp", "socks5">>
      [] env = "http_proxy"   -> <<"tcp", "http">>
      [] env = "none"         -> <<"tcp">>
-----------------------------------------------------------------------------
(* Properties *)

\* A connection reported as made goes through every hop of the chain, the tcp
\* connection first and each hop through those before it; of an http hop, which
\* is the last, no more is sure than that all hops before it agreed.
AllHops ==
    Contains(told, "ok") =>
        path = m_chain \/ (Contains(adds, "http") /\ path = Front(m_chain))

\* The handler of a chain without an http hop is called once.
HandlerOnce == ~Contains(adds, "http") => Len(told) <= 1

\* A refusal by the address dialled is the caller's own only without a proxy;
\* from behind one it is reported as the proxy's.
RefusalIsMapped == Contains(told, "refused") => Len(adds) = 1

\* Each operation of the chain hands its outcome up exactly once.
ChainInv == ChainTypeOK /\ HandlerOnce /\ RefusalIsMapped

\* The caller is told in the end.
EachAnswered == <>(told # <<>>)

=============================================================================
