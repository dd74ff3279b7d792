------------------------------ MODULE TianyaList ------------------------------
(* libtianya/include/tianya_list.hpp and src/tianya_list.cpp: the crawler of  *)
(* the forum's list of threads.  It reads a page line by line, gathers a row  *)
(* of the table in m_info, emits it, and follows the pager to the next page.  *)
(* start and stop are called by the GUI thread, the rest runs on the io       *)
(* thread.  Unlike tianya_context the object is not kept alive by its         *)
(* handlers: it is a member of the main window.                               *)
EXTENDS Integers, SequencesExt

CONSTANT List   \* the pages of the list, each a sequence of rows

\* A row: how many lines its title takes, and whether the line that should hold
\* the link has a quoted string in it.
RowType == [titleLines : Nat, linked : BOOLEAN]

ASSUME ListAssumption == List \in Seq(Seq(RowType)) /\ Len(List) > 0

Pages == 1..Len(List)

\* The lines of a row, by what the parser finds in them.
RowLines(row) ==
    <<"found", "blank", "blank", "blank", IF row.linked THEN "url" ELSE "blank">>
      \o [k \in 1..row.titleLines |-> "title"]
      \o <<"close", "blank", "author", "hits", "replys", "time">>

\* The lines of a page: some of the head, the rows, and the pager unless it is
\* the last page; every line with the row it belongs to, 0 if none.
Lines(p) ==
    LET rowLines(r) == LET ls == RowLines(List[p][r])
                       IN [k \in 1..Len(ls) |-> [mark |-> ls[k], row |-> <<p, r>>]]
        other(mark) == <<[mark |-> mark, row |-> <<p, 0>>]>>
    IN other("charset") \o FlattenSeq([r \in 1..Len(List[p]) |-> rowLines(r)])
         \o (IF p < Len(List) THEN other("next") ELSE other("blank"))

VARIABLES
    m_post_url,  \* the page being read; 0 before the first start
    m_state,
    m_info,      \* the row in hand: for each field the row it was read from
    m_hits,      \* the rows kept, each emitted as it is inserted; the order
                 \* is that of the insertions (m_replys holds the same rows)
    m_abort,
    m_socket,    \* "closed" or "open"
    ops,         \* the asynchronous operations in flight
    line         \* the line the next read returns

parser == <<m_state, m_info, m_hits, line>>
vars   == <<m_post_url, parser, m_abort, m_socket, ops>>

started == m_post_url > 0

Fields == {"post_url", "title", "author", "hits", "replys", "post_time"}
NoRow  == <<0, 0>>

\* An operation may succeed after stop() only if it was started on an open
\* socket, its result being queued already.
Op(kind, sock) == [kind |-> kind, live |-> sock = "open"]

States == {"unknown", "found", "skip1", "skip2", "target", "name", "skip5",
           "author", "hits", "replys", "time"}

TypeOK ==
    /\ m_post_url \in 0..Len(List)
    /\ m_state \in States
    /\ DOMAIN m_info = Fields
    /\ m_abort \in BOOLEAN
    /\ m_socket \in {"closed", "open"}
    /\ ops \subseteq [kind : {"resolve", "connect", "write", "header", "line"},
                      live : BOOLEAN]
    /\ line \in Nat \ {0}
    /\ \A k \in 1..Len(m_hits) : DOMAIN m_hits[k] = Fields

Init ==
    /\ m_post_url = 0 /\ m_state = "unknown" /\ m_abort = FALSE
    /\ m_info = [f \in Fields |-> NoRow] /\ m_hits = <<>>
    /\ m_socket = "closed" /\ ops = {} /\ line = 1
-----------------------------------------------------------------------------
\* Faulty variant of Start: the caller's coroutine reads on.
StartKeepsCaller(page, others) ==
    /\ m_post_url' = page
    /\ m_state' = "unknown"
    /\ ops' = ops \cup {Op("resolve", m_socket)}

\* start(post_url), called with the given other operations in flight.
Start(page, others) ==
    /\ m_post_url' = page
    /\ m_state' = "unknown"
    /\ ops' = others \cup {Op("resolve", m_socket)}

\* real_start_tianya, 20 ms after the window was built.
GuiStart ==
    /\ ~started
    /\ Start(1, {})
    /\ UNCHANGED <<m_info, m_hits, line, m_abort, m_socket>>

\* Faulty variant of GuiStop: the socket stays open.
GuiStopNoClose ==
    /\ ~m_abort
    /\ m_abort' = TRUE
    /\ UNCHANGED <<m_post_url, parser, m_socket, ops>>

\* stop(), when the window is closed.  The resolver is not cancelled.
GuiStop ==
    /\ ~m_abort
    /\ m_abort' = TRUE
    /\ m_socket' = "closed"
    /\ UNCHANGED <<m_post_url, parser, ops>>
-----------------------------------------------------------------------------
(* The io thread *)

\* A resolve or a connect that fails ends the crawl.
OnNoConnection(op) ==
    /\ op.kind \in {"resolve", "connect"}
    /\ ops' = ops \ {op}
    /\ UNCHANGED <<m_post_url, parser, m_abort, m_socket>>

\* Close the socket of the last page; async_connect opens a new one.
OnResolve(op) ==
    /\ op.kind = "resolve"
    /\ m_socket' = "open"
    /\ ops' = (ops \ {op}) \cup {Op("connect", m_socket')}
    /\ UNCHANGED <<m_post_url, parser, m_abort>>

\* spawn runs process_handle up to its async_write.
OnConnect(op) ==
    /\ op.kind = "connect"
    /\ ops' = (ops \ {op}) \cup {Op("write", m_socket)}
    /\ UNCHANGED <<m_post_url, parser, m_abort, m_socket>>

OnWrite(op) ==
    /\ op.kind = "write"
    /\ op.live
    /\ ops' = (ops \ {op}) \cup {Op("header", m_socket)}
    /\ UNCHANGED <<m_post_url, parser, m_abort, m_socket>>

\* Faulty variant of Fails: a read that fails is not the end.
FailsRetriesReads(op) ==
    /\ op.kind \in {"write", "header"}
    /\ m_socket' = "closed"
    /\ ops' = ops \ {op}
    /\ UNCHANGED <<m_post_url, parser, m_abort>>

\* "m_socket.close(ec); return;": an error, or the end of the last page.
Fails(op) ==
    /\ op.kind \in {"write", "header", "line"}
    /\ m_socket' = "closed"
    /\ ops' = ops \ {op}
    /\ UNCHANGED <<m_post_url, parser, m_abort>>

\* "while (!m_abort)" starts the next read, or the coroutine ends.
Loop(op) == ops' = IF m_abort THEN ops \ {op}
                   ELSE (ops \ {op}) \cup {Op("line", m_socket)}

OnHeader(op) ==
    /\ op.kind = "header"
    /\ op.live
    /\ line' = 1
    /\ Loop(op)
    /\ UNCHANGED <<m_post_url, m_state, m_info, m_hits, m_abort, m_socket>>

lineNow == Lines(m_post_url)[line]

\* async_read_until found a line, which the switch on m_state then handles.
GotLine(op, states) ==
    /\ op.kind = "line"
    /\ line <= Len(Lines(m_post_url))
    /\ line' = line + 1
    /\ m_state \in states

\* state_unkown: the opening of a row; the charset and the rest change nothing.
OnHeadLine(op) ==
    /\ GotLine(op, {"unknown"})
    /\ lineNow.mark # "next"
    /\ m_state' = IF lineNow.mark = "found" THEN "found" ELSE "unknown"
    /\ Loop(op)
    /\ UNCHANGED <<m_post_url, m_info, m_hits, m_abort, m_socket>>

\* state_unkown: the pager is followed from inside the coroutine, which ends.
OnPager(op) ==
    /\ GotLine(op, {"unknown"})
    /\ lineNow.mark = "next"
    /\ Start(m_post_url + 1, ops \ {op})
    /\ UNCHANGED <<m_info, m_hits, m_abort, m_socket>>

Skip == [found |-> "skip1", skip1 |-> "skip2", skip2 |-> "target", skip5 |-> "author"]

OnSkippedLine(op) ==
    /\ GotLine(op, DOMAIN Skip)
    /\ m_state' = Skip[m_state]
    /\ Loop(op)
    /\ UNCHANGED <<m_post_url, m_info, m_hits, m_abort, m_socket>>

\* Faulty variant of OnTarget: a row without a link is not given up.
OnTargetAnyway(op) ==
    /\ GotLine(op, {"target"})
    /\ m_info' = [m_info EXCEPT !["post_url"] = IF lineNow.mark = "url"
                                               THEN lineNow.row ELSE @,
                                !["title"] = NoRow]
    /\ m_state' = "name"
    /\ Loop(op)
    /\ UNCHANGED <<m_post_url, m_hits, m_abort, m_socket>>

\* state_target: the link, or a row without one, which is given up.
OnTarget(op) ==
    /\ GotLine(op, {"target"})
    /\ IF lineNow.mark = "url"
       THEN /\ m_info' = [m_info EXCEPT !["post_url"] = lineNow.row,
                                        !["title"] = NoRow]
            /\ m_state' = "name"
       ELSE /\ m_state' = "unknown"
            /\ UNCHANGED m_info
    /\ Loop(op)
    /\ UNCHANGED <<m_post_url, m_hits, m_abort, m_socket>>

\* state_name: the title grows, line by line, up to the closing tag.
OnName(op) ==
    /\ GotLine(op, {"name"})
    /\ IF lineNow.mark = "close"
       THEN m_state' = "skip5" /\ UNCHANGED m_info
       ELSE /\ m_info' = [m_info EXCEPT !["title"] = lineNow.row]
            /\ UNCHANGED m_state
    /\ Loop(op)
    /\ UNCHANGED <<m_post_url, m_hits, m_abort, m_socket>>

AfterField == [author |-> "hits", hits |-> "replys", replys |-> "time"]

\* state_author, state_hits, state_replys.
OnField(op) ==
    /\ GotLine(op, DOMAIN AfterField)
    /\ m_info' = [m_info EXCEPT ![m_state] = lineNow.row]
    /\ m_state' = AfterField[m_state]
    /\ Loop(op)
    /\ UNCHANGED <<m_post_url, m_hits, m_abort, m_socket>>

\* state_time: the row is complete, kept and emitted.
OnTime(op) ==
    /\ GotLine(op, {"time"})
    /\ m_info' = [m_info EXCEPT !["post_time"] = lineNow.row]
    /\ m_hits' = Append(m_hits, m_info')
    /\ m_state' = "unknown"
    /\ Loop(op)
    /\ UNCHANGED <<m_post_url, m_abort, m_socket>>

OnLine(op) == \/ OnHeadLine(op) \/ OnPager(op) \/ OnSkippedLine(op)
              \/ OnTarget(op) \/ OnName(op) \/ OnField(op) \/ OnTime(op)
-----------------------------------------------------------------------------
Next ==
    \/ GuiStart
    \/ GuiStop
    \/ \E op \in ops :
        \/ OnResolve(op) \/ OnConnect(op) \/ OnNoConnection(op)
        \/ OnWrite(op) \/ OnHeader(op) \/ OnLine(op) \/ Fails(op)

Spec == Init /\ [][Next]_vars

(* The operating system ends what it was asked for, and reads of a closed     *)
(* socket; an answer is the forum's to give.                                  *)
OsEnds == \E op \in ops :
    \/ OnResolve(op) \/ OnConnect(op) \/ OnNoConnection(op)
    \/ OnWrite(op)
    \/ Fails(op) /\ (op.kind = "write" \/ m_socket = "closed")
ForumEnds == \E op \in ops : OnHeader(op) \/ OnLine(op) \/ Fails(op)

OsSpec == Spec /\ WF_vars(OsEnds)
-----------------------------------------------------------------------------
(* Properties *)

AllRows == FlattenSeq([p \in Pages |-> [r \in 1..Len(List[p]) |-> <<p, r>>]])
Linked(t) == List[t[1]][t[2]].linked

\* What a row is emitted as: every field from the same row, the title too if
\* there is one.
WholeRow(t) == [f \in Fields |->
    IF f = "title" /\ List[t[1]][t[2]].titleLines = 0 THEN NoRow ELSE t]

\* What the first n rows of the list are emitted as: those without a link are
\* left out.
Emitted[n \in 0..Len(AllRows)] ==
    IF n = 0 THEN <<>>
    ELSE IF Linked(AllRows[n]) THEN Append(Emitted[n - 1], WholeRow(AllRows[n]))
    ELSE Emitted[n - 1]
WholeRows == Emitted[Len(AllRows)]

\* One operation at a time: start() from inside the coroutine leaves no second
\* coroutine on the socket, the buffers, and m_info.
SingleFlight == \A a, b \in ops : a = b

\* The state of the crawler belongs to one page at any moment.
ListInv == TypeOK /\ SingleFlight

\* The rows are emitted whole, with no field of another row, in the order of
\* the list, none twice and none with a link left out: counting lines never
\* falls out of step with the page, not after a row without a link, a title on
\* several lines or a page that was left in the middle.
phase == IF ~started THEN "idle" ELSE IF ops # {} THEN "running" ELSE "ended"
Stream == INSTANCE PostStream WITH Posts <- WholeRows, delivered <- m_hits
StreamSpec == Stream!Spec

\* After stop() the crawler goes to rest, or waits for the answer on the
\* connection it opened after stop().
StopSettles ==
    m_abort ~> (ops = {} \/ \E op \in ops : op.kind = "header" /\ m_socket = "open")

\* With a forum that answers the crawl ends.
CrawlEnds == WF_vars(ForumEnds) => (started ~> [](ops = {}))
=============================================================================
