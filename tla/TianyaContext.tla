---------------------------- MODULE TianyaContext ----------------------------
(* libtianya/include/tianya_context.hpp: one object downloads one thread of   *)
(* the forum, page after page over HTTP/1.0, and emits every post written by  *)
(* the thread's author.  Its handlers and the coroutine process_handle run on *)
(* the io thread; start, stop and filter_reply are called by the GUI thread   *)
(* at any moment, without a lock.                                             *)
(*                                                                            *)
(* The forum is Site: a sequence of pages, a page is a sequence of posts.  A  *)
(* line of HTML is reduced to what the line parser looks for in it.           *)
EXTENDS Integers, FiniteSets, SequencesExt

CONSTANTS Authors,    \* those who post
          Host,       \* the author of the thread
          NoOne,      \* no author: not found yet, or not in the line
          Separator,  \* the dashes that introduce a quotation
          Site,       \* the pages of the thread
          MaxToggles  \* bound: how often the filter box is clicked

PostType == [by      : Authors \cup {NoOne},
             quotes  : Authors \cup {NoOne, Separator},
             stamped : BOOLEAN]

ASSUME ConstAssumption ==
    /\ Host \in Authors
    /\ NoOne \notin Authors
    /\ Separator \notin Authors
    /\ NoOne # Separator
    /\ MaxToggles \in Nat
    /\ Site \in Seq(Seq(PostType))
    /\ Len(Site) > 0

Pages == 1..Len(Site)

PostAt(t) == Site[t[1]][t[2]]

(* A page as the line parser meets it: the author's meta tag, pageCount, the  *)
(* pager, five lines for each post, the pager again.                          *)
LineCount(p) == 4 + 5 * Len(Site[p])

PostKinds == <<"open", "text", "close", "other", "byline">>

Kind(p, k) ==
    IF k = 1 THEN "author_meta"
    ELSE IF k = 2 THEN "page_count"
    ELSE IF k = 3 \/ k = LineCount(p)
         THEN IF p < Len(Site) THEN "next" ELSE "other"
    ELSE PostKinds[((k - 4) % 5) + 1]

PostOf(p, k) == <<p, ((k - 4) \div 5) + 1>>

VARIABLES
    m_post_url,       \* the page being downloaded; 0 before the first start
    m_state,          \* the parser's state
    m_context,        \* the text gathered for the current post
    author,           \* m_context_info.author
    context,          \* m_context_info.context: the posts kept
    m_next_page_url,  \* "empty" or "skip"
    m_page_index, m_page_count,
    m_filter_reply, m_users,
    m_abort,
    m_socket,         \* "closed" or "open"
    ops,              \* the asynchronous operations in flight
    line,             \* the line the next read returns
    \* history
    fetched,          \* every emission of m_one_content_fetched
    completes,        \* how often m_download_complete was emitted
    requests,         \* the pages whose GET was written, in order
    late,             \* posts emitted and requests written after stop()
    bylines,          \* how many bylines were parsed
    toggles,          \* how often the filter changed
    steady            \* the filter has not changed since start

parser == <<m_state, m_context, author, context, m_next_page_url,
            m_page_index, m_page_count, m_users, line>>
net    == <<m_post_url, m_socket, ops>>
gui    == <<m_filter_reply, m_abort, toggles, steady>>
log    == <<fetched, completes, requests, late, bylines>>
vars   == <<parser, net, gui, log>>

started == m_post_url > 0

(* An operation remembers whether its socket was open when it was started: if *)
(* so it may succeed even after stop(), its result being queued already.      *)
Op(kind, sock) == [kind |-> kind, live |-> sock = "open"]

OpKinds == {"resolve", "connect", "write", "header", "line"}

TypeOK ==
    /\ m_post_url \in 0..Len(Site)
    /\ m_state \in {"unknown", "bbs_content", "author"}
    /\ author \in Authors \cup {NoOne}
    /\ m_next_page_url \in {"empty", "skip"}
    /\ m_page_index \in Nat
    /\ m_page_count \in {-1, Len(Site)}
    /\ m_filter_reply \in BOOLEAN
    /\ m_users \subseteq Authors
    /\ m_abort \in BOOLEAN
    /\ m_socket \in {"closed", "open"}
    /\ ops \subseteq [kind : OpKinds, live : BOOLEAN]
    /\ line \in Nat \ {0}
    /\ completes \in Nat
    /\ late \in Nat
    /\ bylines \in Nat
    /\ toggles \in 0..MaxToggles
    /\ steady \in BOOLEAN

Init ==
    /\ m_post_url = 0
    /\ m_state = "unknown"
    /\ m_context = <<>>
    /\ author = NoOne
    /\ context = <<>>
    /\ m_next_page_url = "empty"
    /\ m_page_index = 0
    /\ m_page_count = -1
    /\ m_filter_reply = FALSE
    /\ m_users = {}
    /\ m_abort = FALSE
    /\ m_socket = "closed"
    /\ ops = {}
    /\ line = 1
    /\ fetched = <<>>
    /\ completes = 0
    /\ requests = <<>>
    /\ late = 0
    /\ bylines = 0
    /\ toggles = 0
    /\ steady = TRUE
-----------------------------------------------------------------------------
\* Faulty variant of Start: the caller goes on after it has started the next page.
StartKeepsCaller(page, others) ==
    /\ m_post_url' = page
    /\ m_state' = "unknown"
    /\ ops' = ops \cup {Op("resolve", m_socket)}

\* start(post_url), called with the given other operations in flight.
Start(page, others) ==
    /\ m_post_url' = page
    /\ m_state' = "unknown"
    /\ ops' = others \cup {Op("resolve", m_socket)}
-----------------------------------------------------------------------------
(* The GUI thread *)

\* tianya_download::start_download, once: start(post_url) of a fresh object.
GuiStart ==
    /\ ~started
    /\ ~m_abort
    /\ Start(1, ops)
    /\ UNCHANGED <<m_socket, m_context, author, context, m_next_page_url,
                   m_page_index, m_page_count, m_users, line, gui, log>>

\* Faulty variant of GuiStop: the socket is left open.
GuiStopNoClose ==
    /\ ~m_abort
    /\ m_abort' = TRUE
    /\ UNCHANGED <<parser, net, m_filter_reply, toggles, steady, log>>

\* stop(), from ~tianya_download.  The socket is closed, whose operations end
\* in an error unless their result is queued; the resolver is not cancelled.
GuiStop ==
    /\ ~m_abort
    /\ m_abort' = TRUE
    /\ m_socket' = "closed"
    /\ UNCHANGED <<parser, m_post_url, ops, m_filter_reply, toggles, steady, log>>

\* filter_reply(bool), from the check box of the viewer.
GuiFilter ==
    /\ toggles < MaxToggles
    /\ m_filter_reply' = ~m_filter_reply
    /\ toggles' = toggles + 1
    /\ steady' = (steady /\ ~started)
    /\ UNCHANGED <<parser, net, m_abort, log>>
-----------------------------------------------------------------------------
(* The io thread: the handlers of start() *)

OnResolveFail(op) ==
    /\ op.kind = "resolve"
    /\ ops' = ops \ {op}
    /\ UNCHANGED <<parser, m_post_url, m_socket, gui, log>>

\* Close the socket of the last page; async_connect opens a new one.
OnResolve(op) ==
    /\ op.kind = "resolve"
    /\ m_socket' = "open"
    /\ ops' = (ops \ {op}) \cup {Op("connect", m_socket')}
    /\ UNCHANGED <<parser, m_post_url, gui, log>>

OnConnectFail(op) ==
    /\ op.kind = "connect"
    /\ ops' = ops \ {op}
    /\ UNCHANGED <<parser, m_post_url, m_socket, gui, log>>

\* spawn runs process_handle up to its first async_write.
OnConnect(op) ==
    /\ op.kind = "connect"
    /\ ops' = (ops \ {op}) \cup {Op("write", m_socket)}
    /\ UNCHANGED <<parser, m_post_url, m_socket, gui, log>>
-----------------------------------------------------------------------------
(* The io thread: the coroutine process_handle *)

\* Faulty variant of Fails: a read that fails is not the end.
FailsRetriesReads(op) ==
    /\ op.kind \in {"write", "header"}
    /\ m_socket' = "closed"
    /\ ops' = ops \ {op}
    /\ completes' = completes + 1
    /\ UNCHANGED <<parser, m_post_url, gui, fetched, requests, late, bylines>>

\* Every "m_socket.close(ec); return false;", after which start()'s lambda
\* emits m_download_complete.
Fails(op) ==
    /\ op.kind \in {"write", "header", "line"}
    /\ m_socket' = "closed"
    /\ ops' = ops \ {op}
    /\ completes' = completes + 1
    /\ UNCHANGED <<parser, m_post_url, gui, fetched, requests, late, bylines>>

OnWrite(op) ==
    /\ op.kind = "write"
    /\ op.live
    /\ ops' = (ops \ {op}) \cup {Op("header", m_socket)}
    /\ requests' = Append(requests, m_post_url)
    /\ late' = IF m_abort THEN late + 1 ELSE late
    /\ UNCHANGED <<parser, m_post_url, m_socket, gui, fetched, completes, bylines>>

\* The head of the loop: "while (!m_abort)" starts the next read or leaves the
\* loop, where "return false" has m_download_complete emitted.
Loop(op) ==
    IF m_abort
    THEN /\ ops' = ops \ {op}
         /\ completes' = completes + 1
    ELSE /\ ops' = (ops \ {op}) \cup {Op("line", m_socket)}
         /\ UNCHANGED completes

OnHeader(op) ==
    /\ op.kind = "header"
    /\ op.live
    /\ line' = 1
    /\ Loop(op)
    /\ UNCHANGED <<m_post_url, m_socket, m_state, m_context, author, context,
                   m_next_page_url, m_page_index, m_page_count, m_users, gui,
                   fetched, requests, late, bylines>>

kindNow == Kind(m_post_url, line)

\* async_read_until found a line, which the switch on m_state then handles.
GotLine(op, state) ==
    /\ op.kind = "line"
    /\ line <= LineCount(m_post_url)
    /\ line' = line + 1
    /\ m_state = state

\* What swscanf leaves in m_page_count: the number of pages, or -1 if it fails.
ParsedCounts == {-1, Len(Site)}

\* state_unkown: the author, the page count and the opening of a post.  The
\* author and the count are taken from the first page that has them.
OnHeadLine(op) ==
    /\ GotLine(op, "unknown")
    /\ kindNow \in {"author_meta", "page_count", "open", "other"}
    /\ author' = IF kindNow = "author_meta" /\ author = NoOne THEN Host ELSE author
    /\ IF kindNow = "page_count" /\ m_page_count = -1
       THEN m_page_count' \in ParsedCounts
       ELSE UNCHANGED m_page_count
    /\ IF kindNow = "open"
       THEN m_context' = <<>> /\ m_state' = "bbs_content"
       ELSE UNCHANGED <<m_context, m_state>>
    /\ Loop(op)
    /\ UNCHANGED <<m_post_url, m_socket, context, m_next_page_url, m_page_index,
                   m_users, gui, fetched, requests, late, bylines>>

\* state_unkown: the first pager of a page is skipped.
OnFirstPager(op) ==
    /\ GotLine(op, "unknown")
    /\ kindNow = "next"
    /\ m_next_page_url = "empty"
    /\ m_next_page_url' = "skip"
    /\ Loop(op)
    /\ UNCHANGED <<m_post_url, m_socket, m_state, m_context, author, context,
                   m_page_index, m_page_count, m_users, gui, fetched, requests,
                   late, bylines>>

\* state_unkown: the second pager is followed.  start(m_next_page_url) begins
\* the next page and "return true" leaves this one without a signal.
OnSecondPager(op) ==
    /\ GotLine(op, "unknown")
    /\ kindNow = "next"
    /\ m_next_page_url # "empty"
    /\ m_page_index' = m_page_index + 1
    /\ Start(m_post_url + 1, ops \ {op})
    /\ m_next_page_url' = "empty"
    /\ UNCHANGED <<m_socket, m_context, author, context, m_page_count, m_users,
                   gui, log>>

\* state_div_bbs_content: gather the text up to the closing tag.
OnBodyLine(op) ==
    /\ GotLine(op, "bbs_content")
    /\ IF kindNow = "close"
       THEN m_state' = "author" /\ UNCHANGED m_context
       ELSE /\ m_context' = Append(m_context, PostOf(m_post_url, line))
            /\ UNCHANGED m_state
    /\ Loop(op)
    /\ UNCHANGED <<m_post_url, m_socket, author, context, m_next_page_url,
                   m_page_index, m_page_count, m_users, gui, fetched, requests,
                   late, bylines>>

\* state_author: a line without an author leaves the state alone.
OnOtherLine(op) ==
    /\ GotLine(op, "author")
    /\ kindNow # "byline"
    /\ Loop(op)
    /\ UNCHANGED <<m_post_url, m_socket, m_state, m_context, author, context,
                   m_next_page_url, m_page_index, m_page_count, m_users, gui,
                   fetched, requests, late, bylines>>

\* Faulty variant of HostPosts: the author is not compared.
AnybodyPosts(post) == post.by # NoOne /\ post.stamped

\* The byline names the author of the thread, and has a time.
HostPosts(post) == post.by # NoOne /\ post.by = author /\ post.stamped

\* Faulty variant of IsReply: the dashes are forgotten.
IsNamedReply(text, users) == \E t \in ToSet(text) : PostAt(t).quotes \in users

\* The text quotes somebody: behind a line of dashes, or as "@u", "u:".
IsReply(text, users) ==
    \E t \in ToSet(text) : PostAt(t).quotes \in users \cup {Separator}

\* state_author, the byline: the post is finished.  m_filter_reply is read
\* twice, before m_users grows and before the text is searched; now is what the
\* second read finds, the GUI thread may have stored it in between.
OnByline(op) ==
    /\ GotLine(op, "author")
    /\ kindNow = "byline"
    /\ LET post   == PostAt(PostOf(m_post_url, line))
           users  == IF m_filter_reply /\ post.by # NoOne
                     THEN m_users \cup {post.by} ELSE m_users
           isHost == HostPosts(post)
       IN \E now \in BOOLEAN :
          /\ now # m_filter_reply => isHost /\ toggles < MaxToggles
          /\ m_filter_reply' = now
          /\ toggles' = IF now # m_filter_reply THEN toggles + 1 ELSE toggles
          /\ steady' = (steady /\ now = m_filter_reply)
          /\ m_users' = users
          /\ context' = IF isHost /\ ~(now /\ IsReply(m_context, users))
                        THEN Append(context, m_context) ELSE context
          /\ fetched' = IF isHost THEN Append(fetched, m_context) ELSE fetched
          /\ late' = IF isHost /\ m_abort THEN late + 1 ELSE late
    /\ m_context' = <<>>
    /\ m_state' = "unknown"
    /\ bylines' = bylines + 1
    /\ Loop(op)
    /\ UNCHANGED <<m_post_url, m_socket, author, m_next_page_url, m_page_index,
                   m_page_count, m_abort, requests>>
-----------------------------------------------------------------------------
OnLine(op) ==
    \/ OnHeadLine(op)
    \/ OnFirstPager(op)
    \/ OnSecondPager(op)
    \/ OnBodyLine(op)
    \/ OnOtherLine(op)
    \/ OnByline(op)

Next ==
    \/ GuiStart
    \/ GuiStop
    \/ GuiFilter
    \/ \E op \in ops :
        \/ OnResolve(op) \/ OnResolveFail(op)
        \/ OnConnect(op) \/ OnConnectFail(op)
        \/ OnWrite(op)
        \/ OnHeader(op)
        \/ OnLine(op)
        \/ Fails(op)

Spec == Init /\ [][Next]_vars

(* What the operating system owes: a resolve, a connect and a short write end *)
(* one way or the other, and so does a read whose socket has been closed.     *)
(* What only a willing peer gives: an answer to the request, line by line, up *)
(* to the end of the connection.                                              *)
OsEnds == \E op \in ops :
    \/ OnResolve(op) \/ OnResolveFail(op)
    \/ OnConnect(op) \/ OnConnectFail(op)
    \/ OnWrite(op)
    \/ Fails(op) /\ (op.kind = "write" \/ m_socket = "closed")
PeerEnds == \E op \in ops : OnHeader(op) \/ OnLine(op) \/ Fails(op)

OsSpec == Spec /\ WF_vars(OsEnds)
-----------------------------------------------------------------------------
(* Properties *)

\* All posts of the thread, known by their numbers.
AllPosts == FlattenSeq([p \in Pages |-> [i \in 1..Len(Site[p]) |-> <<p, i>>]])
Numbers  == 1..Len(AllPosts)

\* The texts the parser gathers for those of the first n posts that are chosen.
Texts(chosen) ==
    LET texts[n \in 0..Len(AllPosts)] ==
            IF n = 0 THEN <<>>
            ELSE IF n \in chosen THEN Append(texts[n - 1], <<AllPosts[n]>>)
            ELSE texts[n - 1]
    IN texts

ByHost == {n \in Numbers : /\ PostAt(AllPosts[n]).by = Host
                           /\ PostAt(AllPosts[n]).stamped}
HostTexts == Texts(ByHost)[Len(AllPosts)]

\* One asynchronous operation at a time: the socket, the two stream buffers and
\* the parser belong to one page.  start() is called again from inside the
\* coroutine of the previous page, which must then be over.
SingleFlight == \A a, b \in ops : a = b

\* m_download_complete is emitted at most once, and when it has been no
\* operation is left that could emit another post.
CompleteOnce == completes <= 1 /\ (completes = 1 => ops = {})

\* The two numbers of the progress bar: m_page_index counts the pages left
\* behind, whether the pager line was followed or not, and stays below the
\* count, so that the progress the chunk slot computes is below 100%.
IndexInStep ==
    /\ started => m_page_index + 1 = m_post_url
    /\ m_page_count # -1 => m_page_index < m_page_count

\* The pages are requested in the order of the thread, each one once.
RequestsInOrder == requests = [i \in 1..Len(requests) |-> i]

\* After stop() the object does at most one more thing that can be noticed: it
\* emits the post whose byline was being read, or, stop() not cancelling the
\* resolver, it opens a new connection and writes one more request.
LateWork == late <= 1

\* What the object is sure of at any moment, whatever the interleaving of
\* start(), stop() and filter_reply() with its handlers.
ContextInv ==
    TypeOK /\ SingleFlight /\ CompleteOnce /\ IndexInStep /\ RequestsInOrder /\ LateWork

\* What filtering is to leave out: with the filter on from the start, a post is
\* dropped when it quotes, after dashes or by name, someone who has posted
\* before or posts it.
Seen(n) == {PostAt(AllPosts[m]).by : m \in 1..n} \ {NoOne}
Kept == {n \in ByHost : PostAt(AllPosts[n]).quotes \notin Seen(n) \cup {Separator}}

\* The places of two posts in the thread.
Before(t, u) == t[1] < u[1] \/ (t[1] = u[1] /\ t[2] < u[2])

\* With the filter on, the kept posts (saved, and mailed to the Kindle) are
\* exactly those, though the parser learns the names as it goes and forgets its
\* state at each page; and whatever the clicks on the filter box, only replies
\* are ever lost: the kept posts are emitted ones, in the order of the thread,
\* none twice, and those that quote nobody are among them.
FilterExact ==
    /\ steady /\ m_filter_reply => context = Texts(Kept)[bylines]
    /\ ToSet(context) \subseteq ToSet(fetched)
    /\ \A text \in ToSet(fetched) :
        (\A t \in ToSet(text) : PostAt(t).quotes = NoOne) => text \in ToSet(context)
    /\ \A i, j \in 1..Len(context) : i < j => Before(Last(context[i]), Head(context[j]))

\* The stream of posts as its listeners know it.
phase == IF ~started THEN "idle"
         ELSE IF ops # {} THEN "running"
         ELSE IF completes > 0 THEN "ended" ELSE "silent"
Stream == INSTANCE PostStream WITH Posts <- HostTexts, delivered <- fetched
StreamSpec == Stream!Spec

\* After stop() the object goes to rest, or else waits for the answer to the
\* request it wrote on the connection opened after stop(): nothing is left
\* that would close that one.
StopSettles ==
    m_abort ~> (ops = {} \/ \E op \in ops : op.kind = "header" /\ m_socket = "open")

\* With a willing peer every download that is started comes to its end.
DownloadEnds == WF_vars(PeerEnds) => (started ~> [](ops = {}))
=============================================================================
