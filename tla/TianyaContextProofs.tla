------------------------- MODULE TianyaContextProofs -------------------------
(* For every forum, every set of authors and any number of clicks: the safety *)
(* invariants of TianyaContext from one inductive invariant; and, from a      *)
(* second one that follows the line parser through the pages, what the filter *)
(* keeps and that the object implements PostStream.                           *)
EXTENDS TianyaContext, FiniteSetTheorems, WellFoundedInduction, TLAPS

\* One operation in flight, and only while a page is being downloaded.
FlightInv ==
    /\ SingleFlight
    /\ ~started => ops = {}

\* The end is announced by the step that finishes the last operation.
CompleteInv ==
    /\ completes <= 1
    /\ completes = 1 => ops = {} /\ started

\* m_page_index follows m_post_url from page to page.
IndexInv == /\ ~started => m_page_index = 0
            /\ started => m_page_index + 1 = m_post_url

\* The page in hand has been requested once its answer is being read, and not
\* before.
RequestInv ==
    /\ requests \in Seq(Nat)
    /\ RequestsInOrder
    /\ ~started => requests = <<>>
    /\ \A op \in ops :
        Len(requests) = IF op.kind \in {"header", "line"} THEN m_post_url
                        ELSE m_post_url - 1

\* After stop() the one thing done leaves nothing to do but to wait for the
\* answer to a late request.
LateInv ==
    /\ late <= 1
    /\ late = 1 => m_abort /\ \A op \in ops : op.kind = "header"

IInv == TypeOK /\ FlightInv /\ CompleteInv /\ IndexInv /\ RequestInv /\ LateInv

-----------------------------------------------------------------------------
\* Only a page that is not the last one has a pager to follow.
LEMMA NextHasPage ==
    ASSUME NEW p \in Pages, NEW k \in Nat, k > 0, Kind(p, k) = "next"
    PROVE  p + 1 \in Pages
<1>1. Len(Site) \in Nat
  BY ConstAssumption
<1>2. CASE k = 3 \/ k = LineCount(p)
  BY <1>1, <1>2 DEF Kind, Pages
<1>3. CASE k # 3 /\ k # LineCount(p) /\ k # 1 /\ k # 2
  <2>1. ((k - 4) % 5) + 1 \in 1..5
    OBVIOUS
  <2>2. Kind(p, k) = PostKinds[((k - 4) % 5) + 1]
    BY <1>3 DEF Kind
  <2>3. \A i \in 1..5 : PostKinds[i] # "next"
    BY DEF PostKinds
  <2> QED
    BY <2>1, <2>2, <2>3
<1>4. CASE k = 1 \/ k = 2
  BY <1>4 DEF Kind
<1> QED
  BY <1>2, <1>3, <1>4

\* A byline belongs to a post of its page.
LEMMA BylineHasPost ==
    ASSUME NEW p \in Pages, NEW k \in Nat, k > 0, k <= LineCount(p),
           Kind(p, k) = "byline"
    PROVE  PostAt(PostOf(p, k)).by \in Authors \cup {NoOne}
<1>1. /\ Len(Site[p]) \in Nat
      /\ \A i \in 1..Len(Site[p]) : Site[p][i].by \in Authors \cup {NoOne}
  <2>1. Site[p] \in Seq(PostType)
    BY ConstAssumption DEF Pages
  <2>2. \A i \in 1..Len(Site[p]) : Site[p][i] \in PostType
    BY <2>1
  <2> QED
    BY <2>1, <2>2 DEF PostType
<1>2. k >= 4 /\ k < 4 + 5 * Len(Site[p])
  BY <1>1 DEF Kind, LineCount
<1>3. ((k - 4) \div 5) + 1 \in 1..Len(Site[p])
  BY <1>1, <1>2
<1> QED
  BY <1>1, <1>3 DEF PostAt, PostOf
-----------------------------------------------------------------------------
\* At first nothing has been asked for.
LEMMA InitIInv == Init => IInv
<1> SUFFICES ASSUME Init PROVE IInv
  OBVIOUS
<1>1. TypeOK
  <2>1. MaxToggles \in Nat /\ Len(Site) \in Nat
    BY ConstAssumption
  <2>2. ops \subseteq [kind : OpKinds, live : BOOLEAN] /\ m_users \subseteq Authors
    BY DEF Init
  <2>3. m_filter_reply \in BOOLEAN /\ m_abort \in BOOLEAN /\ steady \in BOOLEAN
    BY DEF Init
  <2>4. /\ m_post_url \in 0..Len(Site) /\ m_page_index \in Nat
        /\ m_page_count \in {-1, Len(Site)} /\ line \in Nat \ {0}
        /\ completes \in Nat /\ late \in Nat /\ bylines \in Nat
        /\ toggles \in 0..MaxToggles
    BY <2>1 DEF Init
  <2> QED
    BY <2>2, <2>3, <2>4 DEF Init, TypeOK
<1>2. requests \in Seq(Nat) /\ Len(requests) = 0
  BY DEF Init
<1> QED
  BY <1>1, <1>2 DEF Init, IInv, FlightInv, SingleFlight, CompleteInv, IndexInv,
     RequestInv, RequestsInOrder, LateInv, started

\* What the head of the loop does to the operations and to the end signal, in
\* the terms of the invariant.
LEMMA LoopStep ==
    ASSUME IInv, NEW op \in ops, Loop(op),
           op.kind \in {"header", "line"}
    PROVE  /\ ops' \subseteq [kind : OpKinds, live : BOOLEAN]
           /\ \A a, b \in ops' : a = b
           /\ \A o \in ops' : o.kind = "line"
           /\ completes' \in Nat
           /\ completes' <= 1
           /\ completes' = 1 => ops' = {}
           /\ m_abort => ops' = {}
<1>1. ops = {op} /\ completes = 0
  BY DEF IInv, FlightInv, SingleFlight, CompleteInv, TypeOK
<1>2. CASE m_abort
  BY <1>1, <1>2 DEF Loop
<1>3. CASE ~m_abort
  <2>1. ops' = {Op("line", m_socket)} /\ completes' = 0
    BY <1>1, <1>3 DEF Loop
  <2> QED
    BY <2>1, <1>3 DEF Op, OpKinds
<1> QED
  BY <1>2, <1>3

\* Every step of the line parser that stays on the page.
LEMMA LineStep ==
    ASSUME IInv, NEW op \in ops,
           OnHeadLine(op) \/ OnFirstPager(op) \/ OnBodyLine(op)
             \/ OnOtherLine(op) \/ OnByline(op)
    PROVE  IInv'
<1> USE DEF IInv
<1>1. /\ op.kind = "line" /\ line <= LineCount(m_post_url)
      /\ Loop(op) /\ line' = line + 1
      /\ UNCHANGED <<m_post_url, m_socket, m_page_index, m_abort, requests>>
  BY DEF OnHeadLine, OnFirstPager, OnBodyLine, OnOtherLine, OnByline, GotLine, gui
<1>2. /\ ops = {op} /\ completes = 0 /\ started /\ late = 0
      /\ Len(requests) = m_post_url /\ m_post_url \in Pages
  BY <1>1, ConstAssumption
     DEF FlightInv, SingleFlight, CompleteInv, LateInv, RequestInv, TypeOK,
         started, Pages
<1>3. /\ ops' \subseteq [kind : OpKinds, live : BOOLEAN]
      /\ \A a, b \in ops' : a = b
      /\ \A o \in ops' : o.kind = "line"
      /\ completes' \in Nat /\ completes' <= 1
      /\ completes' = 1 => ops' = {}
      /\ m_abort => ops' = {}
  BY <1>1, LoopStep
<1>4. late' \in {0, 1} /\ (late' = 1 => m_abort)
  BY <1>2 DEF OnHeadLine, OnFirstPager, OnBodyLine, OnOtherLine, OnByline
<1>5. TypeOK'
  <2>1. /\ m_state' \in {"unknown", "bbs_content", "author"}
        /\ author' \in Authors \cup {NoOne}
        /\ m_next_page_url' \in {"empty", "skip"}
        /\ m_page_count' \in {-1, Len(Site)}
    BY ConstAssumption
       DEF TypeOK, OnHeadLine, OnFirstPager, OnBodyLine, OnOtherLine, OnByline,
           GotLine, ParsedCounts
  <2>2. /\ m_users' \subseteq Authors
        /\ m_filter_reply' \in BOOLEAN
        /\ bylines' \in Nat
        /\ toggles' \in 0..MaxToggles
        /\ steady' \in BOOLEAN
    <3>1. CASE OnByline(op)
      <4>1. PostAt(PostOf(m_post_url, line)).by \in Authors \cup {NoOne}
        BY <3>1, <1>1, <1>2, BylineHasPost DEF OnByline, kindNow, TypeOK
      <4>2. m_users' \subseteq Authors
        BY <3>1, <4>1 DEF OnByline, TypeOK
      <4>3. /\ m_filter_reply' \in BOOLEAN
            /\ bylines' \in Nat
            /\ toggles' \in 0..MaxToggles
            /\ steady' \in BOOLEAN
        BY <3>1, ConstAssumption DEF OnByline, TypeOK
      <4> QED
        BY <4>2, <4>3
    <3>2. CASE OnHeadLine(op) \/ OnFirstPager(op) \/ OnBodyLine(op) \/ OnOtherLine(op)
      BY <3>2 DEF TypeOK, OnHeadLine, OnFirstPager, OnBodyLine, OnOtherLine, gui
    <3> QED
      BY <3>1, <3>2
  <2> QED
    BY <1>1, <1>3, <1>4, <2>1, <2>2 DEF TypeOK
<1>6. FlightInv' /\ CompleteInv' /\ IndexInv'
  BY <1>1, <1>2, <1>3
     DEF FlightInv, SingleFlight, CompleteInv, IndexInv, started, TypeOK
<1>7. RequestInv'
  BY <1>1, <1>2, <1>3 DEF RequestInv, RequestsInOrder, started
<1>8. LateInv'
  BY <1>1, <1>3, <1>4 DEF LateInv
<1> QED
  BY <1>5, <1>6, <1>7, <1>8
\* The second pager: the coroutine of this page has started the next page and
\* ends, so that its operation gives way to the resolve of the next page.
LEMMA PagerStep ==
    ASSUME IInv, NEW op \in ops, OnSecondPager(op)
    PROVE  IInv'
<1> USE DEF IInv
<1>1. op.kind = "line" /\ line \in Nat /\ line > 0
  BY DEF Start, OnSecondPager, GotLine, TypeOK
<1>2. /\ ops = {op} /\ completes = 0 /\ started /\ late = 0
      /\ Len(requests) = m_post_url /\ m_post_url \in Pages
  BY <1>1, ConstAssumption
     DEF FlightInv, SingleFlight, CompleteInv, LateInv, RequestInv, TypeOK,
         started, Pages
<1>3. m_post_url + 1 \in Pages
  BY <1>1, <1>2, NextHasPage DEF Start, OnSecondPager, kindNow
<1>4. ops' = {Op("resolve", m_socket)} /\ Op("resolve", m_socket).kind = "resolve"
  BY <1>2 DEF Start, OnSecondPager, Op
<1>5. TypeOK'
  <2>1. ops' \subseteq [kind : OpKinds, live : BOOLEAN]
    BY <1>4 DEF Op, OpKinds
  <2>2. m_post_url' \in 0..Len(Site) /\ m_page_index' \in Nat
    BY <1>3, ConstAssumption DEF Start, OnSecondPager, TypeOK, Pages
  <2> QED
    BY <2>1, <2>2 DEF Start, OnSecondPager, GotLine, TypeOK, gui, log
<1>6. FlightInv' /\ CompleteInv' /\ IndexInv'
  BY <1>2, <1>3, <1>4
     DEF FlightInv, SingleFlight, CompleteInv, IndexInv, started, TypeOK, Pages,
         Start, OnSecondPager, log
<1>7. RequestInv'
  BY <1>2, <1>3, <1>4 DEF RequestInv, RequestsInOrder, Start, OnSecondPager, log, Pages, started
<1>8. LateInv'
  BY <1>2 DEF LateInv, Start, OnSecondPager, log
<1> QED
  BY <1>5, <1>6, <1>7, <1>8

\* The handlers of start() and of the request: each replaces the operation it
\* finishes by the next one, or by nothing.
LEMMA StartStep ==
    ASSUME IInv, NEW op \in ops,
           OnResolve(op) \/ OnResolveFail(op) \/ OnConnect(op)
             \/ OnConnectFail(op) \/ OnWrite(op) \/ OnHeader(op) \/ Fails(op)
    PROVE  IInv'
<1> USE DEF IInv
<1>1. /\ ops = {op} /\ completes = 0 /\ started /\ m_post_url \in Pages
      /\ m_post_url' = m_post_url /\ m_page_index' = m_page_index
      /\ m_abort' = m_abort
  BY ConstAssumption
     DEF FlightInv, SingleFlight, CompleteInv, TypeOK, started, Pages, parser,
         gui, OnResolve, OnResolveFail, OnConnect, OnConnectFail, OnWrite,
         OnHeader, Fails
<1>2. ASSUME NEW kind \in OpKinds, NEW sock
      PROVE  Op(kind, sock) \in [kind : OpKinds, live : BOOLEAN] /\ Op(kind, sock).kind = kind
  BY DEF Op
<1>3. CASE OnHeader(op)
  <2>1. /\ op.kind = "header" /\ Loop(op)
        /\ UNCHANGED <<requests, late>>
    BY <1>3 DEF OnHeader
  <2>2. /\ ops' \subseteq [kind : OpKinds, live : BOOLEAN]
        /\ \A a, b \in ops' : a = b
        /\ \A o \in ops' : o.kind = "line"
        /\ completes' \in Nat /\ completes' <= 1
        /\ completes' = 1 => ops' = {}
        /\ m_abort => ops' = {}
    BY <2>1, LoopStep
  <2>3. TypeOK'
    BY <1>3, <2>2 DEF OnHeader, TypeOK, gui
  <2>4. FlightInv' /\ CompleteInv' /\ IndexInv' /\ LateInv'
    BY <1>1, <2>1, <2>2 DEF FlightInv, SingleFlight, CompleteInv, IndexInv, LateInv, started
  <2>5. RequestInv'
    BY <1>1, <2>1, <2>2 DEF RequestInv, RequestsInOrder, started
  <2> QED
    BY <2>3, <2>4, <2>5
<1>4. CASE OnWrite(op)
  <2>1. /\ ops' = {Op("header", m_socket)} /\ op.kind = "write"
        /\ requests' = Append(requests, m_post_url)
        /\ late = 0 /\ late' \in {0, 1} /\ (late' = 1 => m_abort)
        /\ completes' = 0
    BY <1>1, <1>4 DEF OnWrite, LateInv, TypeOK
  <2>2. /\ Op("header", m_socket) \in [kind : OpKinds, live : BOOLEAN]
        /\ Op("header", m_socket).kind = "header"
    BY <1>2 DEF OpKinds
  <2>3. TypeOK'
    BY <1>4, <2>1, <2>2 DEF OnWrite, TypeOK, parser, gui
  <2>4. FlightInv' /\ CompleteInv' /\ IndexInv' /\ LateInv'
    BY <1>1, <2>1, <2>2 DEF FlightInv, SingleFlight, CompleteInv, IndexInv, LateInv, started
  <2>5. RequestInv'
    <3>1. Len(requests) = m_post_url - 1 /\ requests \in Seq(Nat)
      BY <2>1 DEF RequestInv
    <3>2. Len(requests') = m_post_url /\ requests' \in Seq(Nat)
      BY <3>1, <2>1, <1>1 DEF Pages
    <3>3. RequestsInOrder'
      <4>1. \A i \in 1..Len(requests) : requests[i] = i
        BY DEF RequestInv, RequestsInOrder, started
      <4>2. \A i \in 1..Len(requests') : requests'[i] = i
        BY <3>1, <3>2, <2>1, <1>1, <4>1 DEF Pages
      <4>3. requests' = [i \in 1..Len(requests') |-> requests'[i]]
        BY <3>2
      <4> QED
        BY <4>2, <4>3 DEF RequestsInOrder
    <3> QED
      BY <1>1, <2>1, <2>2, <3>2, <3>3 DEF RequestInv, started
  <2> QED
    BY <2>3, <2>4, <2>5
<1>5. CASE OnResolve(op) \/ OnConnect(op)
  <2>1. PICK o \in [kind : OpKinds, live : BOOLEAN] :
            ops' = {o} /\ o.kind \in {"connect", "write"}
    BY <1>1, <1>2, <1>5 DEF OnResolve, OnConnect, OpKinds
  <2>2. /\ op.kind \in {"resolve", "connect"}
        /\ UNCHANGED <<requests, late, completes>>
    BY <1>5 DEF OnResolve, OnConnect, log
  <2>3. TypeOK'
    BY <1>5, <2>1 DEF OnResolve, OnConnect, TypeOK, parser, gui, log
  <2>4. FlightInv' /\ CompleteInv' /\ IndexInv' /\ LateInv'
    BY <1>1, <2>1, <2>2 DEF FlightInv, SingleFlight, CompleteInv, IndexInv, LateInv, started
  <2>5. RequestInv'
    BY <1>1, <2>1, <2>2 DEF RequestInv, RequestsInOrder, started
  <2> QED
    BY <2>3, <2>4, <2>5
<1>6. CASE OnResolveFail(op) \/ OnConnectFail(op) \/ Fails(op)
  <2>1. /\ ops' = {} /\ completes' \in {0, 1}
        /\ UNCHANGED <<requests, late>>
    BY <1>1, <1>6 DEF OnResolveFail, OnConnectFail, Fails, log
  <2>2. TypeOK'
    BY <1>6, <2>1 DEF OnResolveFail, OnConnectFail, Fails, TypeOK, parser, gui, log
  <2>3. FlightInv' /\ CompleteInv' /\ IndexInv' /\ LateInv'
    BY <1>1, <2>1 DEF FlightInv, SingleFlight, CompleteInv, IndexInv, LateInv, started
  <2>4. RequestInv'
    BY <1>1, <2>1 DEF RequestInv, RequestsInOrder, started
  <2> QED
    BY <2>2, <2>3, <2>4
<1> QED
  BY <1>3, <1>4, <1>5, <1>6

\* The calls of the GUI thread.
LEMMA GuiStep ==
    ASSUME IInv, GuiStart \/ GuiStop \/ GuiFilter
    PROVE  IInv'
<1> USE DEF IInv
<1>1. CASE GuiStart
  <2>1. /\ m_post_url = 0 /\ ops = {} /\ completes = 0 /\ m_abort' = m_abort
        /\ m_post_url' = 1 /\ m_page_index = 0 /\ m_page_index' = 0
        /\ UNCHANGED <<requests, late, completes>>
    BY <1>1 DEF Start, GuiStart, started, FlightInv, CompleteInv, IndexInv, TypeOK, log, gui
  <2>2. PICK o \in [kind : OpKinds, live : BOOLEAN] : ops' = {o} /\ o.kind = "resolve"
    <3>1. ops' = {Op("resolve", m_socket)}
      BY <1>1, <2>1 DEF Start, GuiStart
    <3>2. /\ Op("resolve", m_socket) \in [kind : OpKinds, live : BOOLEAN]
          /\ Op("resolve", m_socket).kind = "resolve"
      BY DEF Op, OpKinds
    <3> QED
      BY <3>1, <3>2
  <2>3. TypeOK'
    <3>1. m_post_url' \in 0..Len(Site)
      BY <2>1, ConstAssumption
    <3> QED
      BY <1>1, <2>2, <3>1 DEF Start, GuiStart, TypeOK, gui, log
  <2>4. FlightInv' /\ CompleteInv' /\ IndexInv'
    BY <2>1, <2>2 DEF FlightInv, SingleFlight, CompleteInv, IndexInv, started
  <2>5. LateInv'
    BY <1>1, <2>1 DEF LateInv, Start, GuiStart, gui, log
  <2>6. RequestInv'
    <3>1. requests = <<>>
      BY <1>1 DEF Start, GuiStart, RequestInv
    <3> QED
      BY <3>1, <2>1, <2>2 DEF RequestInv, RequestsInOrder, started
  <2> QED
    BY <2>3, <2>4, <2>5, <2>6
<1>2. CASE GuiStop
  <2>1. TypeOK'
    BY <1>2 DEF GuiStop, TypeOK, parser, log
  <2> QED
    BY <1>2, <2>1 DEF GuiStop, FlightInv, SingleFlight, CompleteInv, IndexInv,
       RequestInv, RequestsInOrder, LateInv, started, parser, log
<1>3. CASE GuiFilter
  <2>1. TypeOK'
    BY <1>3, ConstAssumption DEF GuiFilter, TypeOK, parser, net, log
  <2> QED
    BY <1>3, <2>1 DEF GuiFilter, FlightInv, SingleFlight, CompleteInv, IndexInv,
       RequestInv, RequestsInOrder, LateInv, started, parser, net, log
<1> QED
  BY <1>1, <1>2, <1>3

\* Every step keeps it.
LEMMA NextIInv == IInv /\ [Next]_vars => IInv'
<1> SUFFICES ASSUME IInv, [Next]_vars PROVE IInv'
  OBVIOUS
<1>1. CASE GuiStart \/ GuiStop \/ GuiFilter
  BY <1>1, GuiStep
<1>2. ASSUME NEW op \in ops,
             \/ OnResolve(op) \/ OnResolveFail(op)
             \/ OnConnect(op) \/ OnConnectFail(op)
             \/ OnWrite(op) \/ OnHeader(op) \/ OnLine(op) \/ Fails(op)
      PROVE  IInv'
  BY <1>2, StartStep, PagerStep, LineStep DEF OnLine
<1>3. CASE UNCHANGED vars
  <2> USE <1>3 DEF vars, parser, net, gui, log, IInv
  <2>1. TypeOK'
    BY DEF TypeOK
  <2>2. FlightInv' /\ CompleteInv' /\ IndexInv'
    BY DEF FlightInv, SingleFlight, CompleteInv, IndexInv, started
  <2>3. RequestInv' /\ LateInv'
    BY DEF RequestInv, RequestsInOrder, LateInv, started
  <2> QED
    BY <2>1, <2>2, <2>3
<1> QED
  BY <1>1, <1>2, <1>3 DEF Next
-----------------------------------------------------------------------------
\* The parts of the state of tianya_context keep step with each other.
THEOREM Invariance == Spec => []IInv
<1> QED
  BY InitIInv, NextIInv, PTL DEF Spec

\* The state of a tianya_context keeps its types.
THEOREM TypeCorrect == Spec => []TypeOK
<1>1. IInv => TypeOK
  BY DEF IInv
<1> QED
  BY <1>1, Invariance, PTL

\* process_handle restarts start() only as its last act: never do two
\* operations use the socket, the buffers and the parser at once.
THEOREM FlightSafe == Spec => []SingleFlight
<1>1. IInv => SingleFlight
  BY DEF IInv, FlightInv
<1> QED
  BY <1>1, Invariance, PTL

\* The listeners of m_download_complete (SendProgress mails the novel there)
\* are called at most once, with nothing left in flight.
THEOREM CompleteSafe == Spec => []CompleteOnce
<1>1. IInv => CompleteOnce
  BY DEF IInv, CompleteInv, CompleteOnce, TypeOK
<1> QED
  BY <1>1, Invariance, PTL

\* page_index() / page_count(), the progress the GUI shows, is below one.
THEOREM IndexSafe == Spec => []IndexInStep
<1>1. IInv => IndexInStep
  <2> SUFFICES ASSUME IInv PROVE IndexInStep
    OBVIOUS
  <2>1. m_page_count # -1 => m_page_index < m_page_count
    BY ConstAssumption DEF IInv, IndexInv, TypeOK, started
  <2> QED
    BY <2>1 DEF IInv, IndexInv, IndexInStep
<1> QED
  BY <1>1, Invariance, PTL

\* Pages are requested one after the other from the first, none twice.
THEOREM RequestSafe == Spec => []RequestsInOrder
<1>1. IInv => RequestsInOrder
  BY DEF IInv, RequestInv
<1> QED
  BY <1>1, Invariance, PTL

\* After stop(), at most one more post or one more request.
THEOREM StopBound == Spec => []LateWork
<1>1. IInv => LateWork
  BY DEF IInv, LateInv, LateWork
<1> QED
  BY <1>1, Invariance, PTL
\* All of it: what every run of the object keeps, whatever the forum.
THEOREM ContextSafe == Spec => []ContextInv
<1> QED
  BY TypeCorrect, FlightSafe, CompleteSafe, IndexSafe, RequestSafe, StopBound, PTL
     DEF ContextInv
-----------------------------------------------------------------------------
(* Induction and recursion over an interval *)

\* A set of numbers that is not empty has a least one: of the intervals that end
\* in its members one has no other below it.
LEMMA LeastOf ==
    ASSUME NEW S \in SUBSET Nat, S # {}
    PROVE  \E k \in S : \A l \in S : k <= l
<1> DEFINE upto == {1..k : k \in S}
<1>1. upto \subseteq FiniteSubsetsOf(Nat)
  <2>1. ASSUME NEW k \in S
        PROVE  1..k \in FiniteSubsetsOf(Nat)
    <3>1. k \in Int /\ 1 \in Int
      OBVIOUS
    <3>2. IsFiniteSet(1..k)
      BY <3>1, FS_Interval
    <3>3. 1..k \subseteq Nat
      BY <3>1
    <3> QED
      BY <3>2, <3>3 DEF FiniteSubsetsOf
  <2> QED
    BY <2>1
<1>2. upto # {}
  OBVIOUS
<1>3. PICK x \in upto : \A y \in upto : <<y, x>> \notin StrictSubsetOrdering(Nat)
  <2> HIDE DEF upto
  <2> QED
    BY <1>1, <1>2, FS_StrictSubsetOrderingWellFounded, WFMin, Zenon
<1>4. PICK k \in S : x = 1..k
  OBVIOUS
<1>5. ASSUME NEW l \in S, l < k
      PROVE  FALSE
  <2>1. 1..l \in upto
    OBVIOUS
  <2>2. /\ 1..l \in SUBSET Nat /\ 1..k \in SUBSET Nat
        /\ 1..l \subseteq 1..k /\ 1..l # 1..k
    <3>1. k \in 1..k /\ k \notin 1..l
      BY <1>5
    <3> QED
      BY <1>5, <3>1
  <2>3. <<1..l, 1..k>> \in StrictSubsetOrdering(Nat)
    BY <2>2, Zenon DEF StrictSubsetOrdering
  <2> QED
    BY <1>3, <1>4, <2>1, <2>3, Zenon
<1> QED
  BY <1>5

\* Induction: a set of numbers that has 0, and with a number the next one, has
\* all.
LEMMA Induction ==
    ASSUME NEW n \in Nat, NEW S, 0 \in S,
           \A k \in 1..n : k - 1 \in S => k \in S
    PROVE  \A k \in 0..n : k \in S
<1> DEFINE out == {k \in 0..n : k \notin S}
<1>1. ASSUME out # {}
      PROVE  FALSE
  <2>1. out \in SUBSET Nat
    OBVIOUS
  <2>2. PICK k \in out : \A l \in out : k <= l
    <3> HIDE DEF out
    <3> QED
      BY <1>1, <2>1, LeastOf
  <2>3. k \in 1..n /\ k \notin S
    OBVIOUS
  <2>4. k - 1 \in 0..n /\ ~(k <= k - 1)
    BY <2>3
  <2>5. k - 1 \in S
    BY <2>2, <2>4
  <2> QED
    BY <2>3, <2>5
<1> QED
  BY <1>1

\* f begins with v and goes from each number to the next as step says.
Follows(f, step, v, n, V) ==
    /\ f \in [0..n -> V] /\ f[0] = v
    /\ \A k \in 1..n : f[k] = step[k][f[k - 1]]

\* There is such a function.
LEMMA Recursion ==
    ASSUME NEW V, NEW v \in V, NEW n \in Nat, NEW step \in [1..n -> [V -> V]]
    PROVE  \E f : Follows(f, step, v, n, V)
<1> DEFINE Upto(m, f) == Follows(f, step, v, m, V)
           S == {m \in 0..n : \E f : Upto(m, f)}
<1> USE DEF Follows
<1>1. 0 \in S
  <2>1. [k \in 0..0 |-> v][0] = v
    OBVIOUS
  <2>2. Upto(0, [k \in 0..0 |-> v])
    BY <2>1
  <2> HIDE DEF Upto
  <2> QED
    BY <2>2
<1>2. ASSUME NEW m \in 1..n, m - 1 \in S
      PROVE  m \in S
  <2>1. PICK f : Upto(m - 1, f)
    BY <1>2
  <2> DEFINE g == [k \in 0..m |-> IF k = m THEN step[m][f[m - 1]] ELSE f[k]]
  <2>2. m - 1 \in 0..(m - 1) /\ f[m - 1] \in V
    BY <2>1
  <2>3. step[m][f[m - 1]] \in V
    BY <2>2
  <2>4. \A k \in 0..(m - 1) : k \in 0..m /\ k # m /\ g[k] = f[k] /\ f[k] \in V
    BY <2>1
  <2>5. g \in [0..m -> V]
    <3>1. ASSUME NEW k \in 0..m
          PROVE  (IF k = m THEN step[m][f[m - 1]] ELSE f[k]) \in V
      <4>1. k = m \/ k \in 0..(m - 1)
        OBVIOUS
      <4> QED
        BY <2>3, <2>4, <4>1
    <3> QED
      BY <3>1
  <2>6. g[0] = v
    <3>1. 0 \in 0..(m - 1)
      OBVIOUS
    <3>2. g[0] = f[0]
      BY <2>4, <3>1
    <3> QED
      BY <2>1, <3>2
  <2>7. ASSUME NEW k \in 1..m
        PROVE  g[k] = step[k][g[k - 1]]
    <3>1. k - 1 \in 0..(m - 1)
      OBVIOUS
    <3>2. g[k - 1] = f[k - 1]
      BY <2>4, <3>1
    <3>3. CASE k = m
      BY <3>2, <3>3
    <3>4. CASE k # m
      <4>1. k \in 1..(m - 1) /\ k \in 0..m
        BY <3>4
      <4>2. g[k] = f[k] /\ f[k] = step[k][f[k - 1]]
        BY <2>1, <4>1, <3>4
      <4> QED
        BY <3>2, <4>2
    <3> QED
      BY <3>3, <3>4
  <2>8. Upto(m, g)
    <3> HIDE DEF g
    <3> QED
      BY <2>5, <2>6, <2>7
  <2> HIDE DEF Upto
  <2> QED
    BY <2>8
<1>3. n \in S
  <2> HIDE DEF S
  <2>1. \A k \in 1..n : k - 1 \in S => k \in S
    BY <1>2
  <2>2. \A k \in 0..n : k \in S
    BY <1>1, <2>1, Induction
  <2> QED
    BY <2>2
<1> HIDE DEF Follows
<1> QED
  BY <1>3
-----------------------------------------------------------------------------
(* The posts of the forum, page by page *)

\* Where posts are: a page and a place in it.
Places == Nat \X Nat
PostsOf(p) == [i \in 1..Len(Site[p]) |-> <<p, i>>]

\* The posts of the first p pages.
IsUpTo(f) == /\ f \in [0..Len(Site) -> Seq(Places)] /\ f[0] = <<>>
             /\ \A p \in Pages : f[p] = f[p - 1] \o PostsOf(p)
UpTo == CHOOSE f : IsUpTo(f)

\* How many posts come before those of a page.
Offset(p) == Len(UpTo[p - 1])

\* One sequence behind another.
LEMMA ConcatAt ==
    ASSUME NEW V, NEW s \in Seq(V), NEW u \in Seq(V)
    PROVE  /\ s \o u \in Seq(V) /\ Len(s \o u) = Len(s) + Len(u)
           /\ Len(s) \in Nat /\ Len(u) \in Nat
           /\ \A i \in 1..Len(s) : (s \o u)[i] = s[i]
           /\ \A i \in 1..Len(u) : (s \o u)[Len(s) + i] = u[i]
  OBVIOUS

\* The forum is a sequence of pages, each with its posts.
LEMMA PageIs ==
    ASSUME NEW p \in Pages
    PROVE  /\ Len(Site) \in Nat \ {0} /\ p \in Nat /\ p - 1 \in 0..Len(Site) /\ p \in 0..Len(Site)
           /\ Len(Site[p]) \in Nat
           /\ PostsOf(p) \in Seq(Places) /\ Len(PostsOf(p)) = Len(Site[p])
           /\ \A i \in 1..Len(Site[p]) : PostsOf(p)[i] = <<p, i>> /\ Site[p][i] \in PostType
<1>1. Len(Site) \in Nat \ {0}
  BY ConstAssumption
<1>2. p \in Nat /\ p - 1 \in 0..Len(Site) /\ p \in 0..Len(Site)
  BY <1>1 DEF Pages
<1>3. Site[p] \in Seq(PostType)
  BY ConstAssumption DEF Pages
<1>4. Len(Site[p]) \in Nat /\ \A i \in 1..Len(Site[p]) : Site[p][i] \in PostType
  BY <1>3
<1>5. \A i \in 1..Len(Site[p]) : <<p, i>> \in Places
  BY <1>2, <1>4 DEF Places
<1>6. /\ PostsOf(p) \in Seq(Places) /\ Len(PostsOf(p)) = Len(Site[p])
      /\ \A i \in 1..Len(Site[p]) : PostsOf(p)[i] = <<p, i>>
  BY <1>4, <1>5 DEF PostsOf
<1> QED
  BY <1>1, <1>2, <1>4, <1>6

\* There are such sequences: each page's posts put behind those before it.
LEMMA UpToIs == IsUpTo(UpTo)
<1> DEFINE n == Len(Site)
           step == [p \in 1..n |-> [s \in Seq(Places) |-> s \o PostsOf(p)]]
<1>1. n \in Nat
  BY ConstAssumption
<1>2. ASSUME NEW p \in 1..n, NEW s \in Seq(Places)
      PROVE  s \o PostsOf(p) \in Seq(Places)
  <2>1. PostsOf(p) \in Seq(Places)
    BY PageIs DEF Pages
  <2> QED
    BY <2>1
<1>3. step \in [1..n -> [Seq(Places) -> Seq(Places)]]
  BY <1>2
<1>4. <<>> \in Seq(Places)
  OBVIOUS
<1>5. PICK f \in [0..n -> Seq(Places)] :
          f[0] = <<>> /\ \A p \in 1..n : f[p] = step[p][f[p - 1]]
  <2> HIDE DEF n, step
  <2>1. \E f : Follows(f, step, <<>>, n, Seq(Places))
    BY <1>1, <1>3, <1>4, Recursion
  <2> QED
    BY <2>1 DEF Follows
<1>6. ASSUME NEW p \in Pages
      PROVE  f[p] = f[p - 1] \o PostsOf(p)
  <2>1. p \in 1..n /\ f[p - 1] \in Seq(Places)
    BY <1>1, <1>5 DEF Pages
  <2>2. step[p][f[p - 1]] = f[p - 1] \o PostsOf(p)
    BY <2>1
  <2> QED
    BY <1>5, <2>1, <2>2
<1>7. IsUpTo(f)
  BY <1>5, <1>6 DEF IsUpTo
<1> QED
  BY <1>7, Zenon DEF UpTo

\* The posts up to a page are a sequence, and those of the next page follow.
LEMMA UpToProperties ==
    /\ UpTo[0] = <<>>
    /\ \A p \in 0..Len(Site) : UpTo[p] \in Seq(Places) /\ Len(UpTo[p]) \in Nat
    /\ \A p \in Pages : UpTo[p] = UpTo[p - 1] \o PostsOf(p)
  BY UpToIs DEF IsUpTo

\* FlattenSeq puts the pages together in the same way.
LEMMA AllPostsAre == AllPosts = UpTo[Len(Site)]
<1> DEFINE n == Len(Site)
           s == [p \in Pages |-> [i \in 1..Len(Site[p]) |-> <<p, i>>]]
           IsFlat(f) == f = [i \in 1..Len(s) |-> IF i = 1 THEN s[i] ELSE f[i - 1] \o s[i]]
<1>1. /\ n \in Nat /\ n > 0 /\ Len(s) = n /\ Pages = 1..n
      /\ \A p \in 1..n : s[p] = PostsOf(p)
  BY ConstAssumption DEF Pages, PostsOf
<1> HIDE DEF s, n
<1>2. AllPosts = (CHOOSE f : IsFlat(f))[n]
  <2>1. AllPosts = FlattenSeq(s)
    BY DEF AllPosts, s
  <2>2. Len(s) # 0
    BY <1>1
  <2>3. FlattenSeq(s) = (CHOOSE f : IsFlat(f))[Len(s)]
    BY <2>2, Zenon DEF FlattenSeq
  <2> QED
    BY <1>1, <2>1, <2>3
<1>3. IsFlat([p \in 1..n |-> UpTo[p]])
  <2> DEFINE f == [p \in 1..n |-> UpTo[p]]
  <2>1. ASSUME NEW p \in 1..n
        PROVE  UpTo[p] = IF p = 1 THEN s[p] ELSE f[p - 1] \o s[p]
    <3>1. p \in Pages /\ s[p] = PostsOf(p) /\ UpTo[p] = UpTo[p - 1] \o PostsOf(p)
      BY <1>1, UpToProperties
    <3>2. CASE p = 1
      <4>1. UpTo[p - 1] = <<>> /\ PostsOf(p) \in Seq(Places)
        BY <3>1, <3>2, UpToProperties, PageIs
      <4>2. <<>> \o PostsOf(p) = PostsOf(p)
        BY <4>1
      <4> QED
        BY <3>1, <3>2, <4>1, <4>2
    <3>3. CASE p # 1
      <4>1. p - 1 \in 1..n
        BY <1>1, <3>3
      <4>2. f[p - 1] = UpTo[p - 1]
        BY <4>1
      <4> QED
        BY <3>1, <3>3, <4>2
    <3> QED
      BY <3>2, <3>3
  <2> QED
    BY <1>1, <2>1
<1> DEFINE g == CHOOSE f : IsFlat(f)
<1>4. IsFlat(g)
  <2> HIDE DEF IsFlat
  <2> QED
    BY <1>3, Zenon
<1>5. \A p \in 1..n : g[p] = IF p = 1 THEN s[p] ELSE g[p - 1] \o s[p]
  <2> HIDE DEF g
  <2> QED
    BY <1>1, <1>4
<1> HIDE DEF g
<1> DEFINE S == {p \in 0..n : p = 0 \/ g[p] = UpTo[p]}
<1>6. \A p \in 0..n : p \in S
  <2>1. 0 \in S
    BY <1>1
  <2>2. ASSUME NEW p \in 1..n, p - 1 \in S
        PROVE  p \in S
    <3>1. /\ p \in Pages /\ s[p] = PostsOf(p) /\ UpTo[p] = UpTo[p - 1] \o PostsOf(p)
      BY <1>1, UpToProperties
    <3>2. CASE p = 1
      <4>1. UpTo[p - 1] = <<>> /\ PostsOf(p) \in Seq(Places)
        BY <3>1, <3>2, UpToProperties, PageIs
      <4>2. <<>> \o PostsOf(p) = PostsOf(p)
        BY <4>1
      <4>3. g[p] = UpTo[p]
        BY <1>5, <3>1, <3>2, <4>1, <4>2
      <4> QED
        BY <4>3
    <3>3. CASE p # 1
      <4>1. g[p - 1] = UpTo[p - 1]
        BY <2>2, <3>3
      <4>2. g[p] = UpTo[p]
        BY <1>5, <3>1, <3>3, <4>1
      <4> QED
        BY <4>2
    <3> QED
      BY <3>2, <3>3
  <2> HIDE DEF S
  <2> QED
    BY <1>1, <2>1, <2>2, Induction
<1>7. n \in 1..n
  BY <1>1
<1>8. g[n] = UpTo[n]
  BY <1>6, <1>7
<1> QED
  BY <1>2, <1>8 DEF g, n

\* The posts are numbered page by page.
LEMMA PostHasNumber ==
    ASSUME NEW p \in Pages
    PROVE  /\ Offset(p) \in Nat /\ Len(AllPosts) \in Nat /\ AllPosts \in Seq(Places)
           /\ p + 1 \in Pages => Offset(p + 1) = Offset(p) + Len(Site[p])
           /\ Offset(p) + Len(Site[p]) <= Len(AllPosts)
           /\ \A i \in 1..Len(Site[p]) : /\ Offset(p) + i \in Numbers
                                         /\ AllPosts[Offset(p) + i] = <<p, i>>
<1> DEFINE n == Len(Site)
           m == Len(UpTo[p])
           S == {d \in 0..(n - p) : /\ m <= Len(UpTo[p + d])
                                    /\ \A k \in 1..m : UpTo[p + d][k] = UpTo[p][k]}
<1>1. /\ n \in Nat /\ p \in 1..n
      /\ \A q \in 0..n : UpTo[q] \in Seq(Places) /\ Len(UpTo[q]) \in Nat
      /\ \A q \in 1..n : UpTo[q] = UpTo[q - 1] \o PostsOf(q)
  <2>1. n \in Nat /\ Pages = 1..n
    BY ConstAssumption DEF Pages
  <2> QED
    BY <2>1, UpToProperties
<1>2. m \in Nat
  BY <1>1
<1>3. 0 \in S
  BY <1>1, <1>2
<1>4. ASSUME NEW d \in 1..(n - p), d - 1 \in S
      PROVE  d \in S
  <2> DEFINE a == UpTo[p + (d - 1)]
             b == PostsOf(p + d)
  <2>1. p + d \in 1..n /\ (p + d) - 1 = p + (d - 1) /\ p + (d - 1) \in 0..n /\ p + d \in 0..n
    BY <1>1
  <2>2. a \in Seq(Places) /\ b \in Seq(Places) /\ UpTo[p + d] = a \o b /\ Len(a) \in Nat
        /\ Len(b) \in Nat
    BY <1>1, <2>1, PageIs DEF Pages
  <2>3. m <= Len(a) /\ \A k \in 1..m : a[k] = UpTo[p][k]
    BY <1>4
  <2> HIDE DEF a, b, m
  <2>4. Len(a \o b) = Len(a) + Len(b) /\ \A k \in 1..Len(a) : (a \o b)[k] = a[k]
    BY <2>2
  <2>5. /\ m <= Len(UpTo[p + d])
        /\ \A k \in 1..m : UpTo[p + d][k] = UpTo[p][k]
    BY <1>2, <2>2, <2>3, <2>4
  <2> QED
    BY <2>5 DEF m
<1>5. n - p \in S
  <2>1. n - p \in Nat /\ n - p \in 0..(n - p)
    BY <1>1
  <2> HIDE DEF S, m
  <2> QED
    BY <1>3, <1>4, <2>1, Induction
<1>6. /\ m <= Len(AllPosts) /\ \A k \in 1..m : AllPosts[k] = UpTo[p][k]
      /\ AllPosts \in Seq(Places) /\ Len(AllPosts) \in Nat
  <2>1. p + (n - p) = n /\ n \in 0..n
    BY <1>1
  <2>2. AllPosts = UpTo[p + (n - p)]
    BY <2>1, AllPostsAre
  <2> HIDE DEF m
  <2> QED
    BY <1>1, <1>5, <2>1, <2>2
<1> DEFINE a == UpTo[p - 1]
           b == PostsOf(p)
<1>7. /\ a \in Seq(Places) /\ b \in Seq(Places) /\ UpTo[p] = a \o b /\ Len(a) \in Nat
      /\ Len(b) = Len(Site[p]) /\ Len(Site[p]) \in Nat
      /\ \A i \in 1..Len(Site[p]) : b[i] = <<p, i>>
  BY <1>1, PageIs, UpToProperties
<1>8. Len(a) = Offset(p)
  BY DEF Offset
<1> HIDE DEF a, b
<1>9. m = Len(a) + Len(b) /\ \A i \in 1..Len(b) : (a \o b)[Len(a) + i] = b[i]
  <2>1. /\ Len(a \o b) = Len(a) + Len(b) /\ Len(b) \in Nat
        /\ \A i \in 1..Len(b) : (a \o b)[Len(a) + i] = b[i]
    <3>1. a \in Seq(Places) /\ b \in Seq(Places)
      BY <1>7
    <3> QED
      BY <3>1, ConcatAt
  <2>2. m = Len(a \o b)
    BY <1>7
  <2> HIDE DEF m
  <2> QED
    BY <2>1, <2>2
<1>10. ASSUME NEW i \in 1..Len(Site[p])
       PROVE  Offset(p) + i \in Numbers /\ AllPosts[Offset(p) + i] = <<p, i>>
  <2>1. Len(a) + i \in 1..m
    BY <1>7, <1>9
  <2>2. Len(a) + i \in 1..Len(AllPosts) /\ AllPosts[Len(a) + i] = UpTo[p][Len(a) + i]
    <3> HIDE DEF m
    <3> QED
      BY <1>2, <1>6, <2>1
  <2>3. UpTo[p][Len(a) + i] = b[i] /\ b[i] = <<p, i>>
    BY <1>7, <1>9
  <2> QED
    BY <1>8, <2>2, <2>3 DEF Numbers
<1>11. p + 1 \in Pages => Offset(p + 1) = Offset(p) + Len(Site[p])
  <2>1. (p + 1) - 1 = p
    BY <1>1
  <2> QED
    BY <1>7, <1>8, <1>9, <2>1 DEF Offset
<1>12. Offset(p) + Len(Site[p]) <= Len(AllPosts)
  BY <1>6, <1>7, <1>8, <1>9
<1> QED
  BY <1>6, <1>7, <1>8, <1>10, <1>11, <1>12

\* What the definition of Texts says of each number.
LEMMA TextsAre ==
    ASSUME NEW chosen
    PROVE  /\ Texts(chosen) \in [0..Len(AllPosts) -> Seq(Seq(Places))]
           /\ Texts(chosen)[0] = <<>>
           /\ \A n \in Numbers :
                Texts(chosen)[n] = IF n \in chosen
                                   THEN Append(Texts(chosen)[n - 1], <<AllPosts[n]>>)
                                   ELSE Texts(chosen)[n - 1]
<1> DEFINE N == Len(AllPosts)
           V == Seq(Seq(Places))
           IsTexts(f) ==
               f = [n \in 0..N |-> IF n = 0 THEN <<>>
                                   ELSE IF n \in chosen THEN Append(f[n - 1], <<AllPosts[n]>>)
                                   ELSE f[n - 1]]
           step == [n \in 1..N |-> [s \in V |->
                       IF n \in chosen THEN Append(s, <<AllPosts[n]>>) ELSE s]]
<1>1. N \in Nat /\ AllPosts \in Seq(Places)
  <2>1. Len(Site) \in 0..Len(Site)
    BY ConstAssumption
  <2> QED
    BY <2>1, AllPostsAre, UpToProperties
<1>2. Texts(chosen) = CHOOSE f : IsTexts(f)
  BY DEF Texts
<1>3. step \in [1..N -> [V -> V]]
  <2>1. ASSUME NEW n \in 1..N, NEW s \in V
        PROVE  (IF n \in chosen THEN Append(s, <<AllPosts[n]>>) ELSE s) \in V
    <3>1. AllPosts[n] \in Places
      BY <1>1
    <3>2. <<AllPosts[n]>> \in Seq(Places)
      BY <3>1
    <3> QED
      BY <3>2
  <2> HIDE DEF N, V
  <2> QED
    BY <2>1
<1>4. <<>> \in V
  OBVIOUS
<1> HIDE DEF N, V
<1>5. PICK f \in [0..N -> V] : f[0] = <<>> /\ \A n \in 1..N : f[n] = step[n][f[n - 1]]
  <2> HIDE DEF step
  <2>1. \E f : Follows(f, step, <<>>, N, V)
    BY <1>1, <1>3, <1>4, Recursion
  <2> QED
    BY <2>1 DEF Follows
<1>6. \A n \in 1..N : f[n] = IF n \in chosen THEN Append(f[n - 1], <<AllPosts[n]>>)
                             ELSE f[n - 1]
  <2> TAKE n \in 1..N
  <2>1. n - 1 \in 0..N
    BY <1>1
  <2>2. f[n - 1] \in V
    BY <1>5, <2>1
  <2>3. step[n][f[n - 1]] = IF n \in chosen THEN Append(f[n - 1], <<AllPosts[n]>>)
                            ELSE f[n - 1]
    BY <2>2
  <2> HIDE DEF step
  <2> QED
    BY <1>5, <2>3
<1> HIDE DEF step
<1>7. IsTexts(f)
  <2>1. ASSUME NEW n \in 0..N
        PROVE  f[n] = IF n = 0 THEN <<>>
                      ELSE IF n \in chosen THEN Append(f[n - 1], <<AllPosts[n]>>)
                      ELSE f[n - 1]
    <3>1. n = 0 \/ n \in 1..N
      BY <1>1
    <3> QED
      BY <1>5, <1>6, <3>1
  <2> QED
    BY <1>5, <2>1
<1> DEFINE g == Texts(chosen)
<1>8. IsTexts(g)
  <2> HIDE DEF IsTexts
  <2> QED
    BY <1>2, <1>7, Zenon
<1> HIDE DEF g
<1>9. 0 \in 0..N /\ \A n \in 1..N : n \in 0..N /\ n # 0 /\ n - 1 \in 0..N
  BY <1>1
<1>10. g[0] = <<>>
  BY <1>8, <1>9
<1>11. ASSUME NEW n \in 1..N
       PROVE  g[n] = IF n \in chosen THEN Append(g[n - 1], <<AllPosts[n]>>) ELSE g[n - 1]
  BY <1>8, <1>9
<1>12. \A n \in 0..N : n \in {k \in 0..N : g[k] \in V}
  <2> DEFINE S == {k \in 0..N : g[k] \in V}
  <2>1. 0 \in S
    BY <1>4, <1>9, <1>10
  <2>2. ASSUME NEW n \in 1..N, n - 1 \in S
        PROVE  n \in S
    <3>1. g[n - 1] \in V /\ n - 1 \in 0..N /\ n \in 0..N
      BY <1>9, <2>2
    <3>2. AllPosts[n] \in Places
      BY <1>1 DEF N
    <3>3. <<AllPosts[n]>> \in Seq(Places)
      BY <3>2
    <3>4. Append(g[n - 1], <<AllPosts[n]>>) \in V
      BY <3>1, <3>3 DEF V
    <3>5. g[n] \in V
      BY <1>11, <3>1, <3>4
    <3> QED
      BY <3>1, <3>5
  <2> HIDE DEF S
  <2>3. \A n \in 0..N : n \in S
    BY <1>1, <2>1, <2>2, Induction
  <2> QED
    BY <2>3 DEF S
<1>13. g \in [0..N -> V]
  <2>1. \A n \in 0..N : g[n] \in V
    BY <1>12
  <2>2. g = [n \in 0..N |-> g[n]]
    BY <1>8
  <2> HIDE DEF IsTexts
  <2> QED
    BY <2>1, <2>2
<1> QED
  BY <1>10, <1>11, <1>13 DEF g, N, V, Numbers
-----------------------------------------------------------------------------
(* Gathering texts *)

\* What was gathered only grows: it is the beginning of what will be.
LEMMA TextsGrow ==
    ASSUME NEW chosen, NEW n \in 0..Len(AllPosts)
    PROVE  LET all == Texts(chosen)[Len(AllPosts)]
               now == Texts(chosen)[n]
           IN Len(now) <= Len(all) /\ \A k \in 1..Len(now) : all[k] = now[k]
<1> DEFINE N == Len(AllPosts)
           f == Texts(chosen)
           V == Seq(Seq(Places))
           S == {d \in 0..(N - n) : /\ Len(f[n]) <= Len(f[n + d])
                                    /\ \A k \in 1..Len(f[n]) : f[n + d][k] = f[n][k]}
<1>1. N \in Nat /\ n \in 0..N
  <2>1. 1 \in Pages
    BY ConstAssumption DEF Pages
  <2> QED
    BY <2>1, PostHasNumber
<1>2. /\ \A k \in 0..N : f[k] \in V
      /\ \A k \in 1..N : f[k] = IF k \in chosen THEN Append(f[k - 1], <<AllPosts[k]>>)
                                ELSE f[k - 1]
  BY TextsAre DEF Numbers
<1>3. \A k \in 1..N : <<AllPosts[k]>> \in Seq(Places)
  <2>1. 1 \in Pages
    BY ConstAssumption DEF Pages
  <2>2. AllPosts \in Seq(Places)
    BY <2>1, PostHasNumber
  <2>3. \A k \in 1..N : AllPosts[k] \in Places
    BY <2>2
  <2> QED
    BY <2>3
<1> HIDE DEF N, f
<1>4. 0 \in S
  <2>1. f[n] \in V
    BY <1>1, <1>2
  <2>2. Len(f[n]) \in Nat /\ n + 0 = n
    BY <1>1, <2>1
  <2> QED
    BY <1>1, <2>2
<1>5. ASSUME NEW d \in 1..(N - n), d - 1 \in S
      PROVE  d \in S
  <2>1. /\ n + d \in 1..N /\ n + d \in 0..N /\ (n + d) - 1 = n + (d - 1)
        /\ n + (d - 1) \in 0..N
    BY <1>1
  <2> DEFINE a == f[n + (d - 1)]
             x == <<AllPosts[n + d]>>
  <2>2. a \in V /\ f[n] \in V
    BY <1>1, <1>2, <2>1
  <2>3. f[n + d] = Append(a, x) \/ f[n + d] = a
    BY <1>2, <2>1
  <2>4. x \in Seq(Places)
    BY <1>3, <2>1
  <2>5. Len(f[n]) <= Len(a) /\ \A k \in 1..Len(f[n]) : a[k] = f[n][k]
    BY <1>5
  <2> HIDE DEF a, x
  <2>6. /\ Len(a) \in Nat /\ Len(f[n]) \in Nat /\ Len(Append(a, x)) = Len(a) + 1
        /\ \A k \in 1..Len(a) : Append(a, x)[k] = a[k]
    BY <2>2, <2>4
  <2>7. /\ Len(f[n]) <= Len(f[n + d])
        /\ \A k \in 1..Len(f[n]) : f[n + d][k] = f[n][k]
    BY <2>3, <2>5, <2>6
  <2> QED
    BY <2>7
<1>6. N - n \in S
  <2>1. N - n \in Nat /\ N - n \in 0..(N - n)
    BY <1>1
  <2> HIDE DEF S
  <2> QED
    BY <1>4, <1>5, <2>1, Induction
<1>7. n + (N - n) = N
  BY <1>1
<1> QED
  BY <1>6, <1>7 DEF f, N

\* The next chosen post comes next in all that will be gathered.
LEMMA NextText ==
    ASSUME NEW chosen, NEW n \in Numbers, n \in chosen
    PROVE  LET all == Texts(chosen)[Len(AllPosts)]
               old == Texts(chosen)[n - 1]
           IN /\ old \in Seq(Seq(Places))
              /\ Len(old) < Len(all) /\ all[Len(old) + 1] = <<AllPosts[n]>>
              /\ Texts(chosen)[n] = Append(old, <<AllPosts[n]>>)
<1> DEFINE N == Len(AllPosts)
           f == Texts(chosen)
<1>1. N \in Nat /\ AllPosts \in Seq(Places)
  <2>1. 1 \in Pages
    BY ConstAssumption DEF Pages
  <2> QED
    BY <2>1, PostHasNumber
<1>2. n \in 1..N /\ n \in 0..N /\ n - 1 \in 0..N
  BY <1>1 DEF Numbers
<1>3. /\ f[n - 1] \in Seq(Seq(Places)) /\ f[N] \in Seq(Seq(Places))
      /\ f[n] = Append(f[n - 1], <<AllPosts[n]>>)
  <2>1. f[n] = Append(f[n - 1], <<AllPosts[n]>>)
    BY TextsAre
  <2>2. f \in [0..N -> Seq(Seq(Places))] /\ N \in 0..N
    BY <1>1, TextsAre
  <2> HIDE DEF f, N
  <2> QED
    BY <1>2, <2>1, <2>2
<1>4. <<AllPosts[n]>> \in Seq(Places)
  <2>1. AllPosts[n] \in Places
    BY <1>1, <1>2
  <2> QED
    BY <2>1
<1>5. Len(f[n]) <= Len(f[N]) /\ \A k \in 1..Len(f[n]) : f[N][k] = f[n][k]
  BY <1>2, TextsGrow
<1> HIDE DEF f, N
<1>6. /\ Len(f[n - 1]) \in Nat /\ Len(f[n]) = Len(f[n - 1]) + 1 /\ Len(f[N]) \in Nat
      /\ f[n][Len(f[n - 1]) + 1] = <<AllPosts[n]>>
  BY <1>3, <1>4
<1>7. Len(f[n - 1]) + 1 \in 1..Len(f[n])
  BY <1>6
<1>8. Len(f[n - 1]) < Len(f[N]) /\ f[N][Len(f[n - 1]) + 1] = <<AllPosts[n]>>
  BY <1>5, <1>6, <1>7
<1> QED
  BY <1>3, <1>8 DEF f, N
-----------------------------------------------------------------------------
(* Where the parser is *)

\* The place of a line behind the pager in its post, and the posts before it.
Spot(k) == (k - 4) % 5
Done(k) == IF k < 4 THEN 0 ELSE (k - 4) \div 5

\* While a page is read the parser's state, the text gathered and the pager
\* already seen follow from the line, and bylines counts the posts.
ParserInv ==
    /\ line <= LineCount(m_post_url) + 1
    /\ bylines = Offset(m_post_url) + Done(line)
    /\ line > 1 => author = Host
    /\ line <= LineCount(m_post_url) =>
        /\ line < 4 \/ Spot(line) = 0 => m_state = "unknown"
        /\ line >= 4 /\ Spot(line) \in {1, 2} => m_state = "bbs_content"
        /\ line >= 4 /\ Spot(line) \in {3, 4} => m_state = "author"
        /\ line >= 4 /\ Spot(line) = 1 => m_context = <<>>
        /\ line >= 4 /\ Spot(line) \in 2..4 => m_context = <<PostOf(m_post_url, line)>>
        /\ m_next_page_url = IF line <= 3 \/ m_post_url = Len(Site) THEN "empty" ELSE "skip"

\* Before that, everything is as it was left by the page before.
PlaceInv ==
    /\ author \in {NoOne, Host}
    /\ ~started => bylines = 0 /\ m_next_page_url = "empty" /\ m_users = {} /\ context = <<>>
    /\ \A op \in ops : op.kind # "line" =>
        bylines = Offset(m_post_url) /\ m_state = "unknown" /\ m_next_page_url = "empty"
    /\ \A op \in ops : op.kind = "line" => ParserInv

\* What was emitted and, with the filter on and untouched, what was kept.
TextInv ==
    /\ bylines \in 0..Len(AllPosts)
    /\ fetched = Texts(ByHost)[bylines]
    /\ steady /\ m_filter_reply => m_users = Seen(bylines) /\ context = Texts(Kept)[bylines]

\* Only replies are missing from what was kept, which is in order.
SomeKept ==
    /\ context \in Seq(Seq(Places))
    /\ ToSet(context) \subseteq ToSet(fetched)
    /\ \A text \in ToSet(fetched) :
        (\A t \in ToSet(text) : PostAt(t).quotes = NoOne) => text \in ToSet(context)
    /\ \A i, j \in 1..Len(context) : i < j => Before(Last(context[i]), Head(context[j]))
    /\ \A i \in 1..Len(context) :
        /\ Len(context[i]) = 1
        /\ Before(context[i][1], <<m_post_url, bylines - Offset(m_post_url) + 1>>)

Whole == IInv /\ PlaceInv /\ TextInv /\ SomeKept

\* The lines of a page, by number.
LEMMA KindAt ==
    ASSUME NEW p \in Pages, NEW k \in Nat, k > 0, k <= LineCount(p)
    PROVE  /\ LineCount(p) \in Nat /\ LineCount(p) >= 4 /\ Spot(LineCount(p)) = 0
           /\ Done(LineCount(p)) = Len(Site[p])
           /\ k < 3 => Kind(p, k) \in {"author_meta", "page_count"}
           /\ k = 1 => Kind(p, k) = "author_meta"
           /\ k \in {3, LineCount(p)} => Kind(p, k) = IF p < Len(Site) THEN "next" ELSE "other"
           /\ k >= 4 /\ k # LineCount(p) =>
                /\ Kind(p, k) # "next" /\ Spot(k) \in 0..4
                /\ Kind(p, k) = "open" <=> Spot(k) = 0
                /\ Kind(p, k) = "close" <=> Spot(k) = 2
                /\ Kind(p, k) = "byline" <=> Spot(k) = 4
           /\ k < 4 \/ k = LineCount(p) => Kind(p, k) \notin {"open", "close", "byline"}
<1>1. Len(Site[p]) \in Nat /\ Len(Site) \in Nat /\ p \in Nat
  BY PageIs
<1>2. LineCount(p) \in Nat /\ LineCount(p) >= 4
  BY <1>1 DEF LineCount
<1>3. Spot(LineCount(p)) = 0 /\ Done(LineCount(p)) = Len(Site[p])
  <2>1. \A n \in Nat : ((4 + 5 * n) - 4) % 5 = 0 /\ ((4 + 5 * n) - 4) \div 5 = n
    OBVIOUS
  <2>2. LineCount(p) = 4 + 5 * Len(Site[p])
    BY DEF LineCount
  <2>3. (LineCount(p) - 4) % 5 = 0 /\ (LineCount(p) - 4) \div 5 = Len(Site[p])
    BY <1>1, <2>1, <2>2
  <2> QED
    BY <1>2, <2>3 DEF Spot, Done
<1>4. k < 4 \/ k = LineCount(p) =>
        Kind(p, k) = IF k = 1 THEN "author_meta" ELSE IF k = 2 THEN "page_count"
                     ELSE IF p < Len(Site) THEN "next" ELSE "other"
  BY <1>1, <1>2 DEF Kind
<1>5. ASSUME k >= 4, k # LineCount(p)
      PROVE  /\ Spot(k) \in 0..4 /\ Kind(p, k) = PostKinds[Spot(k) + 1]
  BY <1>1, <1>5 DEF Kind, Spot
<1>6. /\ PostKinds[1] = "open" /\ PostKinds[2] = "text" /\ PostKinds[3] = "close"
      /\ PostKinds[4] = "other" /\ PostKinds[5] = "byline"
  BY DEF PostKinds
<1>7. ASSUME k >= 4, k # LineCount(p)
      PROVE  /\ Kind(p, k) # "next" /\ Spot(k) \in 0..4
             /\ Kind(p, k) = "open" <=> Spot(k) = 0
             /\ Kind(p, k) = "close" <=> Spot(k) = 2
             /\ Kind(p, k) = "byline" <=> Spot(k) = 4
  <2>1. Spot(k) = 0 \/ Spot(k) = 1 \/ Spot(k) = 2 \/ Spot(k) = 3 \/ Spot(k) = 4
    BY <1>5, <1>7
  <2> QED
    BY <1>5, <1>6, <1>7, <2>1
<1> QED
  BY <1>2, <1>3, <1>4, <1>7

\* From a line to the next.
LEMMA NextSpot ==
    ASSUME NEW k \in Nat, k > 0
    PROVE  /\ k >= 4 => Spot(k) \in 0..4 /\ Done(k) \in Nat
           /\ k < 4 => Done(k) = 0
           /\ k + 1 = 4 => Spot(k + 1) = 0 /\ Done(k + 1) = 0
           /\ k >= 4 /\ Spot(k) # 4 => /\ Spot(k + 1) = Spot(k) + 1 /\ Done(k + 1) = Done(k)
                                       /\ \A p : PostOf(p, k + 1) = PostOf(p, k)
           /\ k >= 4 /\ Spot(k) = 4 => Spot(k + 1) = 0 /\ Done(k + 1) = Done(k) + 1
           /\ k >= 4 => \A p : PostOf(p, k) = <<p, Done(k) + 1>>
<1>1. k >= 4 => Spot(k) \in 0..4 /\ Done(k) \in Nat
  BY DEF Spot, Done
<1>2. (k < 4 => Done(k) = 0) /\ (k + 1 = 4 => Spot(k + 1) = 0 /\ Done(k + 1) = 0)
  BY DEF Spot, Done
<1>3. ASSUME k >= 4, Spot(k) # 4
      PROVE  Spot(k + 1) = Spot(k) + 1 /\ Done(k + 1) = Done(k)
             /\ ((k + 1) - 4) \div 5 = (k - 4) \div 5
  BY <1>3 DEF Spot, Done
<1>4. ASSUME k >= 4, Spot(k) = 4
      PROVE  Spot(k + 1) = 0 /\ Done(k + 1) = Done(k) + 1
  BY <1>4 DEF Spot, Done
<1>5. k >= 4 => \A p : PostOf(p, k) = <<p, Done(k) + 1>>
  BY DEF PostOf, Done
<1> QED
  BY <1>1, <1>2, <1>3, <1>4, <1>5 DEF PostOf

\* The line being read, when there is one.
LEMMA Reading ==
    ASSUME Whole, NEW op \in ops, op.kind = "line"
    PROVE  /\ ParserInv /\ ops = {op} /\ started /\ m_post_url \in Pages
           /\ line \in Nat /\ line > 0 /\ LineCount(m_post_url) \in Nat
           /\ Len(Site) \in Nat /\ m_post_url <= Len(Site)
<1>1. ops = {op} /\ started
  BY DEF Whole, IInv, FlightInv, SingleFlight
<1>2. m_post_url \in Pages /\ line \in Nat /\ line > 0
  BY <1>1, ConstAssumption DEF Whole, IInv, TypeOK, started, Pages
<1>3. ParserInv
  BY DEF Whole, PlaceInv
<1>4. /\ Len(Site) \in Nat /\ m_post_url <= Len(Site) /\ Len(Site[m_post_url]) \in Nat
  BY <1>2, PageIs DEF Pages
<1>5. LineCount(m_post_url) \in Nat
  BY <1>4 DEF LineCount
<1> QED
  BY <1>1, <1>2, <1>3, <1>4, <1>5

\* A byline is that of the next post, whose text has been gathered.
LEMMA BylineIs ==
    ASSUME Whole, NEW op \in ops, OnByline(op)
    PROVE  /\ Spot(line) = 4 /\ line >= 4 /\ line < LineCount(m_post_url)
           /\ bylines + 1 \in Numbers /\ bylines \in Nat
           /\ AllPosts[bylines + 1] = PostOf(m_post_url, line)
           /\ PostOf(m_post_url, line) = <<m_post_url, (bylines - Offset(m_post_url)) + 1>>
           /\ Offset(m_post_url) \in Nat
           /\ m_context = <<AllPosts[bylines + 1]>> /\ author = Host
           /\ PostAt(AllPosts[bylines + 1]) \in PostType
<1>1. op.kind = "line" /\ line <= LineCount(m_post_url) /\ kindNow = "byline"
  BY DEF OnByline, GotLine
<1>2. /\ ParserInv /\ m_post_url \in Pages /\ line \in Nat /\ line > 0
      /\ LineCount(m_post_url) \in Nat
  BY <1>1, Reading
<1>3. line >= 4 /\ line # LineCount(m_post_url) /\ Spot(line) = 4
  <2>1. ~(line < 4 \/ line = LineCount(m_post_url))
    BY <1>1, <1>2, KindAt DEF kindNow
  <2> QED
    BY <1>1, <1>2, <2>1, KindAt DEF kindNow
<1>4. Done(line) + 1 \in 1..Len(Site[m_post_url])
  <2>1. Len(Site[m_post_url]) \in Nat
    BY <1>2, PageIs
  <2>2. line < 4 + 5 * Len(Site[m_post_url])
    BY <1>1, <1>2, <1>3 DEF LineCount
  <2> QED
    BY <1>2, <1>3, <2>1, <2>2 DEF Done
<1>5. /\ Offset(m_post_url) + (Done(line) + 1) \in Numbers /\ Offset(m_post_url) \in Nat
      /\ AllPosts[Offset(m_post_url) + (Done(line) + 1)] = <<m_post_url, Done(line) + 1>>
  BY <1>2, <1>4, PostHasNumber
<1>6. bylines = Offset(m_post_url) + Done(line) /\ Done(line) \in Nat
  BY <1>2, <1>3, NextSpot DEF ParserInv
<1>7. /\ bylines + 1 = Offset(m_post_url) + (Done(line) + 1)
      /\ Done(line) = bylines - Offset(m_post_url) /\ bylines \in Nat
  BY <1>5, <1>6
<1>8. PostOf(m_post_url, line) = <<m_post_url, Done(line) + 1>>
  BY <1>2, <1>3, NextSpot
<1>9. m_context = <<PostOf(m_post_url, line)>> /\ author = Host
  BY <1>1, <1>2, <1>3 DEF ParserInv
<1>10. PostAt(<<m_post_url, Done(line) + 1>>) \in PostType
  BY <1>2, <1>4, PageIs DEF PostAt
<1> QED
  BY <1>1, <1>2, <1>3, <1>5, <1>7, <1>8, <1>9, <1>10

\* The parser keeps step with the lines of the page.
LEMMA LinePlace ==
    ASSUME Whole, NEW op \in ops,
           OnHeadLine(op) \/ OnFirstPager(op) \/ OnBodyLine(op)
             \/ OnOtherLine(op) \/ OnByline(op)
    PROVE  PlaceInv'
<1> DEFINE p == m_post_url
<1>1. /\ op.kind = "line" /\ line <= LineCount(p)
      /\ Loop(op) /\ line' = line + 1 /\ m_post_url' = m_post_url
  BY DEF OnHeadLine, OnFirstPager, OnBodyLine, OnOtherLine, OnByline, GotLine
<1>2. /\ ParserInv /\ p \in Pages /\ line \in Nat /\ line > 0 /\ started
      /\ LineCount(p) \in Nat /\ Len(Site) \in Nat /\ p <= Len(Site) /\ p \in Nat
  BY <1>1, Reading, PageIs
<1>3. \A o \in ops' : o.kind = "line"
  BY <1>1, LoopStep DEF Whole
<1>4. author' \in {NoOne, Host} /\ (line' > 1 => author' = Host)
  <2>1. author \in {NoOne, Host} /\ (line > 1 => author = Host)
    BY <1>2 DEF Whole, PlaceInv, ParserInv
  <2>2. CASE line > 1
    <3>1. author' = author
      BY <2>1, <2>2, ConstAssumption DEF OnHeadLine, OnFirstPager, OnBodyLine, OnOtherLine, OnByline
    <3> QED
      BY <2>1, <2>2, <3>1
  <2>3. CASE line = 1
    <3>1. kindNow = "author_meta" /\ m_state = "unknown"
      BY <1>1, <1>2, <2>3, KindAt DEF kindNow, ParserInv
    <3>2. OnHeadLine(op)
      BY <3>1 DEF OnFirstPager, OnBodyLine, OnOtherLine, OnByline, GotLine
    <3> QED
      BY <2>1, <3>1, <3>2 DEF OnHeadLine
  <2> QED
    BY <1>2, <2>2, <2>3
<1>5. /\ Offset(p)' = Offset(p) /\ LineCount(p)' = LineCount(p)
  BY <1>1
<1>6. /\ line' <= LineCount(p) + 1
      /\ bylines' = Offset(p) + Done(line')
  <2>1. bylines = Offset(p) + Done(line) /\ Offset(p) \in Nat
    BY <1>2, PostHasNumber DEF ParserInv
  <2>2. CASE OnByline(op)
    <3>1. Spot(line) = 4 /\ line >= 4
      BY <2>2, BylineIs
    <3>2. Done(line + 1) = Done(line) + 1 /\ Done(line) \in Nat
      BY <1>2, <3>1, NextSpot
    <3>3. bylines' = bylines + 1 /\ bylines \in Int
      BY <2>1, <2>2, <3>2 DEF OnByline
    <3> QED
      BY <1>1, <1>2, <2>1, <3>2, <3>3
  <2>3. CASE OnHeadLine(op) \/ OnFirstPager(op) \/ OnBodyLine(op) \/ OnOtherLine(op)
    <3>1. bylines' = bylines
      BY <2>3 DEF OnHeadLine, OnFirstPager, OnBodyLine, OnOtherLine
    <3>2. line < LineCount(p) => ~(line >= 4 /\ Spot(line) = 4)
      <4>1. ASSUME line < LineCount(p), line >= 4, Spot(line) = 4
            PROVE  FALSE
        <5>1. m_state = "author" /\ kindNow = "byline"
          BY <1>1, <1>2, <4>1, KindAt DEF ParserInv, kindNow
        <5> QED
          BY <2>3, <5>1 DEF OnHeadLine, OnFirstPager, OnBodyLine, OnOtherLine, GotLine
      <4> QED
        BY <4>1
    <3>3. Spot(LineCount(p)) = 0
      BY <1>1, <1>2, KindAt
    <3>4. ~(line >= 4 /\ Spot(line) = 4)
      BY <1>1, <1>2, <3>2, <3>3
    <3>5. Done(line + 1) = Done(line)
      BY <1>2, <3>4, NextSpot
    <3> QED
      BY <1>1, <1>2, <2>1, <3>1, <3>5
  <2> QED
    BY <2>2, <2>3
<1>7. ASSUME line' <= LineCount(p)
      PROVE  /\ line' < 4 \/ Spot(line') = 0 => m_state' = "unknown"
             /\ line' >= 4 /\ Spot(line') \in {1, 2} => m_state' = "bbs_content"
             /\ line' >= 4 /\ Spot(line') \in {3, 4} => m_state' = "author"
             /\ line' >= 4 /\ Spot(line') = 1 => m_context' = <<>>
             /\ line' >= 4 /\ Spot(line') \in 2..4 => m_context' = <<PostOf(p, line')>>
             /\ m_next_page_url' = IF line' <= 3 \/ p = Len(Site) THEN "empty" ELSE "skip"
  <2>1. line < LineCount(p) /\ line + 1 <= LineCount(p)
    BY <1>1, <1>2, <1>7
  <2>2. CASE line < 3
    <3>1. kindNow \in {"author_meta", "page_count"} /\ m_state = "unknown"
          /\ m_next_page_url = "empty"
      BY <1>1, <1>2, <2>2, KindAt DEF kindNow, ParserInv
    <3>2. OnHeadLine(op)
      BY <3>1 DEF OnFirstPager, OnBodyLine, OnOtherLine, OnByline, GotLine
    <3>3. m_state' = "unknown" /\ m_next_page_url' = "empty"
      BY <3>1, <3>2 DEF OnHeadLine
    <3> QED
      BY <1>1, <1>2, <2>2, <3>3
  <2>3. CASE line = 3
    <3>1. /\ kindNow = IF p < Len(Site) THEN "next" ELSE "other"
          /\ m_state = "unknown" /\ m_next_page_url = "empty"
      BY <1>1, <1>2, <2>3, KindAt DEF kindNow, ParserInv
    <3>2. line' = 4 /\ Spot(line') = 0
      BY <1>1, <2>3, NextSpot
    <3>3. CASE p < Len(Site)
      <4>1. OnFirstPager(op)
        BY <3>1, <3>3 DEF OnHeadLine, OnBodyLine, OnOtherLine, OnByline, GotLine
      <4>2. m_state' = "unknown" /\ m_next_page_url' = "skip"
        BY <3>1, <4>1 DEF OnFirstPager
      <4> QED
        BY <1>2, <3>2, <3>3, <4>2
    <3>4. CASE p = Len(Site)
      <4>1. OnHeadLine(op) /\ kindNow = "other"
        BY <1>2, <3>1, <3>4 DEF OnFirstPager, OnBodyLine, OnOtherLine, OnByline, GotLine
      <4>2. m_state' = "unknown" /\ m_next_page_url' = "empty"
        BY <3>1, <4>1 DEF OnHeadLine
      <4> QED
        BY <1>2, <3>2, <3>4, <4>2
    <3> QED
      BY <1>2, <3>3, <3>4
  <2>4. CASE line >= 4
    <3>1. /\ ~(line' <= 3) /\ ~(line' < 4) /\ line' >= 4
          /\ m_next_page_url = IF p = Len(Site) THEN "empty" ELSE "skip"
      BY <1>1, <1>2, <2>4 DEF ParserInv
    <3>2. kindNow # "next" /\ Spot(line) \in 0..4
      BY <1>1, <1>2, <2>1, <2>4, KindAt DEF kindNow
    <3>3. m_next_page_url' = m_next_page_url
      BY <3>2 DEF OnHeadLine, OnFirstPager, OnBodyLine, OnOtherLine, OnByline
    <3>4. CASE Spot(line) = 0
      <4>1. kindNow = "open" /\ m_state = "unknown"
        BY <1>1, <1>2, <2>1, <2>4, <3>4, KindAt DEF kindNow, ParserInv
      <4>2. OnHeadLine(op)
        BY <4>1 DEF OnFirstPager, OnBodyLine, OnOtherLine, OnByline, GotLine
      <4>3. m_state' = "bbs_content" /\ m_context' = <<>>
        BY <4>1, <4>2 DEF OnHeadLine
      <4>4. Spot(line') = 1
        <5>1. Spot(line + 1) = Spot(line) + 1
          BY <1>2, <2>4, <3>4, NextSpot
        <5> QED
          BY <1>1, <3>4, <5>1
      <4> QED
        BY <1>2, <3>1, <3>3, <4>3, <4>4
    <3>5. CASE Spot(line) \in {1, 2}
      <4>1. /\ kindNow = "close" <=> Spot(line) = 2
            /\ m_state = "bbs_content"
            /\ Spot(line) = 1 => m_context = <<>>
            /\ Spot(line) = 2 => m_context = <<PostOf(p, line)>>
        BY <1>1, <1>2, <2>1, <2>4, <3>5, KindAt DEF kindNow, ParserInv
      <4>2. OnBodyLine(op)
        BY <4>1 DEF OnHeadLine, OnFirstPager, OnOtherLine, OnByline, GotLine
      <4>3. Spot(line') = Spot(line) + 1 /\ PostOf(p, line') = PostOf(p, line)
        BY <1>1, <1>2, <2>4, <3>5, NextSpot
      <4>4. CASE Spot(line) = 1
        <5>1. m_state' = "bbs_content" /\ m_context' = Append(<<>>, PostOf(p, line))
          BY <4>1, <4>2, <4>4 DEF OnBodyLine
        <5>2. m_context' = <<PostOf(p, line)>>
          BY <5>1
        <5> QED
          BY <1>2, <3>1, <3>3, <4>3, <4>4, <5>1, <5>2
      <4>5. CASE Spot(line) = 2
        <5>1. m_state' = "author" /\ m_context' = <<PostOf(p, line)>>
          BY <4>1, <4>2, <4>5 DEF OnBodyLine
        <5> QED
          BY <1>2, <3>1, <3>3, <4>3, <4>5, <5>1
      <4> QED
        BY <3>5, <4>4, <4>5
    <3>6. CASE Spot(line) = 3
      <4>1. kindNow # "byline" /\ m_state = "author" /\ m_context = <<PostOf(p, line)>>
        BY <1>1, <1>2, <2>1, <2>4, <3>6, KindAt DEF kindNow, ParserInv
      <4>2. OnOtherLine(op)
        BY <4>1 DEF OnHeadLine, OnFirstPager, OnBodyLine, OnByline, GotLine
      <4>3. m_state' = "author" /\ m_context' = <<PostOf(p, line)>>
        BY <4>1, <4>2 DEF OnOtherLine
      <4>4. Spot(line') = 4 /\ PostOf(p, line') = PostOf(p, line)
        BY <1>1, <1>2, <2>4, <3>6, NextSpot
      <4> QED
        BY <1>2, <3>1, <3>3, <4>3, <4>4
    <3>7. CASE Spot(line) = 4
      <4>1. kindNow = "byline" /\ m_state = "author"
        BY <1>1, <1>2, <2>1, <2>4, <3>7, KindAt DEF kindNow, ParserInv
      <4>2. OnByline(op)
        BY <4>1 DEF OnHeadLine, OnFirstPager, OnBodyLine, OnOtherLine, GotLine
      <4>3. m_state' = "unknown"
        BY <4>2 DEF OnByline
      <4>4. Spot(line') = 0
        BY <1>1, <1>2, <2>4, <3>7, NextSpot
      <4> QED
        BY <1>2, <3>1, <3>3, <4>3, <4>4
    <3> QED
      BY <3>2, <3>4, <3>5, <3>6, <3>7
  <2> QED
    BY <1>2, <2>2, <2>3, <2>4
<1>8. ParserInv'
  BY <1>1, <1>4, <1>5, <1>6, <1>7 DEF ParserInv
<1>9. started'
  BY <1>1, <1>2 DEF started
<1> QED
  BY <1>3, <1>4, <1>8, <1>9 DEF PlaceInv

\* The first page begins where there is nothing before it.
LEMMA FirstOffset == 1 \in Pages /\ Offset(1) = 0 /\ Len(AllPosts) \in Nat
<1>1. 1 \in Pages
  BY ConstAssumption DEF Pages
<1>2. UpTo[1 - 1] = <<>>
  BY UpToProperties
<1> QED
  BY <1>1, <1>2, PostHasNumber DEF Offset

\* The pager is followed behind the last post of a page.
LEMMA PagerPlace ==
    ASSUME Whole, NEW op \in ops, OnSecondPager(op)
    PROVE  /\ PlaceInv' /\ m_post_url + 1 \in Pages /\ m_post_url \in Pages
           /\ bylines = Offset(m_post_url + 1)
<1>1. /\ op.kind = "line" /\ line <= LineCount(m_post_url) /\ kindNow = "next"
      /\ m_next_page_url # "empty" /\ m_state = "unknown"
  BY DEF OnSecondPager, GotLine
<1>2. /\ ParserInv /\ ops = {op} /\ m_post_url \in Pages /\ line \in Nat /\ line > 0
  BY <1>1, Reading
<1>3. line = LineCount(m_post_url)
  <2>1. ~(line <= 3)
    BY <1>1, <1>2 DEF ParserInv
  <2>2. line >= 4
    BY <1>2, <2>1
  <2> QED
    BY <1>1, <1>2, <2>2, KindAt DEF kindNow
<1>4. m_post_url + 1 \in Pages
  BY <1>1, <1>2, NextHasPage DEF kindNow
<1>5. bylines = Offset(m_post_url + 1)
  <2>1. Done(line) = Len(Site[m_post_url])
    BY <1>1, <1>2, <1>3, KindAt
  <2> QED
    BY <1>2, <1>4, <2>1, PostHasNumber DEF ParserInv
<1>6. /\ ops' = {Op("resolve", m_socket)} /\ m_post_url' = m_post_url + 1
      /\ m_state' = "unknown" /\ m_next_page_url' = "empty"
      /\ author' = author /\ bylines' = bylines
  BY <1>2 DEF OnSecondPager, Start, log
<1>7. Op("resolve", m_socket).kind = "resolve"
  BY DEF Op
<1>8. \A o \in ops' : o.kind # "line"
  BY <1>6, <1>7
<1>9. started'
  BY <1>4, <1>6, PageIs DEF started
<1>10. PlaceInv'
  BY <1>5, <1>6, <1>8, <1>9 DEF PlaceInv, Whole
<1> QED
  BY <1>2, <1>4, <1>5, <1>10

\* Between two pages the parser rests.
LEMMA RestPlace ==
    ASSUME Whole, NEW op \in ops,
           OnResolve(op) \/ OnResolveFail(op) \/ OnConnect(op)
             \/ OnConnectFail(op) \/ OnWrite(op) \/ OnHeader(op) \/ Fails(op)
    PROVE  PlaceInv'
<1>1. ops = {op} /\ started /\ m_post_url \in Pages
  BY ConstAssumption DEF Whole, IInv, FlightInv, SingleFlight, TypeOK, started, Pages
<1>2. /\ UNCHANGED <<m_post_url, author, bylines, m_next_page_url, m_users, context, m_state,
                     m_context>>
  BY DEF OnResolve, OnResolveFail, OnConnect, OnConnectFail, OnWrite, OnHeader, Fails,
         parser, log
<1>3. started'
  BY <1>1, <1>2 DEF started
<1>4. author' \in {NoOne, Host}
  BY <1>2 DEF Whole, PlaceInv
<1>5. CASE OnHeader(op)
  <2>1. op.kind = "header" /\ line' = 1 /\ Loop(op)
    BY <1>5 DEF OnHeader
  <2>2. \A o \in ops' : o.kind = "line"
    BY <2>1, LoopStep DEF Whole
  <2>3. bylines = Offset(m_post_url) /\ m_state = "unknown" /\ m_next_page_url = "empty"
    BY <2>1 DEF Whole, PlaceInv
  <2>4. Offset(m_post_url) \in Nat /\ LineCount(m_post_url) \in Nat
        /\ LineCount(m_post_url) >= 4
    <3>1. Len(Site[m_post_url]) \in Nat
      BY <1>1, PageIs
    <3> QED
      BY <1>1, <3>1, PostHasNumber DEF LineCount
  <2>5. Done(1) = 0
    BY DEF Done
  <2>6. ParserInv'
    BY <1>2, <2>1, <2>3, <2>4, <2>5 DEF ParserInv
  <2> QED
    BY <1>3, <1>4, <2>2, <2>6 DEF PlaceInv
<1>6. CASE OnResolve(op) \/ OnConnect(op) \/ OnWrite(op)
  <2>1. op.kind # "line"
    BY <1>6 DEF OnResolve, OnConnect, OnWrite
  <2>2. bylines = Offset(m_post_url) /\ m_state = "unknown" /\ m_next_page_url = "empty"
    BY <2>1 DEF Whole, PlaceInv
  <2>3. \A o \in ops' : o.kind # "line"
    BY <1>1, <1>6 DEF OnResolve, OnConnect, OnWrite, Op
  <2> QED
    BY <1>2, <1>3, <1>4, <2>2, <2>3 DEF PlaceInv
<1>7. CASE OnResolveFail(op) \/ OnConnectFail(op) \/ Fails(op)
  <2>1. ops' = {}
    BY <1>1, <1>7 DEF OnResolveFail, OnConnectFail, Fails
  <2> QED
    BY <1>3, <1>4, <2>1 DEF PlaceInv
<1> QED
  BY <1>5, <1>6, <1>7

\* The calls of the other thread.
LEMMA GuiPlace ==
    ASSUME Whole, GuiStart \/ GuiStop \/ GuiFilter
    PROVE  PlaceInv'
<1>1. CASE GuiStart
  <2>1. ops = {} /\ ~started /\ bylines = 0 /\ m_next_page_url = "empty"
    BY <1>1 DEF GuiStart, Whole, IInv, FlightInv, PlaceInv
  <2>2. /\ m_post_url' = 1 /\ m_state' = "unknown" /\ ops' = {Op("resolve", m_socket)}
        /\ author' = author /\ m_next_page_url' = m_next_page_url /\ bylines' = bylines
    BY <1>1, <2>1 DEF GuiStart, Start, log
  <2>3. \A o \in ops' : o.kind # "line"
    BY <2>2 DEF Op
  <2>4. started'
    BY <2>2 DEF started
  <2> QED
    BY <2>1, <2>2, <2>3, <2>4, FirstOffset DEF PlaceInv, Whole
<1>2. CASE GuiStop \/ GuiFilter
  <2>1. /\ UNCHANGED <<m_post_url, author, bylines, m_next_page_url, m_users, context,
                       m_state, m_context, line, ops>>
    BY <1>2 DEF GuiStop, GuiFilter, parser, net, log
  <2> QED
    BY <2>1 DEF Whole, PlaceInv, ParserInv, started
<1> QED
  BY <1>1, <1>2
-----------------------------------------------------------------------------
(* What is emitted and kept *)

\* The posts seen, with one more.
LEMMA SeenNext ==
    ASSUME NEW n \in Nat
    PROVE  Seen(n + 1) = IF PostAt(AllPosts[n + 1]).by # NoOne
                         THEN Seen(n) \cup {PostAt(AllPosts[n + 1]).by} ELSE Seen(n)
<1>1. 1..(n + 1) = (1..n) \cup {n + 1}
  OBVIOUS
<1>2. \A x : x \in Seen(n + 1) <=>
            x # NoOne /\ \E m \in (1..n) \cup {n + 1} : x = PostAt(AllPosts[m]).by
  BY <1>1 DEF Seen
<1>3. \A x : x \in Seen(n) <=> x # NoOne /\ \E m \in 1..n : x = PostAt(AllPosts[m]).by
  BY DEF Seen
<1> HIDE DEF Seen
<1> QED
  BY <1>2, <1>3

\* The set of one element in a sequence, and a sequence with one more.
LEMMA SetOfOne ==
    ASSUME NEW x
    PROVE  ToSet(<<x>>) = {x}
  BY DEF ToSet

LEMMA SetOfAppend ==
    ASSUME NEW V, NEW s \in Seq(V), NEW x \in V
    PROVE  ToSet(Append(s, x)) = ToSet(s) \cup {x}
<1>1. /\ Len(s) \in Nat /\ Len(Append(s, x)) = Len(s) + 1
      /\ \A i \in 1..Len(s) : Append(s, x)[i] = s[i]
      /\ Append(s, x)[Len(s) + 1] = x
  OBVIOUS
<1>2. ASSUME NEW y \in ToSet(Append(s, x))
      PROVE  y \in ToSet(s) \cup {x}
  <2>1. PICK i \in 1..(Len(s) + 1) : Append(s, x)[i] = y
    BY <1>1, <1>2 DEF ToSet
  <2>2. i \in 1..Len(s) \/ i = Len(s) + 1
    BY <1>1
  <2> QED
    BY <1>1, <2>1, <2>2 DEF ToSet
<1>3. ASSUME NEW y \in ToSet(s)
      PROVE  y \in ToSet(Append(s, x))
  <2>1. PICK i \in 1..Len(s) : s[i] = y
    BY <1>3 DEF ToSet
  <2>2. i \in 1..Len(Append(s, x)) /\ Append(s, x)[i] = y
    BY <1>1, <2>1
  <2> QED
    BY <2>2 DEF ToSet
<1>4. x \in ToSet(Append(s, x))
  <2>1. Len(s) + 1 \in 1..Len(Append(s, x))
    BY <1>1
  <2> QED
    BY <1>1, <2>1 DEF ToSet
<1> QED
  BY <1>2, <1>3, <1>4

\* What the byline of a post does to what was emitted and kept: it is emitted if
\* it is the author's, and then kept unless it is found to be a reply.
LEMMA BylineText ==
    ASSUME Whole, NEW op \in ops, OnByline(op)
    PROVE  LET n == bylines + 1
           IN /\ bylines' = n /\ n \in Numbers
              /\ fetched' = IF n \in ByHost THEN Append(fetched, <<AllPosts[n]>>) ELSE fetched
              /\ \/ n \in ByHost /\ context' = Append(context, <<AllPosts[n]>>)
                 \/ context' = context
              /\ n \in ByHost /\ PostAt(AllPosts[n]).quotes = NoOne
                    => context' = Append(context, <<AllPosts[n]>>)
              /\ steady' /\ m_filter_reply' =>
                    /\ steady /\ m_filter_reply
                    /\ m_users' = IF PostAt(AllPosts[n]).by # NoOne
                                  THEN m_users \cup {PostAt(AllPosts[n]).by} ELSE m_users
                    /\ context' = IF n \in ByHost
                                      /\ PostAt(AllPosts[n]).quotes \notin m_users' \cup {Separator}
                                  THEN Append(context, <<AllPosts[n]>>) ELSE context
<1> DEFINE n == bylines + 1
           post == PostAt(AllPosts[n])
           users == IF m_filter_reply /\ post.by # NoOne THEN m_users \cup {post.by} ELSE m_users
<1>1. /\ n \in Numbers /\ AllPosts[n] = PostOf(m_post_url, line)
      /\ m_context = <<AllPosts[n]>> /\ author = Host /\ post \in PostType
  BY BylineIs
<1>2. HostPosts(post) <=> n \in ByHost
  BY <1>1, ConstAssumption DEF HostPosts, ByHost
<1>3. IsReply(m_context, users) <=> post.quotes \in users \cup {Separator}
  BY <1>1, SetOfOne DEF IsReply
<1>4. post.quotes = NoOne => ~IsReply(m_context, users)
  <2>1. users \subseteq Authors
    BY <1>1 DEF Whole, IInv, TypeOK, PostType
  <2> QED
    BY <1>3, <2>1, ConstAssumption
<1> HIDE DEF post, users
<1>5. PICK now \in BOOLEAN :
        /\ m_filter_reply' = now
        /\ steady' = (steady /\ now = m_filter_reply)
        /\ m_users' = users
        /\ context' = IF n \in ByHost /\ ~(now /\ IsReply(m_context, users))
                      THEN Append(context, m_context) ELSE context
        /\ fetched' = IF n \in ByHost THEN Append(fetched, m_context) ELSE fetched
        /\ bylines' = n
  BY <1>1, <1>2 DEF OnByline, post, users
<1>6. /\ fetched' = IF n \in ByHost THEN Append(fetched, <<AllPosts[n]>>) ELSE fetched
      /\ \/ n \in ByHost /\ context' = Append(context, <<AllPosts[n]>>)
         \/ context' = context
      /\ n \in ByHost /\ post.quotes = NoOne => context' = Append(context, <<AllPosts[n]>>)
  BY <1>1, <1>4, <1>5
<1>7. ASSUME steady', m_filter_reply'
      PROVE  /\ steady /\ m_filter_reply
             /\ m_users' = IF post.by # NoOne THEN m_users \cup {post.by} ELSE m_users
             /\ context' = IF n \in ByHost /\ post.quotes \notin m_users' \cup {Separator}
                           THEN Append(context, <<AllPosts[n]>>) ELSE context
  <2>1. steady /\ now /\ m_filter_reply
    <3>1. steady' => steady /\ now = m_filter_reply
      BY <1>5, Zenon
    <3>2. now
      BY <1>5, <1>7, Zenon
    <3>3. steady /\ now = m_filter_reply
      BY <1>7, <3>1, Zenon
    <3> QED
      BY <3>2, <3>3, Zenon
  <2>2. m_users' = IF post.by # NoOne THEN m_users \cup {post.by} ELSE m_users
    BY <1>5, <2>1 DEF users
  <2> QED
    BY <1>1, <1>3, <1>5, <2>1, <2>2
<1> QED
  BY <1>1, <1>5, <1>6, <1>7 DEF post

\* The filter keeps a post of the host unless it quotes someone seen by then.
LEMMA TextsNext ==
    ASSUME NEW n \in Nat, n + 1 \in Numbers, NEW chosen
    PROVE  Texts(chosen)[n + 1] = IF n + 1 \in chosen
                                  THEN Append(Texts(chosen)[n], <<AllPosts[n + 1]>>)
                                  ELSE Texts(chosen)[n]
<1>1. (n + 1) - 1 = n
  OBVIOUS
<1> QED
  BY <1>1, TextsAre

\* A byline adds its post to what was emitted and, if it is to be, kept.
LEMMA BylineTextInv ==
    ASSUME Whole, NEW op \in ops, OnByline(op)
    PROVE  TextInv'
<1> DEFINE n == bylines + 1
           post == PostAt(AllPosts[n])
<1>1. /\ bylines' = n /\ n \in Numbers /\ bylines \in Nat /\ Len(AllPosts) \in Nat
      /\ fetched' = IF n \in ByHost THEN Append(fetched, <<AllPosts[n]>>) ELSE fetched
  BY BylineText, BylineIs, FirstOffset
<1>2. steady' /\ m_filter_reply' =>
          /\ steady /\ m_filter_reply
          /\ m_users' = IF post.by # NoOne THEN m_users \cup {post.by} ELSE m_users
          /\ context' = IF n \in ByHost /\ post.quotes \notin m_users' \cup {Separator}
                        THEN Append(context, <<AllPosts[n]>>) ELSE context
  BY BylineText
<1>3. /\ fetched = Texts(ByHost)[bylines]
      /\ steady /\ m_filter_reply => m_users = Seen(bylines) /\ context = Texts(Kept)[bylines]
  BY DEF Whole, TextInv
<1>4. bylines' \in 0..Len(AllPosts)
  BY <1>1 DEF Numbers
<1>5. fetched' = Texts(ByHost)[n]
  BY <1>1, <1>3, TextsNext
<1>6. Seen(n) = IF post.by # NoOne THEN Seen(bylines) \cup {post.by} ELSE Seen(bylines)
  BY <1>1, SeenNext
<1>7. n \in Kept <=> n \in ByHost /\ post.quotes \notin Seen(n) \cup {Separator}
  BY DEF Kept
<1>8. Texts(Kept)[n] = IF n \in Kept THEN Append(Texts(Kept)[bylines], <<AllPosts[n]>>)
                       ELSE Texts(Kept)[bylines]
  BY <1>1, TextsNext
<1> HIDE DEF n, post
<1>9. ASSUME steady', m_filter_reply'
      PROVE  m_users' = Seen(n) /\ context' = Texts(Kept)[n]
  <2>1. m_users = Seen(bylines) /\ context = Texts(Kept)[bylines]
    BY <1>2, <1>3, <1>9
  <2>2. m_users' = Seen(n)
    BY <1>2, <1>6, <1>9, <2>1
  <2> QED
    BY <1>2, <1>7, <1>8, <1>9, <2>1, <2>2
<1> QED
  BY <1>1, <1>4, <1>5, <1>9 DEF TextInv

\* Other steps than the reading of a byline add nothing.
LEMMA OtherTextInv ==
    ASSUME Whole, UNCHANGED <<fetched, context, bylines, m_users>>,
           steady' /\ m_filter_reply' =>
             \/ steady /\ m_filter_reply
             \/ ~started
    PROVE  TextInv'
<1>1. bylines \in 0..Len(AllPosts) /\ fetched = Texts(ByHost)[bylines]
  BY DEF Whole, TextInv
<1>2. ASSUME steady', m_filter_reply'
      PROVE  m_users = Seen(bylines) /\ context = Texts(Kept)[bylines]
  <2>1. CASE steady /\ m_filter_reply
    BY <2>1 DEF Whole, TextInv
  <2>2. CASE ~started
    <3>1. bylines = 0 /\ m_users = {} /\ context = <<>>
      BY <2>2 DEF Whole, PlaceInv
    <3>2. Seen(0) = {}
      BY DEF Seen
    <3>3. Texts(Kept)[0] = <<>>
      BY TextsAre
    <3> QED
      BY <3>1, <3>2, <3>3
  <2> QED
    BY <1>2, <2>1, <2>2
<1> QED
  BY <1>1, <1>2 DEF TextInv

\* A post before a place is before those that follow.
LEMMA BeforeGrows ==
    ASSUME NEW t \in Places, NEW p \in Nat, NEW k \in Int, Before(t, <<p, k>>)
    PROVE  Before(t, <<p, k + 1>>) /\ \A j \in Int : Before(t, <<p + 1, j>>)
<1>1. t[1] \in Nat /\ t[2] \in Nat
  BY DEF Places
<1>2. <<p, k>>[1] = p /\ <<p, k>>[2] = k /\ <<p, k + 1>>[1] = p /\ <<p, k + 1>>[2] = k + 1
  OBVIOUS
<1>3. t[1] < p \/ (t[1] = p /\ t[2] < k)
  BY <1>2 DEF Before
<1>4. Before(t, <<p, k + 1>>)
  BY <1>1, <1>2, <1>3 DEF Before
<1>5. ASSUME NEW j \in Int
      PROVE  Before(t, <<p + 1, j>>)
  <2>1. <<p + 1, j>>[1] = p + 1
    OBVIOUS
  <2>2. t[1] < p + 1
    BY <1>1, <1>3
  <2> QED
    BY <2>1, <2>2 DEF Before
<1> QED
  BY <1>4, <1>5

\* What has been kept is known by the places of its posts.
LEMMA KeptPlaces ==
    ASSUME Whole, NEW i \in 1..Len(context)
    PROVE  /\ Len(context) \in Nat /\ context[i] \in Seq(Places) /\ Len(context[i]) = 1
           /\ context[i][1] \in Places /\ Last(context[i]) = context[i][1]
           /\ Head(context[i]) = context[i][1] /\ context[i] = <<context[i][1]>>
<1>1. /\ Len(context) \in Nat /\ context[i] \in Seq(Places) /\ Len(context[i]) = 1
  BY DEF Whole, SomeKept
<1>2. context[i][1] \in Places /\ Head(context[i]) = context[i][1]
      /\ context[i] = <<context[i][1]>>
  BY <1>1
<1>3. Last(context[i]) = context[i][1]
  BY <1>1 DEF Last
<1> QED
  BY <1>1, <1>2, <1>3

\* A post that is kept comes behind those kept before.
LEMMA BylineKept ==
    ASSUME Whole, NEW op \in ops, OnByline(op)
    PROVE  SomeKept'
<1> DEFINE n == bylines + 1
           new == <<AllPosts[n]>>
           p == m_post_url
           k == n - Offset(p)
<1>1. /\ bylines' = n /\ n \in Numbers /\ bylines \in Nat
      /\ fetched' = IF n \in ByHost THEN Append(fetched, new) ELSE fetched
      /\ (n \in ByHost /\ context' = Append(context, new)) \/ context' = context
      /\ n \in ByHost /\ PostAt(AllPosts[n]).quotes = NoOne => context' = Append(context, new)
  BY BylineText, BylineIs
<1>2. /\ p \in Nat /\ k \in Int /\ Offset(p) \in Nat /\ AllPosts[n] = <<p, k>> /\ n \in Nat
      /\ k \in Nat
  <2>1. op.kind = "line"
    BY DEF OnByline, GotLine
  <2>2. p \in Pages
    BY <2>1, Reading
  <2>3. AllPosts[n] = <<p, (bylines - Offset(p)) + 1>> /\ Offset(p) \in Nat /\ bylines \in Nat
    BY BylineIs
  <2>4. PostOf(p, line) = <<p, Done(line) + 1>> /\ Done(line) \in Nat /\ AllPosts[n] = PostOf(p, line)
    <3>1. line \in Nat /\ line > 0
      BY <2>1, Reading
    <3> QED
      BY <3>1, BylineIs, NextSpot
  <2>5. <<p, (bylines - Offset(p)) + 1>> = <<p, Done(line) + 1>>
    BY <2>3, <2>4
  <2>6. (bylines - Offset(p)) + 1 = Done(line) + 1
    BY <2>5
  <2>7. (bylines - Offset(p)) + 1 = k
    BY <2>3
  <2> QED
    BY <2>2, <2>3, <2>4, <2>6, <2>7, PageIs
<1>3. p' = p /\ Offset(p)' = Offset(p)
  <2>1. m_post_url' = m_post_url
    BY DEF OnByline
  <2> QED
    BY <2>1
<1>4. AllPosts[n] \in Places /\ new \in Seq(Places)
  <2>1. <<p, k>> \in Places
    BY <1>2 DEF Places
  <2>2. AllPosts[n] \in Places
    BY <1>2, <2>1
  <2> QED
    BY <2>2
<1>5. /\ context \in Seq(Seq(Places)) /\ fetched \in Seq(Seq(Places))
  <2>1. bylines \in 0..Len(AllPosts) /\ fetched = Texts(ByHost)[bylines]
    BY DEF Whole, TextInv
  <2>2. Texts(ByHost) \in [0..Len(AllPosts) -> Seq(Seq(Places))]
    BY TextsAre
  <2>3. Texts(ByHost)[bylines] \in Seq(Seq(Places))
    BY <2>1, <2>2, Zenon
  <2> QED
    BY <2>1, <2>3 DEF Whole, SomeKept
<1> HIDE DEF new
<1>6. /\ Len(context) \in Nat
      /\ ToSet(Append(context, new)) = ToSet(context) \cup {new}
      /\ ToSet(Append(fetched, new)) = ToSet(fetched) \cup {new}
  BY <1>4, <1>5, SetOfAppend
<1>7. /\ ToSet(context) \subseteq ToSet(fetched)
      /\ \A text \in ToSet(fetched) :
          (\A t \in ToSet(text) : PostAt(t).quotes = NoOne) => text \in ToSet(context)
      /\ \A i, j \in 1..Len(context) : i < j => Before(Last(context[i]), Head(context[j]))
      /\ \A i \in 1..Len(context) : /\ Len(context[i]) = 1
                                    /\ Before(context[i][1], <<p, (bylines - Offset(p)) + 1>>)
  BY DEF Whole, SomeKept
<1>8. \A i \in 1..Len(context) : /\ Before(context[i][1], <<p, k>>)
                                 /\ Before(context[i][1], <<p, k + 1>>)
  <2>1. (bylines - Offset(p)) + 1 = k
    BY <1>1, <1>2
  <2> SUFFICES ASSUME NEW i \in 1..Len(context)
               PROVE  Before(context[i][1], <<p, k>>) /\ Before(context[i][1], <<p, k + 1>>)
    OBVIOUS
  <2>2. Before(context[i][1], <<p, k>>)
    BY <1>7, <2>1
  <2>3. context[i][1] \in Places
    BY KeptPlaces
  <2> HIDE DEF k
  <2> QED
    BY <1>2, <2>2, <2>3, BeforeGrows
<1>9. Before(AllPosts[n], <<p, k + 1>>)
  BY <1>2 DEF Before
<1>10. /\ new = <<AllPosts[n]>> /\ Len(new) = 1 /\ new[1] = AllPosts[n] /\ Last(new) = new[1]
       /\ Head(new) = new[1] /\ ToSet(new) = {AllPosts[n]}
  BY <1>4, SetOfOne DEF Last, new
<1>11. (bylines' - Offset(m_post_url)') + 1 = k + 1 /\ m_post_url' = p
  <2>1. bylines' = n /\ Offset(m_post_url)' = Offset(p) /\ n \in Int /\ Offset(p) \in Int
    BY <1>1, <1>2, <1>3
  <2> QED
    BY <1>3, <2>1
<1> HIDE DEF n, p, k
<1>12. CASE context' = Append(context, new) /\ n \in ByHost
  <2>1. fetched' = Append(fetched, new)
    BY <1>1, <1>12
  <2>2. context' \in Seq(Seq(Places)) /\ Len(context') = Len(context) + 1
        /\ (\A i \in 1..Len(context) : context'[i] = context[i])
        /\ context'[Len(context) + 1] = new
    BY <1>4, <1>5, <1>12
  <2>3. ToSet(context') \subseteq ToSet(fetched')
    BY <1>6, <1>7, <1>12, <2>1
  <2>4. \A text \in ToSet(fetched') :
          (\A t \in ToSet(text) : PostAt(t).quotes = NoOne) => text \in ToSet(context')
    BY <1>6, <1>7, <1>12, <2>1
  <2>5. ASSUME NEW i \in 1..Len(context'), NEW j \in 1..Len(context'), i < j
        PROVE  Before(Last(context'[i]), Head(context'[j]))
    <3>1. i \in 1..Len(context)
      BY <1>6, <2>2, <2>5
    <3>2. CASE j \in 1..Len(context)
      BY <1>7, <2>2, <2>5, <3>1, <3>2
    <3>3. CASE j = Len(context) + 1
      <4>1. Last(context[i]) = context[i][1]
        BY <3>1, KeptPlaces
      <4> QED
        BY <1>2, <1>8, <1>10, <2>2, <3>1, <3>3, <4>1
    <3> QED
      BY <1>6, <2>2, <3>2, <3>3
  <2>6. ASSUME NEW i \in 1..Len(context')
        PROVE  Len(context'[i]) = 1 /\ Before(context'[i][1], <<p, k + 1>>)
    <3>1. i \in 1..Len(context) \/ i = Len(context) + 1
      BY <1>6, <2>2
    <3> QED
      BY <1>7, <1>8, <1>9, <1>10, <2>2, <3>1
  <2>7. ASSUME NEW i \in 1..Len(context')
        PROVE  /\ Len(context'[i]) = 1
               /\ Before(context'[i][1], <<m_post_url', (bylines' - Offset(m_post_url)') + 1>>)
    BY <1>11, <2>6
  <2>8. \A i, j \in 1..Len(context') : i < j => Before(Last(context'[i]), Head(context'[j]))
    BY <2>5
  <2>9. context' \in Seq(Seq(Places))
    BY <2>2
  <2> QED
    BY <2>3, <2>4, <2>7, <2>8, <2>9, Zenon DEF SomeKept
<1>13. CASE context' = context
  <2>1. ASSUME n \in ByHost
        PROVE  PostAt(AllPosts[n]).quotes # NoOne
    <3>1. ASSUME context' = Append(context, new)
          PROVE  FALSE
      <4>1. Len(context') = Len(context) + 1
        BY <1>4, <1>5, <3>1
      <4> QED
        BY <1>6, <1>13, <4>1
    <3> QED
      BY <1>1, <2>1, <3>1
  <2>2. ToSet(context') \subseteq ToSet(fetched')
    BY <1>1, <1>6, <1>7, <1>13
  <2>3. \A text \in ToSet(fetched') :
          (\A t \in ToSet(text) : PostAt(t).quotes = NoOne) => text \in ToSet(context')
    BY <1>1, <1>6, <1>7, <1>10, <1>13, <2>1
  <2>4. ASSUME NEW i \in 1..Len(context')
        PROVE  /\ Len(context'[i]) = 1
               /\ Before(context'[i][1], <<m_post_url', (bylines' - Offset(m_post_url)') + 1>>)
    BY <1>7, <1>8, <1>11, <1>13
  <2> QED
    BY <1>5, <1>7, <1>13, <2>2, <2>3, <2>4 DEF SomeKept
<1> QED
  BY <1>1, <1>12, <1>13

\* What was kept stays behind the place of the parser when it turns the page.
LEMMA OtherKept ==
    ASSUME Whole, UNCHANGED <<fetched, context, bylines>>,
           \/ m_post_url' = m_post_url
           \/ ~started
           \/ m_post_url \in Pages /\ m_post_url + 1 \in Pages /\ m_post_url' = m_post_url + 1
    PROVE  SomeKept'
<1> DEFINE place == <<m_post_url', (bylines' - Offset(m_post_url)') + 1>>
<1>1. /\ context \in Seq(Seq(Places))
      /\ ToSet(context) \subseteq ToSet(fetched)
      /\ \A text \in ToSet(fetched) :
          (\A t \in ToSet(text) : PostAt(t).quotes = NoOne) => text \in ToSet(context)
      /\ \A i, j \in 1..Len(context) : i < j => Before(Last(context[i]), Head(context[j]))
      /\ \A i \in 1..Len(context) :
          /\ Len(context[i]) = 1
          /\ Before(context[i][1], <<m_post_url, (bylines - Offset(m_post_url)) + 1>>)
  BY DEF Whole, SomeKept
<1>2. ASSUME NEW i \in 1..Len(context)
      PROVE  Before(context[i][1], place)
  <2>1. CASE m_post_url' = m_post_url
    BY <1>1, <2>1
  <2>2. CASE ~started
    <3>1. context = <<>>
      BY <2>2 DEF Whole, PlaceInv
    <3> QED
      BY <3>1
  <2>3. CASE m_post_url \in Pages /\ m_post_url + 1 \in Pages /\ m_post_url' = m_post_url + 1
    <3> DEFINE p == m_post_url
               j == (bylines - Offset(p + 1)) + 1
               k == (bylines - Offset(p)) + 1
    <3>1. /\ p \in Nat /\ Offset(p) \in Nat /\ Offset(p + 1) \in Nat /\ bylines \in Nat
      BY <2>3, PageIs, PostHasNumber DEF Whole, IInv, TypeOK
    <3>2. j \in Int /\ k \in Int
      BY <3>1
    <3>3. place = <<p + 1, j>>
      <4>1. Offset(m_post_url)' = Offset(p + 1)
        BY <2>3
      <4> QED
        BY <2>3, <4>1
    <3>4. Before(context[i][1], <<p, k>>) /\ context[i][1] \in Places
      BY <1>1, KeptPlaces
    <3> HIDE DEF p, j, k, place
    <3> QED
      BY <3>1, <3>2, <3>3, <3>4, BeforeGrows
  <2> QED
    BY <2>1, <2>2, <2>3
<1>3. \A i \in 1..Len(context) :
          /\ Len(context[i]) = 1
          /\ Before(context[i][1], <<m_post_url', (bylines' - Offset(m_post_url)') + 1>>)
  BY <1>1, <1>2
<1> QED
  BY <1>1, <1>3 DEF SomeKept

\* At first there is nothing.
LEMMA InitWhole == Init => Whole
<1> SUFFICES ASSUME Init PROVE Whole
  OBVIOUS
<1>1. PlaceInv
  BY DEF Init, PlaceInv, started
<1>2. TextInv
  <2>1. Seen(0) = {}
    BY DEF Seen
  <2>2. Texts(Kept)[0] = <<>> /\ Texts(ByHost)[0] = <<>>
    BY TextsAre
  <2>3. 0 \in 0..Len(AllPosts)
    BY FirstOffset
  <2> QED
    BY <2>1, <2>2, <2>3 DEF Init, TextInv
<1>3. SomeKept
  BY DEF Init, SomeKept, ToSet
<1> QED
  BY <1>1, <1>2, <1>3, InitIInv DEF Whole

\* The steps that read a line and stay on the page.
LEMMA LineWhole ==
    ASSUME Whole, NEW op \in ops,
           OnHeadLine(op) \/ OnFirstPager(op) \/ OnBodyLine(op)
             \/ OnOtherLine(op) \/ OnByline(op)
    PROVE  Whole'
<1>1. IInv'
  BY LineStep DEF Whole
<1>2. PlaceInv'
  BY LinePlace
<1>3. CASE OnByline(op)
  BY <1>1, <1>2, <1>3, BylineTextInv, BylineKept DEF Whole
<1>4. CASE OnHeadLine(op) \/ OnFirstPager(op) \/ OnBodyLine(op) \/ OnOtherLine(op)
  <2>1. /\ UNCHANGED <<fetched, context, bylines, m_users, steady, m_filter_reply>>
        /\ m_post_url' = m_post_url
    BY <1>4 DEF OnHeadLine, OnFirstPager, OnBodyLine, OnOtherLine, gui
  <2>2. TextInv' /\ SomeKept'
    BY <2>1, OtherTextInv, OtherKept
  <2> QED
    BY <1>1, <1>2, <2>2 DEF Whole
<1> QED
  BY <1>3, <1>4

\* The steps between the pages, and those of the other thread.
LEMMA RestWhole ==
    ASSUME Whole,
           \/ GuiStart \/ GuiStop \/ GuiFilter
           \/ \E op \in ops :
                \/ OnResolve(op) \/ OnResolveFail(op) \/ OnConnect(op) \/ OnConnectFail(op)
                \/ OnWrite(op) \/ OnHeader(op) \/ Fails(op) \/ OnSecondPager(op)
    PROVE  Whole'
<1>1. CASE GuiStart \/ GuiStop \/ GuiFilter
  <2>1. IInv' /\ PlaceInv'
    BY <1>1, GuiStep, GuiPlace DEF Whole
  <2>2. UNCHANGED <<fetched, context, bylines, m_users>>
    BY <1>1 DEF GuiStart, GuiStop, GuiFilter, parser, log
  <2>3. steady' /\ m_filter_reply' => (steady /\ m_filter_reply) \/ ~started
    BY <1>1 DEF GuiStart, GuiStop, GuiFilter, gui, Whole, IInv, TypeOK
  <2>4. m_post_url' = m_post_url \/ ~started
    BY <1>1 DEF GuiStart, GuiStop, GuiFilter, net
  <2>5. TextInv' /\ SomeKept'
    BY <2>2, <2>3, <2>4, OtherTextInv, OtherKept
  <2> QED
    BY <2>1, <2>5 DEF Whole
<1>2. ASSUME NEW op \in ops,
             \/ OnResolve(op) \/ OnResolveFail(op) \/ OnConnect(op) \/ OnConnectFail(op)
             \/ OnWrite(op) \/ OnHeader(op) \/ Fails(op)
      PROVE  Whole'
  <2>1. IInv' /\ PlaceInv'
    BY <1>2, StartStep, RestPlace DEF Whole
  <2>2. /\ UNCHANGED <<fetched, context, bylines, m_users, steady, m_filter_reply>>
        /\ m_post_url' = m_post_url
    BY <1>2 DEF OnResolve, OnResolveFail, OnConnect, OnConnectFail, OnWrite, OnHeader, Fails,
                parser, log, gui
  <2>3. TextInv' /\ SomeKept'
    BY <2>2, OtherTextInv, OtherKept
  <2> QED
    BY <2>1, <2>3 DEF Whole
<1>3. ASSUME NEW op \in ops, OnSecondPager(op)
      PROVE  Whole'
  <2>1. IInv' /\ PlaceInv' /\ m_post_url \in Pages /\ m_post_url + 1 \in Pages
    BY <1>3, PagerStep, PagerPlace DEF Whole
  <2>2. /\ UNCHANGED <<fetched, context, bylines, m_users, steady, m_filter_reply>>
        /\ m_post_url' = m_post_url + 1
    BY <1>3 DEF OnSecondPager, Start, log, gui
  <2>3. TextInv' /\ SomeKept'
    BY <2>1, <2>2, OtherTextInv, OtherKept
  <2> QED
    BY <2>1, <2>3 DEF Whole
<1> QED
  BY <1>1, <1>2, <1>3

\* Every step keeps it.
LEMMA NextWhole == Whole /\ [Next]_vars => Whole'
<1> SUFFICES ASSUME Whole, [Next]_vars PROVE Whole'
  OBVIOUS
<1>1. CASE GuiStart \/ GuiStop \/ GuiFilter
  BY <1>1, RestWhole
<1>2. ASSUME NEW op \in ops,
             \/ OnResolve(op) \/ OnResolveFail(op)
             \/ OnConnect(op) \/ OnConnectFail(op)
             \/ OnWrite(op) \/ OnHeader(op) \/ OnLine(op) \/ Fails(op)
      PROVE  Whole'
  BY <1>2, RestWhole, LineWhole DEF OnLine
<1>3. CASE UNCHANGED vars
  <2>1. IInv'
    BY <1>3, NextIInv DEF Whole
  <2>2. /\ UNCHANGED <<fetched, context, bylines, m_users, steady, m_filter_reply, m_post_url>>
        /\ UNCHANGED <<ops, line, author, m_state, m_context, m_next_page_url>>
    BY <1>3 DEF vars, parser, net, gui, log
  <2>3. PlaceInv'
    BY <2>2 DEF PlaceInv, ParserInv, started, Whole
  <2>4. TextInv' /\ SomeKept'
    BY <2>2, OtherTextInv, OtherKept
  <2> QED
    BY <2>1, <2>3, <2>4 DEF Whole
<1> QED
  BY <1>1, <1>2, <1>3 DEF Next
-----------------------------------------------------------------------------
\* The line parser, the names it has learned, the posts it emitted and the posts
\* it kept keep step with the lines of the forum it has read.
THEOREM WholeInvariance == Spec => []Whole
<1> QED
  BY InitWhole, NextWhole, PTL DEF Spec

\* Filtering keeps exactly the posts it is to keep, whatever the pages, and clicks
\* on the filter box lose nothing but replies.
THEOREM FilterSafe == Spec => []FilterExact
<1>1. Whole => FilterExact
  BY DEF Whole, TextInv, SomeKept, FilterExact
<1> QED
  BY <1>1, WholeInvariance, PTL
-----------------------------------------------------------------------------
(* The stream of posts *)

\* A page being read ends or goes on; so does the stream.
LEMMA PhaseOf ==
    ASSUME Whole, NEW op \in ops
    PROVE  ops = {op} /\ started /\ completes = 0 /\ phase = "running"
  BY DEF Whole, IInv, FlightInv, SingleFlight, CompleteInv, TypeOK, phase

\* A byline of the host is the next post of the stream.
LEMMA BylineStream ==
    ASSUME Whole, NEW op \in ops, OnByline(op)
    PROVE  \/ fetched' = fetched
           \/ /\ Len(fetched) < Len(HostTexts)
              /\ fetched' = Append(fetched, HostTexts[Len(fetched) + 1])
<1> DEFINE n == bylines + 1
<1>1. /\ n \in Numbers
      /\ fetched' = IF n \in ByHost THEN Append(fetched, <<AllPosts[n]>>) ELSE fetched
  BY BylineText
<1>2. fetched = Texts(ByHost)[bylines] /\ n - 1 = bylines
  BY BylineIs DEF Whole, TextInv
<1>3. ASSUME n \in ByHost
      PROVE  Len(fetched) < Len(HostTexts) /\ HostTexts[Len(fetched) + 1] = <<AllPosts[n]>>
  <2> HIDE DEF n
  <2> QED
    BY <1>1, <1>2, <1>3, NextText DEF HostTexts
<1> QED
  BY <1>1, <1>3

\* The stream during a step of the page in hand.
LEMMA PageStream ==
    ASSUME Whole, NEW op \in ops,
           \/ OnResolve(op) \/ OnResolveFail(op) \/ OnConnect(op) \/ OnConnectFail(op)
           \/ OnWrite(op) \/ OnHeader(op) \/ OnLine(op) \/ Fails(op)
    PROVE  [Stream!Next]_(Stream!vars)
<1>1. ops = {op} /\ started /\ completes = 0 /\ phase = "running" /\ m_post_url \in Nat
  BY PhaseOf DEF Whole, IInv, TypeOK
<1>2. started'
  <2>1. m_post_url > 0
    BY <1>1 DEF started
  <2>2. m_post_url' = m_post_url \/ m_post_url' = m_post_url + 1
    BY DEF OnResolve, OnResolveFail, OnConnect, OnConnectFail, OnWrite, OnHeader, OnLine, Fails,
           OnHeadLine, OnFirstPager, OnSecondPager, OnBodyLine, OnOtherLine, OnByline, Start
  <2> QED
    BY <1>1, <2>1, <2>2 DEF started
<1>3. phase' \in {"running", "ended", "silent"}
  BY <1>2 DEF phase
<1>4. CASE fetched' = fetched
  <2>1. phase' = "running" \/ phase' \in {"ended", "silent"}
    BY <1>3
  <2> QED
    BY <1>1, <1>4, <2>1 DEF Stream!vars, Stream!Next, Stream!Finish
<1>5. CASE fetched' # fetched
  <2>1. OnByline(op)
    BY <1>5 DEF OnResolve, OnResolveFail, OnConnect, OnConnectFail, OnWrite, OnHeader, OnLine,
                Fails, OnHeadLine, OnFirstPager, OnSecondPager, OnBodyLine, OnOtherLine, log
  <2>2. /\ Len(fetched) < Len(HostTexts)
        /\ fetched' = Append(fetched, HostTexts[Len(fetched) + 1])
    BY <1>5, <2>1, BylineStream
  <2>3. phase' \in {"running", "ended"}
    <3>1. Loop(op) /\ completes \in Nat
      BY <1>1, <2>1 DEF OnByline
    <3>2. ops' # {} \/ completes' = 1
      BY <1>1, <3>1 DEF Loop
    <3> QED
      BY <1>2, <3>2 DEF phase
  <2> QED
    BY <1>1, <2>2, <2>3 DEF Stream!Next, Stream!Deliver
<1> QED
  BY <1>4, <1>5

\* Every step of the object is one of the stream, or none.
LEMMA StepStream == Whole /\ [Next]_vars => [Stream!Next]_(Stream!vars)
<1> SUFFICES ASSUME Whole, [Next]_vars PROVE [Stream!Next]_(Stream!vars)
  OBVIOUS
<1>1. CASE GuiStart
  <2>1. /\ fetched' = fetched /\ ~started /\ m_post_url' = 1
        /\ Op("resolve", m_socket) \in ops'
    BY <1>1 DEF GuiStart, Start, log
  <2>2. phase = "idle" /\ phase' = "running"
    BY <2>1 DEF phase, started
  <2> QED
    BY <2>1, <2>2 DEF Stream!Next, Stream!Begin
<1>2. CASE GuiStop \/ GuiFilter \/ UNCHANGED vars
  <2>1. UNCHANGED <<fetched, m_post_url, ops, completes>>
    BY <1>2 DEF GuiStop, GuiFilter, vars, parser, net, gui, log
  <2> QED
    BY <2>1 DEF Stream!vars, phase, started
<1>3. ASSUME NEW op \in ops,
             \/ OnResolve(op) \/ OnResolveFail(op) \/ OnConnect(op) \/ OnConnectFail(op)
             \/ OnWrite(op) \/ OnHeader(op) \/ OnLine(op) \/ Fails(op)
      PROVE  [Stream!Next]_(Stream!vars)
  BY <1>3, PageStream
<1> QED
  BY <1>1, <1>2, <1>3 DEF Next
-----------------------------------------------------------------------------
\* The listeners of m_one_content_fetched get the host's posts one at a time in
\* thread order, none twice and none left out, with one end.
THEOREM StreamsPosts == Spec => StreamSpec
<1>1. Init => Stream!Init
  BY DEF Init, Stream!Init, phase, started
<1>2. Whole /\ [Next]_vars => [Stream!Next]_(Stream!vars)
  BY StepStream
<1> QED
  BY <1>1, <1>2, WholeInvariance, PTL DEF Spec, StreamSpec, Stream!Spec
=============================================================================
