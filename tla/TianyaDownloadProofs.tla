------------------------- MODULE TianyaDownloadProofs -------------------------
(* Theorems about TianyaDownload, for any number of posts, of saves and of    *)
(* mails.                                                                     *)
EXTENDS TianyaDownload, SequenceTheorems, TLAPS

\* The closures, the slots and the signals on their way to the window, in the
\* order in which it will see them.
Pipe == gui_queue \o slot \o emitting

\* Of the posts fetched, those up to s have been shown and every other one is on
\* its way, in order; behind the end of the download there are only mails.
InOrder(pipe, s, f) ==
    /\ \A j, k \in 1..Len(pipe) :
        j < k /\ pipe[j].kind = "chunk" /\ pipe[k].kind = "chunk" => pipe[j].n < pipe[k].n
    /\ \A k \in 1..Len(pipe) : pipe[k].kind = "chunk" => pipe[k].n \in (s + 1)..f
    /\ \A n \in (s + 1)..f : \E k \in 1..Len(pipe) : pipe[k] = Chunk(n)
    /\ \A j, k \in 1..Len(pipe) :
        j < k /\ pipe[j].kind = "complete" => pipe[k].kind = "mailed"

\* The posts are numbered as they were fetched and as they were shown.
CountInv ==
    /\ Len(fetched) <= NumPosts /\ Len(shown) <= Len(fetched)
    /\ \A k \in 1..Len(fetched) : fetched[k] = k
    /\ \A k \in 1..Len(shown) : shown[k] = k

\* The window is there until its destructor begins.
AliveInv ==
    /\ is_gone <=> gui \notin {"idle", "mailing"}
    /\ ~is_gone => connected = {"chunk", "complete"}

\* Until then nothing is lost on the way to it.
PipeInv == ~is_gone =>
    /\ InOrder(Pipe, Len(shown), Len(fetched))
    /\ \A k \in 1..Len(Pipe) :
        /\ Pipe[k].kind = "complete" => phase = "ended" /\ completed = 0
        /\ Pipe[k].kind = "mailed" => Pipe[k].n \in 1..Len(mails)
        /\ completed = 1 => Pipe[k].kind = "mailed"

CompletedInv == completed = 1 => Len(shown) = Len(fetched) /\ phase = "ended"

\* What a click put on record was fetched by then.
SaveInv ==
    /\ \A i \in 1..Len(io_queue) : \A k \in 1..Len(io_queue[i]) :
        io_queue[i][k] <= Len(fetched)
    /\ \A i \in 1..Len(files) :
        /\ IsPrefix(files[i].text, context)
        /\ \A k \in 1..Len(files[i].shownThen) : files[i].shownThen[k] <= Len(fetched)
        /\ \A k \in 1..Len(context) :
            Contains(files[i].shownThen, context[k]) => Contains(files[i].text, context[k])

MailInv ==
    /\ \A i \in 1..Len(mails) : mails[i].after => completed = 1 /\ mails[i].text = context
    /\ gui = "mailing" => mails # <<>>
    /\ client = "progress" =>
        Len(mails) = completed /\ \A i \in 1..Len(mails) : mails[i].after

DownloadInv ==
    /\ TypeOK
    /\ CountInv /\ AliveInv /\ PipeInv /\ CompletedInv /\ SaveInv /\ MailInv
-----------------------------------------------------------------------------
(* The items on their way.                                                    *)

(* An item is of one of three kinds, and a chunk is known by its number.      *)
LEMMA ItemKinds ==
    /\ \A x \in Items : x.kind \in {"chunk", "complete", "mailed"}
    /\ \A x \in Items : x.kind = "chunk" => x.n \in 1..NumPosts /\ x = Chunk(x.n)
    /\ \A x \in Items : x.kind = "mailed" => x.n \in Nat
    /\ \A n \in 1..NumPosts :
        Chunk(n) \in Items /\ Chunk(n).kind = "chunk" /\ Chunk(n).n = n
    /\ \A n \in Nat : Mailed(n) \in Items /\ Mailed(n).kind = "mailed" /\ Mailed(n).n = n
    /\ Complete \in Items /\ Complete.kind = "complete"
  BY DEF Items, Emissions, Chunk, Mailed, Complete

(* A chunk at the head carries the next post.                                 *)
LEMMA HeadIsNext ==
    ASSUME NEW q \in Seq(Items), q # <<>>, NEW s \in Nat, NEW f \in Nat,
           InOrder(q, s, f), Head(q).kind = "chunk"
    PROVE  Head(q).n = s + 1 /\ s + 1 <= f
<1>1. Len(q) \in Nat \ {0} /\ Head(q) = q[1] /\ \A k \in 1..Len(q) : q[k] \in Items
  BY EmptySeq, LenProperties, ElementOfSeq
<1>2. q[1].n \in (s + 1)..f
  BY <1>1 DEF InOrder
<1>3. PICK k \in 1..Len(q) : q[k] = Chunk(s + 1)
  BY <1>2 DEF InOrder
<1>4. q[k].kind = "chunk" /\ q[k].n = s + 1
  BY <1>3 DEF Chunk
<1>5. k > 1 => q[1].n < q[k].n
  BY <1>1, <1>4 DEF InOrder
<1> QED BY <1>1, <1>2, <1>4, <1>5

(* The rest is in order once the head has been dealt with ...                 *)
LEMMA OrderOfTail ==
    ASSUME NEW q \in Seq(Items), q # <<>>, NEW s \in Nat, NEW f \in Nat,
           InOrder(q, s, f)
    PROVE  /\ Head(q).kind = "chunk" => InOrder(Tail(q), s + 1, f)
           /\ Head(q).kind # "chunk" => InOrder(Tail(q), s, f)
<1> DEFINE t == Tail(q)
           l == Len(q)
<1>1. /\ l \in Nat \ {0} /\ Head(q) = q[1] /\ \A k \in 1..l : q[k] \in Items
      /\ t \in Seq(Items) /\ Len(t) = l - 1 /\ \A k \in 1..(l - 1) : t[k] = q[k + 1]
  BY EmptySeq, LenProperties, ElementOfSeq, HeadTailProperties
<1>2. /\ \A j, k \in 1..l :
            j < k /\ q[j].kind = "chunk" /\ q[k].kind = "chunk" => q[j].n < q[k].n
      /\ \A k \in 1..l : q[k].kind = "chunk" => q[k].n \in (s + 1)..f
      /\ \A n \in (s + 1)..f : \E k \in 1..l : q[k] = Chunk(n)
      /\ \A j, k \in 1..l : j < k /\ q[j].kind = "complete" => q[k].kind = "mailed"
  BY DEF InOrder
<1> HIDE DEF t, l
<1>3. \A j, k \in 1..Len(t) :
        /\ j < k /\ t[j].kind = "chunk" /\ t[k].kind = "chunk" => t[j].n < t[k].n
        /\ j < k /\ t[j].kind = "complete" => t[k].kind = "mailed"
  <2> TAKE j, k \in 1..Len(t)
  <2>1. /\ j + 1 \in 1..l /\ k + 1 \in 1..l /\ (j < k => j + 1 < k + 1)
        /\ t[j] = q[j + 1] /\ t[k] = q[k + 1]
    BY <1>1
  <2> QED BY <1>2, <2>1
<1>4. CASE Head(q).kind = "chunk"
  <2>1. q[1].n = s + 1
    BY <1>4, HeadIsNext, <1>1
  <2>2. \A k \in 1..Len(t) : t[k].kind = "chunk" => t[k].n \in (s + 2)..f
    <3> SUFFICES ASSUME NEW k \in 1..Len(t), t[k].kind = "chunk"
                 PROVE  t[k].n \in (s + 2)..f
      OBVIOUS
    <3>1. t[k] = q[k + 1] /\ k + 1 \in 1..l /\ 1 \in 1..l /\ 1 < k + 1
      BY <1>1
    <3>2. q[1].n < q[k + 1].n
      BY <1>1, <1>2, <1>4, <3>1
    <3>3. q[k + 1].n \in (s + 1)..f
      BY <1>2, <3>1
    <3> QED BY <2>1, <3>1, <3>2, <3>3
  <2>3. \A n \in (s + 2)..f : \E k \in 1..Len(t) : t[k] = Chunk(n)
    <3> SUFFICES ASSUME NEW n \in (s + 2)..f
                 PROVE  \E k \in 1..Len(t) : t[k] = Chunk(n)
      OBVIOUS
    <3>1. PICK k \in 1..l : q[k] = Chunk(n)
      BY <1>2
    <3>2. k # 1
      BY <2>1, <3>1 DEF Chunk
    <3>3. k - 1 \in 1..Len(t) /\ t[k - 1] = q[k]
      BY <1>1, <3>2
    <3> QED BY <3>1, <3>3
  <2>4. InOrder(t, s + 1, f)
    BY <1>3, <2>2, <2>3 DEF InOrder
  <2> QED BY <1>4, <2>4 DEF t
<1>5. CASE Head(q).kind # "chunk"
  <2>1. \A k \in 1..Len(t) : t[k].kind = "chunk" => t[k].n \in (s + 1)..f
    BY <1>1, <1>2
  <2>2. \A n \in (s + 1)..f : \E k \in 1..Len(t) : t[k] = Chunk(n)
    <3> SUFFICES ASSUME NEW n \in (s + 1)..f
                 PROVE  \E k \in 1..Len(t) : t[k] = Chunk(n)
      OBVIOUS
    <3>1. PICK k \in 1..l : q[k] = Chunk(n)
      BY <1>2
    <3>2. k # 1
      BY <1>1, <1>5, <3>1 DEF Chunk
    <3>3. k - 1 \in 1..Len(t) /\ t[k - 1] = q[k]
      BY <1>1, <3>2
    <3> QED BY <3>1, <3>3
  <2>3. InOrder(t, s, f)
    BY <1>3, <2>1, <2>2 DEF InOrder
  <2> QED BY <1>5, <2>3 DEF t
<1> QED BY <1>4, <1>5

(* ... and stays in order when the next post is fetched, ...                  *)
LEMMA OrderOfChunk ==
    ASSUME NEW q \in Seq(Items), NEW s \in Nat, NEW f \in Nat, s <= f,
           f + 1 \in 1..NumPosts, InOrder(q, s, f),
           \A k \in 1..Len(q) : q[k].kind # "complete"
    PROVE  InOrder(Append(q, Chunk(f + 1)), s, f + 1)
<1> DEFINE t == Append(q, Chunk(f + 1))
           l == Len(q)
<1>1. /\ l \in Nat /\ \A k \in 1..l : q[k] \in Items
      /\ t \in Seq(Items) /\ Len(t) = l + 1 /\ t[l + 1] = Chunk(f + 1)
      /\ \A k \in 1..l : t[k] = q[k]
  BY LenProperties, ElementOfSeq, AppendProperties, ItemKinds
<1>2. /\ \A j, k \in 1..l :
            j < k /\ q[j].kind = "chunk" /\ q[k].kind = "chunk" => q[j].n < q[k].n
      /\ \A k \in 1..l : q[k].kind = "chunk" => q[k].n \in (s + 1)..f
      /\ \A n \in (s + 1)..f : \E k \in 1..l : q[k] = Chunk(n)
      /\ \A j, k \in 1..l : j < k /\ q[j].kind = "complete" => q[k].kind = "mailed"
      /\ \A k \in 1..l : q[k].kind # "complete"
  BY DEF InOrder
<1> HIDE DEF t, l
<1>3. Chunk(f + 1).kind = "chunk" /\ Chunk(f + 1).n = f + 1
  BY DEF Chunk
<1>4. \A k \in 1..Len(t) : k \in 1..l \/ k = l + 1
  BY <1>1
<1>5. \A j, k \in 1..Len(t) :
        j < k /\ t[j].kind = "chunk" /\ t[k].kind = "chunk" => t[j].n < t[k].n
  <2> SUFFICES ASSUME NEW j \in 1..Len(t), NEW k \in 1..Len(t), j < k,
                      t[j].kind = "chunk", t[k].kind = "chunk"
               PROVE  t[j].n < t[k].n
    OBVIOUS
  <2>1. j \in 1..l /\ t[j] = q[j] /\ t[j].n \in (s + 1)..f
    BY <1>1, <1>2
  <2>2. CASE k \in 1..l
    BY <1>1, <1>2, <2>1, <2>2
  <2>3. CASE k = l + 1
    BY <1>1, <1>3, <2>1, <2>3
  <2> QED BY <1>4, <2>2, <2>3
<1>6. \A k \in 1..Len(t) : t[k].kind = "chunk" => t[k].n \in (s + 1)..(f + 1)
  BY <1>1, <1>2, <1>3, <1>4
<1>7. \A n \in (s + 1)..(f + 1) : \E k \in 1..Len(t) : t[k] = Chunk(n)
  <2> TAKE n \in (s + 1)..(f + 1)
  <2>1. CASE n = f + 1
    BY <1>1, <2>1
  <2>2. CASE n # f + 1
    <3>1. PICK k \in 1..l : q[k] = Chunk(n)
      BY <1>2, <2>2
    <3> QED BY <1>1, <3>1
  <2> QED BY <2>1, <2>2
<1>8. \A j, k \in 1..Len(t) : j < k /\ t[j].kind = "complete" => t[k].kind = "mailed"
  BY <1>1, <1>2
<1> QED BY <1>5, <1>6, <1>7, <1>8 DEF InOrder, t

(* ... when a mail is over, and when the download is, which happens once.     *)
LEMMA OrderOfOther ==
    ASSUME NEW q \in Seq(Items), NEW s \in Nat, NEW f \in Nat, NEW x \in Items,
           InOrder(q, s, f), x.kind # "chunk",
           x.kind = "mailed" \/ \A k \in 1..Len(q) : q[k].kind # "complete"
    PROVE  InOrder(Append(q, x), s, f)
<1> DEFINE t == Append(q, x)
           l == Len(q)
<1>1. /\ l \in Nat
      /\ t \in Seq(Items) /\ Len(t) = l + 1 /\ t[l + 1] = x
      /\ \A k \in 1..l : t[k] = q[k]
  BY LenProperties, AppendProperties
<1>2. /\ \A j, k \in 1..l :
            j < k /\ q[j].kind = "chunk" /\ q[k].kind = "chunk" => q[j].n < q[k].n
      /\ \A k \in 1..l : q[k].kind = "chunk" => q[k].n \in (s + 1)..f
      /\ \A n \in (s + 1)..f : \E k \in 1..l : q[k] = Chunk(n)
      /\ \A j, k \in 1..l : j < k /\ q[j].kind = "complete" => q[k].kind = "mailed"
      /\ x.kind = "mailed" \/ \A k \in 1..l : q[k].kind # "complete"
  BY DEF InOrder
<1> HIDE DEF t, l
<1>3. \A k \in 1..Len(t) : k \in 1..l \/ k = l + 1
  BY <1>1
<1>4. \A j, k \in 1..Len(t) :
        j < k /\ t[j].kind = "chunk" /\ t[k].kind = "chunk" => t[j].n < t[k].n
  BY <1>1, <1>2, <1>3
<1>5. \A k \in 1..Len(t) : t[k].kind = "chunk" => t[k].n \in (s + 1)..f
  BY <1>1, <1>2, <1>3
<1>6. \A n \in (s + 1)..f : \E k \in 1..Len(t) : t[k] = Chunk(n)
  <2> TAKE n \in (s + 1)..f
  <2>1. PICK k \in 1..l : q[k] = Chunk(n)
    BY <1>2
  <2> QED BY <1>1, <2>1
<1>7. \A j, k \in 1..Len(t) : j < k /\ t[j].kind = "complete" => t[k].kind = "mailed"
  <2> SUFFICES ASSUME NEW j \in 1..Len(t), NEW k \in 1..Len(t), j < k,
                      t[j].kind = "complete"
               PROVE  t[k].kind = "mailed"
    OBVIOUS
  <2>1. j \in 1..l /\ t[j] = q[j]
    BY <1>1
  <2> QED BY <1>1, <1>2, <1>3, <2>1
<1> QED BY <1>4, <1>5, <1>6, <1>7 DEF InOrder, t
-----------------------------------------------------------------------------
(* A sequence of one element.                                                 *)
LEMMA OneItem == ASSUME NEW S, NEW s \in Seq(S), Len(s) = 1
                 PROVE  s = <<Head(s)>>
<1> DEFINE one == <<s[1]>>
<1>1. s[1] \in S /\ Head(s) = s[1]
  BY ElementOfSeq
<1>2. one \in Seq(S) /\ Len(one) = 1 /\ one[1] = s[1]
  BY <1>1
<1> HIDE DEF one
<1>3. s = one
  BY <1>2, SeqEqual
<1> QED BY <1>1, <1>3 DEF one

(* The way to the window is a sequence of items.                              *)
LEMMA PipeIs ==
    ASSUME TypeOK
    PROVE  /\ Pipe \in Seq(Items) /\ Len(Pipe) \in Nat
           /\ \A k \in 1..Len(Pipe) : Pipe[k] \in Items
           /\ slot = <<>> /\ emitting = <<>> => Pipe = gui_queue
<1>1. Pipe \in Seq(Items)
  <2>1. slot \in Seq(Items) /\ emitting \in Seq(Items)
    BY SeqMonotonic DEF TypeOK, Items
  <2> QED BY <2>1, ConcatProperties DEF TypeOK, Pipe
<1>2. slot = <<>> /\ emitting = <<>> => Pipe = gui_queue
  <2>1. gui_queue \in Seq(Items)
    BY DEF TypeOK
  <2>2. gui_queue \o <<>> = gui_queue
    BY <2>1, ConcatEmptySeq
  <2> QED BY <2>2 DEF Pipe
<1> QED BY <1>1, <1>2, LenProperties, ElementOfSeq

(* The posts are their own numbers.                                           *)
LEMMA PostsAre ==
    /\ Posts \in Seq(1..NumPosts) /\ Len(Posts) = NumPosts
    /\ \A k \in 1..NumPosts : Posts[k] = k
<1>1. NumPosts \in Nat
  BY DownloadAssumption
<1>2. Posts \in [1..NumPosts -> 1..NumPosts]
  BY DEF Posts
<1>3. Posts \in Seq(1..NumPosts)
  BY <1>1, <1>2, SeqDef
<1>4. Len(Posts) = NumPosts
  BY <1>1, <1>2, <1>3, LenProperties
<1> QED BY <1>3, <1>4 DEF Posts

(* The initial state.                                                         *)
LEMMA InitDownloadInv == Init => DownloadInv
<1> SUFFICES ASSUME Init PROVE DownloadInv
  OBVIOUS
<1>1. /\ client \in Clients /\ fetched = <<>> /\ phase = "idle"
      /\ context = <<>> /\ emitting = <<>> /\ slot = <<>>
      /\ io_queue = <<>> /\ mails = <<>> /\ files = <<>>
      /\ gui = "idle" /\ gui_queue = <<>>
      /\ connected = {"chunk", "complete"} /\ is_gone = FALSE
      /\ m_first_chunk = "yes"
      /\ shown = <<>> /\ completed = 0 /\ told = {} /\ timer = FALSE
  BY DEF Init, Stream!Init
<1>2. /\ <<>> \in Seq(1..NumPosts) /\ <<>> \in Seq(Items) /\ <<>> \in Seq(Emissions)
      /\ <<>> \in Seq(Mails)
      /\ <<>> \in Seq(Files) /\ <<>> \in Seq(Seq(1..NumPosts)) /\ Len(<<>>) = 0
      /\ NumPosts \in Nat
  BY EmptySeq, DownloadAssumption
<1>3. TypeOK
  <2>1. /\ fetched \in Seq(1..NumPosts) /\ context \in Seq(1..NumPosts)
        /\ emitting \in Seq(Emissions) /\ slot \in Seq(Emissions)
        /\ gui_queue \in Seq(Items)
        /\ shown \in Seq(1..NumPosts) /\ mails \in Seq(Mails)
        /\ io_queue \in Seq(Seq(1..NumPosts)) /\ files \in Seq(Files)
    BY <1>1, <1>2, Zenon
  <2>2. Len(slot) <= 1
    BY <1>1, <1>2
  <2>3. is_gone \in BOOLEAN /\ timer \in BOOLEAN
    BY <1>1
  <2>4. /\ connected \subseteq {"chunk", "complete"} /\ completed \in 0..1
        /\ \A m \in told : m \in 1..Len(mails)
    BY <1>1
  <2> HIDE <1>2
  <2> QED BY <1>1, <2>1, <2>2, <2>3, <2>4 DEF TypeOK, Stream!Phases
<1>4. Pipe = <<>>
  BY <1>1, <1>3, PipeIs
<1>5. InOrder(Pipe, Len(shown), Len(fetched))
  BY <1>1, <1>2, <1>4 DEF InOrder
<1> QED BY <1>1, <1>2, <1>3, <1>4, <1>5
        DEF DownloadInv, CountInv, AliveInv, PipeInv, CompletedInv, SaveInv, MailInv
-----------------------------------------------------------------------------
(* The steps that touch neither the posts nor what is on its way.             *)
LEMMA Quiet ==
    ASSUME DownloadInv, TypeOK', AliveInv',
           UNCHANGED <<client, fetched, context, emitting, slot, io_queue, mails>>,
           UNCHANGED <<gui_queue, shown, completed, files>>,
           phase' = phase \/ phase = "idle",
           is_gone => is_gone',
           gui' = "mailing" => gui = "mailing"
    PROVE  DownloadInv'
<1>1. Pipe' = Pipe
  BY DEF Pipe
<1>2. CountInv' /\ SaveInv' /\ MailInv'
  BY DEF DownloadInv, CountInv, SaveInv, MailInv
<1>3. CompletedInv'
  BY DEF DownloadInv, CompletedInv
<1>4. PipeInv'
  <2> SUFFICES ASSUME ~is_gone' PROVE PipeInv'
    BY DEF PipeInv
  <2>1. PipeInv /\ ~is_gone
    BY DEF DownloadInv
  <2>2. InOrder(Pipe, Len(shown), Len(fetched))'
    BY <1>1, <2>1 DEF PipeInv
  <2>3. \A k \in 1..Len(Pipe) :
            /\ Pipe[k].kind = "complete" => phase = "ended" /\ completed = 0
            /\ Pipe[k].kind = "mailed" => Pipe[k].n \in 1..Len(mails)
            /\ completed = 1 => Pipe[k].kind = "mailed"
    BY <2>1 DEF PipeInv
  <2> QED BY <1>1, <2>2, <2>3 DEF PipeInv
<1> QED BY <1>2, <1>3, <1>4 DEF DownloadInv

(* They are: the start, the timer of the first chunk, and the destructor.     *)
LEMMA QuietStep ==
    ASSUME DownloadInv,
           GuiStart \/ GuiFirstTimer \/ GuiClose \/ GuiDisconnect \/ GuiStop
    PROVE  DownloadInv'
<1> USE DEF GuiStart, GuiFirstTimer, GuiClose, GuiDisconnect, GuiStop
<1>1. /\ UNCHANGED <<client, fetched, context, emitting, slot, io_queue, mails>>
      /\ UNCHANGED <<gui_queue, shown, completed, told, files>>
  BY DEF Stream!Begin, io, view, ctx
<1>2. phase' = phase \/ (phase = "idle" /\ phase' = "running")
  BY DEF Stream!Begin, ctx
<1>3. is_gone => is_gone'
  OBVIOUS
<1>4. gui' = "mailing" => gui = "mailing"
  OBVIOUS
<1>5. AliveInv'
  BY DEF DownloadInv, AliveInv
<1>6. TypeOK'
  <2>1. /\ phase' \in Stream!Phases
        /\ gui' \in {"idle", "mailing", "closing", "disconnected", "deleted"}
        /\ m_first_chunk' \in {"yes", "armed", "fired"}
    BY <1>2 DEF DownloadInv, TypeOK, Stream!Phases, view
  <2>2. connected' \subseteq {"chunk", "complete"}
    BY DEF DownloadInv, TypeOK
  <2>3. is_gone' \in BOOLEAN /\ timer' \in BOOLEAN
    BY DEF DownloadInv, TypeOK, view
  <2> QED BY <1>1, <2>1, <2>2, <2>3 DEF DownloadInv, TypeOK
<1> HIDE DEF GuiStart, GuiFirstTimer, GuiClose, GuiDisconnect, GuiStop
<1> QED BY <1>1, <1>2, <1>3, <1>4, <1>5, <1>6, Quiet
-----------------------------------------------------------------------------
(* The steps of the io thread.                                                *)

(* A signal calls its slot, or, once disconnected, does not.                  *)
LEMMA EmitStep == ASSUME DownloadInv, IoEmit PROVE DownloadInv'
<1> DEFINE e == Head(emitting)
           t == Tail(emitting)
<1>1. /\ UNCHANGED <<client, fetched, phase, context, io_queue, mails, gui, gui_queue>>
      /\ UNCHANGED <<connected, is_gone, m_first_chunk, shown, completed, told, timer, files>>
      /\ slot = <<>> /\ emitting # <<>> /\ emitting' = t
      /\ slot' = IF e.kind \in connected THEN <<e>> ELSE <<>>
  BY DEF IoEmit, ctx, view
<1>2. /\ emitting \in Seq(Emissions) /\ e \in Emissions /\ t \in Seq(Emissions)
      /\ emitting = <<e>> \o t
  BY <1>1, HeadTailProperties DEF DownloadInv, TypeOK
<1> HIDE DEF e, t
<1>3. TypeOK'
  <2>1. slot' \in Seq(Emissions) /\ Len(slot') <= 1
    BY <1>1, <1>2
  <2> QED BY <1>1, <1>2, <2>1 DEF DownloadInv, TypeOK, Stream!Phases
<1>4. CountInv' /\ AliveInv' /\ CompletedInv' /\ SaveInv' /\ MailInv'
  BY <1>1 DEF DownloadInv, CountInv, AliveInv, CompletedInv, SaveInv, MailInv
<1>5. PipeInv'
  <2> SUFFICES ASSUME ~is_gone' PROVE PipeInv'
    BY DEF PipeInv
  <2>1. PipeInv /\ ~is_gone /\ connected = {"chunk", "complete"}
    BY <1>1 DEF DownloadInv, AliveInv
  <2>2. slot' = <<e>>
    <3>1. e.kind \in {"chunk", "complete"}
      BY <1>2 DEF Emissions
    <3> QED BY <1>1, <2>1, <3>1
  <2>3. Pipe' = Pipe
    <3>1. /\ gui_queue \in Seq(Items) /\ <<e>> \in Seq(Items) /\ t \in Seq(Items)
      BY <1>2, SeqMonotonic DEF DownloadInv, TypeOK, Items
    <3>2. gui_queue \o <<>> = gui_queue
      BY <3>1, ConcatEmptySeq
    <3>3. (gui_queue \o <<e>>) \o t = gui_queue \o (<<e>> \o t)
      BY <3>1, ConcatAssociative
    <3> QED BY <1>1, <1>2, <2>2, <3>2, <3>3 DEF Pipe
  <2> QED BY <1>1, <2>1, <2>3 DEF PipeInv
<1> QED BY <1>3, <1>4, <1>5 DEF DownloadInv

(* A slot posts its closure: behind those that wait.                          *)
LEMMA SlotStep == ASSUME DownloadInv, IoSlot PROVE DownloadInv'
<1> DEFINE e == Head(slot)
<1>1. /\ UNCHANGED <<client, fetched, phase, context, io_queue, mails, gui, emitting>>
      /\ UNCHANGED <<connected, is_gone, m_first_chunk, shown, completed, told, timer, files>>
      /\ slot # <<>> /\ slot' = <<>> /\ gui_queue' = Append(gui_queue, e)
  BY DEF IoSlot, ctx, view
<1>2. slot \in Seq(Emissions) /\ e \in Emissions /\ slot = <<e>>
  <2>1. slot \in Seq(Emissions) /\ Len(slot) = 1
    <3>1. slot \in Seq(Emissions) /\ Len(slot) <= 1
      BY DEF DownloadInv, TypeOK
    <3> DEFINE n == Len(slot)
    <3>2. n \in Nat \ {0} /\ n <= 1
      BY <1>1, <3>1, EmptySeq
    <3> HIDE DEF n
    <3>3. n = 1
      BY <3>2
    <3> QED BY <3>1, <3>3 DEF n
  <2>2. e = slot[1] /\ e \in Emissions
    BY <2>1, ElementOfSeq
  <2> QED BY <2>1, <2>2, OneItem
<1> HIDE DEF e
<1>3. gui_queue' \in Seq(Items) /\ gui_queue' = gui_queue \o slot
  <2>1. gui_queue \in Seq(Items) /\ e \in Items
    BY <1>2 DEF DownloadInv, TypeOK, Items
  <2> QED BY <1>1, <1>2, <2>1
<1>4. TypeOK'
  <2>1. slot' \in Seq(Emissions) /\ Len(slot') <= 1
    BY <1>1
  <2> QED BY <1>1, <1>3, <2>1 DEF DownloadInv, TypeOK, Stream!Phases
<1>5. CountInv' /\ AliveInv' /\ CompletedInv' /\ SaveInv' /\ MailInv'
  BY <1>1 DEF DownloadInv, CountInv, AliveInv, CompletedInv, SaveInv, MailInv
<1>6. PipeInv'
  <2>1. Pipe' = Pipe
    <3>1. gui_queue' \o <<>> = gui_queue'
      BY <1>3, ConcatEmptySeq
    <3> QED BY <1>1, <1>3, <3>1 DEF Pipe
  <2> QED BY <1>1, <2>1 DEF DownloadInv, PipeInv
<1> QED BY <1>4, <1>5, <1>6 DEF DownloadInv

(* Whatever follows, what was a prefix of the kept posts remains one.         *)
LEMMA PrefixGrows ==
    ASSUME NEW S, NEW s \in Seq(S), NEW t \in Seq(S), NEW e \in S, IsPrefix(s, t)
    PROVE  IsPrefix(s, Append(t, e))
<1> DEFINE u == Append(t, e)
           n == Len(s)
<1>1. /\ u \in Seq(S) /\ Len(u) = Len(t) + 1 /\ Len(t) \in Nat /\ n \in Nat
      /\ \A k \in 1..Len(t) : u[k] = t[k]
      /\ \A k \in 1..Len(t) : t[k] \in S
      /\ \A k \in 1..Len(u) : u[k] \in S
  BY AppendProperties, LenProperties, ElementOfSeq
<1>2. n <= Len(t) /\ SubSeq(s, 1, n) = SubSeq(t, 1, n)
  BY DEF IsPrefix
<1> HIDE DEF u, n
<1>3. /\ SubSeq(t, 1, n) \in Seq(S) /\ Len(SubSeq(t, 1, n)) = n
      /\ \A k \in 1..n : SubSeq(t, 1, n)[k] = t[k]
  <2>1. \A k \in 1..n : t[k] \in S
    BY <1>1, <1>2
  <2>2. /\ SubSeq(t, 1, n) \in Seq(S)
        /\ Len(SubSeq(t, 1, n)) = IF 1 <= n THEN n - 1 + 1 ELSE 0
        /\ \A k \in 1..(n - 1 + 1) : SubSeq(t, 1, n)[k] = t[1 + k - 1]
    BY <1>1, <2>1, SubSeqProperties
  <2> QED BY <1>1, <2>2
<1>4. /\ SubSeq(u, 1, n) \in Seq(S) /\ Len(SubSeq(u, 1, n)) = n
      /\ \A k \in 1..n : SubSeq(u, 1, n)[k] = u[k]
  <2>1. \A k \in 1..n : u[k] \in S
    BY <1>1, <1>2
  <2>2. /\ SubSeq(u, 1, n) \in Seq(S)
        /\ Len(SubSeq(u, 1, n)) = IF 1 <= n THEN n - 1 + 1 ELSE 0
        /\ \A k \in 1..(n - 1 + 1) : SubSeq(u, 1, n)[k] = u[1 + k - 1]
    BY <1>1, <2>1, SubSeqProperties
  <2> QED BY <1>1, <2>2
<1>5. SubSeq(u, 1, n) = SubSeq(t, 1, n)
  <2>1. \A k \in 1..n : SubSeq(u, 1, n)[k] = SubSeq(t, 1, n)[k]
    BY <1>1, <1>2, <1>3, <1>4
  <2> QED BY <1>3, <1>4, <2>1, SeqEqual
<1> QED BY <1>1, <1>2, <1>5 DEF IsPrefix, u, n

(* Nothing is left for the window but mails: nothing is on its way that the   *)
(* download could still send.                                                 *)
LEMMA RunningPipe ==
    ASSUME DownloadInv, phase = "running"
    PROVE  /\ completed # 1
           /\ ~is_gone => \A k \in 1..Len(Pipe) : Pipe[k].kind # "complete"
           /\ \A i \in 1..Len(mails) : ~mails[i].after
  BY DEF DownloadInv, CompletedInv, PipeInv, MailInv

(* The kept posts with the one just fetched, or without: no file on disk and  *)
(* none to be written has shown it.                                           *)
LEMMA SavesCoverNext ==
    ASSUME TypeOK, SaveInv, Len(fetched) + 1 \in 1..NumPosts,
           UNCHANGED <<io_queue, files>>,
           context' \in {context, Append(context, Len(fetched) + 1)},
           Len(fetched') = Len(fetched) + 1
    PROVE  SaveInv'
<1> DEFINE next == Len(fetched) + 1
<1>1. /\ context \in Seq(1..NumPosts) /\ Len(context) \in Nat /\ Len(fetched) \in Nat
      /\ \A i \in 1..Len(files) :
            /\ files[i].text \in Seq(1..NumPosts) /\ files[i].shownThen \in Seq(1..NumPosts)
      /\ \A i \in 1..Len(io_queue) : io_queue[i] \in Seq(1..NumPosts)
  <2>1. /\ context \in Seq(1..NumPosts) /\ fetched \in Seq(1..NumPosts)
        /\ io_queue \in Seq(Seq(1..NumPosts)) /\ files \in Seq(Files)
    BY DEF TypeOK
  <2>2. \A i \in 1..Len(files) : files[i] \in Files
    BY <2>1, ElementOfSeq
  <2>3. \A i \in 1..Len(io_queue) : io_queue[i] \in Seq(1..NumPosts)
    BY <2>1, ElementOfSeq
  <2> QED BY <2>1, <2>2, <2>3, LenProperties DEF Files
<1>2. \A i \in 1..Len(io_queue) : \A k \in 1..Len(io_queue[i]) :
        io_queue[i][k] <= Len(fetched')
  <2> TAKE i \in 1..Len(io_queue)
  <2> TAKE k \in 1..Len(io_queue[i])
  <2>1. io_queue[i][k] <= Len(fetched) /\ io_queue[i][k] \in 1..NumPosts
    BY <1>1, ElementOfSeq DEF SaveInv
  <2> QED BY <1>1, <2>1
<1>3. ASSUME NEW i \in 1..Len(files)
      PROVE  /\ IsPrefix(files[i].text, context')
             /\ \A k \in 1..Len(files[i].shownThen) : files[i].shownThen[k] <= Len(fetched')
             /\ \A k \in 1..Len(context') :
                  Contains(files[i].shownThen, context'[k])
                    => Contains(files[i].text, context'[k])
  <2> DEFINE s == files[i].shownThen
             t == files[i].text
  <2>1. /\ s \in Seq(1..NumPosts) /\ t \in Seq(1..NumPosts) /\ IsPrefix(t, context)
        /\ \A k \in 1..Len(s) : s[k] <= Len(fetched)
        /\ \A k \in 1..Len(context) : Contains(s, context[k]) => Contains(t, context[k])
    BY <1>1 DEF SaveInv
  <2> HIDE DEF s, t
  <2>2. \A k \in 1..Len(s) : s[k] <= Len(fetched') /\ s[k] # next
    <3> TAKE k \in 1..Len(s)
    <3>1. s[k] \in 1..NumPosts /\ s[k] <= Len(fetched)
      BY <2>1, ElementOfSeq
    <3> QED BY <1>1, <3>1
  <2>3. CASE context' = context
    BY <2>1, <2>2, <2>3 DEF s, t
  <2>4. CASE context' = Append(context, next)
    <3>1. /\ Len(context') = Len(context) + 1 /\ context'[Len(context) + 1] = next
          /\ \A k \in 1..Len(context) : context'[k] = context[k]
      BY <1>1, <2>4, AppendProperties
    <3>2. IsPrefix(t, context')
      BY <1>1, <2>1, <2>4, PrefixGrows
    <3>3. ~Contains(s, next)
      BY <2>2 DEF Contains
    <3> HIDE DEF next
    <3>4. \A k \in 1..Len(context') : Contains(s, context'[k]) => Contains(t, context'[k])
      <4> TAKE k \in 1..Len(context')
      <4>1. k \in 1..Len(context) \/ k = Len(context) + 1
        BY <1>1, <3>1
      <4>2. CASE k \in 1..Len(context)
        BY <2>1, <3>1, <4>2
      <4>3. CASE k = Len(context) + 1
        BY <3>1, <3>3, <4>3
      <4> QED BY <4>1, <4>2, <4>3
    <3> QED BY <2>2, <3>2, <3>4 DEF s, t
  <2> QED BY <2>3, <2>4
<1> QED BY <1>2, <1>3 DEF SaveInv

(* The next post: it is kept or not, and its signal is on its way.            *)
LEMMA FetchStep == ASSUME DownloadInv, IoFetch PROVE DownloadInv'
<1> DEFINE f == Len(fetched)
           next == f + 1
           one == Append(gui_queue, Chunk(next))
<1>1. /\ UNCHANGED <<client, slot, io_queue, mails, gui, gui_queue, connected, is_gone>>
      /\ UNCHANGED <<m_first_chunk, shown, completed, told, timer, files>>
      /\ emitting = <<>> /\ slot = <<>>
      /\ phase = "running" /\ phase' \in {"running", "ended"}
      /\ f < Len(Posts) /\ fetched' = Append(fetched, Posts[next])
      /\ context' \in {context, Append(context, Last(fetched'))}
      /\ emitting' = IF phase' = "ended" THEN <<Chunk(Last(fetched')), Complete>>
                     ELSE <<Chunk(Last(fetched'))>>
  BY DEF IoFetch, Stream!Deliver, ioIdle, view
<1>2. /\ fetched \in Seq(1..NumPosts) /\ f \in Nat /\ NumPosts \in Nat
      /\ context \in Seq(1..NumPosts) /\ gui_queue \in Seq(Items)
      /\ shown \in Seq(1..NumPosts) /\ Len(shown) \in Nat
  BY LenProperties, DownloadAssumption DEF DownloadInv, TypeOK
<1>3. next \in 1..NumPosts /\ Posts[next] = next
  BY <1>1, <1>2, PostsAre
<1>4. /\ fetched' \in Seq(1..NumPosts) /\ Len(fetched') = f + 1 /\ Last(fetched') = next
      /\ fetched'[next] = next /\ \A k \in 1..f : fetched'[k] = fetched[k]
  BY <1>1, <1>2, <1>3, AppendProperties DEF Last
<1>5. /\ context' \in {context, Append(context, next)}
      /\ emitting' = IF phase' = "ended" THEN <<Chunk(next), Complete>> ELSE <<Chunk(next)>>
      /\ context' \in Seq(1..NumPosts)
  <2>1. Append(context, next) \in Seq(1..NumPosts)
    BY <1>2, <1>3, AppendProperties
  <2> HIDE DEF next, f
  <2> QED BY <1>1, <1>2, <1>4, <2>1
<1>6. Chunk(next) \in Emissions /\ Complete \in Emissions
      /\ Chunk(next).kind = "chunk" /\ Complete.kind = "complete"
      /\ Chunk(next) \in Items /\ Complete \in Items
  BY <1>3 DEF Chunk, Complete, Emissions, Items
<1> HIDE DEF next, f
<1>7. TypeOK'
  <2>1. emitting' \in Seq(Emissions)
    BY <1>5, <1>6
  <2>2. phase' \in Stream!Phases
    BY <1>1 DEF Stream!Phases
  <2> QED BY <1>1, <1>4, <1>5, <2>1, <2>2 DEF DownloadInv, TypeOK
<1>8. CountInv'
  <2>1. /\ f <= NumPosts /\ Len(shown) <= f
        /\ \A k \in 1..f : fetched[k] = k
        /\ \A k \in 1..Len(shown) : shown[k] = k
    BY DEF DownloadInv, CountInv, f
  <2>2. \A k \in 1..Len(fetched') : k \in 1..f \/ k = next
    BY <1>2, <1>4 DEF next
  <2>3. \A k \in 1..Len(fetched') : fetched'[k] = k
    BY <1>4, <2>1, <2>2
  <2>4. Len(fetched') <= NumPosts /\ Len(shown) <= Len(fetched')
    BY <1>2, <1>3, <1>4, <2>1 DEF next
  <2> QED BY <1>1, <2>1, <2>3, <2>4 DEF CountInv
<1>9. AliveInv'
  BY <1>1 DEF DownloadInv, AliveInv
<1>10. CompletedInv' /\ MailInv'
  <2>1. completed # 1 /\ \A i \in 1..Len(mails) : ~mails[i].after
    BY <1>1, RunningPipe
  <2> QED BY <1>1, <2>1 DEF DownloadInv, CompletedInv, MailInv
<1>11. SaveInv'
  <2>1. TypeOK /\ SaveInv
    BY DEF DownloadInv
  <2> QED BY <1>1, <1>3, <1>4, <1>5, <2>1, SavesCoverNext DEF next, f
<1>12. PipeInv'
  <2> SUFFICES ASSUME ~is_gone' PROVE PipeInv'
    BY DEF PipeInv
  <2>1. /\ Pipe = gui_queue /\ \A k \in 1..Len(gui_queue) : gui_queue[k].kind # "complete"
        /\ completed # 1 /\ completed \in 0..1
        /\ InOrder(gui_queue, Len(shown), f)
        /\ \A k \in 1..Len(gui_queue) :
            gui_queue[k].kind = "mailed" => gui_queue[k].n \in 1..Len(mails)
    <3>1. Pipe = gui_queue
      BY <1>1, PipeIs DEF DownloadInv
    <3>2. PipeInv /\ completed \in 0..1
      BY DEF DownloadInv, TypeOK
    <3> QED BY <1>1, <3>1, <3>2, RunningPipe DEF PipeInv, f
  <2>2. /\ one \in Seq(Items) /\ Len(one) = Len(gui_queue) + 1
        /\ one[Len(gui_queue) + 1] = Chunk(next)
        /\ \A k \in 1..Len(gui_queue) : one[k] = gui_queue[k]
        /\ Len(gui_queue) \in Nat
    BY <1>2, <1>6, AppendProperties, LenProperties
  <2>3. gui_queue \o <<>> = gui_queue /\ gui_queue \o <<Chunk(next)>> = one
        /\ gui_queue \o <<Chunk(next), Complete>> = Append(one, Complete)
    BY <1>2, <1>6
  <2> HIDE DEF one
  <2>4. InOrder(one, Len(shown), next)
    <3>1. Len(shown) <= f
      BY DEF DownloadInv, CountInv, f
    <3> QED BY <1>2, <1>3, <2>1, <3>1, OrderOfChunk DEF next, one
  <2>5. \A k \in 1..Len(one) :
            /\ one[k].kind # "complete"
            /\ one[k].kind = "mailed" => one[k].n \in 1..Len(mails)
    <3> TAKE k \in 1..Len(one)
    <3>1. k \in 1..Len(gui_queue) \/ k = Len(gui_queue) + 1
      BY <2>2
    <3> QED BY <1>6, <2>1, <2>2, <3>1
  <2>6. CASE phase' = "ended"
    <3> DEFINE two == Append(one, Complete)
    <3>1. Pipe' = two
      BY <1>1, <1>5, <2>3, <2>6 DEF Pipe
    <3>2. /\ Len(two) = Len(one) + 1 /\ two[Len(one) + 1] = Complete /\ Len(one) \in Nat
          /\ \A k \in 1..Len(one) : two[k] = one[k]
      BY <1>6, <2>2, AppendProperties, LenProperties
    <3>3. InOrder(two, Len(shown), next)
      BY <1>2, <1>3, <1>6, <2>2, <2>4, <2>5, OrderOfOther
    <3> HIDE DEF two
    <3>4. \A k \in 1..Len(two) : two[k].kind = "mailed" => two[k].n \in 1..Len(mails)
      <4> TAKE k \in 1..Len(two)
      <4>1. k \in 1..Len(one) \/ k = Len(one) + 1
        BY <3>2
      <4> QED BY <1>6, <2>5, <3>2, <4>1
    <3> QED BY <1>1, <1>4, <2>1, <2>6, <3>1, <3>3, <3>4 DEF PipeInv, next
  <2>7. CASE phase' # "ended"
    <3>1. Pipe' = one
      BY <1>1, <1>5, <2>3, <2>7 DEF Pipe
    <3> QED BY <1>1, <1>4, <2>1, <2>4, <2>5, <3>1 DEF PipeInv, next
  <2> QED BY <2>6, <2>7
<1> QED BY <1>7, <1>8, <1>9, <1>10, <1>11, <1>12 DEF DownloadInv

(* The end of the download, announced or in silence.                          *)
LEMMA FinishStep == ASSUME DownloadInv, IoFinish PROVE DownloadInv'
<1>1. /\ UNCHANGED <<client, fetched, context, slot, io_queue, mails, gui, gui_queue>>
      /\ UNCHANGED <<connected, is_gone, m_first_chunk, shown, completed, told, timer, files>>
      /\ emitting = <<>> /\ slot = <<>>
      /\ phase = "running" /\ phase' \in {"ended", "silent"}
      /\ emitting' = IF phase' = "ended" THEN <<Complete>> ELSE <<>>
  BY DEF IoFinish, Stream!Finish, ioIdle, view
<1>2. Complete \in Emissions /\ Complete.kind = "complete" /\ Complete \in Items
  BY DEF Complete, Emissions, Items
<1>3. TypeOK'
  <2>1. emitting' \in Seq(Emissions) /\ phase' \in Stream!Phases
    BY <1>1, <1>2 DEF Stream!Phases
  <2> QED BY <1>1, <2>1 DEF DownloadInv, TypeOK
<1>4. completed # 1 /\ completed \in 0..1
  BY <1>1, RunningPipe DEF DownloadInv, TypeOK
<1>5. CountInv' /\ AliveInv' /\ CompletedInv' /\ SaveInv' /\ MailInv'
  BY <1>1, <1>4 DEF DownloadInv, CountInv, AliveInv, CompletedInv, SaveInv, MailInv
<1>6. PipeInv'
  <2> SUFFICES ASSUME ~is_gone' PROVE PipeInv'
    BY DEF PipeInv
  <2>1. /\ Pipe = gui_queue /\ \A k \in 1..Len(gui_queue) : gui_queue[k].kind # "complete"
        /\ InOrder(gui_queue, Len(shown), Len(fetched))
        /\ \A k \in 1..Len(gui_queue) :
            gui_queue[k].kind = "mailed" => gui_queue[k].n \in 1..Len(mails)
    <3>1. Pipe = gui_queue
      BY <1>1, PipeIs DEF DownloadInv
    <3>2. PipeInv
      BY DEF DownloadInv
    <3> QED BY <1>1, <3>1, <3>2, RunningPipe DEF PipeInv
  <2>2. gui_queue \in Seq(Items) /\ Len(gui_queue) \in Nat
        /\ Len(shown) \in Nat /\ Len(fetched) \in Nat
    BY LenProperties DEF DownloadInv, TypeOK
  <2>3. gui_queue \o <<>> = gui_queue /\ gui_queue \o <<Complete>> = Append(gui_queue, Complete)
    BY <1>2, <2>2
  <2>4. CASE phase' = "ended"
    <3> DEFINE two == Append(gui_queue, Complete)
    <3>1. Pipe' = two
      BY <1>1, <2>3, <2>4 DEF Pipe
    <3>2. /\ Len(two) = Len(gui_queue) + 1 /\ two[Len(gui_queue) + 1] = Complete
          /\ \A k \in 1..Len(gui_queue) : two[k] = gui_queue[k]
      BY <1>2, <2>2, AppendProperties
    <3>3. InOrder(two, Len(shown), Len(fetched))
      BY <1>2, <2>1, <2>2, OrderOfOther
    <3> HIDE DEF two
    <3>4. \A k \in 1..Len(two) : two[k].kind = "mailed" => two[k].n \in 1..Len(mails)
      <4> TAKE k \in 1..Len(two)
      <4>1. k \in 1..Len(gui_queue) \/ k = Len(gui_queue) + 1
        BY <2>2, <3>2
      <4> QED BY <1>2, <2>1, <3>2, <4>1
    <3> QED BY <1>1, <1>4, <2>4, <3>1, <3>3, <3>4 DEF PipeInv
  <2>5. CASE phase' # "ended"
    <3>1. Pipe' = gui_queue
      BY <1>1, <2>3, <2>5 DEF Pipe
    <3> QED BY <1>1, <1>4, <2>1, <3>1 DEF PipeInv
  <2> QED BY <2>4, <2>5
<1> QED BY <1>3, <1>5, <1>6 DEF DownloadInv

(* The file is written: it gets all that is kept by now.                      *)
LEMMA SaveStep == ASSUME DownloadInv, IoSave PROVE DownloadInv'
<1> DEFINE file == [shownThen |-> Head(io_queue), text |-> context]
<1>1. /\ UNCHANGED <<client, fetched, phase, context, emitting, slot, mails, gui, gui_queue>>
      /\ UNCHANGED <<connected, is_gone, m_first_chunk, shown, completed, told, timer>>
      /\ io_queue # <<>> /\ io_queue' = Tail(io_queue) /\ files' = Append(files, file)
  BY DEF IoSave, ctx, io, view
<1>2. /\ io_queue \in Seq(Seq(1..NumPosts)) /\ files \in Seq(Files)
      /\ context \in Seq(1..NumPosts)
  BY DEF DownloadInv, TypeOK
<1>3. /\ Head(io_queue) \in Seq(1..NumPosts) /\ Head(io_queue) = io_queue[1]
      /\ io_queue' \in Seq(Seq(1..NumPosts)) /\ Len(io_queue) \in Nat \ {0}
      /\ Len(io_queue') = Len(io_queue) - 1
      /\ \A i \in 1..Len(io_queue') : io_queue'[i] = io_queue[i + 1]
  <2>1. Len(io_queue) \in Nat \ {0}
    BY <1>1, <1>2, EmptySeq
  <2> QED BY <1>1, <1>2, <2>1, HeadTailProperties
<1>4. file \in Files /\ file.shownThen = Head(io_queue) /\ file.text = context
  BY <1>2, <1>3 DEF Files
<1> HIDE DEF file
<1>5. /\ files' \in Seq(Files) /\ Len(files') = Len(files) + 1 /\ Len(files) \in Nat
      /\ files'[Len(files) + 1] = file
      /\ \A i \in 1..Len(files) : files'[i] = files[i]
  BY <1>1, <1>2, <1>4, AppendProperties, LenProperties
<1>6. TypeOK'
  BY <1>1, <1>3, <1>5 DEF DownloadInv, TypeOK, Stream!Phases
<1>7. CountInv' /\ AliveInv' /\ CompletedInv' /\ MailInv'
  BY <1>1 DEF DownloadInv, CountInv, AliveInv, CompletedInv, MailInv
<1>8. PipeInv'
  <2>1. Pipe' = Pipe
    BY <1>1 DEF Pipe
  <2> QED BY <1>1, <2>1 DEF DownloadInv, PipeInv
<1>9. SaveInv'
  <2>1. SaveInv
    BY DEF DownloadInv
  <2>2. \A i \in 1..Len(io_queue') : \A k \in 1..Len(io_queue'[i]) :
            io_queue'[i][k] <= Len(fetched')
    <3> TAKE i \in 1..Len(io_queue')
    <3> DEFINE j == i + 1
    <3>1. j \in 1..Len(io_queue) /\ io_queue'[i] = io_queue[j]
      BY <1>3
    <3> HIDE DEF j
    <3> QED BY <1>1, <2>1, <3>1 DEF SaveInv
  <2>3. \A k \in 1..Len(file.shownThen) : file.shownThen[k] <= Len(fetched')
    <3>1. 1 \in 1..Len(io_queue)
      BY <1>3
    <3> QED BY <1>1, <1>3, <1>4, <2>1, <3>1 DEF SaveInv
  <2>4. IsPrefix(context, context)
    BY <1>2, SubSeqFull, LenProperties DEF IsPrefix
  <2>5. \A k \in 1..Len(context) : Contains(context, context[k])
    BY DEF Contains
  <2>6. ASSUME NEW i \in 1..Len(files')
        PROVE  /\ IsPrefix(files'[i].text, context')
               /\ \A k \in 1..Len(files'[i].shownThen) :
                    files'[i].shownThen[k] <= Len(fetched')
               /\ \A k \in 1..Len(context') :
                    Contains(files'[i].shownThen, context'[k])
                      => Contains(files'[i].text, context'[k])
    <3>1. i \in 1..Len(files) \/ i = Len(files) + 1
      BY <1>5
    <3>2. CASE i \in 1..Len(files)
      <4>1. files'[i] = files[i]
        BY <1>5, <3>2
      <4> QED BY <1>1, <2>1, <3>2, <4>1 DEF SaveInv
    <3>3. CASE i = Len(files) + 1
      BY <1>1, <1>4, <1>5, <2>3, <2>4, <2>5, <3>3
    <3> QED BY <3>1, <3>2, <3>3
  <2> QED BY <2>2, <2>6 DEF SaveInv
<1> QED BY <1>6, <1>7, <1>8, <1>9 DEF DownloadInv

(* A mail is over: the window will be told, if it is still there.             *)
LEMMA MailEndsStep == ASSUME DownloadInv, IoMailEnds PROVE DownloadInv'
<1>1. /\ UNCHANGED <<client, fetched, phase, context, emitting, slot, io_queue, gui>>
      /\ UNCHANGED <<connected, is_gone, m_first_chunk, shown, completed, told, timer, files>>
      /\ emitting = <<>> /\ slot = <<>>
  BY DEF IoMailEnds, ioIdle, ctx, io, view
<1>2. PICK m \in 1..Len(mails), result \in {"sent", "failed"} :
        /\ mails' = [mails EXCEPT ![m].result = result]
        /\ SmtpHandler(m, result)
  BY DEF IoMailEnds
<1>3. /\ mails \in Seq(Mails) /\ gui_queue \in Seq(Items) /\ Len(mails) \in Nat
      /\ Len(gui_queue) \in Nat /\ Len(shown) \in Nat /\ Len(fetched) \in Nat
  BY LenProperties DEF DownloadInv, TypeOK
<1>4. /\ mails' \in Seq(Mails) /\ Len(mails') = Len(mails)
      /\ \A i \in 1..Len(mails) : /\ mails'[i].after = mails[i].after
                                  /\ mails'[i].text = mails[i].text
  <2> DEFINE mail == [mails[m] EXCEPT !.result = result]
  <2>1. mails[m] \in Mails
    BY <1>3, ElementOfSeq
  <2>2. mail \in Mails /\ mail.after = mails[m].after /\ mail.text = mails[m].text
    BY <2>1 DEF Mails
  <2>3. mails' = [mails EXCEPT ![m] = mail]
    BY <1>2
  <2> HIDE DEF mail
  <2> QED BY <1>3, <2>2, <2>3, ExceptSeq
<1>5. m \in Nat /\ Mailed(m) \in Items /\ Mailed(m).kind = "mailed" /\ Mailed(m).n = m
  BY <1>3, ItemKinds
<1>6. /\ gui_queue' = gui_queue \/ gui_queue' = Append(gui_queue, Mailed(m))
      /\ ~is_gone => gui_queue' = Append(gui_queue, Mailed(m))
  BY <1>2 DEF SmtpHandler
<1>7. TypeOK'
  <2>1. gui_queue' \in Seq(Items)
    <3>1. Append(gui_queue, Mailed(m)) \in Seq(Items)
      BY <1>3, <1>5, AppendProperties
    <3> QED BY <1>3, <1>6, <3>1, Zenon
  <2> QED BY <1>1, <1>4, <2>1 DEF DownloadInv, TypeOK, Stream!Phases
<1>8. CountInv' /\ AliveInv' /\ CompletedInv' /\ SaveInv'
  BY <1>1 DEF DownloadInv, CountInv, AliveInv, CompletedInv, SaveInv
<1>9. MailInv'
  <2>1. gui = "mailing" => mails' # <<>>
    <3> SUFFICES ASSUME gui = "mailing" PROVE mails' # <<>>
      OBVIOUS
    <3>1. Len(mails') # 0
      BY <1>3, <1>4
    <3> QED BY <3>1, EmptySeq
  <2> QED BY <1>1, <1>4, <2>1 DEF DownloadInv, MailInv
<1>10. PipeInv'
  <2> SUFFICES ASSUME ~is_gone' PROVE PipeInv'
    BY DEF PipeInv
  <2> DEFINE two == Append(gui_queue, Mailed(m))
  <2>1. PipeInv /\ ~is_gone /\ Pipe = gui_queue
    BY <1>1, PipeIs DEF DownloadInv
  <2>2. two \in Seq(Items) /\ two \o <<>> = two
    BY <1>3, <1>5, AppendProperties, ConcatEmptySeq
  <2>3. Pipe' = two
    BY <1>1, <1>6, <2>1, <2>2 DEF Pipe
  <2>4. /\ Len(two) = Len(gui_queue) + 1 /\ two[Len(gui_queue) + 1] = Mailed(m)
        /\ \A k \in 1..Len(gui_queue) : two[k] = gui_queue[k]
    BY <1>3, <1>5, AppendProperties
  <2>5. InOrder(two, Len(shown), Len(fetched))
    BY <1>3, <1>5, <2>1, OrderOfOther DEF PipeInv
  <2> HIDE DEF two
  <2>6. \A k \in 1..Len(two) :
            /\ two[k].kind = "complete" => phase = "ended" /\ completed = 0
            /\ two[k].kind = "mailed" => two[k].n \in 1..Len(mails)
            /\ completed = 1 => two[k].kind = "mailed"
    <3> TAKE k \in 1..Len(two)
    <3>1. k \in 1..Len(gui_queue) \/ k = Len(gui_queue) + 1
      BY <1>3, <2>4
    <3>2. CASE k \in 1..Len(gui_queue)
      BY <2>1, <2>4, <3>2 DEF PipeInv
    <3>3. CASE k = Len(gui_queue) + 1
      BY <1>5, <2>4, <3>3
    <3> QED BY <3>1, <3>2, <3>3
  <2> QED BY <1>1, <1>4, <2>3, <2>5, <2>6 DEF PipeInv
<1> QED BY <1>7, <1>8, <1>9, <1>10 DEF DownloadInv
-----------------------------------------------------------------------------
(* The steps of the GUI thread.                                               *)

(* A mail is begun: it joins those that are there.                            *)
LEMMA MailBegins ==
    ASSUME mails \in Seq(Mails), context \in Seq(1..NumPosts), BeginMail
    PROVE  /\ gui' = "mailing"
           /\ mails' \in Seq(Mails) /\ Len(mails') = Len(mails) + 1 /\ Len(mails) \in Nat
           /\ mails' # <<>>
           /\ \A i \in 1..Len(mails) : mails'[i] = mails[i]
           /\ mails'[Len(mails) + 1].text = context
           /\ mails'[Len(mails) + 1].after <=> completed' = 1
<1> DEFINE mail == [text |-> context, after |-> completed' = 1, result |-> "reading"]
<1>1. mail \in Mails /\ mail.text = context /\ (mail.after <=> completed' = 1)
  BY DEF Mails
<1>2. gui' = "mailing" /\ mails' = Append(mails, mail)
  BY DEF BeginMail
<1> HIDE DEF mail
<1>3. /\ mails' \in Seq(Mails) /\ Len(mails') = Len(mails) + 1 /\ Len(mails) \in Nat
      /\ \A i \in 1..Len(mails) : mails'[i] = mails[i]
      /\ mails'[Len(mails) + 1] = mail
  BY <1>1, <1>2, AppendProperties, LenProperties
<1>4. mails' # <<>>
  <2>1. Len(mails') # 0
    BY <1>3
  <2> QED BY <2>1, EmptySeq
<1> QED BY <1>1, <1>2, <1>3, <1>4

(* The head of two sequences put together is that of the first.               *)
LEMMA TailOfConcat ==
    ASSUME NEW S, NEW s \in Seq(S), NEW t \in Seq(S), s # <<>>
    PROVE  /\ Head(s \o t) = Head(s) /\ Tail(s \o t) = Tail(s) \o t /\ s \o t # <<>>
<1> DEFINE u == s \o t
           v == Tail(s) \o t
<1>1. /\ Len(s) \in Nat \ {0} /\ Len(t) \in Nat /\ Head(s) = s[1]
      /\ Tail(s) \in Seq(S) /\ Len(Tail(s)) = Len(s) - 1
      /\ \A k \in 1..(Len(s) - 1) : Tail(s)[k] = s[k + 1]
  BY EmptySeq, LenProperties, HeadTailProperties
<1>2. /\ u \in Seq(S) /\ Len(u) = Len(s) + Len(t)
      /\ \A k \in 1..(Len(s) + Len(t)) : u[k] = IF k <= Len(s) THEN s[k] ELSE t[k - Len(s)]
  BY ConcatProperties
<1>3. /\ v \in Seq(S) /\ Len(v) = Len(Tail(s)) + Len(t)
      /\ \A k \in 1..(Len(Tail(s)) + Len(t)) :
            v[k] = IF k <= Len(Tail(s)) THEN Tail(s)[k] ELSE t[k - Len(Tail(s))]
  BY <1>1, ConcatProperties
<1> HIDE DEF u, v
<1>4. u # <<>> /\ Head(u) = u[1] /\ u[1] = s[1]
  <2>1. Len(u) # 0 /\ 1 \in 1..(Len(s) + Len(t)) /\ 1 <= Len(s)
    BY <1>1, <1>2
  <2> QED BY <1>2, <2>1, EmptySeq
<1>5. /\ Tail(u) \in Seq(S) /\ Len(Tail(u)) = Len(u) - 1
      /\ \A k \in 1..(Len(u) - 1) : Tail(u)[k] = u[k + 1]
  BY <1>2, <1>4, HeadTailProperties
<1>6. Tail(u) = v
  <2>1. Len(Tail(u)) = Len(v)
    BY <1>1, <1>2, <1>3, <1>5
  <2>2. ASSUME NEW k \in 1..Len(Tail(u)) PROVE Tail(u)[k] = v[k]
    <3>1. /\ k \in 1..(Len(u) - 1) /\ k + 1 \in 1..(Len(s) + Len(t))
          /\ k \in 1..(Len(Tail(s)) + Len(t))
      BY <1>1, <1>2, <1>5
    <3>2. Tail(u)[k] = u[k + 1]
      BY <1>5, <3>1
    <3>3. CASE k + 1 <= Len(s)
      BY <1>1, <1>2, <1>3, <3>1, <3>2, <3>3
    <3>4. CASE k + 1 > Len(s)
      <4>1. u[k + 1] = t[k + 1 - Len(s)] /\ v[k] = t[k - Len(Tail(s))]
        BY <1>1, <1>2, <1>3, <3>1, <3>4
      <4>2. k + 1 - Len(s) = k - Len(Tail(s))
        BY <1>1
      <4> QED BY <3>2, <4>1, <4>2
    <3> QED BY <1>1, <3>3, <3>4
  <2> QED BY <1>3, <1>5, <2>1, <2>2, SeqEqual
<1> QED BY <1>1, <1>4, <1>6 DEF u, v

(* The loop takes the first of all that is on its way.                        *)
LEMMA PipeRuns ==
    ASSUME TypeOK, gui_queue # <<>>, gui_queue' = Tail(gui_queue),
           UNCHANGED <<slot, emitting>>
    PROVE  /\ gui_queue' \in Seq(Items) /\ Pipe # <<>> /\ Head(Pipe) = Head(gui_queue)
           /\ Pipe' = Tail(Pipe) /\ Len(Pipe') = Len(Pipe) - 1 /\ Len(Pipe) \in Nat \ {0}
           /\ \A k \in 1..Len(Pipe') : k + 1 \in 1..Len(Pipe) /\ Pipe'[k] = Pipe[k + 1]
           /\ Head(Pipe) = Pipe[1] /\ Head(Pipe) \in Items
<1>1. gui_queue \in Seq(Items) /\ slot \in Seq(Items) /\ emitting \in Seq(Items)
  BY SeqMonotonic DEF TypeOK, Items
<1>2. gui_queue' \in Seq(Items)
  BY <1>1, HeadTailProperties
<1> DEFINE first == gui_queue \o slot
<1>3. /\ first \in Seq(Items) /\ Head(first) = Head(gui_queue)
      /\ Tail(first) = Tail(gui_queue) \o slot /\ first # <<>>
  BY <1>1, ConcatProperties, TailOfConcat
<1>4. Pipe = first \o emitting /\ Pipe' = (Tail(gui_queue) \o slot) \o emitting
  BY DEF Pipe
<1> HIDE DEF first
<1>5. Head(Pipe) = Head(first) /\ Pipe' = Tail(Pipe) /\ Pipe # <<>>
  <2>1. /\ Head(first \o emitting) = Head(first) /\ first \o emitting # <<>>
        /\ Tail(first \o emitting) = Tail(first) \o emitting
    BY <1>1, <1>3, TailOfConcat
  <2> QED BY <1>3, <1>4, <2>1
<1>6. Pipe \in Seq(Items)
  BY PipeIs
<1>7. /\ Len(Pipe) \in Nat \ {0} /\ Len(Pipe') = Len(Pipe) - 1
      /\ \A k \in 1..Len(Pipe') : Pipe'[k] = Pipe[k + 1]
      /\ Head(Pipe) \in Items /\ Head(Pipe) = Pipe[1]
  BY <1>5, <1>6, EmptySeq, HeadTailProperties
<1> QED BY <1>2, <1>3, <1>5, <1>7

(* The first of all that is on its way is what the window waits for, and the  *)
(* rest is in order once it has been dealt with.                              *)
LEMMA PipeAfter ==
    ASSUME DownloadInv, ~is_gone, gui_queue # <<>>, gui_queue' = Tail(gui_queue),
           UNCHANGED <<slot, emitting, fetched>>
    PROVE  /\ Head(Pipe) = Head(gui_queue) /\ Head(gui_queue) \in Items
           /\ Head(gui_queue).kind = "chunk" =>
                /\ Head(gui_queue).n = Len(shown) + 1 /\ Len(shown) + 1 <= Len(fetched)
                /\ InOrder(Pipe', Len(shown) + 1, Len(fetched))
                /\ completed # 1
           /\ Head(gui_queue).kind # "chunk" => InOrder(Pipe', Len(shown), Len(fetched))
           /\ Head(gui_queue).kind = "complete" =>
                /\ phase = "ended" /\ completed = 0 /\ Len(shown) = Len(fetched)
                /\ \A k \in 1..Len(Pipe') : Pipe'[k].kind = "mailed"
           /\ Head(gui_queue).kind = "mailed" => Head(gui_queue).n \in 1..Len(mails)
           /\ \A k \in 1..Len(Pipe') :
                /\ Pipe'[k].kind = "complete" => phase = "ended" /\ completed = 0
                /\ Pipe'[k].kind = "mailed" => Pipe'[k].n \in 1..Len(mails)
                /\ completed = 1 => Pipe'[k].kind = "mailed"
<1> DEFINE e == Head(gui_queue)
           q == Pipe
           r == Pipe'
           s == Len(shown)
           f == Len(fetched)
<1>1. /\ q # <<>> /\ Head(q) = e /\ r = Tail(q) /\ Len(r) = Len(q) - 1
      /\ Len(q) \in Nat \ {0}
      /\ \A k \in 1..Len(r) : k + 1 \in 1..Len(q) /\ r[k] = q[k + 1]
      /\ e = q[1] /\ e \in Items
  BY PipeRuns DEF DownloadInv
<1>2. q \in Seq(Items) /\ s \in Nat /\ f \in Nat /\ s <= f
  BY PipeIs, LenProperties DEF DownloadInv, TypeOK, CountInv
<1>3. /\ InOrder(q, s, f)
      /\ \A k \in 1..Len(q) :
            /\ q[k].kind = "complete" => phase = "ended" /\ completed = 0
            /\ q[k].kind = "mailed" => q[k].n \in 1..Len(mails)
            /\ completed = 1 => q[k].kind = "mailed"
  BY DEF DownloadInv, PipeInv
<1> HIDE DEF e, q, r, s, f
<1>4. 1 \in 1..Len(q)
  BY <1>1
<1>5. \A k \in 1..Len(r) :
        /\ r[k].kind = "complete" => phase = "ended" /\ completed = 0
        /\ r[k].kind = "mailed" => r[k].n \in 1..Len(mails)
        /\ completed = 1 => r[k].kind = "mailed"
  BY <1>1, <1>3
<1>6. e.kind = "chunk" =>
        e.n = s + 1 /\ s + 1 <= f /\ InOrder(r, s + 1, f) /\ completed # 1
  <2> SUFFICES ASSUME e.kind = "chunk"
               PROVE  e.n = s + 1 /\ s + 1 <= f /\ InOrder(r, s + 1, f) /\ completed # 1
    OBVIOUS
  <2>1. e.n = s + 1 /\ s + 1 <= f
    BY <1>1, <1>2, <1>3, HeadIsNext
  <2>2. InOrder(r, s + 1, f)
    BY <1>1, <1>2, <1>3, OrderOfTail
  <2>3. completed # 1
    BY <1>1, <1>3, <1>4
  <2> QED BY <2>1, <2>2, <2>3
<1>7. e.kind # "chunk" => InOrder(r, s, f)
  BY <1>1, <1>2, <1>3, OrderOfTail
<1>8. e.kind = "complete" =>
        /\ phase = "ended" /\ completed = 0 /\ s = f
        /\ \A k \in 1..Len(r) : r[k].kind = "mailed"
  <2> SUFFICES ASSUME e.kind = "complete"
               PROVE  /\ phase = "ended" /\ completed = 0 /\ s = f
                      /\ \A k \in 1..Len(r) : r[k].kind = "mailed"
    OBVIOUS
  <2>1. phase = "ended" /\ completed = 0
    BY <1>1, <1>3, <1>4
  <2>2. \A k \in 1..Len(r) : r[k].kind = "mailed"
    <3> TAKE k \in 1..Len(r)
    <3>1. k + 1 \in 1..Len(q) /\ r[k] = q[k + 1] /\ 1 < k + 1
      BY <1>1
    <3> QED BY <1>1, <1>3, <1>4, <3>1 DEF InOrder
  <2>3. s = f
    <3> SUFFICES ASSUME s # f PROVE FALSE
      OBVIOUS
    <3>1. s + 1 \in (s + 1)..f
      BY <1>2
    <3>2. PICK k \in 1..Len(r) : r[k] = Chunk(s + 1)
      BY <1>7, <3>1 DEF InOrder
    <3>3. Chunk(s + 1).kind = "chunk"
      BY DEF Chunk
    <3> QED BY <2>2, <3>2, <3>3
  <2> QED BY <2>1, <2>2, <2>3
<1>9. e.kind = "mailed" => e.n \in 1..Len(mails)
  BY <1>1, <1>3, <1>4
<1> QED BY <1>1, <1>5, <1>6, <1>7, <1>8, <1>9 DEF e, q, r, s, f

(* A chunk is shown: it is the next one.                                      *)
LEMMA ChunkRuns ==
    ASSUME DownloadInv, ~is_gone, gui_queue # <<>>, gui_queue' = Tail(gui_queue),
           Head(gui_queue).kind = "chunk", OnChunk(Head(gui_queue).n),
           UNCHANGED <<ctx, io, io_queue, connected, is_gone, files>>
    PROVE  DownloadInv'
<1> DEFINE n == Head(gui_queue).n
<1>1. /\ UNCHANGED <<client, fetched, phase, context, emitting, slot, io_queue>>
      /\ UNCHANGED <<connected, is_gone, files, completed, told, timer, gui, mails>>
      /\ shown' = Append(shown, n)
      /\ m_first_chunk' = IF m_first_chunk = "yes" THEN "armed" ELSE m_first_chunk
  BY DEF ctx, io, OnChunk
<1>2. /\ n = Len(shown) + 1 /\ Len(shown) + 1 <= Len(fetched)
      /\ InOrder(Pipe', Len(shown) + 1, Len(fetched)) /\ completed # 1
      /\ \A k \in 1..Len(Pipe') :
            /\ Pipe'[k].kind = "complete" => phase = "ended" /\ completed = 0
            /\ Pipe'[k].kind = "mailed" => Pipe'[k].n \in 1..Len(mails)
            /\ completed = 1 => Pipe'[k].kind = "mailed"
  BY <1>1, PipeAfter
<1> HIDE DEF n
<1>3. /\ shown \in Seq(1..NumPosts) /\ Len(shown) \in Nat /\ Len(fetched) \in Nat
      /\ Len(fetched) <= NumPosts /\ NumPosts \in Nat
  BY LenProperties, DownloadAssumption DEF DownloadInv, TypeOK, CountInv
<1>4. /\ shown' \in Seq(1..NumPosts) /\ Len(shown') = Len(shown) + 1
      /\ shown'[Len(shown) + 1] = n /\ \A k \in 1..Len(shown) : shown'[k] = shown[k]
  <2>1. n \in 1..NumPosts
    BY <1>2, <1>3
  <2> QED BY <1>1, <1>3, <2>1, AppendProperties
<1>5. TypeOK'
  <2>1. gui_queue' \in Seq(Items)
    BY <1>1, PipeRuns DEF DownloadInv
  <2>2. m_first_chunk' \in {"yes", "armed", "fired"}
    BY <1>1 DEF DownloadInv, TypeOK
  <2> QED BY <1>1, <1>4, <2>1, <2>2 DEF DownloadInv, TypeOK, Stream!Phases
<1>6. CountInv'
  <2>1. \A k \in 1..Len(shown') : shown'[k] = k
    <3> TAKE k \in 1..Len(shown')
    <3>1. k \in 1..Len(shown) \/ k = Len(shown) + 1
      BY <1>3, <1>4
    <3> QED BY <1>2, <1>4, <3>1 DEF DownloadInv, CountInv
  <2> QED BY <1>1, <1>2, <1>4, <2>1 DEF DownloadInv, CountInv
<1>7. AliveInv' /\ CompletedInv' /\ SaveInv' /\ MailInv'
  BY <1>1, <1>2 DEF DownloadInv, AliveInv, CompletedInv, SaveInv, MailInv
<1>8. PipeInv'
  BY <1>1, <1>2, <1>4 DEF PipeInv
<1> QED BY <1>5, <1>6, <1>7, <1>8 DEF DownloadInv

(* The end is told: everything has been shown.  A SendProgress mails it.      *)
LEMMA CompleteRuns ==
    ASSUME DownloadInv, ~is_gone, gui_queue # <<>>, gui_queue' = Tail(gui_queue),
           gui \in {"idle", "deleted"},
           Head(gui_queue).kind = "complete", OnComplete,
           UNCHANGED <<ctx, io, io_queue, connected, is_gone, files>>
    PROVE  DownloadInv'
<1>1. /\ UNCHANGED <<client, fetched, phase, context, emitting, slot, io_queue>>
      /\ UNCHANGED <<connected, is_gone, files, shown, m_first_chunk, told, timer>>
      /\ completed' = completed + 1
  BY DEF ctx, io, OnComplete
<1>2. /\ phase = "ended" /\ completed = 0 /\ Len(shown) = Len(fetched)
      /\ InOrder(Pipe', Len(shown), Len(fetched))
      /\ \A k \in 1..Len(Pipe') : Pipe'[k].kind = "mailed"
      /\ \A k \in 1..Len(Pipe') : Pipe'[k].kind = "mailed" => Pipe'[k].n \in 1..Len(mails)
  BY <1>1, PipeAfter
<1>3. completed' = 1
  BY <1>1, <1>2
<1>4. /\ mails \in Seq(Mails) /\ context \in Seq(1..NumPosts)
      /\ client \in {"viewer", "progress"}
  BY DownloadAssumption DEF DownloadInv, TypeOK
<1>5. gui_queue' \in Seq(Items)
  BY <1>1, PipeRuns DEF DownloadInv
<1>6. CountInv' /\ CompletedInv' /\ SaveInv'
  BY <1>1, <1>2 DEF DownloadInv, CountInv, CompletedInv, SaveInv
<1>7. gui = "idle"
  BY DEF DownloadInv, AliveInv
<1>8. \A i \in 1..Len(mails) : ~mails[i].after
  BY <1>2 DEF DownloadInv, MailInv
<1>9. CASE client = "progress"
  <2>1. BeginMail
    BY <1>9 DEF OnComplete
  <2>2. /\ gui' = "mailing"
        /\ mails' \in Seq(Mails) /\ Len(mails') = Len(mails) + 1 /\ Len(mails) \in Nat
        /\ mails' # <<>>
        /\ \A i \in 1..Len(mails) : mails'[i] = mails[i]
        /\ mails'[Len(mails) + 1].text = context
        /\ mails'[Len(mails) + 1].after
    BY <1>3, <1>4, <2>1, MailBegins
  <2>3. Len(mails) = 0
    BY <1>2, <1>9 DEF DownloadInv, MailInv
  <2>4. TypeOK'
    <3>1. \A m \in told' : m \in 1..Len(mails')
      BY <1>1, <2>2 DEF DownloadInv, TypeOK
    <3> QED BY <1>1, <1>3, <1>5, <2>2, <3>1 DEF DownloadInv, TypeOK, Stream!Phases
  <2>5. AliveInv'
    BY <1>1, <1>7, <2>2 DEF DownloadInv, AliveInv
  <2>6. MailInv'
    <3>1. \A i \in 1..Len(mails') : i = Len(mails) + 1
      BY <2>2, <2>3
    <3>2. Len(mails') = completed'
      BY <1>3, <2>2, <2>3
    <3>3. \A i \in 1..Len(mails') : mails'[i].after /\ mails'[i].text = context
      BY <2>2, <3>1
    <3> QED BY <1>1, <1>3, <2>2, <3>2, <3>3 DEF MailInv
  <2>7. PipeInv'
    <3>1. \A k \in 1..Len(Pipe') : Pipe'[k].n \in 1..Len(mails')
      BY <1>2, <2>2
    <3> QED BY <1>1, <1>2, <3>1 DEF PipeInv
  <2> QED BY <1>6, <2>4, <2>5, <2>6, <2>7 DEF DownloadInv
<1>10. CASE client # "progress"
  <2>1. UNCHANGED <<gui, mails>>
    BY <1>10 DEF OnComplete
  <2>2. TypeOK'
    BY <1>1, <1>3, <1>5, <2>1 DEF DownloadInv, TypeOK, Stream!Phases
  <2>3. AliveInv' /\ PipeInv'
    BY <1>1, <1>2, <2>1 DEF DownloadInv, AliveInv, PipeInv
  <2>4. MailInv'
    BY <1>1, <1>8, <1>10, <2>1 DEF DownloadInv, MailInv
  <2> QED BY <1>6, <2>2, <2>3, <2>4 DEF DownloadInv
<1> QED BY <1>9, <1>10

(* The window is told that a mail is over.                                    *)
LEMMA MailedRuns ==
    ASSUME DownloadInv, ~is_gone, gui_queue # <<>>, gui_queue' = Tail(gui_queue),
           Head(gui_queue).kind = "mailed", OnMailed(Head(gui_queue).n),
           UNCHANGED <<ctx, io, io_queue, connected, is_gone, files>>
    PROVE  DownloadInv'
<1> DEFINE n == Head(gui_queue).n
<1>1. /\ UNCHANGED <<client, fetched, phase, context, emitting, slot, io_queue>>
      /\ UNCHANGED <<connected, is_gone, files, shown, m_first_chunk, completed, gui, mails>>
      /\ told' = told \cup {n}
  BY DEF ctx, io, OnMailed
<1>2. timer' \in BOOLEAN
  BY DEF OnMailed
<1>3. /\ n \in 1..Len(mails)
      /\ InOrder(Pipe', Len(shown), Len(fetched))
      /\ \A k \in 1..Len(Pipe') :
            /\ Pipe'[k].kind = "complete" => phase = "ended" /\ completed = 0
            /\ Pipe'[k].kind = "mailed" => Pipe'[k].n \in 1..Len(mails)
            /\ completed = 1 => Pipe'[k].kind = "mailed"
  BY <1>1, PipeAfter
<1> HIDE DEF n
<1>4. TypeOK'
  <2>1. gui_queue' \in Seq(Items)
    BY <1>1, PipeRuns DEF DownloadInv
  <2>2. \A m \in told' : m \in 1..Len(mails')
    BY <1>1, <1>3 DEF DownloadInv, TypeOK
  <2> QED BY <1>1, <1>2, <2>1, <2>2 DEF DownloadInv, TypeOK, Stream!Phases
<1>5. CountInv' /\ AliveInv' /\ CompletedInv' /\ SaveInv' /\ MailInv'
  BY <1>1 DEF DownloadInv, CountInv, AliveInv, CompletedInv, SaveInv, MailInv
<1>6. PipeInv'
  BY <1>1, <1>3 DEF PipeInv
<1> QED BY <1>4, <1>5, <1>6 DEF DownloadInv

(* Nobody is there: the closure does nothing.                                 *)
LEMMA GoneRuns ==
    ASSUME DownloadInv, is_gone, gui_queue # <<>>, gui_queue' = Tail(gui_queue),
           UNCHANGED <<view, gui, mails>>,
           UNCHANGED <<ctx, io, io_queue, connected, is_gone, files>>
    PROVE  DownloadInv'
<1>1. /\ UNCHANGED <<client, fetched, phase, context, emitting, slot, io_queue, told>>
      /\ UNCHANGED <<connected, is_gone, files, shown, m_first_chunk, completed, gui>>
      /\ UNCHANGED <<mails, timer>>
  BY DEF ctx, io, view
<1>2. TypeOK'
  <2>1. gui_queue' \in Seq(Items)
    BY <1>1, PipeRuns DEF DownloadInv
  <2> QED BY <1>1, <2>1 DEF DownloadInv, TypeOK, Stream!Phases
<1>3. CountInv' /\ AliveInv' /\ CompletedInv' /\ SaveInv' /\ MailInv'
  BY <1>1 DEF DownloadInv, CountInv, AliveInv, CompletedInv, SaveInv, MailInv
<1>4. PipeInv'
  BY <1>1 DEF PipeInv
<1> QED BY <1>2, <1>3, <1>4 DEF DownloadInv

(* The loop runs what was posted.                                             *)
LEMMA EventStep == ASSUME DownloadInv, GuiEvent PROVE DownloadInv'
<1>1. /\ gui \in {"idle", "deleted"} /\ gui_queue # <<>> /\ gui_queue' = Tail(gui_queue)
      /\ UNCHANGED <<ctx, io, io_queue, connected, is_gone, files>>
  BY DEF GuiEvent
<1> DEFINE e == Head(gui_queue)
<1>2. CASE ~is_gone /\ e.kind = "chunk" /\ OnChunk(e.n)
  BY <1>1, <1>2, ChunkRuns
<1>3. CASE ~is_gone /\ e.kind = "complete" /\ OnComplete
  BY <1>1, <1>3, CompleteRuns
<1>4. CASE ~is_gone /\ e.kind = "mailed" /\ OnMailed(e.n)
  BY <1>1, <1>4, MailedRuns
<1>5. CASE is_gone /\ UNCHANGED <<view, gui, mails>>
  BY <1>1, <1>5, GoneRuns
<1> QED BY <1>2, <1>3, <1>4, <1>5 DEF GuiEvent, Alive

(* The text of the mail is read: all of it, if the download was over when the *)
(* mail was begun.                                                            *)
LEMMA MailReadStep == ASSUME DownloadInv, GuiMailRead PROVE DownloadInv'
<1> DEFINE l == Len(mails)
<1>1. /\ UNCHANGED <<client, fetched, phase, context, emitting, slot, io_queue, told>>
      /\ UNCHANGED <<connected, is_gone, files, shown, m_first_chunk, completed, timer>>
      /\ UNCHANGED gui_queue
      /\ gui = "mailing" /\ gui' = "idle"
  BY DEF GuiMailRead, ctx, io, view
<1>2. PICK n \in Len(mails[l].text)..Len(context) :
        mails' = [mails EXCEPT ![l] =
                    [@ EXCEPT !.text = SubSeq(context, 1, n), !.result = "sending"]]
  BY DEF GuiMailRead, Last
<1> DEFINE text   == SubSeq(context, 1, n)
           mail == [mails[l] EXCEPT !.text = text, !.result = "sending"]
<1>3. mails \in Seq(Mails) /\ context \in Seq(1..NumPosts) /\ mails # <<>>
  BY <1>1 DEF DownloadInv, TypeOK, MailInv
<1>4. l \in Nat \ {0} /\ l \in 1..l /\ mails[l] \in Mails
  BY <1>3, EmptySeq, ElementOfSeq
<1>5. Len(mails[l].text) \in Nat /\ Len(context) \in Nat
  BY <1>3, <1>4, LenProperties DEF Mails
<1>6. text \in Seq(1..NumPosts)
  <2>1. \A k \in 1..n : context[k] \in 1..NumPosts
    <3> TAKE k \in 1..n
    <3>1. k \in 1..Len(context)
      BY <1>5
    <3> QED BY <1>3, <3>1, ElementOfSeq
  <2> QED BY <1>5, <2>1, SubSeqProperties
<1>7. mails[l].after => text = context
  <2> SUFFICES ASSUME mails[l].after PROVE text = context
    OBVIOUS
  <2>1. mails[l].text = context
    BY <1>4 DEF DownloadInv, MailInv
  <2>2. n = Len(context)
    BY <1>5, <2>1
  <2> QED BY <1>3, <2>2, SubSeqFull
<1> HIDE DEF text
<1>8. mail \in Mails /\ mail.text = text /\ (mail.after <=> mails[l].after)
  BY <1>4, <1>6 DEF Mails
<1>9. mails' = [mails EXCEPT ![l] = mail]
  BY <1>2 DEF text
<1> HIDE DEF mail, l
<1>10. /\ mails' \in Seq(Mails) /\ Len(mails') = Len(mails)
       /\ mails'[l] = mail /\ l \in 1..Len(mails)
       /\ \A i \in 1..Len(mails) : i # l => mails'[i] = mails[i]
  <2>1. l \in 1..Len(mails)
    BY <1>4 DEF l
  <2> QED BY <1>3, <1>8, <1>9, <2>1, ExceptSeq
<1>11. TypeOK'
  BY <1>1, <1>10 DEF DownloadInv, TypeOK, Stream!Phases
<1>12. CountInv' /\ AliveInv' /\ CompletedInv' /\ SaveInv'
  BY <1>1 DEF DownloadInv, CountInv, AliveInv, CompletedInv, SaveInv
<1>13. PipeInv'
  <2>1. Pipe' = Pipe
    BY <1>1 DEF Pipe
  <2> QED BY <1>1, <1>10, <2>1 DEF DownloadInv, PipeInv
<1>14. MailInv'
  <2>1. MailInv
    BY DEF DownloadInv
  <2>2. ASSUME NEW i \in 1..Len(mails')
        PROVE  /\ mails'[i].after <=> mails[i].after
               /\ mails'[i].after => mails'[i].text = context
               /\ i \in 1..Len(mails)
    <3>1. i \in 1..Len(mails)
      BY <1>10
    <3>2. CASE i = l
      BY <1>7, <1>8, <1>10, <3>1, <3>2
    <3>3. CASE i # l
      BY <1>10, <2>1, <3>1, <3>3 DEF MailInv
    <3> QED BY <3>1, <3>2, <3>3
  <2>3. /\ \A i \in 1..Len(mails') :
            mails'[i].after => completed = 1 /\ mails'[i].text = context
        /\ client = "progress" =>
            Len(mails') = completed /\ \A i \in 1..Len(mails') : mails'[i].after
    BY <1>10, <2>1, <2>2 DEF MailInv
  <2> QED BY <1>1, <2>3 DEF MailInv
<1> QED BY <1>11, <1>12, <1>13, <1>14 DEF DownloadInv

(* The user saves: what is on the screen was fetched.                         *)
LEMMA UserSaveStep == ASSUME DownloadInv, UserSave PROVE DownloadInv'
<1>1. /\ UNCHANGED <<client, fetched, phase, context, emitting, slot, mails, gui, gui_queue>>
      /\ UNCHANGED <<connected, is_gone, m_first_chunk, shown, completed, told, timer, files>>
      /\ io_queue' = Append(io_queue, shown)
  BY DEF UserSave, ctx, io, view
<1>2. /\ io_queue \in Seq(Seq(1..NumPosts)) /\ shown \in Seq(1..NumPosts)
      /\ Len(shown) <= Len(fetched) /\ \A k \in 1..Len(shown) : shown[k] = k
      /\ Len(shown) \in Nat /\ Len(fetched) \in Nat
  BY LenProperties DEF DownloadInv, TypeOK, CountInv
<1>3. /\ io_queue' \in Seq(Seq(1..NumPosts)) /\ Len(io_queue') = Len(io_queue) + 1
      /\ io_queue'[Len(io_queue) + 1] = shown /\ Len(io_queue) \in Nat
      /\ \A i \in 1..Len(io_queue) : io_queue'[i] = io_queue[i]
  BY <1>1, <1>2, AppendProperties, LenProperties
<1>4. TypeOK'
  BY <1>1, <1>3 DEF DownloadInv, TypeOK, Stream!Phases
<1>5. CountInv' /\ AliveInv' /\ CompletedInv' /\ MailInv'
  BY <1>1 DEF DownloadInv, CountInv, AliveInv, CompletedInv, MailInv
<1>6. PipeInv'
  <2>1. Pipe' = Pipe
    BY <1>1 DEF Pipe
  <2> QED BY <1>1, <2>1 DEF DownloadInv, PipeInv
<1>7. SaveInv'
  <2>1. SaveInv
    BY DEF DownloadInv
  <2>2. \A i \in 1..Len(io_queue') : \A k \in 1..Len(io_queue'[i]) :
            io_queue'[i][k] <= Len(fetched')
    <3> TAKE i \in 1..Len(io_queue')
    <3>1. i \in 1..Len(io_queue) \/ i = Len(io_queue) + 1
      BY <1>3
    <3>2. CASE i \in 1..Len(io_queue)
      BY <1>1, <1>3, <2>1, <3>2 DEF SaveInv
    <3>3. CASE i = Len(io_queue) + 1
      <4>1. \A k \in 1..Len(shown) : shown[k] <= Len(fetched)
        BY <1>2
      <4> QED BY <1>1, <1>3, <3>3, <4>1
    <3> QED BY <3>1, <3>2, <3>3
  <2> QED BY <1>1, <2>1, <2>2 DEF SaveInv
<1> QED BY <1>4, <1>5, <1>6, <1>7 DEF DownloadInv

(* The user mails what there is.                                              *)
LEMMA UserMailStep == ASSUME DownloadInv, UserMail PROVE DownloadInv'
<1>1. /\ UNCHANGED <<client, fetched, phase, context, emitting, slot, io_queue, gui_queue>>
      /\ UNCHANGED <<connected, is_gone, m_first_chunk, shown, completed, told, timer, files>>
      /\ client = "viewer" /\ gui = "idle" /\ BeginMail
  BY DEF UserMail, ctx, io
<1>2. mails \in Seq(Mails) /\ context \in Seq(1..NumPosts)
  BY DEF DownloadInv, TypeOK
<1>3. /\ gui' = "mailing"
      /\ mails' \in Seq(Mails) /\ Len(mails') = Len(mails) + 1 /\ Len(mails) \in Nat
      /\ mails' # <<>>
      /\ \A i \in 1..Len(mails) : mails'[i] = mails[i]
      /\ mails'[Len(mails) + 1].text = context
      /\ mails'[Len(mails) + 1].after <=> completed' = 1
  BY <1>1, <1>2, MailBegins
<1>4. TypeOK'
  <2>1. \A m \in told' : m \in 1..Len(mails')
    BY <1>1, <1>3 DEF DownloadInv, TypeOK
  <2> QED BY <1>1, <1>3, <2>1 DEF DownloadInv, TypeOK, Stream!Phases
<1>5. CountInv' /\ CompletedInv' /\ SaveInv'
  BY <1>1 DEF DownloadInv, CountInv, CompletedInv, SaveInv
<1>6. AliveInv'
  BY <1>1, <1>3 DEF DownloadInv, AliveInv
<1>7. PipeInv'
  <2>1. Pipe' = Pipe
    BY <1>1 DEF Pipe
  <2>2. \A m \in 1..Len(mails) : m \in 1..Len(mails')
    BY <1>3
  <2> QED BY <1>1, <2>1, <2>2 DEF DownloadInv, PipeInv
<1>8. MailInv'
  <2>1. \A i \in 1..Len(mails') :
            mails'[i].after => completed = 1 /\ mails'[i].text = context
    <3> TAKE i \in 1..Len(mails')
    <3>1. i \in 1..Len(mails) \/ i = Len(mails) + 1
      BY <1>3
    <3>2. CASE i \in 1..Len(mails)
      BY <1>3, <3>2 DEF DownloadInv, MailInv
    <3>3. CASE i = Len(mails) + 1
      BY <1>1, <1>3, <3>3
    <3> QED BY <3>1, <3>2, <3>3
  <2> QED BY <1>1, <1>3, <2>1 DEF MailInv
<1> QED BY <1>4, <1>5, <1>6, <1>7, <1>8 DEF DownloadInv
-----------------------------------------------------------------------------
(* Every step keeps the induction.                                            *)
LEMMA NextDownloadInv == DownloadInv /\ [Next]_vars => DownloadInv'
<1> SUFFICES ASSUME DownloadInv, [Next]_vars PROVE DownloadInv'
  OBVIOUS
<1>1. CASE UNCHANGED vars
  <2>1. /\ UNCHANGED <<client, fetched, context, emitting, slot, io_queue, mails>>
        /\ UNCHANGED <<gui_queue, shown, completed, files, phase, is_gone, gui>>
        /\ UNCHANGED <<connected, m_first_chunk, told, timer>>
    BY <1>1 DEF vars, ctx, io, view
  <2>2. TypeOK'
    BY <2>1 DEF DownloadInv, TypeOK, Stream!Phases
  <2>3. AliveInv'
    BY <2>1 DEF DownloadInv, AliveInv
  <2> QED BY <2>1, <2>2, <2>3, Quiet
<1>2. CASE Next
  BY <1>2, QuietStep, EmitStep, SlotStep, FetchStep, FinishStep, SaveStep, MailEndsStep,
     EventStep, MailReadStep, UserSaveStep, UserMailStep
     DEF Next, IoStep, GuiStep
<1> QED BY <1>1, <1>2

(* WindowInv is what the induction says of the posts shown, saved and mailed. *)
LEMMA InductionIsWindowInv == DownloadInv => WindowInv
<1> SUFFICES ASSUME DownloadInv PROVE WindowInv
  OBVIOUS
<1>1. /\ fetched \in Seq(1..NumPosts) /\ shown \in Seq(1..NumPosts)
      /\ Len(shown) \in Nat /\ Len(fetched) \in Nat /\ Len(shown) <= Len(fetched)
      /\ \A k \in 1..Len(fetched) : fetched[k] = k
      /\ \A k \in 1..Len(shown) : shown[k] = k
      /\ completed \in 0..1
  BY LenProperties DEF DownloadInv, TypeOK, CountInv
<1> DEFINE n == Len(shown)
           t == SubSeq(fetched, 1, n)
<1>2. /\ t \in Seq(1..NumPosts) /\ Len(t) = n /\ \A k \in 1..n : t[k] = fetched[k]
  <2>1. \A k \in 1..n : fetched[k] \in 1..NumPosts
    <3> TAKE k \in 1..n
    <3>1. k \in 1..Len(fetched)
      BY <1>1
    <3> QED BY <1>1, <3>1, ElementOfSeq
  <2>2. /\ t \in Seq(1..NumPosts) /\ Len(t) = IF 1 <= n THEN n - 1 + 1 ELSE 0
        /\ \A k \in 1..(n - 1 + 1) : t[k] = fetched[1 + k - 1]
    BY <1>1, <2>1, SubSeqProperties
  <2> HIDE DEF t, n
  <2>3. n \in Nat
    BY <1>1 DEF n
  <2> QED BY <2>2, <2>3
<1>3. IsPrefix(shown, fetched)
  <2>1. \A k \in 1..n : t[k] = shown[k]
    BY <1>1, <1>2
  <2>2. t = shown
    <3> HIDE DEF t
    <3> QED BY <1>1, <1>2, <2>1, SeqEqual
  <2> QED BY <1>1, <2>2, SubSeqFull DEF IsPrefix
<1>4. completed = 1 => shown = fetched /\ phase = "ended"
  <2>1. Len(shown) = Len(fetched) => shown = fetched
    BY <1>1, SeqEqual
  <2> QED BY <2>1 DEF DownloadInv, CompletedInv
<1>5. SaveCoversShown
  BY DEF DownloadInv, SaveInv, SaveCoversShown
<1>6. MailWhole /\ ProgressMailsOnce
  BY <1>1 DEF DownloadInv, MailInv, MailWhole, ProgressMailsOnce
<1> QED BY <1>3, <1>4, <1>5, <1>6 DEF WindowInv, ShownInOrder, DownloadInv

(* The induction: everything fetched has been shown or is on its way to the   *)
(* window, in order, as long as there is a window.                            *)
THEOREM Invariance == Spec => []DownloadInv
  BY InitDownloadInv, NextDownloadInv, PTL DEF Spec

(* WindowInv: what the window shows, what is saved and what is mailed agree   *)
(* with what the other thread fetched and kept.                               *)
THEOREM WindowSafe == Spec => []WindowInv
  BY Invariance, InductionIsWindowInv, PTL

(* A step leaves a window that is gone alone.                                 *)
LEMMA GoneStep ==
    ASSUME DownloadInv, [Next]_vars, is_gone
    PROVE  UNCHANGED view /\ Len(mails') = Len(mails)
<1>1. gui \notin {"idle", "mailing"} /\ mails \in Seq(Mails)
  BY DEF DownloadInv, AliveInv, TypeOK
<1>2. CASE IoMailEnds
  <2>1. PICK m \in 1..Len(mails), result \in {"sent", "failed"} :
            mails' = [mails EXCEPT ![m].result = result]
    BY <1>2 DEF IoMailEnds
  <2> DEFINE mail == [mails[m] EXCEPT !.result = result]
  <2>2. mails' = [mails EXCEPT ![m] = mail] /\ mail \in Mails
    <3>1. mails[m] \in Mails
      BY <1>1, ElementOfSeq
    <3> QED BY <2>1, <3>1 DEF Mails
  <2> HIDE DEF mail
  <2>3. Len(mails') = Len(mails)
    BY <1>1, <2>2, ExceptSeq
  <2> QED BY <1>2, <2>3 DEF IoMailEnds
<1>3. CASE GuiEvent
  BY <1>3 DEF GuiEvent, Alive
<1>4. CASE GuiMailRead \/ GuiFirstTimer \/ GuiClose \/ UserSave \/ UserMail \/ GuiStart
  BY <1>1, <1>4 DEF GuiMailRead, GuiFirstTimer, GuiClose, UserSave, UserMail, GuiStart
<1>5. CASE \/ IoFetch \/ IoFinish \/ IoEmit \/ IoSlot \/ IoSave
           \/ GuiDisconnect \/ GuiStop \/ UNCHANGED vars
  BY <1>5 DEF IoFetch, IoFinish, IoEmit, IoSlot, IoSave, GuiDisconnect, GuiStop, vars
<1> QED BY <1>2, <1>3, <1>4, <1>5 DEF Next, IoStep, GuiStep

(* GoneIsSilent: no closure that comes after the destructor has begun touches *)
(* the window, and no mail is begun.                                          *)
THEOREM GoneSafe == Spec => GoneIsSilent
<1>1. DownloadInv /\ [Next]_vars => [is_gone => UNCHANGED view /\ Len(mails') = Len(mails)]_vars
  BY GoneStep
<1> QED BY <1>1, Invariance, PTL DEF Spec, GoneIsSilent
=============================================================================
