-------------------------- MODULE InterthreadStream --------------------------
(* boost/interthread_stream.hpp: a pipe between two threads of one process.   *)
(* A writer who has filled the buffer to the threshold sleeps until the       *)
(* reader has drained it to the threshold, a reader of an empty buffer sleeps *)
(* until something is written.  Next pairs a coroutine that writes with       *)
(* async_write_some on the thread of the io_service with a thread that reads  *)
(* with read_some; NextOther pairs a thread that writes with write_some with  *)
(* a coroutine that reads with async_read_some.  Every function holds m_mutex *)
(* from its first line to its end or to its wait, so each is one step; bytes  *)
(* are numbered in the order they are written.  The two waits on a condition  *)
(* have no loop around them: they may return before anything is notified.     *)
EXTENDS Integers, SequencesExt

CONSTANTS Threshold,   \* 512 in the source
          MaxBytes,    \* bound: how many bytes are written
          MaxChunk,    \* bound: the size of one write and of one read
          MaxEarly     \* bound: how many reads return before they are notified

VARIABLES m_buffer,
          m_read_buffer,             \* the memory the sleeping reader has lent
          m_current_read_handler,    \* "none", "cond" (wakes the thread) or
          m_current_write_handler,   \*   "wrapped" (posts the handler)
          m_state_read_closed,
          m_state_write_closed,
          io_service,                \* the handlers posted and not called yet
          writer,                    \* "idle", "waiting" or "done"
          reader,                    \* "idle", "asleep", "woken" or "done"
          result,                    \* what the sleeping reader will be told
          accepted,                  \* history: how many bytes were taken in
          got,                       \* history: the bytes the reader has seen
          eof,                       \* history: the reader was told the end
          closed,                    \* history: shutdown() of the writing side
          early                      \* history: the reads that returned early

vars == <<m_buffer, m_read_buffer, m_current_read_handler,
          m_current_write_handler, m_state_read_closed, m_state_write_closed,
          io_service, writer, reader, result, accepted, got, eof, closed,
          early>>

data   == <<m_buffer, m_read_buffer, accepted>>
flags  == <<m_state_read_closed, m_state_write_closed, closed, early>>
seen   == <<got, eof>>

Smaller(a, b) == IF a < b THEN a ELSE b
First(s, n) == SubSeq(s, 1, Smaller(n, Len(s)))
Rest(s, n) == SubSeq(s, Smaller(n, Len(s)) + 1, Len(s))

Call(to, ec, bytes) == [to |-> to, ec |-> ec, bytes |-> bytes]

\* The constructor sets neither flag: they hold what the memory held.
Init ==
    /\ m_buffer = <<>> /\ m_read_buffer = <<>>
    /\ m_current_read_handler = "none" /\ m_current_write_handler = "none"
    /\ m_state_read_closed \in BOOLEAN /\ m_state_write_closed \in BOOLEAN
    /\ io_service = <<>>
    /\ writer = "idle" /\ reader = "idle"
    /\ result = [ec |-> "ok", bytes |-> 0]
    /\ accepted = 0 /\ got = <<>> /\ eof = FALSE /\ closed = FALSE /\ early = 0

\* m_read_cond_wait_read_handler: tells the sleeping thread and notifies it.
\* Once a read has returned early, result is a frame of the stack that is no
\* more, or that of a later read, and nobody may be asleep.
WakeReader(ec, bytes) ==
    /\ result' = [ec |-> ec, bytes |-> bytes]
    /\ reader' = IF reader = "asleep" THEN "woken" ELSE reader

\* Faulty variant of cond_wake_writer: nobody is woken.
wake_nobody(size, posted) ==
    io_service' = posted /\ UNCHANGED m_current_write_handler

\* The writer is woken once the buffer has been drained to the threshold.
Drained(size) == m_current_write_handler # "none" /\ size <= Threshold

\* posted: the io_service's queue so far.  On another thread than the
\* io_service's a wrapped handler is posted.
cond_wake_writer(size, posted) ==
    IF Drained(size)
    THEN /\ m_current_write_handler' = "none"
         /\ io_service' = IF m_current_write_handler = "wrapped"
                          THEN Append(posted, Call("writer", "ok", 0)) ELSE posted
    ELSE io_service' = posted /\ UNCHANGED m_current_write_handler

\* The thread of write_some, when m_write_cond is notified with it.
Roused(size) ==
    IF Drained(size) /\ m_current_write_handler = "cond" /\ writer = "waiting"
    THEN "idle" ELSE writer

\* What a write leaves in the buffer and lends to the reader who sleeps: all
\* that fits m_read_buffer, whose size is the number of its places.
Commit(n) ==
    /\ accepted + n <= MaxBytes
    /\ accepted' = accepted + n
    /\ LET all == m_buffer \o [k \in 1..n |-> accepted + k] IN
        IF m_current_read_handler = "none"
        THEN m_buffer' = all /\ UNCHANGED m_read_buffer
        ELSE LET size == Len(m_read_buffer) IN
             /\ m_buffer' = Rest(all, size)
             /\ m_read_buffer' = First(all, size)
                                 \o SubSeq(m_read_buffer, Len(First(all, size)) + 1, size)

\* Bytes handed over by Commit.
Copied(n) == Smaller(Len(m_buffer) + n, Len(m_read_buffer))

\* Faulty variant of Lent: the reader's handler is kept, as in write_some.
handler_kept == UNCHANGED m_current_read_handler

\* Whoever reads has been given its bytes.
Lent == m_current_read_handler' = "none"

\* Faulty variant of async_write_some: the bytes lent stay in the buffer too.
write_without_consume(n) ==
    /\ writer = "idle" /\ ~m_state_read_closed
    /\ accepted + n <= MaxBytes
    /\ accepted' = accepted + n
    /\ LET all == m_buffer \o [k \in 1..n |-> accepted + k]
           told == IF m_current_read_handler = "none" THEN io_service
                   ELSE Append(io_service, Call("cond", "ok", Copied(n))) IN
        /\ m_buffer' = all
        /\ m_read_buffer' = IF m_current_read_handler = "none" THEN m_read_buffer
                            ELSE First(all, Len(m_read_buffer))
        /\ io_service' = IF Len(all) >= Threshold THEN told
                         ELSE Append(told, Call("writer", "ok", n))
        /\ m_current_write_handler' = IF Len(all) >= Threshold THEN "wrapped"
                                      ELSE m_current_write_handler
    /\ m_current_read_handler' = "none"
    /\ writer' = "waiting"
    /\ UNCHANGED <<flags, reader, result, seen>>

\* On the io_service's thread.  The sleeping reader's handler is posted, never
\* called at once.
async_write_some(n) ==
    /\ writer = "idle"
    /\ writer' = "waiting"
    /\ \/ /\ m_state_read_closed
          /\ io_service' = Append(io_service, Call("writer", "broken_pipe", 0))
          /\ UNCHANGED <<data, m_current_read_handler, m_current_write_handler>>
       \/ /\ ~m_state_read_closed
          /\ Commit(n)
          /\ LET told == IF m_current_read_handler = "none" THEN io_service
                         ELSE Append(io_service, Call("cond", "ok", Copied(n))) IN
              \/ /\ Len(m_buffer') >= Threshold
                 /\ m_current_write_handler' = "wrapped"
                 /\ io_service' = told
              \/ /\ Len(m_buffer') < Threshold
                 /\ io_service' = Append(told, Call("writer", "ok", n))
                 /\ UNCHANGED m_current_write_handler
          /\ Lent
    /\ UNCHANGED <<flags, reader, result, seen>>

\* io_service::run() takes the oldest handler posted.
Called(to) ==
    /\ io_service # <<>> /\ Head(io_service).to = to
    /\ io_service' = Tail(io_service)
    /\ UNCHANGED <<data, flags, m_current_read_handler, m_current_write_handler>>

\* The sleeping thread's handler.
RunCond ==
    /\ Called("cond")
    /\ WakeReader(Head(io_service).ec, Head(io_service).bytes)
    /\ UNCHANGED <<writer, seen>>

RunWriter ==
    /\ Called("writer")
    /\ writer' = IF Head(io_service).ec = "ok" THEN "idle" ELSE "done"
    /\ UNCHANGED <<reader, result, seen>>

\* On the reader's own thread, into n bytes.
read_some(n) ==
    /\ reader = "idle"
    /\ \/ /\ m_buffer = <<>> /\ m_state_write_closed
          /\ eof' = TRUE /\ reader' = "done"
          /\ UNCHANGED <<data, m_current_read_handler, m_current_write_handler,
                         io_service, writer, got>>
       \/ /\ m_buffer = <<>> /\ ~m_state_write_closed
          /\ m_read_buffer' = [k \in 1..n |-> 0]
          /\ m_current_read_handler' = "cond"
          /\ reader' = "asleep"
          /\ UNCHANGED <<m_buffer, accepted, m_current_write_handler, io_service,
                         writer, seen>>
       \/ /\ m_buffer # <<>>
          /\ got' = got \o First(m_buffer, n)
          /\ m_buffer' = Rest(m_buffer, n)
          /\ cond_wake_writer(Len(m_buffer'), io_service)
          /\ writer' = Roused(Len(m_buffer'))
          /\ UNCHANGED <<m_read_buffer, accepted, m_current_read_handler, reader, eof>>
    /\ UNCHANGED <<flags, result>>

\* read_some after m_read_cond.wait, with what its variables hold.
Return(told) ==
    /\ got' = got \o First(m_read_buffer, told.bytes)
    /\ eof' = (told.ec = "eof")
    /\ reader' = IF told.ec = "ok" THEN "idle" ELSE "done"
    /\ UNCHANGED <<data, m_state_read_closed, m_state_write_closed, closed,
                   m_current_read_handler, m_current_write_handler, io_service,
                   writer, result>>

\* What variables nobody has set may hold.
Unset == [ec : {"ok", result.ec}, bytes : 0..Len(m_read_buffer)]

\* The thread was notified.  Once a handler is about that writes into a frame
\* which is no more, what a later read finds in its own is anything.
ReaderReturns ==
    /\ reader = "woken"
    /\ \E told \in IF early = 0 THEN {result} ELSE Unset : Return(told)
    /\ UNCHANGED early

\* The wait returns by itself: _bytes_readed was never set, and the handler
\* stays, in the stream or posted, with its pointers into this frame.
ReturnsEarly ==
    /\ reader = "asleep" /\ early < MaxEarly
    /\ early' = early + 1
    /\ \E told \in Unset : Return(told)

\* shutdown(): the flags, the end for a reader who sleeps, and the writer is
\* woken if the buffer is drained.  type is "send", "receive" or "both".
Ends == m_state_write_closed' /\ m_current_read_handler # "none"
shutdown(type) ==
    /\ closed' = (closed \/ type # "receive")
    /\ m_state_write_closed' = (m_state_write_closed \/ type # "receive")
    /\ m_state_read_closed' = (m_state_read_closed \/ type # "send")
    /\ m_current_read_handler' = IF Ends THEN "none" ELSE m_current_read_handler
    /\ result' = IF Ends /\ m_current_read_handler = "cond"
                 THEN [ec |-> "eof", bytes |-> 0] ELSE result
    /\ cond_wake_writer(Len(m_buffer),
            IF Ends /\ m_current_read_handler = "wrapped"
            THEN Append(io_service, Call("reader", "eof", 0)) ELSE io_service)
    /\ UNCHANGED <<data, seen, early>>

\* The writer closes its end when no write of its is under way.
WriterCloses(type) ==
    /\ writer = "idle" /\ writer' = "done"
    /\ shutdown(type)
    /\ reader' = IF Ends /\ m_current_read_handler = "cond" /\ reader = "asleep"
                 THEN "woken" ELSE reader

\* The reader has seen enough.
ReaderCloses(type) ==
    /\ reader = "idle" /\ reader' = "done"
    /\ shutdown(type)
    /\ writer' = Roused(Len(m_buffer))

Next ==
    \/ \E n \in 1..MaxChunk : async_write_some(n) \/ read_some(n)
    \/ RunCond \/ RunWriter
    \/ ReaderReturns \/ ReturnsEarly
    \/ WriterCloses("send") \/ WriterCloses("both")
    \/ ReaderCloses("receive") \/ ReaderCloses("both")

\* The io_service's thread runs, a thread whose condition was notified
\* returns, and the reader reads until it is told the end or closes.
Spec == /\ Init /\ [][Next]_vars
        /\ WF_vars(RunCond \/ RunWriter) /\ WF_vars(ReaderReturns)
        /\ WF_vars(\E n \in 1..MaxChunk : read_some(n))
-----------------------------------------------------------------------------
(* The other pairing *)

\* On the writer's own thread: the reader's handler is called, which posts
\* it, and is kept.
write_some(n) ==
    /\ writer = "idle"
    /\ \/ /\ m_state_read_closed
          /\ writer' = "done"
          /\ UNCHANGED <<data, io_service, m_current_write_handler>>
       \/ /\ ~m_state_read_closed
          /\ Commit(n)
          /\ io_service' = IF m_current_read_handler = "none" THEN io_service
                           ELSE Append(io_service, Call("reader", "ok", Copied(n)))
          /\ IF Len(m_buffer') >= Threshold
             THEN m_current_write_handler' = "cond" /\ writer' = "waiting"
             ELSE UNCHANGED <<m_current_write_handler, writer>>
    /\ UNCHANGED <<flags, reader, result, seen, m_current_read_handler>>

\* m_write_cond.wait returns by itself: the write returns beside a buffer that
\* is full, and its handler stays, to notify a later one or nobody.
WriterReturnsEarly ==
    /\ writer = "waiting" /\ m_current_write_handler = "cond"
    /\ writer' = "idle"
    /\ UNCHANGED <<data, flags, seen, io_service, reader, result,
                   m_current_read_handler, m_current_write_handler>>

\* On the io_service's thread.  The reader always lends the same memory, of
\* MaxChunk bytes.
async_read_some ==
    /\ reader = "idle"
    /\ reader' = "asleep"
    /\ LET memory == IF m_read_buffer = <<>> THEN [k \in 1..MaxChunk |-> 0]
                     ELSE m_read_buffer
           fits == First(m_buffer, MaxChunk) IN
       \/ /\ m_buffer = <<>> /\ m_state_write_closed
          /\ io_service' = Append(io_service, Call("reader", "eof", 0))
          /\ UNCHANGED <<m_buffer, m_read_buffer, writer, m_current_read_handler,
                         m_current_write_handler>>
       \/ /\ m_buffer = <<>> /\ ~m_state_write_closed
          /\ m_read_buffer' = memory
          /\ m_current_read_handler' = "wrapped"
          /\ UNCHANGED <<m_buffer, io_service, writer, m_current_write_handler>>
       \/ /\ m_buffer # <<>>
          /\ m_read_buffer' = fits \o SubSeq(memory, Len(fits) + 1, MaxChunk)
          /\ m_buffer' = Rest(m_buffer, MaxChunk)
          /\ cond_wake_writer(Len(m_buffer'),
                              Append(io_service, Call("reader", "ok", Len(fits))))
          /\ writer' = Roused(Len(m_buffer'))
          /\ UNCHANGED m_current_read_handler
    /\ UNCHANGED <<accepted, flags, result, seen>>

\* The reading coroutine's handler looks at the memory it lent.
RunReader ==
    /\ Called("reader")
    /\ LET c == Head(io_service) IN
        /\ got' = got \o SubSeq(m_read_buffer, 1, c.bytes)
        /\ eof' = (c.ec = "eof")
        /\ reader' = IF c.ec = "ok" /\ reader # "done" THEN "idle" ELSE "done"
    /\ UNCHANGED <<writer, result>>

NextOther ==
    \/ \E n \in 1..MaxChunk : write_some(n)
    \/ WriterReturnsEarly
    \/ async_read_some
    \/ RunReader
    \/ WriterCloses("send") \/ WriterCloses("both")
    \/ ReaderCloses("receive") \/ ReaderCloses("both")

SpecOther == Init /\ [][NextOther]_vars
-----------------------------------------------------------------------------
(* Properties *)

Tasks == [to : {"cond", "writer", "reader"}, ec : {"ok", "eof", "broken_pipe"},
          bytes : 0..MaxBytes]

TypeOK ==
    /\ m_buffer \in Seq(1..MaxBytes)
    /\ m_read_buffer \in Seq(0..MaxBytes)
    /\ {m_current_read_handler, m_current_write_handler}
          \subseteq {"none", "cond", "wrapped"}
    /\ {m_state_read_closed, m_state_write_closed, eof, closed} \subseteq BOOLEAN
    /\ io_service \in Seq(Tasks)
    /\ writer \in {"idle", "waiting", "done"}
    /\ reader \in {"idle", "asleep", "woken", "done"}
    /\ accepted \in 0..MaxBytes /\ early \in 0..MaxEarly
    /\ got \in Seq(0..MaxBytes)

\* A call that is posted is posted once.
Posted(to) == \E k \in 1..Len(io_service) : io_service[k].to = to

\* Who sleeps has a reason to, and exactly one thing that will wake it: its
\* handler in the stream, or that handler on its way through the io_service.
\* A reader sleeps beside an empty buffer, a writer beside one filled to the
\* threshold.  The writer's half holds whatever the reader's waits do; the
\* reader's holds until a read has returned before it was notified.
WriterWakeable ==
    /\ m_current_write_handler # "none" =>
        writer = "waiting" /\ Len(m_buffer) >= Threshold
    /\ (writer = "waiting") = (m_current_write_handler # "none" \/ Posted("writer"))
    /\ ~(m_current_write_handler # "none" /\ Posted("writer"))
ReaderWakeable ==
    /\ m_current_read_handler # "none" =>
        reader = "asleep" /\ m_buffer = <<>> /\ ~m_state_write_closed
    /\ (reader = "asleep") = (m_current_read_handler # "none" \/ Posted("cond"))
    /\ ~(m_current_read_handler # "none" /\ Posted("cond"))
Wakeable ==
    /\ WriterWakeable
    /\ early = 0 => ReaderWakeable
    /\ \A i, j \in 1..Len(io_service) :
        io_service[i].to = io_service[j].to /\ (io_service[i].to = "cond" => early = 0)
            => i = j

\* The bytes lent to the sleeping reader and not seen by it yet, and how many
\* they are.
Lending ==
    IF Posted("cond") THEN (CHOOSE c \in ToSet(io_service) : c.to = "cond").bytes
    ELSE IF reader = "woken" THEN result.bytes
    ELSE 0
InTransit == SubSeq(m_read_buffer, 1, Lending)

\* The comment on the class: used like a pipe, from several threads, with
\* synchronous and with asynchronous reads.
LikeAPipe == got = [k \in 1..Len(got) |-> k]
=============================================================================
