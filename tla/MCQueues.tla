------------------------------ MODULE MCQueues ------------------------------
(* The two queues of avboost, side by side: an execution is one of a          *)
(* coroutine queue, of a stream with an asynchronous writer and a reading     *)
(* thread, or ("other") of a stream with a writing thread and an asynchronous *)
(* reader; the variables of the others stand still.                           *)
EXTENDS AsyncCoroQueue

CONSTANTS StreamThreshold,            \* the stream's Threshold
          StreamBytes, StreamChunk,   \* bounds: MaxBytes, MaxChunk and
          StreamEarly                 \*   MaxEarly

ASSUME StreamAssumption ==
    /\ StreamThreshold \in Nat /\ StreamBytes \in Nat /\ StreamChunk \in Nat
    /\ StreamEarly \in Nat

VARIABLES part,
          m_buffer, m_read_buffer, m_current_read_handler, m_current_write_handler,
          m_state_read_closed, m_state_write_closed, posted, writer, reader, result,
          accepted, got, eof, closed, early,   \* InterthreadStream
          met        \* history: a write of "other" has found the reader asleep

streamVars == <<m_buffer, m_read_buffer, m_current_read_handler, m_current_write_handler,
                m_state_read_closed, m_state_write_closed, posted, writer, reader,
                result, accepted, got, eof, closed, early>>
queuesVars == <<part, vars, streamVars, met>>

Stream == INSTANCE InterthreadStream WITH
    Threshold <- StreamThreshold, MaxBytes <- StreamBytes, MaxChunk <- StreamChunk,
    MaxEarly <- StreamEarly, io_service <- posted

QueuesInit ==
    /\ part \in {"queue", "stream", "other"}
    /\ Init /\ Stream!Init
    /\ part = "queue" => ~m_state_read_closed /\ ~m_state_write_closed
    /\ met = FALSE

Queue(action) == part = "queue" /\ action /\ UNCHANGED <<part, streamVars, met>>
Piped(action) == part = "stream" /\ action /\ UNCHANGED <<part, vars, met>>

Other ==
    /\ part = "other" /\ Stream!NextOther
    /\ met' = (met \/ (m_current_read_handler # "none" /\ accepted' > accepted))
    /\ UNCHANGED <<part, vars>>

QueuesNext == Queue(Next) \/ Piped(Stream!Next) \/ Other

\* The fairness of the two specifications.
QueuesFairness ==
    /\ WF_queuesVars(Queue(Run))
    /\ WF_queuesVars(Piped(Stream!RunCond \/ Stream!RunWriter))
    /\ WF_queuesVars(Piped(Stream!ReaderReturns))
    /\ WF_queuesVars(Piped(\E n \in 1..StreamChunk : Stream!read_some(n)))

QueuesSpec == QueuesInit /\ [][QueuesNext]_queuesVars /\ QueuesFairness
-----------------------------------------------------------------------------
(* Properties, beside those of AsyncCoroQueue *)

\* Who sleeps in the stream has exactly one thing that will wake it
\* (InterthreadStream, Wakeable), a reader until one has returned before it was
\* notified.  The other pairing, in which write_some keeps the handler it has
\* called, is a pipe as long as no write has found the reader asleep, even when
\* the writing thread wakes by itself.
StreamInv ==
    /\ Stream!TypeOK
    /\ part = "stream" => Stream!Wakeable
    /\ part = "other" /\ ~met => Stream!LikeAPipe

Told(done, whenStream) == IF part = "stream" THEN whenStream ELSE done

Pipe == INSTANCE HandOver WITH
    put <- Told(0, accepted), waiting <- Told(<<>>, Stream!InTransit \o m_buffer),
    received <- Told(<<>>, got)

\* The reader sees the bytes in the order in which they were written, each
\* once, however the next write, the posted handler and the waking of the
\* thread come after each other, and the end only after the last byte: each
\* step is one of HandOver, up to the first read that returns before it is
\* notified.
PipeSpec ==
    /\ Pipe!Init
    /\ [][early' = 0 => [Pipe!Next]_(Pipe!vars)]_queuesVars
    /\ [][part = "stream" /\ early' = 0 /\ ~eof /\ eof' /\ closed'
            => Len(got') = accepted']_queuesVars

\* While the reader reads, a byte written is seen, as long as no read returns
\* early, and a writer who sleeps returns from its write in any case.
Flows ==
    /\ \A n \in 1..StreamBytes :
        part = "stream" /\ accepted >= n
            ~> Len(got) >= n \/ reader = "done" \/ early > 0
    /\ part = "stream" /\ writer = "waiting" ~> writer # "waiting" \/ reader = "done"
-----------------------------------------------------------------------------
(* What the comment on the class says, "used like a pipe", and the code does  *)
(* not keep                                                                   *)

\* The reader, a thread or a coroutine, sees the bytes written, each once and no
\* others, and a writer asleep is released when the reader closes.  Violated:
\* read_some waits for its condition once, and if the wait returns by itself it
\* returns a number of bytes that nobody has set; write_some keeps the handler it
\* has called, and calls it again with the next write; shutdown() wakes the writer
\* only if the buffer is drained to the threshold.
UsedLikeAPipe ==
    /\ part \in {"stream", "other"} => Stream!LikeAPipe
    /\ part = "stream" /\ reader = "done" => m_current_write_handler = "none"
=============================================================================
