---------------------------- MODULE AsyncCoroQueue ----------------------------
(* boost/async_coro_queue.hpp: a queue for coroutines.  Who pops from the     *)
(* empty queue sleeps in m_handlers until a value is pushed, who waits for    *)
(* data sleeps in m_wait_handlers; whatever is answered is posted to the      *)
(* io_service, never called at once, so that other calls come between the     *)
(* answer and the call of the handler.  All calls are made on the thread that *)
(* runs the io_service.  Values are numbered in the order they are pushed.    *)
EXTENDS Naturals, SequencesExt

CONSTANTS Poppers,   \* those who pop one value and are content
          Loopers,   \* those whose handler pops again, as pop_handler does in
                     \* the example of the header
          Waiters,   \* those who wait for data and then pop, as wait_handler
                     \* does in the example of the header
          MaxPush    \* bound: how many values are pushed

ASSUME KindsAssumption ==
    /\ Poppers \cap Loopers = {}
    /\ Poppers \cap Waiters = {}
    /\ Loopers \cap Waiters = {}
ASSUME BoundAssumption == MaxPush \in Nat

Handlers == Poppers \cup Loopers \cup Waiters

VARIABLES m_list,            \* the values nobody has asked for yet
          m_handlers,        \* asleep in async_pop, in the order they asked
          m_wait_handlers,   \* asleep in async_wait
          io_service,        \* the answers posted and not called yet
          pending,           \* history: who has asked and was not called yet
          pushed,            \* history: how many values were pushed
          received           \* history: the values given to handlers

vars == <<m_list, m_handlers, m_wait_handlers, io_service, pending, pushed, received>>

NoValue == 0   \* value_type(), and nothing at all for async_wait

Answer(h, op, ec, value) == [handler |-> h, op |-> op, ec |-> ec, value |-> value]

\* Every handler of the sequence, answered in its order.
AnswerAll(hs, op, ec) == [k \in 1..Len(hs) |-> Answer(hs[k], op, ec, NoValue)]

Init ==
    /\ m_list = <<>>
    /\ m_handlers = <<>>
    /\ m_wait_handlers = <<>>
    /\ io_service = <<>>
    /\ pending = {}
    /\ pushed = 0
    /\ received = <<>>

\* Faulty variant of async_pop_impl: the value stays in the queue.
pop_without_erase(h, posted) ==
    \/ /\ m_list = <<>>
       /\ m_handlers' = Append(m_handlers, h)
       /\ io_service' = posted
       /\ UNCHANGED m_list
    \/ /\ m_list # <<>>
       /\ io_service' = Append(posted, Answer(h, "pop", "ok", Head(m_list)))
       /\ UNCHANGED <<m_handlers, m_list>>

\* Faulty variant of async_pop_impl: sleeps without a look at the values.
pop_always_sleeps(h, posted) ==
    /\ m_handlers' = Append(m_handlers, h)
    /\ io_service' = posted
    /\ UNCHANGED m_list

\* posted: the io_service's queue at the time of the call.
async_pop_impl(h, posted) ==
    \/ /\ m_list = <<>>
       /\ m_handlers' = Append(m_handlers, h)
       /\ io_service' = posted
       /\ UNCHANGED m_list
    \/ /\ m_list # <<>>
       /\ io_service' = Append(posted, Answer(h, "pop", "ok", Head(m_list)))
       /\ m_list' = Tail(m_list)
       /\ UNCHANGED m_handlers

AsyncPop(h) ==
    /\ h \in (Poppers \cup Loopers) \ pending
    /\ async_pop_impl(h, io_service)
    /\ pending' = pending \cup {h}
    /\ UNCHANGED <<m_wait_handlers, pushed, received>>

AsyncWait(h) ==
    /\ h \in Waiters \ pending
    /\ \/ /\ m_list = <<>>
          /\ m_wait_handlers' = Append(m_wait_handlers, h)
          /\ UNCHANGED io_service
       \/ /\ m_list # <<>>
          /\ io_service' = Append(io_service, Answer(h, "wait", "ok", NoValue))
          /\ UNCHANGED m_wait_handlers
    /\ pending' = pending \cup {h}
    /\ UNCHANGED <<m_list, m_handlers, pushed, received>>

\* Faulty variant of Push: those woken are not taken off the list.
push_keeps_waiters ==
    /\ pushed < MaxPush
    /\ pushed' = pushed + 1
    /\ LET woken == io_service \o AnswerAll(m_wait_handlers, "wait", "ok") IN
        \/ /\ m_handlers # <<>>
           /\ io_service' = Append(woken, Answer(Head(m_handlers), "pop", "ok", pushed'))
           /\ m_handlers' = Tail(m_handlers)
           /\ UNCHANGED m_list
        \/ /\ m_handlers = <<>>
           /\ io_service' = woken
           /\ m_list' = Append(m_list, pushed')
           /\ UNCHANGED m_handlers
    /\ UNCHANGED <<m_wait_handlers, pending, received>>

\* All who wait for data are woken; the value goes to the one who has slept
\* longest in async_pop, if there is one.
Push ==
    /\ pushed < MaxPush
    /\ pushed' = pushed + 1
    /\ m_wait_handlers' = <<>>
    /\ LET woken == io_service \o AnswerAll(m_wait_handlers, "wait", "ok") IN
        \/ /\ m_handlers # <<>>
           /\ io_service' = Append(woken, Answer(Head(m_handlers), "pop", "ok", pushed'))
           /\ m_handlers' = Tail(m_handlers)
           /\ UNCHANGED m_list
        \/ /\ m_handlers = <<>>
           /\ io_service' = woken
           /\ m_list' = Append(m_list, pushed')
           /\ UNCHANGED m_handlers
    /\ UNCHANGED <<pending, received>>

\* Those who wait for data are let go only if somebody sleeps in async_pop.
cancele ==
    /\ IF m_handlers # <<>>
       THEN /\ io_service' = io_service
                   \o AnswerAll(m_wait_handlers, "wait", "canceled")
                   \o AnswerAll(m_handlers, "pop", "canceled")
            /\ m_wait_handlers' = <<>>
       ELSE UNCHANGED <<io_service, m_wait_handlers>>
    /\ m_handlers' = <<>>
    /\ UNCHANGED <<pending, pushed, received>>

Cancele == cancele /\ UNCHANGED m_list

Clear == cancele /\ m_list' = <<>>

\* io_service::run() calls the oldest answer's handler.  pop_handler and
\* wait_handler look at no error code: both pop, whatever happened.
Run ==
    /\ io_service # <<>>
    /\ LET a == Head(io_service)
           h == a.handler IN
        /\ received' = IF a.value = NoValue THEN received
                       ELSE Append(received, a.value)
        /\ IF a.op = "wait" \/ h \in Loopers
           THEN /\ async_pop_impl(h, Tail(io_service))
                /\ UNCHANGED pending
           ELSE /\ io_service' = Tail(io_service)
                /\ pending' = pending \ {h}
                /\ UNCHANGED <<m_list, m_handlers>>
    /\ UNCHANGED <<m_wait_handlers, pushed>>

Next ==
    \/ \E h \in Handlers : AsyncPop(h) \/ AsyncWait(h)
    \/ Push \/ Cancele \/ Clear \/ Run

\* io_service::run() calls whatever is posted.
Spec == Init /\ [][Next]_vars /\ WF_vars(Run)
-----------------------------------------------------------------------------
(* Properties *)

Answers == [handler : Handlers, op : {"pop", "wait"},
            ec : {"ok", "canceled"}, value : Nat]

TypeOK ==
    /\ m_list \in Seq(Nat)
    /\ m_handlers \in Seq(Handlers)
    /\ m_wait_handlers \in Seq(Waiters)
    /\ io_service \in Seq(Answers)
    /\ pending \subseteq Handlers
    /\ pushed \in Nat
    /\ received \in Seq(Nat)

\* The two BOOST_ASSERTs of push: nobody sleeps while there is a value.
NobodySleepsBesideData ==
    m_list # <<>> => m_handlers = <<>> /\ m_wait_handlers = <<>>

Answered == {io_service[k].handler : k \in 1..Len(io_service)}

Distinct(s) == \A i, j \in 1..Len(s) : s[i] = s[j] => i = j

\* Who has asked is in exactly one place: asleep in one of the two lists or
\* answered in the io_service's queue, and there once.
InOnePlace ==
    /\ pending = ToSet(m_handlers) \cup ToSet(m_wait_handlers) \cup Answered
    /\ ToSet(m_handlers) \cap ToSet(m_wait_handlers) = {}
    /\ ToSet(m_handlers) \cap Answered = {}
    /\ ToSet(m_wait_handlers) \cap Answered = {}
    /\ Distinct(m_handlers)
    /\ Distinct(m_wait_handlers)
    /\ \A i, j \in 1..Len(io_service) :
        io_service[i].handler = io_service[j].handler => i = j

\* Every handler is called once for every time it has asked, no one is
\* forgotten between the lists, and no value lies idle while somebody sleeps:
\* in push, cancele and the handlers that ask again.
QueueInv == TypeOK /\ NobodySleepsBesideData /\ InOnePlace

\* The values given with a row of answers, in its order.
Given(answers) ==
    LET given[n \in 0..Len(answers)] ==
            IF n = 0 THEN <<>>
            ELSE IF answers[n].value = NoValue THEN given[n - 1]
            ELSE Append(given[n - 1], answers[n].value)
    IN given[Len(answers)]

\* The values on their way to a handler.
InFlight == Given(io_service)

Fifo == INSTANCE HandOver WITH
    put <- pushed, waiting <- InFlight \o m_list, received <- received

\* The values reach the handlers in the order they were pushed and none twice;
\* only clear() throws values away, and only those nobody was promised.
QueueSpec == Fifo!Spec

\* While somebody pops in a loop no value stays in the queue for ever.
Consumed == \A v \in 1..MaxPush :
    v \in ToSet(m_list) /\ Loopers \cap pending # {} ~> v \notin ToSet(m_list)
=============================================================================
