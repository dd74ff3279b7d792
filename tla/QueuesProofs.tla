----------------------------- MODULE QueuesProofs -----------------------------
(* The coroutine queue, for any handlers and any number of values: whoever    *)
(* has asked is in exactly one place, nobody sleeps beside data, and the      *)
(* values come out in the order in which they were pushed.  The two lists of  *)
(* sleepers and the names in the io_service's queue are three rows; every     *)
(* call moves names between them, and each kind of move is a lemma.  What a   *)
(* row of answers gives is a recursive function; the lemmas on it rest on     *)
(* induction over its length, which is proved from the well-founded order of  *)
(* finite sets.                                                               *)
(* The stream, for any threshold and any writes and reads: who sleeps has one *)
(* thing that will wake it, and the bytes reach the reader in their order.    *)
EXTENDS MCQueues, FiniteSetTheorems, WellFoundedInduction, TLAPS

Names(q) == [k \in 1..Len(q) |-> q[k].handler]

\* InOnePlace, of the three rows of names.
Placed(A, B, C, P) ==
    /\ P = ToSet(A) \cup ToSet(B) \cup ToSet(C)
    /\ ToSet(A) \cap ToSet(B) = {}
    /\ ToSet(A) \cap ToSet(C) = {}
    /\ ToSet(B) \cap ToSet(C) = {}
    /\ Distinct(A) /\ Distinct(B) /\ Distinct(C)

-----------------------------------------------------------------------------
(* Rows of names *)

\* What a row holds, and when it repeats nothing, by positions.
LEMMA RowSet ==
    ASSUME NEW S, NEW s \in Seq(S)
    PROVE  /\ \A x : x \in ToSet(s) <=> \E i \in 1..Len(s) : s[i] = x
           /\ ToSet(s) \subseteq S
  BY DEF ToSet

\* A name more at the end of a row.
LEMMA RowAppend ==
    ASSUME NEW S, NEW s \in Seq(S), NEW x \in S
    PROVE  /\ ToSet(Append(s, x)) = ToSet(s) \cup {x}
           /\ Distinct(s) /\ x \notin ToSet(s) => Distinct(Append(s, x))
<1>1. /\ Append(s, x) \in Seq(S) /\ Len(Append(s, x)) = Len(s) + 1
      /\ \A i \in 1..Len(s) : Append(s, x)[i] = s[i]
      /\ Append(s, x)[Len(s) + 1] = x
      /\ Len(s) \in Nat
  OBVIOUS
<1>2. ToSet(Append(s, x)) = ToSet(s) \cup {x}
  <2>1. ASSUME NEW y \in ToSet(Append(s, x)) PROVE y \in ToSet(s) \cup {x}
    <3>1. PICK i \in 1..Len(Append(s, x)) : Append(s, x)[i] = y
      BY <1>1, RowSet
    <3>2. i \in 1..Len(s) \/ i = Len(s) + 1
      BY <1>1
    <3> QED
      BY <1>1, <3>1, <3>2, RowSet
  <2>2. ASSUME NEW y \in ToSet(s) PROVE y \in ToSet(Append(s, x))
    <3>1. PICK i \in 1..Len(s) : s[i] = y
      BY RowSet
    <3>2. i \in 1..Len(Append(s, x)) /\ Append(s, x)[i] = y
      BY <1>1, <3>1
    <3> QED
      BY <1>1, <3>2, RowSet
  <2>3. x \in ToSet(Append(s, x))
    <3>1. Len(s) + 1 \in 1..Len(Append(s, x))
      BY <1>1
    <3> QED
      BY <1>1, <3>1, RowSet
  <2> QED
    BY <2>1, <2>2, <2>3
<1>3. ASSUME Distinct(s), x \notin ToSet(s) PROVE Distinct(Append(s, x))
  <2>1. \A i \in 1..Len(s) : s[i] # x
    BY <1>3, RowSet
  <2> QED
    BY <1>1, <1>3, <2>1 DEF Distinct
<1> QED
  BY <1>2, <1>3

\* Two sequences behind each other, by positions.
LEMMA ConcatAt ==
    ASSUME NEW S, NEW s \in Seq(S), NEW u \in Seq(S)
    PROVE  /\ s \o u \in Seq(S) /\ Len(s \o u) = Len(s) + Len(u)
           /\ \A i \in 1..Len(s) : (s \o u)[i] = s[i]
           /\ \A i \in 1..Len(u) : (s \o u)[Len(s) + i] = u[i]
           /\ Len(s) \in Nat /\ Len(u) \in Nat
  OBVIOUS

\* Two rows behind each other.
LEMMA RowConcat ==
    ASSUME NEW S, NEW s \in Seq(S), NEW u \in Seq(S)
    PROVE  /\ ToSet(s \o u) = ToSet(s) \cup ToSet(u)
           /\ Distinct(s) /\ Distinct(u) /\ ToSet(s) \cap ToSet(u) = {}
                => Distinct(s \o u)
<1> DEFINE c == s \o u
<1>1. /\ c \in Seq(S) /\ Len(c) = Len(s) + Len(u)
      /\ \A i \in 1..Len(s) : c[i] = s[i]
      /\ \A i \in 1..Len(u) : c[Len(s) + i] = u[i]
      /\ Len(s) \in Nat /\ Len(u) \in Nat
  BY ConcatAt
<1>2. \A i \in 1..(Len(s) + Len(u)) :
        i \in 1..Len(s) \/ (i - Len(s) \in 1..Len(u) /\ i = Len(s) + (i - Len(s)))
  BY <1>1
<1>3. ToSet(c) = ToSet(s) \cup ToSet(u)
  <2>1. ASSUME NEW y \in ToSet(c) PROVE y \in ToSet(s) \cup ToSet(u)
    <3>1. PICK i \in 1..Len(c) : c[i] = y
      BY <1>1, RowSet
    <3> QED
      BY <1>1, <1>2, <3>1, RowSet
  <2>2. ASSUME NEW y \in ToSet(s) PROVE y \in ToSet(c)
    <3>1. PICK i \in 1..Len(s) : s[i] = y
      BY RowSet
    <3>2. i \in 1..Len(c) /\ c[i] = y
      BY <1>1, <3>1
    <3> QED
      BY <1>1, <3>2, RowSet
  <2>3. ASSUME NEW y \in ToSet(u) PROVE y \in ToSet(c)
    <3>1. PICK i \in 1..Len(u) : u[i] = y
      BY RowSet
    <3>2. Len(s) + i \in 1..Len(c) /\ c[Len(s) + i] = y
      BY <1>1, <3>1
    <3> QED
      BY <1>1, <3>2, RowSet
  <2> QED
    BY <2>1, <2>2, <2>3
<1>4. ASSUME Distinct(s), Distinct(u), ToSet(s) \cap ToSet(u) = {} PROVE Distinct(c)
  <2>1. \A i \in 1..Len(s), j \in 1..Len(u) : s[i] # u[j]
    BY <1>4, RowSet
  <2>2. SUFFICES ASSUME NEW i \in 1..Len(c), NEW j \in 1..Len(c), c[i] = c[j]
                 PROVE  i = j
    BY DEF Distinct
  <2>3. CASE i \in 1..Len(s) /\ j \in 1..Len(s)
    BY <1>1, <1>4, <2>2, <2>3 DEF Distinct
  <2>4. CASE i \in 1..Len(s) /\ j \notin 1..Len(s)
    BY <1>1, <1>2, <2>1, <2>2, <2>4
  <2>5. CASE i \notin 1..Len(s) /\ j \in 1..Len(s)
    BY <1>1, <1>2, <2>1, <2>2, <2>5
  <2>6. CASE i \notin 1..Len(s) /\ j \notin 1..Len(s)
    <3>1. i - Len(s) \in 1..Len(u) /\ j - Len(s) \in 1..Len(u)
      BY <1>1, <1>2, <2>6
    <3>2. c[i] = u[i - Len(s)] /\ c[j] = u[j - Len(s)]
      BY <1>1, <1>2, <2>6
    <3>3. i - Len(s) = j - Len(s)
      BY <1>4, <2>2, <3>1, <3>2 DEF Distinct
    <3> QED
      BY <1>1, <3>3
  <2> QED
    BY <2>3, <2>4, <2>5, <2>6
<1> QED
  BY <1>3, <1>4

\* A row without its first name.
LEMMA RowTail ==
    ASSUME NEW S, NEW s \in Seq(S), s # <<>>
    PROVE  /\ ToSet(s) = {Head(s)} \cup ToSet(Tail(s))
           /\ Distinct(s) => Distinct(Tail(s)) /\ Head(s) \notin ToSet(Tail(s))
<1> DEFINE r == Tail(s)
<1>1. /\ r \in Seq(S) /\ Len(r) = Len(s) - 1 /\ Len(s) \in Nat /\ Len(s) >= 1
      /\ \A i \in 1..Len(r) : r[i] = s[i + 1]
      /\ Head(s) = s[1]
  OBVIOUS
<1>2. \A i \in 1..Len(s) : i = 1 \/ (i - 1 \in 1..Len(r) /\ s[i] = r[i - 1])
  BY <1>1
<1>3. ToSet(s) = {Head(s)} \cup ToSet(r)
  <2>1. ASSUME NEW y \in ToSet(s) PROVE y \in {Head(s)} \cup ToSet(r)
    <3>1. PICK i \in 1..Len(s) : s[i] = y
      BY RowSet
    <3>2. CASE i = 1
      BY <1>1, <3>1, <3>2
    <3>3. CASE i - 1 \in 1..Len(r) /\ s[i] = r[i - 1]
      BY <1>1, <3>1, <3>3, RowSet
    <3> QED
      BY <1>2, <3>2, <3>3
  <2>2. ASSUME NEW y \in ToSet(r) PROVE y \in ToSet(s)
    <3>1. PICK i \in 1..Len(r) : r[i] = y
      <4> HIDE DEF r
      <4> QED
        BY <1>1, RowSet
    <3>2. i + 1 \in 1..Len(s) /\ s[i + 1] = y
      BY <1>1, <3>1
    <3> QED
      BY <3>2, RowSet
  <2>3. Head(s) \in ToSet(s)
    BY <1>1, RowSet
  <2> QED
    BY <2>1, <2>2, <2>3
<1>4. ASSUME Distinct(s) PROVE Distinct(r) /\ Head(s) \notin ToSet(r)
  <2>1. ASSUME NEW i \in 1..Len(r), NEW j \in 1..Len(r), r[i] = r[j] PROVE i = j
    <3>1. i + 1 \in 1..Len(s) /\ j + 1 \in 1..Len(s) /\ s[i + 1] = s[j + 1]
      BY <1>1, <2>1
    <3>2. i + 1 = j + 1
      BY <1>4, <3>1 DEF Distinct
    <3> QED
      BY <1>1, <3>2
  <2>2. ASSUME NEW i \in 1..Len(r), r[i] = Head(s) PROVE FALSE
    <3>1. i + 1 \in 1..Len(s) /\ 1 \in 1..Len(s) /\ s[i + 1] = s[1]
      BY <1>1, <2>2
    <3>2. i + 1 = 1
      BY <1>4, <3>1 DEF Distinct
    <3> QED
      BY <1>1, <3>2
  <2> QED
    BY <1>1, <2>1, <2>2, RowSet DEF Distinct
<1> QED
  BY <1>3, <1>4

\* Rows are equal if they are so at every position.
LEMMA RowEqual ==
    ASSUME NEW S, NEW s \in Seq(S), NEW u \in Seq(S), Len(s) = Len(u),
           \A i \in 1..Len(s) : s[i] = u[i]
    PROVE  s = u
  OBVIOUS

\* The empty row.
LEMMA RowEmpty == ToSet(<<>>) = {} /\ Distinct(<<>>)
  BY DEF ToSet, Distinct
-----------------------------------------------------------------------------
(* Moves between the three rows: m_handlers, m_wait_handlers, the io_service. *)

\* A newcomer goes to the end of any of the rows.
LEMMA Joins ==
    ASSUME NEW A \in Seq(Handlers), NEW B \in Seq(Handlers), NEW C \in Seq(Handlers),
           NEW P, Placed(A, B, C, P), NEW h \in Handlers, h \notin P
    PROVE  /\ Placed(Append(A, h), B, C, P \cup {h})
           /\ Placed(A, Append(B, h), C, P \cup {h})
           /\ Placed(A, B, Append(C, h), P \cup {h})
<1>1. h \notin ToSet(A) /\ h \notin ToSet(B) /\ h \notin ToSet(C)
  BY DEF Placed
<1>2. \A s \in {A, B, C} : /\ ToSet(Append(s, h)) = ToSet(s) \cup {h}
                            /\ Distinct(Append(s, h))
  BY <1>1, RowAppend DEF Placed
<1> QED
  BY <1>1, <1>2, Zenon DEF Placed

\* All of a row of sleepers are answered, in their order.
LEMMA AllAnswered ==
    ASSUME NEW A \in Seq(Handlers), NEW B \in Seq(Handlers), NEW C \in Seq(Handlers),
           NEW P, Placed(A, B, C, P)
    PROVE  /\ Placed(A, <<>>, C \o B, P)
           /\ Placed(<<>>, B, C \o A, P)
<1>1. /\ ToSet(C \o B) = ToSet(C) \cup ToSet(B) /\ Distinct(C \o B)
      /\ ToSet(C \o A) = ToSet(C) \cup ToSet(A) /\ Distinct(C \o A)
  BY RowConcat DEF Placed
<1> QED
  BY <1>1, RowEmpty DEF Placed

\* The one who has slept longest is answered.
LEMMA FirstAnswered ==
    ASSUME NEW A \in Seq(Handlers), NEW B \in Seq(Handlers), NEW C \in Seq(Handlers),
           NEW P, Placed(A, B, C, P), A # <<>>
    PROVE  Placed(Tail(A), B, Append(C, Head(A)), P)
<1>1. /\ ToSet(A) = {Head(A)} \cup ToSet(Tail(A)) /\ Distinct(Tail(A))
      /\ Head(A) \notin ToSet(Tail(A)) /\ Head(A) \in Handlers
  BY RowTail DEF Placed
<1>2. Head(A) \notin ToSet(B) /\ Head(A) \notin ToSet(C)
  BY <1>1 DEF Placed
<1>3. ToSet(Append(C, Head(A))) = ToSet(C) \cup {Head(A)} /\ Distinct(Append(C, Head(A)))
  BY <1>1, <1>2, RowAppend DEF Placed
<1> QED
  BY <1>1, <1>2, <1>3 DEF Placed

\* The oldest answer is called.
LEMMA FirstCalled ==
    ASSUME NEW A \in Seq(Handlers), NEW B \in Seq(Handlers), NEW C \in Seq(Handlers),
           NEW P, Placed(A, B, C, P), C # <<>>
    PROVE  /\ Placed(A, B, Tail(C), P \ {Head(C)})
           /\ Head(C) \in P
<1>1. /\ ToSet(C) = {Head(C)} \cup ToSet(Tail(C)) /\ Distinct(Tail(C))
      /\ Head(C) \notin ToSet(Tail(C))
  BY RowTail DEF Placed
<1>2. Head(C) \notin ToSet(A) /\ Head(C) \notin ToSet(B)
  BY <1>1 DEF Placed
<1> QED
  BY <1>1, <1>2 DEF Placed
-----------------------------------------------------------------------------
(* The names in the io_service's queue *)

\* The row of names, by positions.
LEMMA NamesOf ==
    ASSUME NEW q \in Seq(Answers)
    PROVE  /\ Names(q) \in Seq(Handlers) /\ Len(Names(q)) = Len(q)
           /\ \A k \in 1..Len(q) : Names(q)[k] = q[k].handler
<1>1. \A k \in 1..Len(q) : q[k].handler \in Handlers
  <2>1. \A k \in 1..Len(q) : q[k] \in Answers
    OBVIOUS
  <2> QED
    BY <2>1 DEF Answers
<1> QED
  BY <1>1 DEF Names

\* An answer more adds its name.
LEMMA NamesAppend ==
    ASSUME NEW q \in Seq(Answers), NEW a \in Answers
    PROVE  Names(Append(q, a)) = Append(Names(q), a.handler)
<1>1. Append(q, a) \in Seq(Answers) /\ a.handler \in Handlers
  BY DEF Answers
<1>2. /\ Len(Append(q, a)) = Len(q) + 1 /\ Len(q) \in Nat
      /\ \A k \in 1..(Len(q) + 1) :
            Append(q, a)[k].handler = Append(Names(q), a.handler)[k]
  BY <1>1, NamesOf
<1>3. Append(Names(q), a.handler) \in Seq(Handlers)
      /\ Len(Append(Names(q), a.handler)) = Len(q) + 1
  BY <1>1, NamesOf
<1>4. /\ Names(Append(q, a)) \in Seq(Handlers) /\ Len(Names(Append(q, a))) = Len(q) + 1
      /\ \A k \in 1..(Len(q) + 1) : Names(Append(q, a))[k] = Append(q, a)[k].handler
  BY <1>1, <1>2, NamesOf
<1> QED
  BY <1>2, <1>3, <1>4, RowEqual

\* The names of two rows of answers behind each other.
LEMMA NamesConcat ==
    ASSUME NEW q \in Seq(Answers), NEW r \in Seq(Answers)
    PROVE  Names(q \o r) = Names(q) \o Names(r)
<1> DEFINE nq == Names(q)  nr == Names(r)
<1>n. /\ nq \in Seq(Handlers) /\ Len(nq) = Len(q)
      /\ nr \in Seq(Handlers) /\ Len(nr) = Len(r)
      /\ \A k \in 1..Len(q) : nq[k] = q[k].handler
      /\ \A k \in 1..Len(r) : nr[k] = r[k].handler
  BY NamesOf
<1>1. /\ q \o r \in Seq(Answers) /\ nq \o nr \in Seq(Handlers)
      /\ Len(q \o r) = Len(q) + Len(r) /\ Len(q) \in Nat /\ Len(r) \in Nat
  <2> HIDE DEF nq, nr
  <2>1. nq \o nr \in Seq(Handlers)
    BY <1>n
  <2>2. q \o r \in Seq(Answers) /\ Len(q \o r) = Len(q) + Len(r)
    OBVIOUS
  <2> QED
    BY <2>1, <2>2
<1>2. /\ Len(nq \o nr) = Len(q) + Len(r)
      /\ \A k \in 1..Len(q) : (nq \o nr)[k] = nq[k]
      /\ \A k \in 1..Len(r) : (nq \o nr)[Len(q) + k] = nr[k]
  <2> HIDE DEF nq, nr
  <2>1. nq \in Seq(Handlers) /\ nr \in Seq(Handlers)
    BY <1>n
  <2>2. /\ Len(nq \o nr) = Len(nq) + Len(nr)
        /\ \A k \in 1..Len(nq) : (nq \o nr)[k] = nq[k]
        /\ \A k \in 1..Len(nr) : (nq \o nr)[Len(nq) + k] = nr[k]
    BY ONLY <2>1, ConcatAt
  <2> QED
    BY <1>n, <2>2
<1>4. /\ Names(q \o r) \in Seq(Handlers) /\ Len(Names(q \o r)) = Len(q) + Len(r)
      /\ \A k \in 1..(Len(q) + Len(r)) : Names(q \o r)[k] = (q \o r)[k].handler
  BY <1>1, NamesOf
<1>3. ASSUME NEW k \in 1..(Len(q) + Len(r))
      PROVE  Names(q \o r)[k] = (nq \o nr)[k]
  <2> HIDE DEF nq, nr
  <2>1. CASE k \in 1..Len(q)
    <3>1. (q \o r)[k] = q[k]
      BY <1>1, <2>1
    <3> QED
      BY <1>n, <1>1, <1>2, <1>4, <2>1, <3>1
  <2>2. CASE k \notin 1..Len(q)
    <3>1. k - Len(q) \in 1..Len(r) /\ k = Len(q) + (k - Len(q))
      BY <1>1, <2>2
    <3>2. (q \o r)[k] = r[k - Len(q)]
      BY <1>1, <2>2
    <3>3. (nq \o nr)[k] = nr[k - Len(q)]
      BY <1>2, <3>1
    <3> QED
      BY <1>n, <1>1, <1>4, <3>1, <3>2, <3>3
  <2> QED
    BY <2>1, <2>2
<1> QED
  <2> HIDE DEF nq, nr
  <2>1. Names(q \o r) = nq \o nr
    BY <1>1, <1>2, <1>3, <1>4, RowEqual
  <2> QED
    BY <2>1 DEF nq, nr

\* The names without that of the first answer.
LEMMA NamesTail ==
    ASSUME NEW q \in Seq(Answers), q # <<>>
    PROVE  /\ Names(q) # <<>> /\ Head(Names(q)) = Head(q).handler
           /\ Tail(q) \in Seq(Answers) /\ Names(Tail(q)) = Tail(Names(q))
<1>1. Len(q) \in Nat /\ Len(q) >= 1 /\ Tail(q) \in Seq(Answers) /\ Len(Tail(q)) = Len(q) - 1
  OBVIOUS
<1>2. Names(q) # <<>> /\ Head(Names(q)) = Head(q).handler
  BY <1>1, NamesOf
<1>3. Tail(Names(q)) \in Seq(Handlers) /\ Len(Tail(Names(q))) = Len(q) - 1
  BY <1>1, <1>2, NamesOf
<1>4. ASSUME NEW k \in 1..(Len(q) - 1) PROVE Names(Tail(q))[k] = Tail(Names(q))[k]
  <2>1. Names(Tail(q))[k] = q[k + 1].handler
    <3>1. Tail(q)[k] = q[k + 1] /\ k \in 1..Len(Tail(q))
      BY <1>1
    <3> QED
      BY <1>1, <3>1, NamesOf
  <2>2. Tail(Names(q))[k] = Names(q)[k + 1]
    BY <1>1, <1>2, <1>3, NamesOf
  <2> QED
    BY <1>1, <2>1, <2>2, NamesOf
<1>5. Names(Tail(q)) \in Seq(Handlers) /\ Len(Names(Tail(q))) = Len(q) - 1
  BY <1>1, NamesOf
<1>6. Names(Tail(q)) = Tail(Names(q))
  BY <1>3, <1>4, <1>5, RowEqual
<1> QED
  BY <1>1, <1>2, <1>6

\* All are answered in the order in which they slept.
LEMMA NamesAnswerAll ==
    ASSUME NEW hs \in Seq(Handlers), NEW op \in {"pop", "wait"},
           NEW ec \in {"ok", "canceled"}
    PROVE  /\ AnswerAll(hs, op, ec) \in Seq(Answers)
           /\ Names(AnswerAll(hs, op, ec)) = hs
<1>1. \A k \in 1..Len(hs) : Answer(hs[k], op, ec, NoValue) \in Answers
  BY DEF Answer, Answers, NoValue
<1>2. AnswerAll(hs, op, ec) \in Seq(Answers) /\ Len(AnswerAll(hs, op, ec)) = Len(hs)
  BY <1>1 DEF AnswerAll
<1>3. \A k \in 1..Len(hs) : Names(AnswerAll(hs, op, ec))[k] = hs[k]
  BY <1>2, NamesOf DEF AnswerAll, Answer
<1> QED
  BY <1>2, <1>3, NamesOf

\* What InOnePlace says of the io_service's queue it says of the names in it.
LEMMA NamesPlace ==
    ASSUME NEW q \in Seq(Answers)
    PROVE  /\ ToSet(Names(q)) = {q[k].handler : k \in 1..Len(q)}
           /\ Distinct(Names(q))
                <=> \A i, j \in 1..Len(q) : q[i].handler = q[j].handler => i = j
<1>1. ToSet(Names(q)) = {q[k].handler : k \in 1..Len(q)}
  BY NamesOf DEF ToSet, Names
<1>2. Distinct(Names(q))
        <=> \A i, j \in 1..Len(q) : q[i].handler = q[j].handler => i = j
  BY NamesOf DEF Distinct
<1> QED
  BY <1>1, <1>2
-----------------------------------------------------------------------------
(* The steps *)

Rows == Placed(m_handlers, m_wait_handlers, Names(io_service), pending)

\* InOnePlace is what Placed says of the three rows ...
LEMMA RowsInOnePlace ==
    ASSUME io_service \in Seq(Answers)
    PROVE  InOnePlace <=> Rows
  BY NamesPlace, Zenon DEF InOnePlace, Placed, Rows, Answered

\* ... after a step, too.
LEMMA RowsInOnePlacePrime ==
    ASSUME io_service' \in Seq(Answers)
    PROVE  InOnePlace' <=> Rows'
  BY NamesPlace, Zenon DEF InOnePlace, Placed, Rows, Answered

\* async_pop_impl of one who is in no place: asleep, or answered with the
\* oldest value.
LEMMA PopStep ==
    ASSUME TypeOK, NobodySleepsBesideData,
           NEW h \in Handlers, NEW row \in Seq(Answers), NEW P, h \notin P,
           Placed(m_handlers, m_wait_handlers, Names(row), P),
           async_pop_impl(h, row), UNCHANGED m_wait_handlers
    PROVE  /\ m_list' \in Seq(Nat) /\ m_handlers' \in Seq(Handlers)
           /\ io_service' \in Seq(Answers)
           /\ Placed(m_handlers', m_wait_handlers', Names(io_service'), P \cup {h})
           /\ NobodySleepsBesideData'
<1>t. /\ m_list \in Seq(Nat) /\ m_handlers \in Seq(Handlers)
      /\ m_wait_handlers \in Seq(Handlers) /\ Names(row) \in Seq(Handlers)
  BY NamesOf DEF TypeOK, Handlers
<1>1. CASE /\ m_list = <<>> /\ m_handlers' = Append(m_handlers, h)
           /\ io_service' = row /\ UNCHANGED m_list
  <2>1. Placed(Append(m_handlers, h), m_wait_handlers, Names(row), P \cup {h})
    BY <1>t, Joins
  <2> QED
    BY <1>t, <1>1, <2>1 DEF NobodySleepsBesideData
<1>2. CASE /\ m_list # <<>>
           /\ io_service' = Append(row, Answer(h, "pop", "ok", Head(m_list)))
           /\ m_list' = Tail(m_list) /\ UNCHANGED m_handlers
  <2> DEFINE a == Answer(h, "pop", "ok", Head(m_list))
  <2>1. Head(m_list) \in Nat /\ Tail(m_list) \in Seq(Nat)
    BY <1>t, <1>2
  <2>2. a \in Answers /\ a.handler = h
    BY <2>1 DEF Answer, Answers
  <2>3. Names(io_service') = Append(Names(row), h)
    BY <1>2, <2>2, NamesAppend
  <2>4. Placed(m_handlers, m_wait_handlers, Append(Names(row), h), P \cup {h})
    BY <1>t, Joins
  <2>5. io_service' \in Seq(Answers)
    BY <1>2, <2>2
  <2> QED
    BY <1>t, <1>2, <2>1, <2>3, <2>4, <2>5 DEF NobodySleepsBesideData
<1> QED
  BY <1>1, <1>2 DEF async_pop_impl

\* The waiters and the sleepers among the handlers.
LEMMA TypesOfRows ==
    ASSUME TypeOK
    PROVE  /\ m_handlers \in Seq(Handlers) /\ m_wait_handlers \in Seq(Handlers)
           /\ Names(io_service) \in Seq(Handlers)
  BY NamesOf DEF TypeOK, Handlers

\* One who was in no place asks to pop.
LEMMA AsyncPopStep ==
    ASSUME TypeOK, Rows, NobodySleepsBesideData, NEW h \in Handlers, AsyncPop(h)
    PROVE  TypeOK' /\ Rows' /\ NobodySleepsBesideData'
<1>1. h \notin pending /\ io_service \in Seq(Answers)
  BY DEF AsyncPop, TypeOK
<1>2. /\ m_list' \in Seq(Nat) /\ m_handlers' \in Seq(Handlers)
      /\ io_service' \in Seq(Answers)
      /\ Placed(m_handlers', m_wait_handlers', Names(io_service'), pending \cup {h})
      /\ NobodySleepsBesideData'
  BY <1>1, PopStep DEF AsyncPop, Rows
<1>3. TypeOK'
  BY <1>2 DEF TypeOK, AsyncPop
<1> QED
  BY <1>2, <1>3 DEF AsyncPop, Rows

\* One who was in no place waits for data.
LEMMA AsyncWaitStep ==
    ASSUME TypeOK, Rows, NobodySleepsBesideData, NEW h \in Handlers, AsyncWait(h)
    PROVE  TypeOK' /\ Rows' /\ NobodySleepsBesideData'
<1>1. h \notin pending /\ h \in Waiters /\ io_service \in Seq(Answers)
      /\ m_wait_handlers \in Seq(Waiters)
  BY DEF AsyncWait, TypeOK
<1>2. CASE m_list = <<>> /\ m_wait_handlers' = Append(m_wait_handlers, h)
           /\ UNCHANGED io_service
  <2>1. Rows'
    BY <1>1, <1>2, TypesOfRows, Joins DEF AsyncWait, Rows
  <2>2. TypeOK'
    BY <1>1, <1>2 DEF AsyncWait, TypeOK
  <2> QED
    BY <1>2, <2>1, <2>2 DEF AsyncWait, NobodySleepsBesideData
<1>3. CASE /\ m_list # <<>> /\ UNCHANGED m_wait_handlers
           /\ io_service' = Append(io_service, Answer(h, "wait", "ok", NoValue))
  <2> DEFINE a == Answer(h, "wait", "ok", NoValue)
  <2>1. a \in Answers /\ a.handler = h
    BY DEF Answer, Answers, NoValue
  <2>2. Names(io_service') = Append(Names(io_service), h)
    BY <1>1, <1>3, <2>1, NamesAppend
  <2>3. Rows'
    <3>1. Placed(m_handlers, m_wait_handlers, Append(Names(io_service), h), pending \cup {h})
      BY <1>1, TypesOfRows, Joins DEF Rows
    <3> QED
      BY <1>3, <2>2, <3>1 DEF AsyncWait, Rows
  <2>4. TypeOK'
    BY <1>1, <1>3, <2>1 DEF AsyncWait, TypeOK
  <2> QED
    BY <1>3, <2>3, <2>4 DEF AsyncWait, NobodySleepsBesideData
<1> QED
  BY <1>2, <1>3 DEF AsyncWait

\* All who wait are answered, and the longest sleeper if there is one.
LEMMA PushStep ==
    ASSUME TypeOK, Rows, NobodySleepsBesideData, Push
    PROVE  TypeOK' /\ Rows' /\ NobodySleepsBesideData'
<1> DEFINE woken == io_service \o AnswerAll(m_wait_handlers, "wait", "ok")
           names == Names(io_service) \o m_wait_handlers
<1>1. /\ io_service \in Seq(Answers) /\ m_wait_handlers \in Seq(Waiters)
      /\ pushed' \in Nat /\ m_list \in Seq(Nat)
  BY DEF Push, TypeOK
<1>2. /\ AnswerAll(m_wait_handlers, "wait", "ok") \in Seq(Answers)
      /\ Names(AnswerAll(m_wait_handlers, "wait", "ok")) = m_wait_handlers
  BY TypesOfRows, NamesAnswerAll
<1>3. woken \in Seq(Answers) /\ Names(woken) = names
  <2> DEFINE all == AnswerAll(m_wait_handlers, "wait", "ok")
  <2> HIDE DEF all
  <2>1. all \in Seq(Answers) /\ Names(all) = m_wait_handlers
    BY <1>2 DEF all
  <2>2. io_service \o all \in Seq(Answers)
    BY <1>1, <2>1, ConcatAt
  <2>3. Names(io_service \o all) = Names(io_service) \o m_wait_handlers
    BY <1>1, <2>1, NamesConcat
  <2> QED
    BY <2>2, <2>3 DEF all
<1>4. Placed(m_handlers, <<>>, names, pending)
  BY TypesOfRows, AllAnswered DEF Rows
<1>5. <<>> \in Seq(Waiters) /\ <<>> \in Seq(Handlers) /\ names \in Seq(Handlers)
  <2>1. names \in Seq(Handlers)
    BY TypesOfRows, ConcatAt
  <2> QED
    BY <2>1
<1>6. CASE /\ m_handlers # <<>> /\ m_handlers' = Tail(m_handlers) /\ UNCHANGED m_list
           /\ io_service' = Append(woken, Answer(Head(m_handlers), "pop", "ok", pushed'))
  <2> DEFINE a == Answer(Head(m_handlers), "pop", "ok", pushed')
  <2>1. Head(m_handlers) \in Handlers /\ Tail(m_handlers) \in Seq(Handlers)
    BY <1>6, TypesOfRows
  <2>2. a \in Answers /\ a.handler = Head(m_handlers)
    BY <1>1, <2>1 DEF Answer, Answers
  <2>3. io_service' \in Seq(Answers) /\ Names(io_service') = Append(names, Head(m_handlers))
    <3>1. io_service' = Append(woken, a)
      BY <1>6
    <3> HIDE DEF woken, a, names
    <3>2. Append(woken, a) \in Seq(Answers)
      BY <1>3, <2>2
    <3>3. Names(Append(woken, a)) = Append(Names(woken), a.handler)
      BY <1>3, <2>2, NamesAppend
    <3> QED
      BY <1>3, <2>2, <3>1, <3>2, <3>3
  <2>4. Placed(Tail(m_handlers), <<>>, Append(names, Head(m_handlers)), pending)
    <3> HIDE DEF names
    <3> QED
      BY <1>4, <1>5, <1>6, TypesOfRows, FirstAnswered
  <2>5. Rows'
    <3> HIDE DEF names
    <3> QED
      BY <1>6, <2>3, <2>4 DEF Push, Rows
  <2>6. TypeOK'
    BY <1>1, <1>5, <1>6, <2>1, <2>3 DEF Push, TypeOK
  <2>7. m_list' = <<>>
    BY <1>6 DEF NobodySleepsBesideData
  <2> QED
    BY <2>5, <2>6, <2>7 DEF NobodySleepsBesideData
<1>7. CASE /\ m_handlers = <<>> /\ io_service' = woken
           /\ m_list' = Append(m_list, pushed') /\ UNCHANGED m_handlers
  <2>1. Rows'
    BY <1>3, <1>4, <1>7 DEF Push, Rows
  <2>2. TypeOK'
    BY <1>1, <1>3, <1>5, <1>7 DEF Push, TypeOK
  <2> QED
    BY <1>7, <2>1, <2>2 DEF Push, NobodySleepsBesideData
<1> QED
  BY <1>6, <1>7 DEF Push

\* All who sleep are answered, or nothing happens.
LEMMA CanceleStep ==
    ASSUME TypeOK, Rows, NobodySleepsBesideData, cancele, m_list' \in {m_list, <<>>}
    PROVE  TypeOK' /\ Rows' /\ NobodySleepsBesideData'
<1> DEFINE waits == AnswerAll(m_wait_handlers, "wait", "canceled")
           pops  == AnswerAll(m_handlers, "pop", "canceled")
           names == Names(io_service) \o m_wait_handlers
<1>1. /\ io_service \in Seq(Answers) /\ m_wait_handlers \in Seq(Waiters)
      /\ m_list' \in Seq(Nat) /\ <<>> \in Seq(Waiters) /\ <<>> \in Seq(Handlers)
  <2>1. /\ <<>> \in Seq(Waiters) /\ <<>> \in Seq(Handlers) /\ <<>> \in Seq(Nat)
    OBVIOUS
  <2>2. io_service \in Seq(Answers) /\ m_wait_handlers \in Seq(Waiters) /\ m_list \in Seq(Nat)
    BY DEF TypeOK
  <2> QED
    BY <2>1, <2>2
<1>2. CASE m_handlers = <<>>
  <2>1. UNCHANGED <<io_service, m_wait_handlers, m_handlers, pending>>
    BY <1>2 DEF cancele
  <2> QED
    BY <1>1, <1>2, <2>1 DEF cancele, TypeOK, Rows, NobodySleepsBesideData
<1>3. CASE m_handlers # <<>>
  <2>1. /\ io_service' = io_service \o waits \o pops
        /\ m_wait_handlers' = <<>> /\ m_handlers' = <<>>
    BY <1>3 DEF cancele
  <2>2. /\ waits \in Seq(Answers) /\ Names(waits) = m_wait_handlers
        /\ pops \in Seq(Answers) /\ Names(pops) = m_handlers
    BY TypesOfRows, NamesAnswerAll
  <2>3. io_service \o waits \in Seq(Answers) /\ Names(io_service \o waits) = names
    <3> HIDE DEF waits, pops
    <3>1. io_service \o waits \in Seq(Answers)
      BY <1>1, <2>2, ConcatAt
    <3>2. Names(io_service \o waits) = Names(io_service) \o Names(waits)
      BY <1>1, <2>2, NamesConcat
    <3> QED
      BY <2>2, <3>1, <3>2
  <2>4. io_service' \in Seq(Answers) /\ Names(io_service') = names \o m_handlers
    <3> DEFINE first == io_service \o waits
    <3> HIDE DEF waits, pops, names, first
    <3>1. first \in Seq(Answers) /\ Names(first) = names /\ io_service' = first \o pops
      BY <2>1, <2>3 DEF first
    <3>2. first \o pops \in Seq(Answers)
      BY <2>2, <3>1, ConcatAt
    <3>3. Names(first \o pops) = Names(first) \o Names(pops)
      BY <2>2, <3>1, NamesConcat
    <3> QED
      BY <2>2, <3>1, <3>2, <3>3
  <2>5. Placed(m_handlers, <<>>, names, pending) /\ names \in Seq(Handlers)
    BY <2>3, TypesOfRows, AllAnswered, NamesOf DEF Rows
  <2>6. Placed(<<>>, <<>>, names \o m_handlers, pending)
    <3> HIDE DEF names
    <3> QED
      BY <1>1, <2>5, TypesOfRows, AllAnswered
  <2>7. Rows'
    <3> HIDE DEF names
    <3> QED
      BY <2>1, <2>4, <2>6 DEF cancele, Rows
  <2>8. TypeOK'
    BY <1>1, <2>1, <2>4 DEF cancele, TypeOK
  <2> QED
    BY <2>1, <2>7, <2>8 DEF NobodySleepsBesideData
<1> QED
  BY <1>2, <1>3

\* The first who was answered is called, and may ask again.
LEMMA RunStep ==
    ASSUME TypeOK, Rows, NobodySleepsBesideData, Run
    PROVE  TypeOK' /\ Rows' /\ NobodySleepsBesideData'
<1> DEFINE a == Head(io_service)
           h == a.handler
<1>1. /\ io_service \in Seq(Answers) /\ io_service # <<>> /\ a \in Answers
      /\ received \in Seq(Nat)
  BY DEF Run, TypeOK
<1>2. h \in Handlers /\ a.value \in Nat
  BY <1>1 DEF Answers
<1>3. /\ Names(io_service) # <<>> /\ Head(Names(io_service)) = h
      /\ Tail(io_service) \in Seq(Answers)
      /\ Names(Tail(io_service)) = Tail(Names(io_service))
  BY <1>1, NamesTail
<1>4. /\ Placed(m_handlers, m_wait_handlers, Names(Tail(io_service)), pending \ {h})
      /\ h \in pending
  <2> DEFINE names == Names(io_service)
  <2>1. /\ m_handlers \in Seq(Handlers) /\ m_wait_handlers \in Seq(Handlers)
        /\ names \in Seq(Handlers)
    BY TypesOfRows
  <2>2. Placed(m_handlers, m_wait_handlers, names, pending)
    BY DEF Rows
  <2>3. names # <<>> /\ Head(names) = h /\ Tail(names) = Names(Tail(io_service))
    BY <1>3
  <2> HIDE DEF names, h
  <2>4. /\ Placed(m_handlers, m_wait_handlers, Tail(names), pending \ {Head(names)})
        /\ Head(names) \in pending
    BY <2>1, <2>2, <2>3, FirstCalled
  <2> QED
    BY <2>3, <2>4
<1>5. received' \in Seq(Nat)
  BY <1>1, <1>2 DEF Run
<1>6. CASE a.op = "wait" \/ h \in Loopers
  <2>1. async_pop_impl(h, Tail(io_service)) /\ UNCHANGED <<pending, m_wait_handlers>>
    BY <1>6 DEF Run
  <2>2. /\ m_list' \in Seq(Nat) /\ m_handlers' \in Seq(Handlers)
        /\ io_service' \in Seq(Answers)
        /\ Placed(m_handlers', m_wait_handlers', Names(io_service'),
                  (pending \ {h}) \cup {h})
        /\ NobodySleepsBesideData'
    <3> HIDE DEF h
    <3> QED
      BY <1>2, <1>3, <1>4, <2>1, PopStep
  <2>3. (pending \ {h}) \cup {h} = pending'
    BY <1>4, <2>1
  <2>4. TypeOK'
    BY <1>5, <2>1, <2>2 DEF Run, TypeOK
  <2> QED
    BY <2>2, <2>3, <2>4 DEF Rows
<1>7. CASE ~(a.op = "wait" \/ h \in Loopers)
  <2>1. /\ io_service' = Tail(io_service) /\ pending' = pending \ {h}
        /\ UNCHANGED <<m_list, m_handlers, m_wait_handlers>>
    BY <1>7 DEF Run
  <2>2. TypeOK'
    BY <1>3, <1>5, <2>1 DEF Run, TypeOK
  <2> QED
    BY <1>4, <2>1, <2>2 DEF Rows, NobodySleepsBesideData
<1> QED
  BY <1>6, <1>7
-----------------------------------------------------------------------------
\* Every call keeps every handler in one place, and nobody asleep beside data.
LEMMA NextQueueInv == QueueInv /\ [Next]_vars => QueueInv'
<1> SUFFICES ASSUME QueueInv, [Next]_vars PROVE QueueInv'
  OBVIOUS
<1>1. TypeOK /\ Rows /\ NobodySleepsBesideData
  BY RowsInOnePlace DEF QueueInv, TypeOK
<1>2. TypeOK' /\ Rows' /\ NobodySleepsBesideData'
  <2>1. ASSUME NEW h \in Handlers, AsyncPop(h) PROVE TypeOK' /\ Rows' /\ NobodySleepsBesideData'
    BY <1>1, <2>1, AsyncPopStep
  <2>2. ASSUME NEW h \in Handlers, AsyncWait(h) PROVE TypeOK' /\ Rows' /\ NobodySleepsBesideData'
    BY <1>1, <2>2, AsyncWaitStep
  <2>3. CASE Push
    BY <1>1, <2>3, PushStep
  <2>4. CASE Cancele
    BY <1>1, <2>4, CanceleStep DEF Cancele
  <2>5. CASE Clear
    BY <1>1, <2>5, CanceleStep DEF Clear
  <2>6. CASE Run
    BY <1>1, <2>6, RunStep
  <2>7. CASE UNCHANGED vars
    BY <1>1, <2>7 DEF vars, TypeOK, Rows, NobodySleepsBesideData
  <2> QED
    BY <2>1, <2>2, <2>3, <2>4, <2>5, <2>6, <2>7 DEF Next
<1> QED
  BY <1>2, RowsInOnePlacePrime DEF QueueInv, TypeOK

\* Of async_coro_queue, for any handlers that ask and any number of values: no
\* handler is forgotten or called twice for one call, and none sleeps while
\* there is a value, whatever push, cancele, clear and the handlers do.
THEOREM NobodyForgotten == Spec => []QueueInv
<1>1. Init => QueueInv
  <2> SUFFICES ASSUME Init PROVE QueueInv
    OBVIOUS
  <2>1. TypeOK
    BY DEF Init, TypeOK
  <2>2. InOnePlace
    BY RowEmpty DEF Init, InOnePlace, Answered
  <2> QED
    BY <2>1, <2>2 DEF Init, QueueInv, NobodySleepsBesideData
<1>2. QueueInv /\ [Next]_vars => QueueInv'
  BY NextQueueInv
<1> QED
  BY <1>1, <1>2, PTL DEF Spec
-----------------------------------------------------------------------------
(* Recursion over numbers, by the well-founded order of finite sets *)

\* A set of numbers that is not empty has a least one: of the intervals that end
\* in its members one has no other below it.
LEMMA LeastOf ==
    ASSUME NEW S \in SUBSET Nat, S # {}
    PROVE  \E k \in S : \A l \in S : k <= l
<1> DEFINE upto == {1..k : k \in S}
<1>1. upto \subseteq FiniteSubsetsOf(Nat)
  <2>1. ASSUME NEW k \in S
        PROVE  1..k \in FiniteSubsetsOf(Nat)
    <3>1. k \in Int /\ 1 \in Int
      OBVIOUS
    <3>2. IsFiniteSet(1..k)
      BY <3>1, FS_Interval
    <3>3. 1..k \subseteq Nat
      BY <3>1
    <3> QED
      BY <3>2, <3>3 DEF FiniteSubsetsOf
  <2> QED
    BY <2>1
<1>2. upto # {}
  OBVIOUS
<1>3. PICK x \in upto : \A y \in upto : <<y, x>> \notin StrictSubsetOrdering(Nat)
  <2> HIDE DEF upto
  <2> QED
    BY <1>1, <1>2, FS_StrictSubsetOrderingWellFounded, WFMin, Zenon
<1>4. PICK k \in S : x = 1..k
  OBVIOUS
<1>5. ASSUME NEW l \in S, l < k
      PROVE  FALSE
  <2>1. 1..l \in upto
    OBVIOUS
  <2>2. /\ 1..l \in SUBSET Nat /\ 1..k \in SUBSET Nat
        /\ 1..l \subseteq 1..k /\ 1..l # 1..k
    <3>1. k \in 1..k /\ k \notin 1..l
      BY <1>5
    <3> QED
      BY <1>5, <3>1
  <2>3. <<1..l, 1..k>> \in StrictSubsetOrdering(Nat)
    BY <2>2, Zenon DEF StrictSubsetOrdering
  <2> QED
    BY <1>3, <1>4, <2>1, <2>3, Zenon
<1> QED
  BY <1>5

\* Induction: a set of numbers that has 0, and with a number the next one, has
\* all.
LEMMA Induction ==
    ASSUME NEW n \in Nat, NEW S, 0 \in S,
           \A k \in 1..n : k - 1 \in S => k \in S
    PROVE  \A k \in 0..n : k \in S
<1> DEFINE out == {k \in 0..n : k \notin S}
<1>1. ASSUME out # {}
      PROVE  FALSE
  <2>1. out \in SUBSET Nat
    OBVIOUS
  <2>2. PICK k \in out : \A l \in out : k <= l
    <3> HIDE DEF out
    <3> QED
      BY <1>1, <2>1, LeastOf
  <2>3. k \in 1..n /\ k \notin S
    OBVIOUS
  <2>4. k - 1 \in 0..n /\ ~(k <= k - 1)
    BY <2>3
  <2>5. k - 1 \in S
    BY <2>2, <2>4
  <2> QED
    BY <2>3, <2>5
<1> QED
  BY <1>1

\* f begins with v and goes from each number to the next as step says.
Follows(f, step, v, n, V) ==
    /\ f \in [0..n -> V] /\ f[0] = v
    /\ \A k \in 1..n : f[k] = step[k][f[k - 1]]

\* There is such a function.
LEMMA Recursion ==
    ASSUME NEW V, NEW v \in V, NEW n \in Nat, NEW step \in [1..n -> [V -> V]]
    PROVE  \E f : Follows(f, step, v, n, V)
<1> DEFINE Upto(m, f) == Follows(f, step, v, m, V)
           S == {m \in 0..n : \E f : Upto(m, f)}
<1> USE DEF Follows
<1>1. 0 \in S
  <2>1. [k \in 0..0 |-> v][0] = v
    OBVIOUS
  <2>2. Upto(0, [k \in 0..0 |-> v])
    BY <2>1
  <2> HIDE DEF Upto
  <2> QED
    BY <2>2
<1>2. ASSUME NEW m \in 1..n, m - 1 \in S
      PROVE  m \in S
  <2>1. PICK f : Upto(m - 1, f)
    BY <1>2
  <2> DEFINE g == [k \in 0..m |-> IF k = m THEN step[m][f[m - 1]] ELSE f[k]]
  <2>2. m - 1 \in 0..(m - 1) /\ f[m - 1] \in V
    BY <2>1
  <2>3. step[m][f[m - 1]] \in V
    BY <2>2
  <2>4. \A k \in 0..(m - 1) : k \in 0..m /\ k # m /\ g[k] = f[k] /\ f[k] \in V
    BY <2>1
  <2>5. g \in [0..m -> V]
    <3>1. ASSUME NEW k \in 0..m
          PROVE  (IF k = m THEN step[m][f[m - 1]] ELSE f[k]) \in V
      <4>1. k = m \/ k \in 0..(m - 1)
        OBVIOUS
      <4> QED
        BY <2>3, <2>4, <4>1
    <3> QED
      BY <3>1
  <2>6. g[0] = v
    <3>1. 0 \in 0..(m - 1)
      OBVIOUS
    <3>2. g[0] = f[0]
      BY <2>4, <3>1
    <3> QED
      BY <2>1, <3>2
  <2>7. ASSUME NEW k \in 1..m
        PROVE  g[k] = step[k][g[k - 1]]
    <3>1. k - 1 \in 0..(m - 1)
      OBVIOUS
    <3>2. g[k - 1] = f[k - 1]
      BY <2>4, <3>1
    <3>3. CASE k = m
      BY <3>2, <3>3
    <3>4. CASE k # m
      <4>1. k \in 1..(m - 1) /\ k \in 0..m
        BY <3>4
      <4>2. g[k] = f[k] /\ f[k] = step[k][f[k - 1]]
        BY <2>1, <4>1, <3>4
      <4> QED
        BY <3>2, <4>2
    <3> QED
      BY <3>3, <3>4
  <2>8. Upto(m, g)
    <3> HIDE DEF g
    <3> QED
      BY <2>5, <2>6, <2>7
  <2> HIDE DEF Upto
  <2> QED
    BY <2>8
<1>3. n \in S
  <2> HIDE DEF S
  <2>1. \A k \in 1..n : k - 1 \in S => k \in S
    BY <1>2
  <2>2. \A k \in 0..n : k \in S
    BY <1>1, <2>1, Induction
  <2> QED
    BY <2>2
<1> HIDE DEF Follows
<1> QED
  BY <1>3
-----------------------------------------------------------------------------
(* The values a row of answers gives *)

\* The definition of Given, as a function of how many answers are looked at.
IsGiven(f, q) ==
    /\ f \in [0..Len(q) -> Seq(Nat)] /\ f[0] = <<>>
    /\ \A n \in 1..Len(q) : f[n] = IF q[n].value = NoValue THEN f[n - 1]
                                   ELSE Append(f[n - 1], q[n].value)

\* There is such a function, and its last value is Given.
LEMMA GivenIs ==
    ASSUME NEW q \in Seq(Answers)
    PROVE  \E f : IsGiven(f, q) /\ Given(q) = f[Len(q)]
<1> DEFINE N == Len(q)
           V == Seq(Nat)
           IsG(f) ==
               f = [n \in 0..N |-> IF n = 0 THEN <<>>
                                   ELSE IF q[n].value = NoValue THEN f[n - 1]
                                   ELSE Append(f[n - 1], q[n].value)]
           step == [n \in 1..N |-> [s \in V |->
                       IF q[n].value = NoValue THEN s ELSE Append(s, q[n].value)]]
<1>1. N \in Nat /\ \A n \in 1..N : q[n].value \in Nat
  <2>1. \A n \in 1..N : q[n] \in Answers
    OBVIOUS
  <2>2. \A a \in Answers : a.value \in Nat
    BY DEF Answers
  <2> QED
    BY <2>1, <2>2
<1>2. Given(q) = (CHOOSE f : IsG(f))[N]
  BY DEF Given
<1>3. step \in [1..N -> [V -> V]]
  <2>1. ASSUME NEW n \in 1..N, NEW s \in V
        PROVE  (IF q[n].value = NoValue THEN s ELSE Append(s, q[n].value)) \in V
    BY <1>1
  <2> HIDE DEF N, V
  <2> QED
    BY <2>1
<1>4. <<>> \in V
  OBVIOUS
<1> HIDE DEF N, V
<1>5. PICK f \in [0..N -> V] : f[0] = <<>> /\ \A n \in 1..N : f[n] = step[n][f[n - 1]]
  <2> HIDE DEF step
  <2>1. \E f : Follows(f, step, <<>>, N, V)
    BY <1>1, <1>3, <1>4, Recursion
  <2> QED
    BY <2>1 DEF Follows
<1>6. \A n \in 1..N : f[n] = IF q[n].value = NoValue THEN f[n - 1]
                             ELSE Append(f[n - 1], q[n].value)
  <2> SUFFICES ASSUME NEW n \in 1..N
               PROVE  f[n] = IF q[n].value = NoValue THEN f[n - 1]
                             ELSE Append(f[n - 1], q[n].value)
    OBVIOUS
  <2>1. n - 1 \in 0..N
    BY <1>1
  <2>2. f[n - 1] \in V
    BY <1>5, <2>1
  <2>3. step[n][f[n - 1]] = IF q[n].value = NoValue THEN f[n - 1]
                            ELSE Append(f[n - 1], q[n].value)
    BY <2>2
  <2> QED
    BY <1>5, <2>3
<1>7. IsG(f)
  <2>1. \A n \in 0..N : f[n] = IF n = 0 THEN <<>>
                               ELSE IF q[n].value = NoValue THEN f[n - 1]
                               ELSE Append(f[n - 1], q[n].value)
    <3>1. \A n \in 0..N : n = 0 \/ n \in 1..N
      BY <1>1
    <3> QED
      BY <1>5, <1>6, <3>1
  <2> QED
    BY <1>5, <2>1
<1> DEFINE g == CHOOSE f1 : IsG(f1)
<1>8. IsG(g)
  <2> HIDE DEF IsG
  <2> QED
    BY <1>7, Zenon
<1>9. /\ \A n \in 0..N : g[n] = IF n = 0 THEN <<>>
                                ELSE IF q[n].value = NoValue THEN g[n - 1]
                                ELSE Append(g[n - 1], q[n].value)
      /\ g = [n \in 0..N |-> g[n]]
  <2> HIDE DEF g
  <2> QED
    BY <1>8
<1>10. \A n \in 0..N : g[n] = f[n]
  <2> DEFINE S == {n \in 0..N : g[n] = f[n]}
  <2> HIDE DEF g
  <2>1. 0 \in S
    <3>1. 0 \in 0..N
      BY <1>1
    <3>2. g[0] = <<>>
      BY <1>9, <3>1
    <3> QED
      BY <1>5, <3>1, <3>2
  <2>2. ASSUME NEW n \in 1..N, n - 1 \in S
        PROVE  n \in S
    <3>1. n \in 0..N /\ n # 0 /\ g[n - 1] = f[n - 1]
      BY <1>1, <2>2
    <3>2. g[n] = f[n]
      BY <1>6, <1>9, <3>1
    <3> QED
      BY <3>1, <3>2
  <2>3. \A n \in 0..N : n \in S
    <3> HIDE DEF S
    <3> QED
      BY <1>1, <2>1, <2>2, Induction
  <2> QED
    BY <2>3
<1>11. N \in 0..N
  BY <1>1
<1>12. Given(q) = f[N]
  <2>1. Given(q) = g[N]
    BY <1>2
  <2> HIDE DEF g
  <2> QED
    BY <1>10, <1>11, <2>1
<1>13. IsGiven(f, q)
  BY <1>5, <1>6 DEF IsGiven, N, V
<1> QED
  BY <1>12, <1>13 DEF N

Behind(s, u, x) == Append(s \o u, x) = s \o Append(u, x)

\* An element behind two sequences is one behind the second.
LEMMA AppendBehind ==
    ASSUME NEW V, NEW s \in Seq(V), NEW u \in Seq(V), NEW x \in V
    PROVE  Behind(s, u, x)
<1> DEFINE a == Append(s \o u, x)
           b == s \o Append(u, x)
<1>1. /\ Append(u, x) \in Seq(V) /\ Len(Append(u, x)) = Len(u) + 1
      /\ Append(u, x)[Len(u) + 1] = x
      /\ \A n \in 1..Len(u) : Append(u, x)[n] = u[n]
  OBVIOUS
<1>2. /\ s \o u \in Seq(V) /\ Len(s \o u) = Len(s) + Len(u) /\ Len(s) \in Nat /\ Len(u) \in Nat
      /\ \A n \in 1..Len(s) : (s \o u)[n] = s[n]
      /\ \A n \in 1..Len(u) : (s \o u)[Len(s) + n] = u[n]
  BY ConcatAt
<1>3. /\ b \in Seq(V) /\ Len(b) = Len(s) + (Len(u) + 1)
      /\ \A n \in 1..Len(s) : b[n] = s[n]
      /\ \A n \in 1..(Len(u) + 1) : b[Len(s) + n] = Append(u, x)[n]
  BY <1>1, ConcatAt
<1>4. /\ a \in Seq(V) /\ Len(a) = (Len(s) + Len(u)) + 1
      /\ a[(Len(s) + Len(u)) + 1] = x
      /\ \A n \in 1..(Len(s) + Len(u)) : a[n] = (s \o u)[n]
  BY <1>2
<1> HIDE DEF a, b
<1>5. ASSUME NEW n \in 1..Len(a)
      PROVE  a[n] = b[n]
  <2>1. CASE n \in 1..Len(s)
    <3>1. n \in 1..(Len(s) + Len(u))
      BY <1>2, <2>1
    <3>2. a[n] = (s \o u)[n]
      BY <1>4, <3>1
    <3> QED
      BY <1>2, <1>3, <2>1, <3>2
  <2>2. CASE n \notin 1..Len(s)
    <3>1. n - Len(s) \in 1..(Len(u) + 1) /\ n = Len(s) + (n - Len(s))
      BY <1>2, <1>4, <2>2
    <3>2. b[n] = Append(u, x)[n - Len(s)]
      BY <1>3, <3>1
    <3>3. CASE n - Len(s) = Len(u) + 1
      <4>1. n = (Len(s) + Len(u)) + 1
        BY <1>2, <3>1, <3>3
      <4> QED
        BY <1>1, <1>4, <3>2, <3>3, <4>1
    <3>4. CASE n - Len(s) \in 1..Len(u)
      <4>1. n \in 1..(Len(s) + Len(u))
        BY <1>2, <3>1, <3>4
      <4>2. a[n] = u[n - Len(s)]
        BY <1>2, <1>4, <3>1, <3>4, <4>1
      <4> QED
        BY <1>1, <3>2, <3>4, <4>2
    <3> QED
      BY <1>2, <3>1, <3>3, <3>4
  <2> QED
    BY <2>1, <2>2
<1>6. a = b
  <2>1. Len(a) = Len(b) /\ Len(a) \in Nat
    BY <1>2, <1>3, <1>4
  <2> QED
    BY <1>3, <1>4, <1>5, <2>1
<1> QED
  BY <1>6 DEF a, b, Behind

\* The first of the second sequence may as well be the last of the first.
LEMMA MoveFirst ==
    ASSUME NEW V, NEW s \in Seq(V), NEW u \in Seq(V), u # <<>>
    PROVE  Append(s, Head(u)) \o Tail(u) = s \o u
<1> DEFINE a == Append(s, Head(u))
           t == Tail(u)
           b == a \o t
           c == s \o u
<1>1. /\ Head(u) \in V /\ t \in Seq(V) /\ Len(u) = Len(t) + 1 /\ u[1] = Head(u)
      /\ \A n \in 1..Len(t) : u[n + 1] = t[n]
  OBVIOUS
<1>2. /\ a \in Seq(V) /\ Len(a) = Len(s) + 1 /\ a[Len(s) + 1] = Head(u)
      /\ \A n \in 1..Len(s) : a[n] = s[n]
  BY <1>1
<1>3. /\ c \in Seq(V) /\ Len(c) = Len(s) + Len(u) /\ Len(s) \in Nat
      /\ \A n \in 1..Len(s) : c[n] = s[n]
      /\ \A n \in 1..Len(u) : c[Len(s) + n] = u[n]
  BY ConcatAt
<1> HIDE DEF a, t, c
<1>4. /\ b \in Seq(V) /\ Len(b) = Len(a) + Len(t) /\ Len(t) \in Nat
      /\ \A n \in 1..Len(a) : b[n] = a[n]
      /\ \A n \in 1..Len(t) : b[Len(a) + n] = t[n]
  <2>1. a \in Seq(V) /\ t \in Seq(V)
    BY <1>1, <1>2
  <2> QED
    BY ONLY <2>1, ConcatAt
<1> HIDE DEF b
<1>5. Len(b) = Len(c) /\ Len(b) \in Nat /\ Len(c) = Len(s) + (Len(t) + 1)
  BY <1>1, <1>2, <1>3, <1>4
<1>6. ASSUME NEW n \in 1..Len(b)
      PROVE  b[n] = c[n]
  <2>1. CASE n \in 1..Len(s)
    <3>1. n \in 1..Len(a)
      BY <1>2, <1>3, <2>1
    <3>2. b[n] = a[n]
      BY <1>4, <3>1
    <3>3. a[n] = s[n]
      BY <1>2, <2>1
    <3>4. c[n] = s[n]
      BY <1>3, <2>1
    <3> QED
      BY <3>2, <3>3, <3>4
  <2>2. CASE n = Len(s) + 1
    <3>1. n \in 1..Len(a) /\ 1 \in 1..Len(u)
      BY <1>1, <1>2, <1>3, <1>4, <2>2
    <3>2. b[n] = Head(u)
      BY <1>2, <1>4, <2>2, <3>1
    <3>3. c[Len(s) + 1] = u[1]
      BY <1>3, <3>1
    <3> QED
      BY <1>1, <2>2, <3>2, <3>3
  <2>3. CASE n > Len(s) + 1
    <3> DEFINE k == n - (Len(s) + 1)
    <3>1. k \in 1..Len(t) /\ n = Len(a) + k /\ n = Len(s) + (k + 1) /\ k + 1 \in 1..Len(u)
      BY <1>1, <1>2, <1>3, <1>4, <1>5, <2>3
    <3> HIDE DEF k
    <3>2. b[n] = t[k]
      BY <1>4, <3>1
    <3>3. c[n] = u[k + 1]
      BY <1>3, <3>1
    <3> QED
      BY <1>1, <3>1, <3>2, <3>3
  <2> QED
    BY <1>3, <2>1, <2>2, <2>3
<1>7. b = c
  <2>1. b \in Seq(V) /\ c \in Seq(V) /\ Len(b) = Len(c) /\ \A n \in 1..Len(b) : b[n] = c[n]
    BY <1>3, <1>4, <1>5, <1>6
  <2> QED
    BY ONLY <2>1, RowEqual
<1> QED
  BY <1>7 DEF b, c, a, t

OneBefore(x, r, w) ==
    /\ 1 \in 1..Len(w) /\ SubSeq(w, 1, 1) = <<x>>
    /\ SubSeq(w, 1 + 1, Len(w)) = r

\* What is behind the first of two sequences.
LEMMA TakeFirst ==
    ASSUME NEW V, NEW s \in Seq(V), NEW u \in Seq(V), NEW x \in V
    PROVE  OneBefore(x, s \o u, (<<x>> \o s) \o u)
<1> DEFINE f == <<x>>
           a == f \o s
           w == a \o u
           c == s \o u
           d == SubSeq(w, 2, Len(w))
<1>1. f \in Seq(V) /\ Len(f) = 1 /\ f[1] = x
  OBVIOUS
<1>2. /\ c \in Seq(V) /\ Len(c) = Len(s) + Len(u) /\ Len(s) \in Nat /\ Len(u) \in Nat
      /\ \A n \in 1..Len(s) : c[n] = s[n]
      /\ \A n \in 1..Len(u) : c[Len(s) + n] = u[n]
  BY ConcatAt
<1> HIDE DEF f, c
<1>3. /\ a \in Seq(V) /\ Len(a) = 1 + Len(s) /\ a[1] = x
      /\ \A n \in 1..Len(s) : a[1 + n] = s[n]
  <2>1. /\ a \in Seq(V) /\ Len(a) = Len(f) + Len(s)
        /\ \A n \in 1..Len(f) : a[n] = f[n]
        /\ \A n \in 1..Len(s) : a[Len(f) + n] = s[n]
    <3>1. f \in Seq(V)
      BY <1>1
    <3> QED
      BY ONLY <3>1, ConcatAt
  <2>2. 1 \in 1..Len(f)
    BY <1>1
  <2> HIDE DEF a
  <2> QED
    BY <1>1, <2>1, <2>2
<1> HIDE DEF a
<1>4. /\ w \in Seq(V) /\ Len(w) = Len(a) + Len(u)
      /\ \A n \in 1..Len(a) : w[n] = a[n]
      /\ \A n \in 1..Len(u) : w[Len(a) + n] = u[n]
  <2>1. a \in Seq(V)
    BY <1>3
  <2> QED
    BY ONLY <2>1, ConcatAt
<1> HIDE DEF w
<1>5. 1 \in 1..Len(a) /\ w[1] = x /\ Len(w) = Len(c) + 1 /\ Len(c) \in Nat
  BY <1>2, <1>3, <1>4
<1>6. 1 \in 1..Len(w) /\ SubSeq(w, 1, 1) = <<x>>
  <2> DEFINE o == SubSeq(w, 1, 1)
  <2>1. Len(w) \in Nat /\ 1 \in 1..Len(w) /\ w[1] = x
    BY <1>2, <1>3, <1>4, <1>5
  <2>2. o \in Seq(V) /\ Len(o) = 1 /\ o[1] = w[1]
    BY <1>4, <2>1
  <2> HIDE DEF o
  <2>3. o = <<x>>
    BY <2>1, <2>2
  <2> QED
    BY <2>1, <2>3 DEF o
<1>7. /\ d \in Seq(V) /\ Len(d) = Len(c)
      /\ \A n \in 1..Len(c) : d[n] = w[n + 1]
  <2>1. \A n \in 1..Len(c) : n + 1 \in 1..Len(w) /\ (2 + n) - 1 = n + 1
    BY <1>5
  <2>2. /\ d \in Seq(V) /\ Len(d) = (Len(w) - 2) + 1
        /\ \A n \in 1..Len(d) : d[n] = w[(2 + n) - 1]
    BY <1>4, <1>5
  <2> HIDE DEF d
  <2> QED
    BY <1>5, <2>1, <2>2
<1> HIDE DEF d
<1>8. ASSUME NEW n \in 1..Len(c)
      PROVE  d[n] = c[n]
  <2>1. d[n] = w[n + 1]
    BY <1>7
  <2>2. CASE n \in 1..Len(s)
    <3>1. n + 1 \in 1..Len(a) /\ 1 + n = n + 1
      BY <1>2, <1>3, <2>2
    <3> QED
      BY <1>2, <1>3, <1>4, <2>1, <2>2, <3>1
  <2>3. CASE n \notin 1..Len(s)
    <3> DEFINE k == n - Len(s)
    <3>1. k \in 1..Len(u) /\ n = Len(s) + k /\ n + 1 = Len(a) + k
      BY <1>2, <1>3, <2>3
    <3> HIDE DEF k
    <3> QED
      BY <1>2, <1>4, <2>1, <3>1
  <2> QED
    BY <2>2, <2>3
<1>9. d = c
  BY <1>2, <1>5, <1>7, <1>8
<1>10. SubSeq(w, 1 + 1, Len(w)) = c
  BY <1>9 DEF d
<1> QED
  BY <1>6, <1>10 DEF w, a, f, c, OneBefore

\* The first sequence is the beginning of both.
LEMMA CutBehind ==
    ASSUME NEW V, NEW s \in Seq(V), NEW u \in Seq(V)
    PROVE  Len(s) \in 0..Len(s \o u) /\ SubSeq(s \o u, 1, Len(s)) = s
<1> DEFINE c == s \o u
           d == SubSeq(c, 1, Len(s))
<1>1. /\ c \in Seq(V) /\ Len(c) = Len(s) + Len(u) /\ Len(s) \in Nat /\ Len(u) \in Nat
      /\ \A n \in 1..Len(s) : c[n] = s[n]
  BY ConcatAt
<1> HIDE DEF c
<1>2. d \in Seq(V) /\ Len(d) = Len(s) /\ \A n \in 1..Len(s) : d[n] = c[n]
  BY <1>1
<1> HIDE DEF d
<1>3. d = s
  BY <1>1, <1>2
<1>4. Len(s) \in 0..Len(c)
  BY <1>1
<1> QED
  BY <1>3, <1>4 DEF d, c

\* A row with one answer more, and the values it gives.
LEMMA GivenAppend ==
    ASSUME NEW q \in Seq(Answers), NEW a \in Answers
    PROVE  /\ Given(q) \in Seq(Nat)
           /\ Given(Append(q, a)) = IF a.value = NoValue THEN Given(q)
                                    ELSE Append(Given(q), a.value)
<1> DEFINE r == Append(q, a)
<1>1. /\ r \in Seq(Answers) /\ Len(r) = Len(q) + 1 /\ Len(q) \in Nat
      /\ r[Len(q) + 1] = a /\ \A n \in 1..Len(q) : r[n] = q[n]
  OBVIOUS
<1>2. PICK f : IsGiven(f, q) /\ Given(q) = f[Len(q)]
  BY GivenIs
<1> HIDE DEF r
<1>3. PICK g : IsGiven(g, r) /\ Given(r) = g[Len(r)]
  BY <1>1, GivenIs
<1> DEFINE S == {n \in 0..Len(q) : g[n] = f[n]}
<1>4. 0 \in S
  BY <1>1, <1>2, <1>3 DEF IsGiven
<1>5. ASSUME NEW n \in 1..Len(q), n - 1 \in S
      PROVE  n \in S
  <2>1. n \in 1..Len(r) /\ r[n] = q[n] /\ g[n - 1] = f[n - 1]
    BY <1>1, <1>5
  <2>2. g[n] = f[n]
    BY <1>2, <1>3, <2>1 DEF IsGiven
  <2> QED
    BY <2>2
<1>6. Len(q) \in S
  <2>1. Len(q) \in 0..Len(q)
    BY <1>1
  <2> HIDE DEF S
  <2> QED
    BY <1>1, <1>4, <1>5, <2>1, Induction
<1>7. Len(r) \in 1..Len(r) /\ Len(r) - 1 = Len(q)
  BY <1>1
<1>8. g[Len(r)] = IF r[Len(r)].value = NoValue THEN g[Len(r) - 1]
                  ELSE Append(g[Len(r) - 1], r[Len(r)].value)
  BY <1>3, <1>7 DEF IsGiven
<1>9. f[Len(q)] \in Seq(Nat)
  BY <1>1, <1>2 DEF IsGiven
<1> QED
  BY <1>1, <1>2, <1>3, <1>6, <1>7, <1>8, <1>9 DEF r

\* Given is a sequence of values.
LEMMA GivenIn ==
    ASSUME NEW q \in Seq(Answers)
    PROVE  Given(q) \in Seq(Nat)
<1>1. PICK f : IsGiven(f, q) /\ Given(q) = f[Len(q)]
  BY GivenIs
<1>2. Len(q) \in 0..Len(q)
  OBVIOUS
<1> QED
  BY <1>1, <1>2 DEF IsGiven

\* Answers without a value add none.
LEMMA GivenNothing ==
    ASSUME NEW q \in Seq(Answers), NEW u \in Seq(Answers),
           \A k \in 1..Len(u) : u[k].value = NoValue
    PROVE  Given(q \o u) = Given(q)
<1> DEFINE r == q \o u
<1>1. /\ r \in Seq(Answers) /\ Len(r) = Len(q) + Len(u) /\ Len(q) \in Nat /\ Len(u) \in Nat
      /\ \A n \in 1..Len(q) : r[n] = q[n]
      /\ \A n \in 1..Len(u) : r[Len(q) + n] = u[n]
  BY ConcatAt
<1>2. PICK f : IsGiven(f, q) /\ Given(q) = f[Len(q)]
  BY GivenIs
<1> HIDE DEF r
<1>3. PICK g : IsGiven(g, r) /\ Given(r) = g[Len(r)]
  BY <1>1, GivenIs
<1> DEFINE S == {n \in 0..Len(q) : g[n] = f[n]}
           T == {n \in 0..Len(u) : g[Len(q) + n] = g[Len(q)]}
<1>4. 0 \in S
  BY <1>1, <1>2, <1>3 DEF IsGiven
<1>5. ASSUME NEW n \in 1..Len(q), n - 1 \in S
      PROVE  n \in S
  <2>1. n \in 1..Len(r) /\ r[n] = q[n] /\ g[n - 1] = f[n - 1]
    BY <1>1, <1>5
  <2>2. g[n] = f[n]
    BY <1>2, <1>3, <2>1 DEF IsGiven
  <2> QED
    BY <2>2
<1>6. Len(q) \in S
  <2>1. Len(q) \in 0..Len(q)
    BY <1>1
  <2> HIDE DEF S
  <2> QED
    BY <1>1, <1>4, <1>5, <2>1, Induction
<1>7. 0 \in T
  BY <1>1
<1>8. ASSUME NEW n \in 1..Len(u), n - 1 \in T
      PROVE  n \in T
  <2>1. /\ Len(q) + n \in 1..Len(r) /\ r[Len(q) + n].value = NoValue
        /\ (Len(q) + n) - 1 = Len(q) + (n - 1) /\ g[Len(q) + (n - 1)] = g[Len(q)]
    BY <1>1, <1>8
  <2>2. g[Len(q) + n] = g[(Len(q) + n) - 1]
    BY <1>3, <2>1 DEF IsGiven
  <2> QED
    BY <2>1, <2>2
<1>9. Len(u) \in T
  <2>1. Len(u) \in 0..Len(u)
    BY <1>1
  <2> HIDE DEF T
  <2> QED
    BY <1>1, <1>7, <1>8, <2>1, Induction
<1> QED
  BY <1>1, <1>2, <1>3, <1>6, <1>9 DEF r

\* The first answer's value comes first.
LEMMA GivenTail ==
    ASSUME NEW q \in Seq(Answers), q # <<>>
    PROVE  Given(q) = IF Head(q).value = NoValue THEN Given(Tail(q))
                      ELSE <<Head(q).value>> \o Given(Tail(q))
<1> DEFINE r == Tail(q)
           v == Head(q).value
           first == IF v = NoValue THEN <<>> ELSE <<v>>
<1>1. /\ r \in Seq(Answers) /\ Len(q) = Len(r) + 1 /\ Len(r) \in Nat /\ Head(q) \in Answers
      /\ q[1] = Head(q) /\ \A n \in 1..Len(r) : q[n + 1] = r[n]
  OBVIOUS
<1>2. v \in Nat /\ first \in Seq(Nat)
  BY <1>1 DEF Answers
<1>3. PICK f : IsGiven(f, q) /\ Given(q) = f[Len(q)]
  BY GivenIs
<1> HIDE DEF r
<1>4. PICK g : IsGiven(g, r) /\ Given(r) = g[Len(r)]
  BY <1>1, GivenIs
<1> DEFINE S == {n \in 0..Len(r) : f[n + 1] = first \o g[n]}
<1>5. 0 \in S
  <2>1. 1 \in 1..Len(q) /\ q[1].value = v
    BY <1>1
  <2>2. f[1] = IF v = NoValue THEN <<>> ELSE Append(<<>>, v)
    <3>1. f[0] = <<>> /\ 1 - 1 = 0
      BY <1>3 DEF IsGiven
    <3> HIDE DEF v
    <3> QED
      BY <1>3, <2>1, <3>1 DEF IsGiven
  <2>3. g[0] = <<>> /\ first \o <<>> = first /\ Append(<<>>, v) = <<v>>
    BY <1>2, <1>4 DEF IsGiven
  <2>4. f[0 + 1] = first \o g[0]
    BY <2>2, <2>3
  <2>5. 0 \in 0..Len(r)
    BY <1>1
  <2> HIDE DEF first, v
  <2> QED
    BY <2>4, <2>5, Zenon
<1>6. ASSUME NEW n \in 1..Len(r), n - 1 \in S
      PROVE  n \in S
  <2> HIDE DEF first
  <2>1. /\ n + 1 \in 1..Len(q) /\ q[n + 1] = r[n] /\ (n + 1) - 1 = n /\ (n - 1) + 1 = n
        /\ n - 1 \in 0..Len(r)
    BY <1>1
  <2>2. f[n] = first \o g[n - 1]
    BY <1>6, <2>1
  <2>3. f[n + 1] = IF r[n].value = NoValue THEN f[n] ELSE Append(f[n], r[n].value)
    BY <1>3, <2>1 DEF IsGiven
  <2>4. g[n] = IF r[n].value = NoValue THEN g[n - 1] ELSE Append(g[n - 1], r[n].value)
    BY <1>4 DEF IsGiven
  <2>5. g[n - 1] \in Seq(Nat) /\ r[n].value \in Nat
    <3>1. r[n] \in Answers
      BY <1>1
    <3> QED
      BY <1>4, <2>1, <3>1 DEF IsGiven, Answers
  <2>6. Append(first \o g[n - 1], r[n].value) = first \o Append(g[n - 1], r[n].value)
    <3> DEFINE s == g[n - 1]  x == r[n].value  V == Nat
    <3>1. first \in Seq(V) /\ s \in Seq(V) /\ x \in V
      BY <1>2, <2>5
    <3> HIDE DEF s, x, V
    <3>2. Behind(first, s, x)
      BY ONLY <3>1, AppendBehind
    <3> QED
      BY <3>2 DEF s, x, Behind
  <2>7. f[n + 1] = first \o g[n]
    BY <2>2, <2>3, <2>4, <2>6
  <2> QED
    BY <2>7
<1>7. Len(r) \in S
  <2>1. Len(r) \in 0..Len(r)
    BY <1>1
  <2> HIDE DEF S
  <2> QED
    BY <1>1, <1>5, <1>6, <2>1, Induction
<1>8. Given(q) = first \o Given(r)
  BY <1>1, <1>3, <1>4, <1>7
<1>9. Given(r) \in Seq(Nat)
  BY <1>1, <1>4 DEF IsGiven
<1>10. <<>> \o Given(r) = Given(r)
  BY <1>9
<1> QED
  BY <1>8, <1>10 DEF r
-----------------------------------------------------------------------------
(* The queue of values, handed over as HandOver says *)

\* value_type() is never pushed.
ListedValues == \A k \in 1..Len(m_list) : m_list[k] # NoValue

\* async_pop_impl gives the oldest value away, and what is inside stays.
LEMMA PopKeeps ==
    ASSUME TypeOK, ListedValues, NEW h \in Handlers, NEW u \in Seq(Answers),
           async_pop_impl(h, u)
    PROVE  /\ InFlight' \o m_list' = Given(u) \o m_list
           /\ ListedValues'
<1>1. m_list \in Seq(Nat)
  BY DEF TypeOK
<1>2. CASE io_service' = u /\ UNCHANGED m_list
  BY <1>2 DEF InFlight, ListedValues
<1>3. CASE /\ m_list # <<>>
           /\ io_service' = Append(u, Answer(h, "pop", "ok", Head(m_list)))
           /\ m_list' = Tail(m_list)
  <2> DEFINE a == Answer(h, "pop", "ok", Head(m_list))
             s == Given(u)
  <2>1. /\ Head(m_list) \in Nat /\ Tail(m_list) \in Seq(Nat) /\ Head(m_list) = m_list[1]
        /\ 1 \in 1..Len(m_list)
        /\ \A k \in 1..Len(Tail(m_list)) :
                k + 1 \in 1..Len(m_list) /\ Tail(m_list)[k] = m_list[k + 1]
    BY <1>1, <1>3
  <2>2. a \in Answers /\ a.value = Head(m_list) /\ a.value # NoValue
    BY <2>1 DEF Answer, Answers, ListedValues
  <2>3. s \in Seq(Nat) /\ Given(Append(u, a)) = Append(s, a.value)
    <3> HIDE DEF a
    <3> QED
      BY <2>2, GivenAppend
  <2>4. InFlight' = Append(s, Head(m_list))
    BY <1>3, <2>2, <2>3 DEF InFlight
  <2> HIDE DEF s
  <2>5. Append(s, Head(m_list)) \o Tail(m_list) = s \o m_list
    BY <1>1, <1>3, <2>3, MoveFirst, Zenon
  <2>6. ListedValues'
    BY <1>3, <2>1 DEF ListedValues
  <2> QED
    BY <1>3, <2>4, <2>5, <2>6 DEF s
<1> QED
  BY <1>2, <1>3 DEF async_pop_impl

\* Answers of AnswerAll give nothing.
LEMMA AnsweredNothing ==
    ASSUME NEW q \in Seq(Answers), NEW hs \in Seq(Handlers), NEW op \in {"pop", "wait"},
           NEW ec \in {"ok", "canceled"}
    PROVE  /\ q \o AnswerAll(hs, op, ec) \in Seq(Answers)
           /\ Given(q \o AnswerAll(hs, op, ec)) = Given(q)
<1> DEFINE u == AnswerAll(hs, op, ec)
<1>1. \A k \in 1..Len(u) : u[k].value = NoValue
  BY DEF AnswerAll, Answer
<1>2. u \in Seq(Answers)
  BY NamesAnswerAll
<1> HIDE DEF u
<1>3. q \o u \in Seq(Answers)
  BY <1>2, ConcatAt
<1> QED
  BY <1>1, <1>2, <1>3, GivenNothing DEF u

\* What is pushed goes behind all that is inside.
LEMMA PushPuts ==
    ASSUME TypeOK, NobodySleepsBesideData, ListedValues, Push
    PROVE  Fifo!Put /\ ListedValues'
<1> DEFINE woken == io_service \o AnswerAll(m_wait_handlers, "wait", "ok")
           s == Given(io_service)
<1>1. /\ io_service \in Seq(Answers) /\ m_list \in Seq(Nat) /\ pushed \in Nat
      /\ pushed' = pushed + 1
  BY DEF TypeOK, Push
<1>2. woken \in Seq(Answers) /\ Given(woken) = s
  BY <1>1, TypesOfRows, AnsweredNothing
<1>3. s \in Seq(Nat)
  BY <1>1, GivenIn
<1> HIDE DEF woken
<1>4. s \o m_list \in Seq(Nat)
  BY <1>1, <1>3
<1>5. InFlight' \o m_list' = Append(s \o m_list, pushed')
  <2>1. CASE /\ m_handlers # <<>> /\ UNCHANGED m_list
             /\ io_service' = Append(woken, Answer(Head(m_handlers), "pop", "ok", pushed'))
    <3> DEFINE a == Answer(Head(m_handlers), "pop", "ok", pushed')
    <3>1. a \in Answers /\ a.value = pushed' /\ a.value # NoValue
      <4>1. Head(m_handlers) \in Handlers
        BY <2>1, TypesOfRows
      <4> QED
        BY <1>1, <4>1 DEF Answer, Answers, NoValue
    <3>2. InFlight' = Append(s, pushed')
      <4>1. io_service' = Append(woken, a)
        BY <2>1
      <4> HIDE DEF a
      <4>2. Given(Append(woken, a)) = Append(Given(woken), a.value)
        BY <1>2, <3>1, GivenAppend
      <4> QED
        BY <1>2, <3>1, <4>1, <4>2 DEF InFlight
    <3>3. m_list = <<>> /\ m_list' = <<>>
      BY <2>1 DEF NobodySleepsBesideData
    <3> HIDE DEF s
    <3>4. s \o <<>> = s /\ Append(s, pushed') \o <<>> = Append(s, pushed')
      BY <1>1, <1>3
    <3> QED
      BY <3>2, <3>3, <3>4
  <2>2. CASE io_service' = woken /\ m_list' = Append(m_list, pushed')
    <3>1. InFlight' = s
      BY <1>2, <2>2 DEF InFlight
    <3> DEFINE V == Nat  p == pushed'
    <3>2. s \in Seq(V) /\ m_list \in Seq(V) /\ p \in V
      BY <1>1, <1>3
    <3> HIDE DEF s, V, p
    <3>3. Behind(s, m_list, p)
      BY ONLY <3>2, AppendBehind
    <3> QED
      BY <2>2, <3>1, <3>3 DEF Behind, p
  <2> QED
    BY <2>1, <2>2 DEF Push, woken
<1>6. ListedValues'
  BY <1>1 DEF Push, ListedValues, NoValue
<1>7. Append(s \o m_list, pushed')
        = (s \o m_list) \o [k \in 1..(pushed' - pushed) |-> pushed + k]
  <2> DEFINE w == s \o m_list
  <2>1. [k \in 1..(pushed' - pushed) |-> pushed + k] = <<pushed'>>
    BY <1>1
  <2> HIDE DEF w
  <2>2. Append(w, pushed') = w \o <<pushed'>>
    BY <1>1, <1>4 DEF w
  <2> QED
    BY <2>1, <2>2 DEF w
<1> QED
  BY <1>1, <1>5, <1>6, <1>7 DEF Fifo!Put, Push, InFlight

\* cancele answers with no value.
LEMMA CanceleKeeps ==
    ASSUME TypeOK, cancele
    PROVE  InFlight' = InFlight
<1>1. io_service \in Seq(Answers)
  BY DEF TypeOK
<1>2. CASE UNCHANGED io_service
  BY <1>2 DEF InFlight
<1>3. CASE io_service' = io_service
                   \o AnswerAll(m_wait_handlers, "wait", "canceled")
                   \o AnswerAll(m_handlers, "pop", "canceled")
  <2> DEFINE first == io_service \o AnswerAll(m_wait_handlers, "wait", "canceled")
  <2>1. first \in Seq(Answers) /\ Given(first) = InFlight
    BY <1>1, TypesOfRows, AnsweredNothing DEF InFlight
  <2>2. io_service' = first \o AnswerAll(m_handlers, "pop", "canceled")
    BY <1>3
  <2> HIDE DEF first
  <2>3. Given(first \o AnswerAll(m_handlers, "pop", "canceled")) = Given(first)
    BY <2>1, TypesOfRows, AnsweredNothing
  <2> QED
    BY <2>1, <2>2, <2>3 DEF InFlight
<1> QED
  BY <1>2, <1>3 DEF cancele

\* clear throws away what nobody was promised.
LEMMA ClearDiscards ==
    ASSUME TypeOK, Clear
    PROVE  Fifo!Discard /\ ListedValues'
<1>1. /\ InFlight \in Seq(Nat) /\ m_list \in Seq(Nat) /\ InFlight' = InFlight
      /\ m_list' = <<>> /\ UNCHANGED <<pushed, received>>
  BY CanceleKeeps, GivenIn DEF TypeOK, InFlight, Clear, cancele
<1> DEFINE s == InFlight
<1> HIDE DEF s
<1>2. s \in Seq(Nat)
  BY <1>1 DEF s
<1>3. Len(s) \in 0..Len(s \o m_list) /\ SubSeq(s \o m_list, 1, Len(s)) = s
  BY <1>1, <1>2, CutBehind, Zenon
<1>4. InFlight' \o m_list' = s
  <2>1. s \o <<>> = s
    BY <1>2
  <2> QED
    BY <1>1, <2>1 DEF s
<1>5. ListedValues'
  BY <1>1 DEF ListedValues
<1> QED
  BY <1>1, <1>3, <1>4, <1>5 DEF Fifo!Discard, s

\* The value given to the handler called is the oldest inside.
LEMMA RunTakes ==
    ASSUME TypeOK, ListedValues, Run
    PROVE  [Fifo!Take]_(Fifo!vars) /\ ListedValues'
<1> DEFINE a == Head(io_service)
           h == a.handler
           u == Tail(io_service)
           v == a.value
           s == Given(u)
<1>1. /\ io_service \in Seq(Answers) /\ io_service # <<>> /\ a \in Answers
      /\ u \in Seq(Answers) /\ m_list \in Seq(Nat) /\ received \in Seq(Nat)
      /\ UNCHANGED pushed
  BY DEF Run, TypeOK
<1>2. h \in Handlers /\ v \in Nat
  BY <1>1 DEF Answers
<1>3. s \in Seq(Nat)
  <2> HIDE DEF u
  <2> QED
    BY <1>1, GivenIn
<1>4. InFlight' \o m_list' = s \o m_list /\ ListedValues'
  <2>1. CASE async_pop_impl(h, u)
    <3> HIDE DEF h, u
    <3> QED
      BY <1>1, <1>2, <2>1, PopKeeps
  <2>2. CASE io_service' = u /\ UNCHANGED m_list
    BY <2>2 DEF InFlight, ListedValues
  <2> QED
    BY <2>1, <2>2 DEF Run
<1>5. received' = IF v = NoValue THEN received ELSE Append(received, v)
  BY DEF Run
<1>6. InFlight = IF v = NoValue THEN s ELSE <<v>> \o s
  BY <1>1, GivenTail DEF InFlight
<1> HIDE DEF a, h, u, v, s
<1>7. CASE v = NoValue
  BY <1>1, <1>4, <1>5, <1>6, <1>7 DEF Fifo!vars
<1>8. CASE v # NoValue
  <2> DEFINE w == (<<v>> \o s) \o m_list
  <2>1. InFlight \o m_list = w
    BY <1>6, <1>8
  <2>2. received' = received \o <<v>>
    <3>1. received \in Seq(Nat) /\ v \in Nat /\ received' = Append(received, v)
      BY <1>1, <1>2, <1>5, <1>8
    <3> QED
      BY ONLY <3>1
  <2>3. OneBefore(v, s \o m_list, w)
    <3> DEFINE V == Nat
    <3>1. s \in Seq(V) /\ m_list \in Seq(V) /\ v \in V
      BY <1>1, <1>2, <1>3
    <3> HIDE DEF V
    <3> QED
      BY ONLY <3>1, TakeFirst
  <2> HIDE DEF w
  <2>4. /\ 1 \in 1..Len(w) /\ received' = received \o SubSeq(w, 1, 1)
        /\ InFlight' \o m_list' = SubSeq(w, 1 + 1, Len(w))
    BY <1>4, <2>2, <2>3 DEF OneBefore
  <2> QED
    BY <1>1, <1>4, <2>1, <2>4 DEF Fifo!Take
<1> QED
  BY <1>7, <1>8

\* Every step of the queue is one of HandOver, or none.
LEMMA StepHandsOver ==
    ASSUME QueueInv, ListedValues, [Next]_vars
    PROVE  [Fifo!Next]_(Fifo!vars) /\ ListedValues'
<1>1. TypeOK /\ NobodySleepsBesideData /\ io_service \in Seq(Answers)
  BY DEF QueueInv, TypeOK
<1>2. ASSUME NEW h \in Handlers, AsyncPop(h)
      PROVE  UNCHANGED Fifo!vars /\ ListedValues'
  <2>1. InFlight' \o m_list' = InFlight \o m_list /\ ListedValues'
    BY <1>1, <1>2, PopKeeps DEF AsyncPop, InFlight
  <2> QED
    BY <1>2, <2>1 DEF AsyncPop, Fifo!vars
<1>3. ASSUME NEW h \in Handlers, AsyncWait(h)
      PROVE  UNCHANGED Fifo!vars /\ ListedValues'
  <2> DEFINE a == Answer(h, "wait", "ok", NoValue)
  <2>1. a \in Answers /\ a.value = NoValue
    BY DEF Answer, Answers, NoValue
  <2>2. io_service' \in {io_service, Append(io_service, a)}
    BY <1>3 DEF AsyncWait
  <2> HIDE DEF a
  <2>3. InFlight' = InFlight
    BY <1>1, <2>1, <2>2, GivenAppend DEF InFlight
  <2> QED
    BY <1>3, <2>3 DEF AsyncWait, Fifo!vars, ListedValues
<1>4. CASE Push
  BY <1>1, <1>4, PushPuts DEF Fifo!Next
<1>5. CASE Cancele
  BY <1>1, <1>5, CanceleKeeps DEF Cancele, cancele, Fifo!vars, ListedValues
<1>6. CASE Clear
  BY <1>1, <1>6, ClearDiscards DEF Fifo!Next
<1>7. CASE Run
  BY <1>1, <1>7, RunTakes DEF Fifo!Next
<1>8. CASE UNCHANGED vars
  BY <1>8 DEF vars, Fifo!vars, InFlight, ListedValues
<1> QED
  BY <1>2, <1>3, <1>4, <1>5, <1>6, <1>7, <1>8 DEF Next

\* Of async_coro_queue, for any handlers that ask and any number of values: the
\* values come to the handlers in the order in which they were pushed, none
\* twice, and only clear() loses any, none of which was promised.
THEOREM HandsOver == Spec => QueueSpec
<1>1. Init => Fifo!Init
  <2> SUFFICES ASSUME Init PROVE Fifo!Init
    OBVIOUS
  <2>1. Given(<<>>) = <<>>
    <3>1. <<>> \in Seq(Answers) /\ Len(<<>>) = 0
      OBVIOUS
    <3> QED
      BY <3>1, GivenIs DEF IsGiven
  <2>2. InFlight \o m_list = <<>>
    BY <2>1 DEF Init, InFlight
  <2> QED
    BY <2>2 DEF Init, Fifo!Init
<1>2. Init => ListedValues
  BY DEF Init, ListedValues
<1>3. QueueInv /\ ListedValues /\ [Next]_vars => [Fifo!Next]_(Fifo!vars) /\ ListedValues'
  BY StepHandsOver
<1> QED
  BY <1>1, <1>2, <1>3, NobodyForgotten, PTL DEF Spec, QueueSpec, Fifo!Spec
-----------------------------------------------------------------------------
(* The stream's invariant, and its steps *)

Has(q, to) == \E k \in 1..Len(q) : q[k].to = to
Once(q) == \A i, j \in 1..Len(q) : q[i].to = q[j].to => i = j
Single(q) == \A i, j \in 1..Len(q) : q[i].to = "writer" /\ q[j].to = "writer" => i = j

\* The bytes lent with a row of calls, if one of them is for the reader.
Lent(q, else) == IF Has(q, "cond") THEN (CHOOSE c \in ToSet(q) : c.to = "cond").bytes
                 ELSE else

\* What is lent with the calls fits the reader's memory.
Fitting(q, size) == \A k \in 1..Len(q) :
    /\ q[k].to # "reader"
    /\ q[k].to = "cond" => q[k].ec = "ok" /\ q[k].bytes <= size

Codes == {"ok", "eof", "broken_pipe"}

\* What the types of the stream do not say.
Typed ==
    /\ Stream!TypeOK
    /\ result \in [ec : Codes, bytes : 0..StreamBytes]
    /\ Len(m_buffer) <= accepted

Held == Lent(posted, IF reader = "woken" THEN result.bytes ELSE 0)
Waiting == SubSeq(m_read_buffer, 1, Held) \o m_buffer

\* Of the first pairing: who sleeps will be woken by exactly one thing ...
ReaderWakes ==
    /\ m_current_read_handler \in {"none", "cond"}
    /\ m_current_read_handler # "none" =>
        reader = "asleep" /\ m_buffer = <<>> /\ ~m_state_write_closed
    /\ reader = "asleep" <=> m_current_read_handler # "none" \/ Has(posted, "cond")
    /\ ~(m_current_read_handler # "none" /\ Has(posted, "cond"))
WriterWakes ==
    /\ m_current_write_handler \in {"none", "wrapped"}
    /\ m_current_write_handler # "none" =>
        writer = "waiting" /\ Len(m_buffer) >= StreamThreshold
    /\ writer = "waiting" <=> m_current_write_handler # "none" \/ Has(posted, "writer")
    /\ ~(m_current_write_handler # "none" /\ Has(posted, "writer"))

\* ... and what it is told is true: nothing is lent that the memory does not
\* hold, and the end comes after the last byte.
ToldTrue ==
    /\ Once(posted) /\ Fitting(posted, Len(m_read_buffer))
    /\ reader = "woken" => result.bytes <= Len(m_read_buffer)
    /\ reader = "woken" /\ result.ec # "ok" =>
        result.bytes = 0 /\ m_buffer = <<>> /\ writer = "done"
    /\ Len(got) + Held + Len(m_buffer) = accepted

Paired == ReaderWakes /\ WriterWakes /\ ToldTrue

\* ... of which the writer's part needs nothing of the reader's: a read that
\* returns early leaves it as it was.
Steady ==
    /\ m_current_read_handler # "wrapped"
    /\ WriterWakes
    /\ \A k \in 1..Len(posted) : posted[k].to # "reader"
    /\ Single(posted)

Reading(q, size) == \A k \in 1..Len(q) : q[k].to = "reader" /\ q[k].bytes <= size

Counted(n) == [k \in 1..n |-> k]
Carried == IF posted = <<>> THEN <<>> ELSE SubSeq(m_read_buffer, 1, Head(posted).bytes)

\* Of the other pairing.
Swapped ==
    /\ m_current_read_handler # "cond" /\ m_current_write_handler # "wrapped"
    /\ Reading(posted, Len(m_read_buffer))
    /\ m_read_buffer = <<>> \/ Len(m_read_buffer) = StreamChunk

\* As long as no write has found the reader asleep.
Unmet ==
    /\ reader = "asleep" <=> m_current_read_handler # "none" \/ posted # <<>>
    /\ m_current_read_handler # "none" => posted = <<>> /\ m_buffer = <<>>
    /\ Len(posted) <= 1
    /\ (got \o Carried) \o m_buffer = Counted(accepted)

Pipes ==
    /\ Typed
    /\ part = "stream" => Steady
    /\ part = "stream" /\ early = 0 => Paired
    /\ part = "other" => Swapped
    /\ part = "other" /\ ~met => Unmet
-----------------------------------------------------------------------------
(* Sequences of bytes *)

\* The rest of a sequence behind its beginning s.
Behinds(w, s, u) ==
    /\ Len(s) \in 0..Len(w) /\ Len(w) = Len(s) + Len(u)
    /\ SubSeq(w, 1, Len(s)) = s /\ SubSeq(w, Len(s) + 1, Len(w)) = u

\* Two sequences behind each other, taken apart again.
LEMMA CutBoth ==
    ASSUME NEW V, NEW s \in Seq(V), NEW u \in Seq(V)
    PROVE  Behinds(s \o u, s, u)
<1> DEFINE c == s \o u
           d == SubSeq(c, Len(s) + 1, Len(c))
<1>1. /\ c \in Seq(V) /\ Len(c) = Len(s) + Len(u) /\ Len(s) \in Nat /\ Len(u) \in Nat
      /\ \A n \in 1..Len(u) : c[Len(s) + n] = u[n]
  BY ConcatAt
<1> HIDE DEF c
<1>2. /\ d \in Seq(V) /\ Len(d) = Len(u)
      /\ \A n \in 1..Len(u) : d[n] = c[Len(s) + n]
  <2>1. \A n \in 1..Len(u) : Len(s) + n \in 1..Len(c) /\ ((Len(s) + 1) + n) - 1 = Len(s) + n
    BY <1>1
  <2>2. /\ d \in Seq(V) /\ Len(d) = (Len(c) - (Len(s) + 1)) + 1
        /\ \A n \in 1..Len(d) : d[n] = c[((Len(s) + 1) + n) - 1]
    BY <1>1
  <2> HIDE DEF d
  <2> QED
    BY <1>1, <2>1, <2>2
<1> HIDE DEF d
<1>3. d = u
  BY <1>1, <1>2
<1>4. Len(s) \in 0..Len(c) /\ SubSeq(c, 1, Len(s)) = s
  BY CutBehind DEF c
<1> QED
  BY <1>1, <1>3, <1>4 DEF Behinds, d, c

\* A sequence is its beginning and its rest.
Parts(s, n, V) ==
    /\ SubSeq(s, 1, n) \in Seq(V) /\ SubSeq(s, n + 1, Len(s)) \in Seq(V)
    /\ Len(SubSeq(s, 1, n)) = n /\ Len(SubSeq(s, n + 1, Len(s))) = Len(s) - n
    /\ SubSeq(s, 1, n) \o SubSeq(s, n + 1, Len(s)) = s

\* Cut anywhere and put together again.
LEMMA CutJoins ==
    ASSUME NEW V, NEW s \in Seq(V), NEW n \in 0..Len(s)
    PROVE  Parts(s, n, V)
<1> DEFINE f == SubSeq(s, 1, n)
           r == SubSeq(s, n + 1, Len(s))
           c == f \o r
<1>1. Len(s) \in Nat /\ n \in Nat /\ n <= Len(s)
  OBVIOUS
<1>2. f \in Seq(V) /\ Len(f) = n /\ \A k \in 1..n : f[k] = s[k]
  BY <1>1
<1>3. /\ r \in Seq(V) /\ Len(r) = Len(s) - n
      /\ \A k \in 1..(Len(s) - n) : r[k] = s[n + k]
  <2>1. \A k \in 1..(Len(s) - n) : n + k \in 1..Len(s) /\ ((n + 1) + k) - 1 = n + k
    BY <1>1
  <2>2. /\ r \in Seq(V) /\ Len(r) = (Len(s) - (n + 1)) + 1
        /\ \A k \in 1..Len(r) : r[k] = s[((n + 1) + k) - 1]
    BY <1>1
  <2> HIDE DEF r
  <2> QED
    BY <1>1, <2>1, <2>2
<1> HIDE DEF f, r
<1>4. /\ c \in Seq(V) /\ Len(c) = Len(f) + Len(r)
      /\ \A k \in 1..Len(f) : c[k] = f[k]
      /\ \A k \in 1..Len(r) : c[Len(f) + k] = r[k]
  <2>1. f \in Seq(V) /\ r \in Seq(V)
    BY <1>2, <1>3
  <2> QED
    BY ONLY <2>1, ConcatAt
<1> HIDE DEF c
<1>5. ASSUME NEW k \in 1..Len(s)
      PROVE  c[k] = s[k]
  <2>1. CASE k \in 1..n
    BY <1>1, <1>2, <1>4, <2>1
  <2>2. CASE k \notin 1..n
    <3> DEFINE i == k - n
    <3>1. i \in 1..(Len(s) - n) /\ k = n + i
      BY <1>1, <2>2
    <3> HIDE DEF i
    <3>2. c[n + i] = r[i] /\ r[i] = s[n + i]
      BY <1>2, <1>3, <1>4, <3>1
    <3> QED
      BY <3>1, <3>2
  <2> QED
    BY <2>1, <2>2
<1>6. c = s
  <2>1. Len(c) = Len(s) /\ Len(s) \in Nat
    BY <1>1, <1>2, <1>3, <1>4
  <2> QED
    BY <1>4, <1>5, <2>1
<1> QED
  BY <1>2, <1>3, <1>6 DEF f, r, c, Parts

\* Concatenation is associative.
Assoc(s, t, u) == (s \o t) \o u = s \o (t \o u)

\* Concatenation is associative.
LEMMA Associates ==
    ASSUME NEW V, NEW s \in Seq(V), NEW t \in Seq(V), NEW u \in Seq(V)
    PROVE  Assoc(s, t, u)
<1> DEFINE st == s \o t
           tu == t \o u
           a == st \o u
           b == s \o tu
<1>1. /\ st \in Seq(V) /\ Len(st) = Len(s) + Len(t)
      /\ \A n \in 1..Len(s) : st[n] = s[n]
      /\ \A n \in 1..Len(t) : st[Len(s) + n] = t[n]
      /\ Len(s) \in Nat /\ Len(t) \in Nat
  BY ConcatAt
<1>2. /\ tu \in Seq(V) /\ Len(tu) = Len(t) + Len(u)
      /\ \A n \in 1..Len(t) : tu[n] = t[n]
      /\ \A n \in 1..Len(u) : tu[Len(t) + n] = u[n]
      /\ Len(u) \in Nat
  BY ConcatAt
<1> HIDE DEF st, tu
<1>3. /\ a \in Seq(V) /\ Len(a) = Len(st) + Len(u)
      /\ \A n \in 1..Len(st) : a[n] = st[n]
      /\ \A n \in 1..Len(u) : a[Len(st) + n] = u[n]
  <2>1. st \in Seq(V)
    BY <1>1
  <2> QED
    BY ONLY <2>1, ConcatAt, u \in Seq(V)
<1>4. /\ b \in Seq(V) /\ Len(b) = Len(s) + Len(tu)
      /\ \A n \in 1..Len(s) : b[n] = s[n]
      /\ \A n \in 1..Len(tu) : b[Len(s) + n] = tu[n]
  <2>1. tu \in Seq(V)
    BY <1>2
  <2> QED
    BY ONLY <2>1, ConcatAt, s \in Seq(V)
<1> HIDE DEF a, b
<1>5. ASSUME NEW n \in 1..Len(a)
      PROVE  a[n] = b[n]
  <2>1. CASE n \in 1..Len(s)
    <3>1. n \in 1..Len(st)
      BY <1>1, <2>1
    <3>2. a[n] = st[n] /\ st[n] = s[n] /\ b[n] = s[n]
      BY <1>1, <1>3, <1>4, <2>1, <3>1
    <3> QED
      BY <3>2
  <2>2. CASE n \in (Len(s) + 1)..Len(st)
    <3> DEFINE k == n - Len(s)
    <3>1. k \in 1..Len(t) /\ n = Len(s) + k /\ n \in 1..Len(st) /\ k \in 1..Len(tu)
      BY <1>1, <1>2, <2>2
    <3> HIDE DEF k
    <3>2. a[n] = st[n] /\ st[Len(s) + k] = t[k] /\ b[Len(s) + k] = tu[k] /\ tu[k] = t[k]
      BY <1>1, <1>2, <1>3, <1>4, <3>1
    <3> QED
      BY <3>1, <3>2
  <2>3. CASE n > Len(st)
    <3> DEFINE k == n - Len(st)
    <3>1. /\ k \in 1..Len(u) /\ n = Len(st) + k /\ n = Len(s) + (Len(t) + k)
          /\ Len(t) + k \in 1..Len(tu)
      BY <1>1, <1>2, <1>3, <2>3
    <3> HIDE DEF k
    <3>2. a[Len(st) + k] = u[k] /\ b[Len(s) + (Len(t) + k)] = tu[Len(t) + k]
          /\ tu[Len(t) + k] = u[k]
      BY <1>2, <1>3, <1>4, <3>1
    <3> QED
      BY <3>1, <3>2
  <2> QED
    BY <1>1, <2>1, <2>2, <2>3
<1>6. a = b
  <2>1. Len(a) = Len(b) /\ Len(a) \in Nat
    BY <1>1, <1>2, <1>3, <1>4
  <2> QED
    BY <1>3, <1>4, <1>5, <2>1
<1> QED
  BY <1>6 DEF a, b, st, tu, Assoc

\* The bytes up to a number, and the next ones.
LEMMA CountOn ==
    ASSUME NEW m \in Nat, NEW n \in Nat
    PROVE  Counted(m) \o [k \in 1..n |-> m + k] = Counted(m + n)
<1> DEFINE s == Counted(m)  u == [k \in 1..n |-> m + k]  w == Counted(m + n)
           c == s \o u
<1>1. /\ s \in Seq(Nat) /\ Len(s) = m /\ \A k \in 1..m : s[k] = k
      /\ u \in Seq(Nat) /\ Len(u) = n /\ \A k \in 1..n : u[k] = m + k
      /\ w \in Seq(Nat) /\ Len(w) = m + n /\ \A k \in 1..(m + n) : w[k] = k
  BY DEF Counted
<1> HIDE DEF s, u, w
<1>2. /\ c \in Seq(Nat) /\ Len(c) = m + n
      /\ \A k \in 1..m : c[k] = s[k]
      /\ \A k \in 1..n : c[m + k] = u[k]
  BY <1>1
<1> HIDE DEF c
<1>3. ASSUME NEW k \in 1..(m + n)
      PROVE  c[k] = w[k]
  <2>1. CASE k \in 1..m
    BY <1>1, <1>2, <2>1
  <2>2. CASE k \notin 1..m
    <3> DEFINE i == k - m
    <3>1. i \in 1..n /\ k = m + i
      BY <2>2
    <3> HIDE DEF i
    <3>2. c[m + i] = u[i] /\ u[i] = m + i /\ w[k] = k
      BY <1>1, <1>2, <3>1
    <3> QED
      BY <3>1, <3>2
  <2> QED
    BY <2>1, <2>2
<1>4. c = w
  BY <1>1, <1>2, <1>3
<1> QED
  BY <1>4 DEF c, s, u, w

\* What begins with the sequence counts too.
LEMMA CountedBefore ==
    ASSUME NEW V, NEW s \in Seq(V), NEW u \in Seq(V), NEW n \in Nat,
           s \o u = Counted(n)
    PROVE  s = Counted(Len(s))
<1> DEFINE w == Counted(n)
<1>1. Len(w) = n /\ \A k \in 1..n : w[k] = k
  BY DEF Counted
<1>2. /\ Len(w) = Len(s) + Len(u) /\ Len(s) \in Nat /\ Len(u) \in Nat
      /\ \A k \in 1..Len(s) : w[k] = s[k]
  BY ConcatAt
<1> HIDE DEF w
<1>3. \A k \in 1..Len(s) : s[k] = k
  BY <1>1, <1>2
<1> QED
  BY <1>2, <1>3 DEF Counted
-----------------------------------------------------------------------------
(* The calls posted *)

\* A call of the sleeping reader says what is lent.
LEMMA LentIs ==
    ASSUME NEW q \in Seq(Stream!Tasks), Once(q), NEW k \in 1..Len(q), q[k].to = "cond"
    PROVE  \A else : Lent(q, else) = q[k].bytes
<1> DEFINE c == CHOOSE c \in ToSet(q) : c.to = "cond"
<1>1. Has(q, "cond")
  BY DEF Has
<1>2. q[k] \in ToSet(q)
  BY RowSet
<1>3. c \in ToSet(q) /\ c.to = "cond"
  BY <1>2
<1> HIDE DEF c
<1>4. PICK i \in 1..Len(q) : q[i] = c
  BY <1>3, RowSet
<1>5. i = k
  BY <1>3, <1>4 DEF Once
<1> QED
  BY <1>1, <1>4, <1>5 DEF Lent, c

\* One call more is posted.
LEMMA PostOne ==
    ASSUME NEW q \in Seq(Stream!Tasks), NEW c \in Stream!Tasks
    PROVE  /\ Append(q, c) \in Seq(Stream!Tasks)
           /\ \A to : Has(Append(q, c), to) <=> Has(q, to) \/ c.to = to
           /\ Once(q) /\ ~Has(q, c.to) => Once(Append(q, c))
           /\ \A size : Fitting(q, size) /\ c.to # "reader"
                        /\ (c.to = "cond" => c.ec = "ok" /\ c.bytes <= size)
                            => Fitting(Append(q, c), size)
           /\ Once(q) /\ c.to # "cond" => \A else : Lent(Append(q, c), else) = Lent(q, else)
           /\ Once(q) /\ c.to = "cond" /\ ~Has(q, "cond")
                => \A else : Lent(Append(q, c), else) = c.bytes
<1> DEFINE r == Append(q, c)
<1>1. /\ r \in Seq(Stream!Tasks) /\ Len(r) = Len(q) + 1 /\ Len(q) \in Nat
      /\ r[Len(q) + 1] = c /\ \A k \in 1..Len(q) : r[k] = q[k]
  OBVIOUS
<1> HIDE DEF r
<1>2. \A k \in 1..Len(r) : k \in 1..Len(q) \/ k = Len(q) + 1
  BY <1>1
<1>3. \A k \in 1..Len(q) : k \in 1..Len(r) /\ k # Len(q) + 1
  BY <1>1
<1>4. Len(q) + 1 \in 1..Len(r)
  BY <1>1
<1>5. \A to : Has(r, to) <=> Has(q, to) \/ c.to = to
  BY <1>1, <1>2, <1>3, <1>4 DEF Has
<1>6. ASSUME Once(q), ~Has(q, c.to)
      PROVE  Once(r)
  <2>1. \A k \in 1..Len(q) : q[k].to # c.to
    BY <1>6 DEF Has
  <2> QED
    BY <1>1, <1>2, <1>6, <2>1 DEF Once
<1>7. ASSUME NEW size, Fitting(q, size), c.to # "reader",
             c.to = "cond" => c.ec = "ok" /\ c.bytes <= size
      PROVE  Fitting(r, size)
  BY <1>1, <1>2, <1>7 DEF Fitting
<1>8. ASSUME Once(q), c.to # "cond", NEW else
      PROVE  Lent(r, else) = Lent(q, else)
  <2>1. CASE ~Has(q, "cond")
    BY <1>5, <1>8, <2>1 DEF Lent
  <2>2. CASE Has(q, "cond")
    <3>1. PICK k \in 1..Len(q) : q[k].to = "cond"
      BY <2>2 DEF Has
    <3> DEFINE d == CHOOSE d \in ToSet(r) : d.to = "cond"
    <3>2. k \in 1..Len(r) /\ r[k] = q[k]
      BY <1>1, <1>3
    <3>3. r[k] \in ToSet(r) /\ r[k].to = "cond"
      BY <1>1, <3>1, <3>2, RowSet
    <3>4. d \in ToSet(r) /\ d.to = "cond"
      BY <3>3
    <3> HIDE DEF d
    <3>5. PICK i \in 1..Len(r) : r[i] = d
      BY <1>1, <3>4, RowSet
    <3>6. i \in 1..Len(q) /\ q[i] = d
      BY <1>1, <1>2, <1>8, <3>4, <3>5
    <3>7. i = k
      BY <1>8, <3>1, <3>4, <3>6 DEF Once
    <3>8. Lent(r, else) = q[k].bytes
      BY <1>5, <2>2, <3>6, <3>7 DEF Lent, d
    <3> QED
      BY <1>8, <3>1, <3>8, LentIs
  <2> QED
    BY <2>1, <2>2
<1>9. ASSUME Once(q), c.to = "cond", ~Has(q, "cond"), NEW else
      PROVE  Lent(r, else) = c.bytes
  <2>1. Once(r)
    BY <1>6, <1>9
  <2> QED
    BY <1>1, <1>4, <1>9, <2>1, LentIs
<1> QED
  BY <1>1, <1>5, <1>6, <1>7, <1>8, <1>9 DEF r

\* A sequence without its first element, by positions.
LEMMA CalledOne ==
    ASSUME NEW V, NEW q \in Seq(V), q # <<>>
    PROVE  /\ Tail(q) \in Seq(V) /\ Len(Tail(q)) = Len(q) - 1 /\ Len(q) \in Nat /\ Len(q) >= 1
           /\ Head(q) = q[1] /\ Head(q) \in V /\ \A k \in 1..Len(Tail(q)) : Tail(q)[k] = q[k + 1]
  OBVIOUS

\* The oldest call is taken.
LEMMA CallOne ==
    ASSUME NEW q \in Seq(Stream!Tasks), q # <<>>, Once(q)
    PROVE  /\ Head(q) \in Stream!Tasks /\ Tail(q) \in Seq(Stream!Tasks)
           /\ \A to : Has(q, to) <=> Has(Tail(q), to) \/ Head(q).to = to
           /\ ~Has(Tail(q), Head(q).to)
           /\ Once(Tail(q))
           /\ \A size : Fitting(q, size) =>
                /\ Fitting(Tail(q), size) /\ Head(q).to # "reader"
                /\ Head(q).to = "cond" => Head(q).ec = "ok" /\ Head(q).bytes <= size
           /\ Head(q).to # "cond" => \A else : Lent(Tail(q), else) = Lent(q, else)
           /\ Head(q).to = "cond" => \A else : Lent(q, else) = Head(q).bytes
<1> DEFINE r == Tail(q)  c == Head(q)
<1>1. /\ r \in Seq(Stream!Tasks) /\ Len(r) = Len(q) - 1 /\ Len(q) \in Nat /\ Len(q) >= 1
      /\ c = q[1] /\ c \in Stream!Tasks /\ \A k \in 1..Len(r) : r[k] = q[k + 1]
  BY CalledOne, Zenon
<1> HIDE DEF r, c
<1>2. \A k \in 1..Len(q) : k = 1 \/ (k - 1 \in 1..Len(r) /\ r[k - 1] = q[k])
  BY <1>1
<1>3. \A k \in 1..Len(r) : k + 1 \in 1..Len(q) /\ k + 1 # 1
  BY <1>1
<1>4. 1 \in 1..Len(q)
  BY <1>1
<1>5. \A to : Has(q, to) <=> Has(r, to) \/ c.to = to
  <2>1. ASSUME NEW to, Has(q, to)
        PROVE  Has(r, to) \/ c.to = to
    BY <1>1, <1>2, <2>1 DEF Has
  <2>2. ASSUME NEW to, Has(r, to)
        PROVE  Has(q, to)
    BY <1>1, <1>3, <2>2 DEF Has
  <2>3. ASSUME NEW to, c.to = to
        PROVE  Has(q, to)
    BY <1>1, <1>4, <2>3 DEF Has
  <2> QED
    BY <2>1, <2>2, <2>3
<1>6. ~Has(r, c.to)
  <2>1. ASSUME NEW k \in 1..Len(r), r[k].to = c.to
        PROVE  FALSE
    <3>1. k + 1 = 1
      BY <1>1, <1>3, <1>4, <2>1 DEF Once
    <3> QED
      BY <1>3, <3>1
  <2> QED
    BY <2>1 DEF Has
<1>7. Once(r)
  <2>1. ASSUME NEW i \in 1..Len(r), NEW j \in 1..Len(r), r[i].to = r[j].to
        PROVE  i = j
    <3>1. i + 1 = j + 1
      BY <1>1, <1>3, <2>1 DEF Once
    <3> QED
      BY <3>1
  <2> QED
    BY <2>1 DEF Once
<1>8. ASSUME NEW size, Fitting(q, size)
      PROVE  /\ Fitting(r, size) /\ c.to # "reader"
             /\ c.to = "cond" => c.ec = "ok" /\ c.bytes <= size
  BY <1>1, <1>3, <1>4, <1>8 DEF Fitting
<1>9. ASSUME c.to # "cond", NEW else
      PROVE  Lent(r, else) = Lent(q, else)
  <2>1. CASE ~Has(q, "cond")
    BY <1>5, <2>1 DEF Lent
  <2>2. CASE Has(q, "cond")
    <3>1. PICK k \in 1..Len(r) : r[k].to = "cond"
      BY <1>5, <1>9, <2>2 DEF Has
    <3>2. k + 1 \in 1..Len(q) /\ q[k + 1] = r[k]
      BY <1>1, <1>3
    <3>3. Lent(r, else) = r[k].bytes
      BY <1>1, <1>7, <3>1, LentIs
    <3>4. Lent(q, else) = q[k + 1].bytes
      BY <3>1, <3>2, LentIs
    <3> QED
      BY <3>2, <3>3, <3>4
  <2> QED
    BY <2>1, <2>2
<1>10. ASSUME c.to = "cond", NEW else
       PROVE  Lent(q, else) = c.bytes
  BY <1>1, <1>4, <1>10, LentIs
<1> QED
  BY <1>1, <1>5, <1>6, <1>7, <1>8, <1>9, <1>10 DEF r, c

\* The invariant's conjuncts on the calls, in these words.
LEMMA CallsOf ==
    /\ \A to : Stream!Posted(to) <=> Has(posted, to)
    /\ Stream!Lending = Lent(posted, IF reader = "woken" THEN result.bytes ELSE 0)
    /\ \A to : (Stream!Posted(to))' <=> Has(posted', to)
    /\ (Stream!Lending)' = Lent(posted', IF reader' = "woken" THEN result'.bytes ELSE 0)
<1>1. \A to : Stream!Posted(to) <=> Has(posted, to)
  BY Zenon DEF Stream!Posted, Has
<1>2. Stream!Lending = Lent(posted, IF reader = "woken" THEN result.bytes ELSE 0)
  BY Zenon DEF Stream!Lending, Stream!Posted, Stream!ToSet, Lent, Has, ToSet
<1>3. \A to : (Stream!Posted(to))' <=> Has(posted', to)
  BY Zenon DEF Stream!Posted, Has
<1>4. (Stream!Lending)' = Lent(posted', IF reader' = "woken" THEN result'.bytes ELSE 0)
  BY Zenon DEF Stream!Lending, Stream!Posted, Stream!ToSet, Lent, Has, ToSet
<1> QED
  BY <1>1, <1>2, <1>3, <1>4
-----------------------------------------------------------------------------
(* What is written *)

New(n) == [k \in 1..n |-> accepted + k]

\* The types of the bytes, one by one.
LEMMA BytesOf ==
    ASSUME Typed
    PROVE  /\ m_buffer \in Seq(1..StreamBytes) /\ m_read_buffer \in Seq(0..StreamBytes)
           /\ got \in Seq(0..StreamBytes) /\ m_buffer \in Seq(0..StreamBytes)
           /\ posted \in Seq(Stream!Tasks)
           /\ accepted \in 0..StreamBytes /\ accepted \in Nat /\ Len(m_buffer) <= accepted
           /\ Len(m_buffer) \in Nat /\ Len(m_read_buffer) \in Nat /\ Len(got) \in Nat
<1>1. /\ m_buffer \in Seq(1..StreamBytes) /\ m_read_buffer \in Seq(0..StreamBytes)
      /\ got \in Seq(0..StreamBytes) /\ posted \in Seq(Stream!Tasks)
      /\ accepted \in 0..StreamBytes /\ Len(m_buffer) <= accepted
  BY DEF Typed, Stream!TypeOK
<1>2. StreamBytes \in Nat
  BY StreamAssumption
<1>3. m_buffer \in Seq(0..StreamBytes)
  BY <1>1, <1>2
<1> QED
  BY <1>1, <1>2, <1>3

\* What a write leaves and lends.
Committed(n) ==
    /\ accepted' = accepted + n /\ accepted' \in 0..StreamBytes
    /\ m_buffer' \in Seq(1..StreamBytes) /\ m_read_buffer' \in Seq(0..StreamBytes)
    /\ Len(m_read_buffer') = Len(m_read_buffer) /\ Len(m_buffer') <= accepted'
    /\ m_current_read_handler = "none" =>
        /\ m_read_buffer' = m_read_buffer /\ m_buffer' = m_buffer \o New(n)
        /\ Len(m_buffer') = Len(m_buffer) + n
    /\ m_current_read_handler # "none" =>
        /\ SubSeq(m_read_buffer', 1, Stream!Copied(n)) \o m_buffer' = m_buffer \o New(n)
        /\ Len(m_buffer') + Stream!Copied(n) = Len(m_buffer) + n

\* The bytes of a write, behind those of the buffer.
LEMMA NewBytes ==
    ASSUME Typed, NEW n \in Nat, accepted + n <= StreamBytes
    PROVE  /\ New(n) \in Seq(1..StreamBytes) /\ Len(New(n)) = n
           /\ m_buffer \o New(n) \in Seq(1..StreamBytes)
           /\ Len(m_buffer \o New(n)) = Len(m_buffer) + n
<1>1. New(n) \in Seq(1..StreamBytes) /\ Len(New(n)) = n
  BY BytesOf, StreamAssumption DEF New
<1> QED
  BY <1>1, BytesOf, ConcatAt

\* No more is lent than there is, nor than fits.
LEMMA CopiedIs ==
    ASSUME Typed, NEW n \in Nat
    PROVE  /\ Stream!Copied(n) \in Nat /\ Stream!Copied(n) <= Len(m_read_buffer)
           /\ Stream!Copied(n) <= Len(m_buffer) + n
  BY BytesOf DEF Stream!Copied, Stream!Smaller

\* All bytes of a write are lent or left in the buffer, in their order.
LEMMA CommitStep ==
    ASSUME Typed, NEW n \in 1..StreamChunk, Stream!Commit(n)
    PROVE  Committed(n)
<1> DEFINE all == m_buffer \o New(n)
           size == Len(m_read_buffer)
           m == Stream!Copied(n)
           B == 1..StreamBytes
           C == 0..StreamBytes
<1>1. /\ accepted' = accepted + n /\ accepted + n <= StreamBytes /\ n \in Nat
      /\ accepted' \in 0..StreamBytes
  BY BytesOf, StreamAssumption DEF Stream!Commit
<1>2. all \in Seq(B) /\ Len(all) = Len(m_buffer) + n
  BY <1>1, NewBytes
<1>3. /\ m \in 0..Len(all) /\ m \in 0..size /\ Len(m_buffer) + n <= accepted'
      /\ m = Stream!Smaller(size, Len(all))
  <2>1. m = Stream!Smaller(size, Len(all))
    <3>1. size \in Nat /\ Len(m_buffer) + n \in Nat /\ Len(all) = Len(m_buffer) + n
      BY <1>1, <1>2, BytesOf
    <3>2. m = Stream!Smaller(Len(m_buffer) + n, size)
      BY DEF Stream!Copied
    <3> HIDE DEF m, size, all
    <3> QED
      BY <3>1, <3>2 DEF Stream!Smaller
  <2> QED
    BY <1>1, <1>2, <2>1, CopiedIs, BytesOf
<1>4. CASE m_current_read_handler = "none"
  <2>1. m_buffer' = all /\ m_read_buffer' = m_read_buffer
    BY <1>4 DEF Stream!Commit, New
  <2> QED
    BY <1>1, <1>2, <1>3, <1>4, <2>1, BytesOf DEF Committed
<1>5. CASE m_current_read_handler # "none"
  <2> DEFINE f == SubSeq(all, 1, m)
             r == SubSeq(all, m + 1, Len(all))
             g == SubSeq(m_read_buffer, m + 1, size)
  <2>1. /\ f \in Seq(B) /\ r \in Seq(B) /\ Len(f) = m /\ Len(r) = Len(all) - m
        /\ f \o r = all
    <3> HIDE DEF all, B, m
    <3> QED
      BY <1>2, <1>3, CutJoins DEF Parts
  <2>2. g \in Seq(C) /\ Len(g) = size - m
    <3>1. m_read_buffer \in Seq(C)
      BY BytesOf
    <3> HIDE DEF C, m
    <3> QED
      BY <1>3, <3>1, CutJoins DEF Parts
  <2>3. m_buffer' = r /\ m_read_buffer' = f \o g
    <3>1. /\ Stream!First(all, size) = f
          /\ m_buffer' = Stream!Rest(all, size)
          /\ m_read_buffer' = Stream!First(all, size)
                \o SubSeq(m_read_buffer, Len(Stream!First(all, size)) + 1, size)
      BY <1>3, <1>5 DEF Stream!Commit, Stream!First, New
    <3>2. Stream!Rest(all, size) = r
      BY <1>3 DEF Stream!Rest
    <3> QED
      BY <2>1, <3>1, <3>2
  <2>4. f \in Seq(C)
    <3> HIDE DEF f
    <3> QED
      BY <2>1, StreamAssumption
  <2>5. f \o g \in Seq(C) /\ Len(f \o g) = size /\ SubSeq(f \o g, 1, m) = f
    <3> HIDE DEF f, g, C, m, size
    <3>1. f \o g \in Seq(C) /\ Len(f \o g) = Len(f) + Len(g)
      BY <2>2, <2>4, ConcatAt
    <3>2. SubSeq(f \o g, 1, Len(f)) = f
      BY <2>2, <2>4, CutBehind
    <3>3. size \in Nat
      BY BytesOf DEF size
    <3> QED
      BY <1>3, <2>1, <2>2, <3>1, <3>2, <3>3
  <2>6. SubSeq(m_read_buffer', 1, m) \o m_buffer' = all
    BY <2>1, <2>3, <2>5
  <2>7. Len(m_buffer') + m = Len(m_buffer) + n /\ Len(m_buffer') <= accepted'
    <3>1. /\ m_buffer' = r /\ Len(r) = Len(all) - m /\ Len(all) = Len(m_buffer) + n
          /\ m \in 0..Len(all) /\ Len(m_buffer) + n <= accepted'
          /\ accepted' \in Nat /\ Len(m_buffer) + n \in Nat
      BY <1>1, <1>2, <1>3, <2>1, <2>3, BytesOf
    <3> HIDE DEF r, m, all
    <3> QED
      BY <3>1
  <2> HIDE DEF f, g, r
  <2>8. m_buffer' \in Seq(B) /\ m_read_buffer' \in Seq(C) /\ Len(m_read_buffer') = size
    BY <2>1, <2>3, <2>5
  <2> QED
    BY <1>1, <1>5, <2>6, <2>7, <2>8 DEF Committed
<1> QED
  BY <1>4, <1>5
-----------------------------------------------------------------------------
(* The steps of the first pairing *)

\* The abstract pipe's step.
Conveys ==
    \/ /\ accepted' > accepted /\ accepted' \in Nat /\ UNCHANGED got
       /\ Waiting' = Waiting \o [k \in 1..(accepted' - accepted) |-> accepted + k]
    \/ /\ \E n \in 1..Len(Waiting) :
            /\ got' = got \o SubSeq(Waiting, 1, n)
            /\ Waiting' = SubSeq(Waiting, n + 1, Len(Waiting))
       /\ UNCHANGED accepted
    \/ UNCHANGED <<accepted, Waiting, got>>

EndIsLast == ~eof /\ eof' => Len(got') = accepted'

\* Every step's effect.
Sound == Typed' /\ Paired' /\ Conveys /\ EndIsLast

\* The bytes lent are in the reader's memory.
LEMMA HeldFits ==
    ASSUME Typed, ToldTrue
    PROVE  /\ Held \in Nat /\ Held <= Len(m_read_buffer)
           /\ SubSeq(m_read_buffer, 1, Held) \in Seq(0..StreamBytes)
           /\ Len(SubSeq(m_read_buffer, 1, Held)) = Held
           /\ Waiting \in Seq(0..StreamBytes)
<1>1. Held \in Nat /\ Held <= Len(m_read_buffer)
  <2>1. CASE Has(posted, "cond")
    <3>1. PICK k \in 1..Len(posted) : posted[k].to = "cond"
      BY <2>1 DEF Has
    <3>2. posted[k] \in Stream!Tasks
      BY BytesOf
    <3>3. posted[k].bytes \in Nat /\ posted[k].bytes <= Len(m_read_buffer)
      BY <3>1, <3>2, StreamAssumption DEF ToldTrue, Fitting, Stream!Tasks
    <3>4. \A else : Lent(posted, else) = posted[k].bytes
      BY <3>1, BytesOf, LentIs DEF ToldTrue
    <3> QED
      BY <3>3, <3>4 DEF Held
  <2>2. CASE ~Has(posted, "cond") /\ reader = "woken"
    <3>1. Held = result.bytes
      BY <2>2 DEF Held, Lent
    <3>2. result.bytes \in Nat
      BY StreamAssumption DEF Typed
    <3> QED
      BY <2>2, <3>1, <3>2 DEF ToldTrue
  <2>3. CASE ~Has(posted, "cond") /\ reader # "woken"
    <3>1. Held = 0
      BY <2>3 DEF Held, Lent
    <3> QED
      BY <3>1, BytesOf
  <2> QED
    BY <2>1, <2>2, <2>3
<1> DEFINE h == Held  C == 0..StreamBytes
<1>2. h \in 0..Len(m_read_buffer) /\ m_read_buffer \in Seq(C)
  BY <1>1, BytesOf
<1>3. SubSeq(m_read_buffer, 1, h) \in Seq(C) /\ Len(SubSeq(m_read_buffer, 1, h)) = h
  <2> HIDE DEF h, C
  <2> QED
    BY <1>2, CutJoins DEF Parts
<1>4. Waiting \in Seq(C)
  <2> DEFINE f == SubSeq(m_read_buffer, 1, h)
  <2>1. f \in Seq(C) /\ m_buffer \in Seq(C)
    BY <1>3, BytesOf
  <2> HIDE DEF f, C
  <2>2. f \o m_buffer \in Seq(C)
    BY <2>1
  <2> QED
    BY <2>2 DEF Waiting, f, h
<1> QED
  BY <1>1, <1>3, <1>4

\* The calls one by one.
LEMMA CallIs ==
    ASSUME NEW to \in {"cond", "writer", "reader"}, NEW ec \in Codes,
           NEW bytes \in 0..StreamBytes
    PROVE  /\ Stream!Call(to, ec, bytes) \in Stream!Tasks
           /\ Stream!Call(to, ec, bytes).to = to /\ Stream!Call(to, ec, bytes).ec = ec
           /\ Stream!Call(to, ec, bytes).bytes = bytes
  BY DEF Stream!Call, Stream!Tasks, Codes

\* A write to a closed reader is answered with the error.
LEMMA RefusedWrite ==
    ASSUME Typed, Paired, NEW n \in 1..StreamChunk, Stream!async_write_some(n),
           m_state_read_closed
    PROVE  Sound
<1> DEFINE c == Stream!Call("writer", "broken_pipe", 0)
<1>1. /\ writer = "idle" /\ writer' = "waiting" /\ posted' = Append(posted, c)
      /\ UNCHANGED <<m_buffer, m_read_buffer, accepted, m_current_read_handler,
                     m_current_write_handler, m_state_read_closed, m_state_write_closed,
                     closed, early, reader, result, got, eof>>
  BY DEF Stream!async_write_some, Stream!data, Stream!flags, Stream!seen
<1>2. c \in Stream!Tasks /\ c.to = "writer"
  BY CallIs, StreamAssumption DEF Codes
<1>3. posted \in Seq(Stream!Tasks) /\ Once(posted) /\ Fitting(posted, Len(m_read_buffer))
  BY BytesOf DEF Paired, ToldTrue
<1>4. m_current_write_handler = "none" /\ ~Has(posted, "writer")
  BY <1>1 DEF Paired, WriterWakes
<1> HIDE DEF c
<1>5. /\ posted' \in Seq(Stream!Tasks) /\ Once(posted') /\ Fitting(posted', Len(m_read_buffer))
      /\ Has(posted', "cond") <=> Has(posted, "cond")
      /\ Has(posted', "writer")
      /\ \A else : Lent(posted', else) = Lent(posted, else)
  BY <1>1, <1>2, <1>3, <1>4, PostOne
<1>6. Held' = Held
  BY <1>1, <1>5 DEF Held
<1>7. Typed'
  BY <1>1, <1>5 DEF Typed, Stream!TypeOK
<1>8. ReaderWakes'
  BY <1>1, <1>5 DEF Paired, ReaderWakes
<1>9. WriterWakes'
  BY <1>1, <1>4, <1>5 DEF Paired, WriterWakes
<1>10. ToldTrue'
  BY <1>1, <1>3, <1>5, <1>6 DEF Paired, ToldTrue
<1> QED
  BY <1>1, <1>6, <1>7, <1>8, <1>9, <1>10 DEF Sound, Paired, Conveys, EndIsLast, Waiting

\* A write wakes the sleeping reader, and sleeps itself if the buffer is full.
LEMMA Write ==
    ASSUME Typed, Paired, NEW n \in 1..StreamChunk, Stream!async_write_some(n),
           ~m_state_read_closed
    PROVE  Sound
<1> DEFINE lend == Stream!Call("cond", "ok", Stream!Copied(n))
           done == Stream!Call("writer", "ok", n)
           asked == m_current_read_handler # "none"
           told == IF m_current_read_handler = "none" THEN posted ELSE Append(posted, lend)
           copied == Stream!Copied(n)
           size == Len(m_read_buffer)
<1>1. /\ writer = "idle" /\ writer' = "waiting" /\ m_current_read_handler' = "none"
      /\ UNCHANGED <<m_state_read_closed, m_state_write_closed, closed, early, reader, result,
                     got, eof>>
      /\ \/ /\ Len(m_buffer') >= StreamThreshold /\ m_current_write_handler' = "wrapped"
            /\ posted' = told
         \/ /\ Len(m_buffer') < StreamThreshold /\ posted' = Append(told, done)
            /\ UNCHANGED m_current_write_handler
  BY DEF Stream!async_write_some, Stream!flags, Stream!seen, Stream!Lent
<1>2. Committed(n) /\ n \in Nat /\ n >= 1
  <2>1. Stream!Commit(n)
    BY DEF Stream!async_write_some
  <2> QED
    BY <2>1, CommitStep, StreamAssumption
<1>3. /\ accepted' = accepted + n /\ accepted' \in 0..StreamBytes /\ n \in 0..StreamBytes
      /\ copied \in 0..StreamBytes /\ copied <= size /\ Len(m_read_buffer') = size
      /\ Len(m_buffer') <= accepted'
  <2>1. /\ copied \in Nat /\ copied <= size /\ copied <= Len(m_buffer) + n
        /\ Len(m_buffer) <= accepted /\ accepted \in Nat /\ Len(m_buffer) \in Nat
    BY <1>2, CopiedIs, BytesOf
  <2>2. /\ accepted' = accepted + n /\ accepted' \in 0..StreamBytes
        /\ Len(m_read_buffer') = size /\ Len(m_buffer') <= accepted'
    BY <1>2 DEF Committed
  <2> HIDE DEF copied, size
  <2> QED
    BY <1>2, <2>1, <2>2, StreamAssumption
<1>4. /\ lend \in Stream!Tasks /\ lend.to = "cond" /\ lend.ec = "ok" /\ lend.bytes = copied
      /\ done \in Stream!Tasks /\ done.to = "writer"
  BY <1>3, CallIs DEF Codes
<1>5. /\ posted \in Seq(Stream!Tasks) /\ Once(posted) /\ Fitting(posted, size)
      /\ m_current_write_handler = "none" /\ ~Has(posted, "writer")
      /\ asked => /\ reader = "asleep" /\ m_buffer = <<>> /\ ~Has(posted, "cond")
      /\ reader = "asleep" <=> asked \/ Has(posted, "cond")
  BY <1>1, BytesOf DEF Paired, ReaderWakes, WriterWakes, ToldTrue
<1>6. /\ told \in Seq(Stream!Tasks) /\ Once(told) /\ Fitting(told, size)
      /\ ~Has(told, "writer") /\ (Has(told, "cond") <=> reader = "asleep")
      /\ ~asked => \A else : Lent(told, else) = Lent(posted, else)
      /\ asked => \A else : Lent(told, else) = copied
  <2>1. CASE ~asked
    BY <1>5, <2>1
  <2>2. CASE asked
    <3>1. told = Append(posted, lend)
      BY <2>2
    <3>2. /\ Append(posted, lend) \in Seq(Stream!Tasks)
          /\ Once(Append(posted, lend)) /\ Fitting(Append(posted, lend), size)
          /\ ~Has(Append(posted, lend), "writer") /\ Has(Append(posted, lend), "cond")
          /\ \A else : Lent(Append(posted, lend), else) = copied
      <4> HIDE DEF lend, copied, size, told, done
      <4> QED
        BY <1>3, <1>4, <1>5, <2>2, PostOne
    <3> HIDE DEF told, lend, copied, size
    <3> QED
      BY <1>5, <2>2, <3>1, <3>2
  <2> QED
    BY <2>1, <2>2
<1> HIDE DEF told, lend, done, copied, size
<1>7. /\ posted' \in Seq(Stream!Tasks) /\ Once(posted') /\ Fitting(posted', size)
      /\ Has(posted', "cond") <=> reader = "asleep"
      /\ Has(posted', "writer") <=> m_current_write_handler' = "none"
      /\ \A else : Lent(posted', else) = Lent(told, else)
  <2>1. CASE posted' = told /\ m_current_write_handler' = "wrapped"
    BY <1>6, <2>1
  <2>2. CASE posted' = Append(told, done) /\ UNCHANGED m_current_write_handler
    BY <1>4, <1>5, <1>6, <2>2, PostOne
  <2> QED
    BY <1>1, <2>1, <2>2
<1>8. /\ m_buffer' \in Seq(1..StreamBytes) /\ m_read_buffer' \in Seq(0..StreamBytes)
  BY <1>2 DEF Committed
<1>9. Typed'
  BY <1>1, <1>3, <1>7, <1>8 DEF Typed, Stream!TypeOK
<1>10. ReaderWakes'
  BY <1>1, <1>7 DEF Paired, ReaderWakes
<1>11. WriterWakes'
  BY <1>1, <1>5, <1>7 DEF Paired, WriterWakes
<1>12. /\ ~asked => Held' = Held
       /\ asked => Held' = copied /\ Held = 0
  <2>1. Held' = Lent(told, IF reader = "woken" THEN result.bytes ELSE 0)
    BY <1>1, <1>7 DEF Held
  <2>2. asked => Held = 0
    BY <1>5 DEF Held, Lent
  <2> QED
    BY <1>6, <2>1, <2>2 DEF Held
<1>13. ToldTrue'
  <2>1. Len(got') + Held' + Len(m_buffer') = accepted'
    <3>1. /\ Len(got) + Held + Len(m_buffer) = accepted /\ Held \in Nat /\ UNCHANGED got
          /\ Len(got) \in Nat /\ Len(m_buffer) \in Nat /\ Len(m_buffer') \in Nat
          /\ ~asked => Len(m_buffer') = Len(m_buffer) + n
          /\ asked => Len(m_buffer') + copied = Len(m_buffer) + n
      BY <1>1, <1>2, <1>8, HeldFits, BytesOf DEF Paired, ToldTrue, Committed, copied
    <3> QED
      BY <1>2, <1>3, <1>12, <3>1
  <2>2. reader = "woken" => result.bytes <= size /\ result.ec = "ok"
    BY <1>1 DEF Paired, ToldTrue, size
  <2> QED
    BY <1>1, <1>3, <1>7, <2>1, <2>2 DEF ToldTrue
<1>14. Waiting' = Waiting \o New(n)
  <2>1. CASE ~asked
    <3> DEFINE f == SubSeq(m_read_buffer, 1, Held)  u == New(n)  C == 0..StreamBytes
    <3>1. m_read_buffer' = m_read_buffer /\ m_buffer' = m_buffer \o u
      BY <1>2, <2>1 DEF Committed
    <3>2. f \in Seq(C) /\ m_buffer \in Seq(C) /\ u \in Seq(C)
      <4>1. New(n) \in Seq(1..StreamBytes)
        BY <1>2, <1>3, NewBytes, StreamAssumption
      <4> QED
        BY <4>1, HeldFits, BytesOf, StreamAssumption DEF Paired
    <3>3. Waiting' = f \o m_buffer'
      BY <1>12, <2>1, <3>1 DEF Waiting
    <3> HIDE DEF f, u, C
    <3>4. Assoc(f, m_buffer, u)
      BY <3>2, Associates
    <3> QED
      BY <3>1, <3>3, <3>4 DEF Assoc, Waiting, f, u
  <2>2. CASE asked
    <3>1. Waiting' = SubSeq(m_read_buffer', 1, copied) \o m_buffer'
      BY <1>12, <2>2 DEF Waiting
    <3>2. SubSeq(m_read_buffer', 1, copied) \o m_buffer' = m_buffer \o New(n)
      BY <1>2, <2>2 DEF Committed, copied
    <3>3. Waiting = m_buffer
      <4>1. SubSeq(m_read_buffer, 1, 0) = <<>> /\ <<>> \o <<>> = <<>>
        BY BytesOf
      <4> QED
        BY <1>5, <1>12, <2>2, <4>1 DEF Waiting
    <3> QED
      BY <3>1, <3>2, <3>3
  <2> QED
    BY <2>1, <2>2
<1>15. Conveys
  <2>1. accepted' > accepted /\ accepted' \in Nat /\ accepted' - accepted = n
    BY <1>2, <1>3, BytesOf
  <2> QED
    BY <1>1, <1>14, <2>1 DEF Conveys, New
<1> QED
  BY <1>1, <1>9, <1>10, <1>11, <1>13, <1>15 DEF Sound, Paired, EndIsLast

\* Waking the writer, or not, moves its handler into the io_service, or not.
LEMMA WakeStep ==
    ASSUME Typed, Paired, NEW size \in Nat, Stream!cond_wake_writer(size, posted)
    PROVE  /\ posted' \in Seq(Stream!Tasks) /\ Once(posted')
           /\ \A z : Fitting(posted, z) => Fitting(posted', z)
           /\ Has(posted', "cond") <=> Has(posted, "cond")
           /\ \A else : Lent(posted', else) = Lent(posted, else)
           /\ m_current_write_handler' \in {"none", "wrapped"}
           /\ m_current_write_handler' # "none" =>
                m_current_write_handler # "none" /\ size >= StreamThreshold
           /\ m_current_write_handler' # "none" \/ Has(posted', "writer")
                <=> m_current_write_handler # "none" \/ Has(posted, "writer")
           /\ ~(m_current_write_handler' # "none" /\ Has(posted', "writer"))
<1> DEFINE c == Stream!Call("writer", "ok", 0)
<1>1. c \in Stream!Tasks /\ c.to = "writer"
  BY CallIs, StreamAssumption DEF Codes
<1>2. /\ posted \in Seq(Stream!Tasks) /\ Once(posted)
      /\ m_current_write_handler \in {"none", "wrapped"}
      /\ ~(m_current_write_handler # "none" /\ Has(posted, "writer"))
  BY BytesOf DEF Paired, ToldTrue, WriterWakes
<1>3. CASE m_current_write_handler # "none" /\ size <= StreamThreshold
  <2>1. m_current_write_handler' = "none" /\ posted' = Append(posted, c)
    BY <1>2, <1>3 DEF Stream!cond_wake_writer, Stream!Drained
  <2> HIDE DEF c
  <2>2. /\ posted' \in Seq(Stream!Tasks) /\ Once(posted')
        /\ \A z : Fitting(posted, z) => Fitting(posted', z)
        /\ Has(posted', "cond") <=> Has(posted, "cond")
        /\ \A else : Lent(posted', else) = Lent(posted, else)
        /\ Has(posted', "writer")
    BY <1>1, <1>2, <1>3, <2>1, PostOne
  <2> QED
    BY <1>3, <2>1, <2>2
<1>4. CASE ~(m_current_write_handler # "none" /\ size <= StreamThreshold)
  <2>1. UNCHANGED <<m_current_write_handler, posted>>
    BY <1>4 DEF Stream!cond_wake_writer, Stream!Drained
  <2>2. m_current_write_handler # "none" => size >= StreamThreshold
    BY <1>4, StreamAssumption
  <2> QED
    BY <1>2, <2>1, <2>2
<1> QED
  BY <1>3, <1>4

\* In the first pairing no thread waits to write.
LEMMA NoneRoused ==
    ASSUME m_current_write_handler \in {"none", "wrapped"}, NEW size
    PROVE  Stream!Roused(size) = writer
  BY DEF Stream!Roused

\* A reader that neither sleeps nor has been woken has been lent nothing.
LEMMA AwakeHeld ==
    ASSUME Typed, Paired, reader \notin {"asleep", "woken"}
    PROVE  /\ m_current_read_handler = "none" /\ ~Has(posted, "cond") /\ Held = 0
           /\ Waiting = m_buffer /\ Len(got) + Len(m_buffer) = accepted
<1>1. m_current_read_handler = "none" /\ ~Has(posted, "cond")
  BY DEF Paired, ReaderWakes
<1>2. Held = 0
  BY <1>1 DEF Held, Lent
<1>3. SubSeq(m_read_buffer, 1, 0) = <<>> /\ <<>> \o m_buffer = m_buffer
  BY BytesOf
<1> QED
  BY <1>1, <1>2, <1>3, BytesOf DEF Waiting, Paired, ToldTrue

\* A read of an empty buffer whose other end is closed.
LEMMA ReadsEnd ==
    ASSUME Typed, Paired, reader = "idle", m_buffer = <<>>, eof' = TRUE, reader' = "done",
           UNCHANGED <<m_buffer, m_read_buffer, accepted, m_current_read_handler,
                       m_current_write_handler, m_state_read_closed,
                       m_state_write_closed, closed, early, posted, writer, result, got>>
    PROVE  Sound
<1>1. Held = 0 /\ Held' = 0 /\ ~Has(posted, "cond") /\ m_current_read_handler = "none"
  <2>1. Held = 0 /\ ~Has(posted, "cond") /\ m_current_read_handler = "none"
    BY AwakeHeld
  <2> QED
    BY <2>1 DEF Held, Lent
<1>2. Typed'
  BY DEF Typed, Stream!TypeOK
<1>3. Paired'
  BY <1>1 DEF Paired, ReaderWakes, WriterWakes, ToldTrue
<1>4. Conveys
  BY <1>1 DEF Conveys, Waiting
<1>5. EndIsLast
  <2>1. Len(got) + Len(m_buffer) = accepted /\ Len(m_buffer) = 0
    BY AwakeHeld
  <2> QED
    BY <2>1, BytesOf DEF EndIsLast
<1> QED
  BY <1>2, <1>3, <1>4, <1>5 DEF Sound

\* A read of an empty buffer.
LEMMA ReadSleeps ==
    ASSUME Typed, Paired, NEW n \in 1..StreamChunk, reader = "idle", m_buffer = <<>>,
           ~m_state_write_closed, m_read_buffer' = [k \in 1..n |-> 0],
           m_current_read_handler' = "cond", reader' = "asleep",
           UNCHANGED <<m_buffer, accepted, m_current_write_handler, m_state_read_closed,
                       m_state_write_closed, closed, early, posted, writer, result, got, eof>>
    PROVE  Sound
<1>1. /\ Held = 0 /\ Waiting = m_buffer /\ ~Has(posted, "cond")
      /\ m_current_read_handler = "none" /\ Len(got) + Len(m_buffer) = accepted
  BY AwakeHeld
<1>2. Held' = 0
  BY <1>1 DEF Held, Lent
<1>3. m_read_buffer' \in Seq(0..StreamBytes) /\ Len(m_read_buffer') = n /\ n \in Nat
  BY StreamAssumption
<1>4. Typed'
  BY <1>3 DEF Typed, Stream!TypeOK
<1>5. ReaderWakes' /\ WriterWakes'
  BY <1>1 DEF Paired, ReaderWakes, WriterWakes
<1>6. ToldTrue'
  <2>1. Fitting(posted, Len(m_read_buffer'))
    BY <1>1 DEF Paired, ToldTrue, Fitting, Has
  <2>2. Len(got') + Held' + Len(m_buffer') = accepted'
    BY <1>1, <1>2, BytesOf
  <2> QED
    BY <2>1, <2>2 DEF Paired, ToldTrue
<1>7. Waiting' = m_buffer
  <2>1. SubSeq(m_read_buffer', 1, 0) = <<>> /\ <<>> \o m_buffer = m_buffer
    BY <1>3, BytesOf
  <2> QED
    BY <1>2, <2>1 DEF Waiting
<1> QED
  BY <1>1, <1>4, <1>5, <1>6, <1>7 DEF Sound, Paired, Conveys, EndIsLast

\* A read of what is there.
LEMMA Reads ==
    ASSUME Typed, Paired, NEW n \in 1..StreamChunk, reader = "idle", m_buffer # <<>>,
           got' = got \o Stream!First(m_buffer, n), m_buffer' = Stream!Rest(m_buffer, n),
           Stream!cond_wake_writer(Len(m_buffer'), posted),
           writer' = Stream!Roused(Len(m_buffer')),
           UNCHANGED <<m_read_buffer, accepted, m_current_read_handler, reader, eof,
                       m_state_read_closed, m_state_write_closed, closed, early, result>>
    PROVE  Sound
<1> DEFINE m == Stream!Smaller(n, Len(m_buffer))
           B == 1..StreamBytes
           f == SubSeq(m_buffer, 1, m)
           r == SubSeq(m_buffer, m + 1, Len(m_buffer))
<1>1. /\ Held = 0 /\ Waiting = m_buffer /\ ~Has(posted, "cond")
      /\ m_current_read_handler = "none" /\ Len(got) + Len(m_buffer) = accepted
  BY AwakeHeld
<1>2. m \in 1..Len(m_buffer) /\ m \in 0..Len(m_buffer)
  <2>1. Len(m_buffer) \in Nat /\ Len(m_buffer) # 0 /\ n \in Nat /\ n >= 1
    BY BytesOf, StreamAssumption
  <2> QED
    BY <2>1 DEF Stream!Smaller
<1>3. got' = got \o f /\ m_buffer' = r
  BY DEF Stream!First, Stream!Rest
<1> HIDE DEF m
<1>4. /\ f \in Seq(B) /\ r \in Seq(B) /\ Len(f) = m /\ Len(r) = Len(m_buffer) - m
  <2>1. m_buffer \in Seq(B)
    BY BytesOf
  <2> HIDE DEF B
  <2> QED
    BY <1>2, <2>1, CutJoins DEF Parts
<1>5. f \in Seq(0..StreamBytes)
  <2> HIDE DEF f
  <2> QED
    BY <1>4, StreamAssumption
<1> HIDE DEF f, r
<1>6. /\ got' \in Seq(0..StreamBytes) /\ Len(got') = Len(got) + m
      /\ m_buffer' \in Seq(B) /\ Len(m_buffer') = Len(m_buffer) - m
      /\ Len(m_buffer') \in Nat /\ Len(m_buffer') <= accepted
  <2>1. got \o f \in Seq(0..StreamBytes) /\ Len(got \o f) = Len(got) + Len(f)
    BY <1>5, BytesOf, ConcatAt
  <2>2. Len(m_buffer) - m \in Nat /\ Len(m_buffer) - m <= accepted
    BY <1>2, BytesOf
  <2> QED
    BY <1>3, <1>4, <2>1, <2>2
<1>7. /\ posted' \in Seq(Stream!Tasks) /\ Once(posted')
      /\ \A z : Fitting(posted, z) => Fitting(posted', z)
      /\ ~Has(posted', "cond")
      /\ m_current_write_handler' \in {"none", "wrapped"}
      /\ m_current_write_handler' # "none" =>
            m_current_write_handler # "none" /\ Len(m_buffer') >= StreamThreshold
      /\ m_current_write_handler' # "none" \/ Has(posted', "writer")
            <=> m_current_write_handler # "none" \/ Has(posted, "writer")
      /\ ~(m_current_write_handler' # "none" /\ Has(posted', "writer"))
  BY <1>1, <1>6, WakeStep
<1>w. writer' = writer
  BY NoneRoused DEF Paired, WriterWakes
<1>8. Typed'
  <2>1. m_current_write_handler' \in {"none", "cond", "wrapped"}
    BY <1>7
  <2> QED
    BY <1>6, <1>7, <1>w, <2>1 DEF Typed, Stream!TypeOK
<1>9. ReaderWakes'
  BY <1>1, <1>7 DEF Paired, ReaderWakes
<1>10. WriterWakes'
  BY <1>7, <1>w DEF Paired, WriterWakes
<1>11. Held' = 0
  BY <1>7 DEF Held, Lent
<1>12. ToldTrue'
  <2>1. Len(got') + Held' + Len(m_buffer') = accepted'
    BY <1>1, <1>2, <1>6, <1>11, BytesOf
  <2> QED
    BY <1>7, <1>w, <2>1 DEF Paired, ToldTrue
<1>13. Conveys
  <2>1. Waiting' = m_buffer'
    <3>1. SubSeq(m_read_buffer, 1, 0) = <<>> /\ <<>> \o m_buffer' = m_buffer'
      BY <1>6, BytesOf
    <3> QED
      BY <1>11, <3>1 DEF Waiting
  <2> QED
    BY <1>1, <1>2, <1>3, <2>1 DEF Conveys, f, r
<1> QED
  BY <1>8, <1>9, <1>10, <1>12, <1>13 DEF Sound, Paired, EndIsLast

\* The sleeping reader is told what it was lent.
LEMMA CondRuns ==
    ASSUME Typed, Paired, Stream!RunCond
    PROVE  Sound
<1> DEFINE c == Head(posted)  q == Tail(posted)
<1>1. /\ posted # <<>> /\ c.to = "cond" /\ posted' = q
      /\ reader' = IF reader = "asleep" THEN "woken" ELSE reader
      /\ result' = [ec |-> c.ec, bytes |-> c.bytes]
      /\ UNCHANGED <<m_buffer, m_read_buffer, accepted, m_current_read_handler,
                     m_current_write_handler, m_state_read_closed, m_state_write_closed,
                     closed, early, writer, got, eof>>
  BY DEF Stream!RunCond, Stream!Called, Stream!WakeReader, Stream!data, Stream!flags,
         Stream!seen
<1>2. posted \in Seq(Stream!Tasks) /\ Once(posted) /\ Fitting(posted, Len(m_read_buffer))
  BY BytesOf DEF Paired, ToldTrue
<1>3. /\ c \in Stream!Tasks /\ q \in Seq(Stream!Tasks) /\ Once(q)
      /\ Fitting(q, Len(m_read_buffer)) /\ c.ec = "ok" /\ c.bytes <= Len(m_read_buffer)
      /\ Has(posted, "cond") /\ ~Has(q, "cond")
      /\ Has(q, "writer") <=> Has(posted, "writer")
      /\ \A else : Lent(posted, else) = c.bytes
  BY <1>1, <1>2, CallOne
<1> HIDE DEF c, q
<1>w. reader' = "woken"
  BY <1>1, <1>3 DEF Paired, ReaderWakes
<1>4. c.bytes \in 0..StreamBytes
  BY <1>3 DEF Stream!Tasks
<1>5. Held = c.bytes /\ Held' = c.bytes
  <2>1. Held = c.bytes
    BY <1>3 DEF Held
  <2>2. Held' = result'.bytes
    BY <1>1, <1>3, <1>w DEF Held, Lent
  <2> QED
    BY <1>1, <2>1, <2>2
<1>6. Typed'
  BY <1>1, <1>3, <1>4, <1>w DEF Typed, Stream!TypeOK, Codes
<1>7. ReaderWakes' /\ WriterWakes'
  BY <1>1, <1>3, <1>w DEF Paired, ReaderWakes, WriterWakes
<1>8. ToldTrue'
  BY <1>1, <1>3, <1>5, <1>w DEF Paired, ToldTrue
<1> QED
  BY <1>1, <1>5, <1>6, <1>7, <1>8 DEF Sound, Paired, Conveys, EndIsLast, Waiting

\* The writer's handler is called.
LEMMA WriterRuns ==
    ASSUME Typed, Paired, Stream!RunWriter
    PROVE  Sound
<1> DEFINE c == Head(posted)  q == Tail(posted)
<1>1. /\ posted # <<>> /\ c.to = "writer" /\ posted' = q /\ writer' \in {"idle", "done"}
      /\ UNCHANGED <<m_buffer, m_read_buffer, accepted, m_current_read_handler,
                     m_current_write_handler, m_state_read_closed, m_state_write_closed,
                     closed, early, reader, result, got, eof>>
  BY DEF Stream!RunWriter, Stream!Called, Stream!data, Stream!flags, Stream!seen
<1>2. posted \in Seq(Stream!Tasks) /\ Once(posted) /\ Fitting(posted, Len(m_read_buffer))
  BY BytesOf DEF Paired, ToldTrue
<1>3. /\ q \in Seq(Stream!Tasks) /\ Once(q) /\ Fitting(q, Len(m_read_buffer))
      /\ Has(posted, "writer") /\ ~Has(q, "writer")
      /\ Has(q, "cond") <=> Has(posted, "cond")
      /\ \A else : Lent(q, else) = Lent(posted, else)
  BY <1>1, <1>2, CallOne
<1> HIDE DEF c, q
<1>4. Held' = Held
  BY <1>1, <1>3 DEF Held
<1>5. writer = "waiting" /\ m_current_write_handler = "none"
  BY <1>3 DEF Paired, WriterWakes
<1>6. Typed'
  BY <1>1, <1>3 DEF Typed, Stream!TypeOK
<1>7. ReaderWakes' /\ WriterWakes'
  BY <1>1, <1>3, <1>5 DEF Paired, ReaderWakes, WriterWakes
<1>8. ToldTrue'
  BY <1>1, <1>3, <1>4, <1>5 DEF Paired, ToldTrue
<1> QED
  BY <1>1, <1>4, <1>6, <1>7, <1>8 DEF Sound, Paired, Conveys, EndIsLast, Waiting

\* The thread wakes and sees what it was lent, or the end.
LEMMA Returns ==
    ASSUME Typed, Paired, early = 0, Stream!ReaderReturns
    PROVE  Sound
<1> DEFINE f == SubSeq(m_read_buffer, 1, Held)
           C == 0..StreamBytes
<1>w. /\ reader = "woken" /\ Stream!Return(result) /\ UNCHANGED early
      /\ result.bytes \in Nat /\ result.bytes <= Len(m_read_buffer)
  BY StreamAssumption DEF Stream!ReaderReturns, Typed, Paired, ToldTrue
<1>s. Stream!First(m_read_buffer, result.bytes) = SubSeq(m_read_buffer, 1, result.bytes)
  BY <1>w, BytesOf DEF Stream!First, Stream!Smaller
<1>1. /\ reader = "woken" /\ got' = got \o SubSeq(m_read_buffer, 1, result.bytes)
      /\ eof' = (result.ec = "eof") /\ reader' = (IF result.ec = "ok" THEN "idle" ELSE "done")
      /\ UNCHANGED <<m_buffer, m_read_buffer, accepted, m_current_read_handler,
                     m_current_write_handler, m_state_read_closed, m_state_write_closed,
                     closed, early, posted, writer, result>>
  BY <1>w, <1>s DEF Stream!Return, Stream!data
<1>2. m_current_read_handler = "none" /\ ~Has(posted, "cond")
  BY <1>1 DEF Paired, ReaderWakes
<1>3. Held = result.bytes /\ Held' = 0
  BY <1>1, <1>2 DEF Held, Lent
<1>4. /\ Held \in Nat /\ f \in Seq(C) /\ Len(f) = Held /\ got \in Seq(C)
      /\ m_buffer \in Seq(C) /\ Len(m_buffer) \in Nat /\ Len(got) \in Nat
      /\ Len(got) + Held + Len(m_buffer) = accepted
  BY HeldFits, BytesOf DEF Paired, ToldTrue
<1>5. got' = got \o f
  BY <1>1, <1>3
<1>6. Waiting = f \o m_buffer
  BY DEF Waiting
<1>7. Waiting' = m_buffer
  <2>1. SubSeq(m_read_buffer, 1, 0) = <<>> /\ <<>> \o m_buffer = m_buffer
    BY BytesOf
  <2> QED
    BY <1>1, <1>3, <2>1 DEF Waiting
<1> HIDE DEF f
<1>8. got' \in Seq(C) /\ Len(got') = Len(got) + Held
  BY <1>4, <1>5, ConcatAt
<1>9. Typed'
  BY <1>1, <1>8 DEF Typed, Stream!TypeOK
<1>10. ReaderWakes' /\ WriterWakes'
  BY <1>1, <1>2 DEF Paired, ReaderWakes, WriterWakes
<1>11. ToldTrue'
  <2>1. Len(got') + Held' + Len(m_buffer') = accepted'
    BY <1>1, <1>3, <1>4, <1>8
  <2> QED
    BY <1>1, <2>1 DEF Paired, ToldTrue
<1>12. Conveys
  <2>1. CASE Held = 0
    <3>1. f = <<>>
      BY <1>4, <2>1
    <3>2. got \o <<>> = got /\ <<>> \o m_buffer = m_buffer
      BY <1>4
    <3> QED
      BY <1>1, <1>5, <1>6, <1>7, <3>1, <3>2 DEF Conveys
  <2>2. CASE Held # 0
    <3> DEFINE w == f \o m_buffer
    <3>1. Behinds(w, f, m_buffer)
      <4> HIDE DEF C
      <4> QED
        BY <1>4, CutBoth
    <3>2. Len(f) \in 1..Len(w)
      BY <1>4, <2>2, <3>1 DEF Behinds
    <3>3. Waiting = w
      BY <1>6
    <3> HIDE DEF w
    <3>4. SubSeq(w, 1, Len(f)) = f /\ SubSeq(w, Len(f) + 1, Len(w)) = m_buffer
      BY <3>1 DEF Behinds
    <3>5. /\ got' = got \o SubSeq(Waiting, 1, Len(f))
          /\ Waiting' = SubSeq(Waiting, Len(f) + 1, Len(Waiting))
      BY <1>5, <1>7, <3>3, <3>4
    <3> QED
      BY <1>1, <3>2, <3>3, <3>5 DEF Conveys
  <2> QED
    BY <2>1, <2>2
<1>13. EndIsLast
  <2>1. CASE eof'
    <3>1. Held = 0 /\ m_buffer = <<>>
      BY <1>1, <1>3, <2>1 DEF Paired, ToldTrue
    <3> QED
      BY <1>1, <1>4, <1>8, <3>1 DEF EndIsLast
  <2> QED
    BY <2>1 DEF EndIsLast
<1> QED
  BY <1>9, <1>10, <1>11, <1>12, <1>13 DEF Sound, Paired

\* The writer closes, and a sleeping reader is told the end.
LEMMA WriterEnds ==
    ASSUME Typed, Paired, NEW type \in {"send", "both"}, Stream!WriterCloses(type)
    PROVE  Sound
<1>1. /\ writer = "idle" /\ writer' = "done" /\ m_current_write_handler = "none"
      /\ closed' = TRUE /\ m_state_write_closed' = TRUE
      /\ m_state_read_closed' = (m_state_read_closed \/ type # "send")
      /\ Stream!shutdown(type) /\ early' = early
      /\ UNCHANGED <<m_buffer, m_read_buffer, accepted, got, eof>>
  BY DEF Stream!WriterCloses, Stream!shutdown, Stream!data, Stream!seen, Paired,
         WriterWakes
<1>2. posted' = posted /\ m_current_write_handler' = m_current_write_handler
  BY <1>1 DEF Stream!shutdown, Stream!cond_wake_writer, Stream!Drained, Paired, ReaderWakes
<1>3. ~Has(posted, "writer")
  BY <1>1 DEF Paired, WriterWakes
<1>4. CASE m_current_read_handler # "none"
  <2>1. /\ m_current_read_handler' = "none" /\ reader' = "woken"
        /\ result' = [ec |-> "eof", bytes |-> 0]
    BY <1>1, <1>4 DEF Stream!WriterCloses, Stream!shutdown, Stream!Ends, Paired, ReaderWakes
  <2>2. /\ reader = "asleep" /\ m_buffer = <<>> /\ ~Has(posted, "cond")
    BY <1>4 DEF Paired, ReaderWakes
  <2>3. Held = 0 /\ Held' = 0
    BY <1>2, <2>1, <2>2 DEF Held, Lent
  <2>4. Typed'
    BY <1>1, <1>2, <2>1, StreamAssumption DEF Typed, Stream!TypeOK, Codes
  <2>5. ReaderWakes' /\ WriterWakes'
    BY <1>1, <1>2, <1>3, <2>1, <2>2 DEF Paired, ReaderWakes, WriterWakes
  <2>6. ToldTrue'
    BY <1>1, <1>2, <2>1, <2>2, <2>3, BytesOf DEF Paired, ToldTrue
  <2> QED
    BY <1>1, <2>3, <2>4, <2>5, <2>6 DEF Sound, Paired, Conveys, EndIsLast, Waiting
<1>5. CASE m_current_read_handler = "none"
  <2>1. UNCHANGED <<m_current_read_handler, reader, result>>
    BY <1>5 DEF Stream!WriterCloses, Stream!shutdown, Stream!Ends
  <2>2. Held' = Held
    BY <1>2, <2>1 DEF Held
  <2>3. Typed'
    BY <1>1, <1>2, <2>1 DEF Typed, Stream!TypeOK
  <2>4. ReaderWakes' /\ WriterWakes'
    BY <1>1, <1>2, <1>3, <1>5, <2>1 DEF Paired, ReaderWakes, WriterWakes
  <2>5. ToldTrue'
    BY <1>1, <1>2, <2>1, <2>2 DEF Paired, ToldTrue
  <2> QED
    BY <1>1, <2>2, <2>3, <2>4, <2>5 DEF Sound, Paired, Conveys, EndIsLast, Waiting
<1> QED
  BY <1>4, <1>5

\* The reader closes, and a sleeping writer is woken.
LEMMA ReaderEnds ==
    ASSUME Typed, Paired, NEW type \in {"receive", "both"}, Stream!ReaderCloses(type)
    PROVE  Sound
<1>w. reader = "idle" /\ m_current_read_handler = "none" /\ m_current_write_handler \in {"none", "wrapped"}
  BY AwakeHeld DEF Stream!ReaderCloses, Paired, WriterWakes
<1>1. /\ reader = "idle" /\ reader' = "done" /\ m_current_read_handler = "none"
      /\ closed' = (closed \/ type # "receive")
      /\ m_state_write_closed' = (m_state_write_closed \/ type # "receive")
      /\ m_state_read_closed' = TRUE
      /\ Stream!cond_wake_writer(Len(m_buffer), posted)
      /\ UNCHANGED <<m_buffer, m_read_buffer, accepted, m_current_read_handler, got, eof,
                     result, early, writer>>
  BY <1>w, NoneRoused
     DEF Stream!ReaderCloses, Stream!shutdown, Stream!Ends, Stream!data, Stream!seen
<1>2. Held = 0 /\ ~Has(posted, "cond")
  BY <1>1, AwakeHeld
<1>3. /\ posted' \in Seq(Stream!Tasks) /\ Once(posted')
      /\ \A z : Fitting(posted, z) => Fitting(posted', z)
      /\ ~Has(posted', "cond")
      /\ m_current_write_handler' \in {"none", "wrapped"}
      /\ m_current_write_handler' # "none" =>
            m_current_write_handler # "none" /\ Len(m_buffer) >= StreamThreshold
      /\ m_current_write_handler' # "none" \/ Has(posted', "writer")
            <=> m_current_write_handler # "none" \/ Has(posted, "writer")
      /\ ~(m_current_write_handler' # "none" /\ Has(posted', "writer"))
  BY <1>1, <1>2, BytesOf, WakeStep
<1>4. Held' = 0
  BY <1>1, <1>3 DEF Held, Lent
<1>5. Typed'
  <2>1. m_current_write_handler' \in {"none", "cond", "wrapped"}
    BY <1>3
  <2> QED
    BY <1>1, <1>3, <2>1 DEF Typed, Stream!TypeOK
<1>6. ReaderWakes' /\ WriterWakes'
  BY <1>1, <1>3 DEF Paired, ReaderWakes, WriterWakes
<1>7. ToldTrue'
  BY <1>1, <1>2, <1>3, <1>4 DEF Paired, ToldTrue
<1> QED
  BY <1>1, <1>2, <1>4, <1>5, <1>6, <1>7 DEF Sound, Paired, Conveys, EndIsLast, Waiting

\* Every step of the first pairing.
LEMMA PairedStep ==
    ASSUME Typed, Paired, early' = 0, Stream!Next
    PROVE  Sound
<1>1. ASSUME NEW n \in 1..StreamChunk, Stream!async_write_some(n)
      PROVE  Sound
  BY <1>1, RefusedWrite, Write
<1>2. ASSUME NEW n \in 1..StreamChunk, Stream!read_some(n)
      PROVE  Sound
  <2> USE DEF Stream!data, Stream!flags, Stream!seen
  <2>1. CASE m_buffer = <<>> /\ m_state_write_closed
    BY <1>2, <2>1, ReadsEnd DEF Stream!read_some
  <2>2. CASE m_buffer = <<>> /\ ~m_state_write_closed
    BY <1>2, <2>2, ReadSleeps DEF Stream!read_some
  <2>3. CASE m_buffer # <<>>
    BY <1>2, <2>3, Reads DEF Stream!read_some
  <2> QED
    BY <2>1, <2>2, <2>3
<1>3. ASSUME Stream!ReaderReturns
      PROVE  Sound
  BY <1>3, Returns DEF Stream!ReaderReturns
<1>4. ~Stream!ReturnsEarly
  BY DEF Stream!ReturnsEarly, Typed, Stream!TypeOK
<1> QED
  BY <1>1, <1>2, <1>3, <1>4, CondRuns, WriterRuns, WriterEnds, ReaderEnds DEF Stream!Next
-----------------------------------------------------------------------------
(* The steps of the first pairing, after a read has returned early *)

Calls(q) == q \in Seq(Stream!Tasks) /\ Single(q) /\ \A k \in 1..Len(q) : q[k].to # "reader"

\* One call more is posted, of the writer if none of its is.
LEMMA PostSteady ==
    ASSUME NEW q, Calls(q), NEW c \in Stream!Tasks, c.to # "reader",
           c.to = "writer" => ~Has(q, "writer")
    PROVE  /\ Calls(Append(q, c))
           /\ Has(Append(q, c), "writer") <=> Has(q, "writer") \/ c.to = "writer"
<1> DEFINE r == Append(q, c)
<1>1. /\ r \in Seq(Stream!Tasks) /\ Len(r) = Len(q) + 1 /\ Len(q) \in Nat
      /\ r[Len(q) + 1] = c /\ \A k \in 1..Len(q) : r[k] = q[k]
  BY DEF Calls
<1>2. Has(r, "writer") <=> Has(q, "writer") \/ c.to = "writer"
  BY PostOne DEF Calls
<1> HIDE DEF r
<1>3. \A k \in 1..Len(r) : k \in 1..Len(q) \/ k = Len(q) + 1
  BY <1>1
<1>4. \A k \in 1..Len(r) : r[k].to # "reader"
  BY <1>1, <1>3 DEF Calls
<1>5. Single(r)
  <2>1. c.to = "writer" => \A k \in 1..Len(q) : q[k].to # "writer"
    BY DEF Has
  <2> QED
    BY <1>1, <1>3, <2>1 DEF Single, Calls
<1> QED
  BY <1>1, <1>2, <1>4, <1>5 DEF Calls, r

\* The oldest call is taken.
LEMMA CallSteady ==
    ASSUME NEW q, Calls(q), q # <<>>
    PROVE  /\ Calls(Tail(q)) /\ Head(q) \in Stream!Tasks
           /\ Has(q, "writer") <=> Has(Tail(q), "writer") \/ Head(q).to = "writer"
           /\ Head(q).to = "writer" => ~Has(Tail(q), "writer")
<1> DEFINE r == Tail(q)  c == Head(q)
<1>1. /\ r \in Seq(Stream!Tasks) /\ Len(r) = Len(q) - 1 /\ Len(q) \in Nat /\ Len(q) >= 1
      /\ c = q[1] /\ c \in Stream!Tasks /\ \A k \in 1..Len(r) : r[k] = q[k + 1]
  BY CalledOne, Zenon DEF Calls
<1> HIDE DEF r, c
<1>2. \A k \in 1..Len(q) : k = 1 \/ (k - 1 \in 1..Len(r) /\ r[k - 1] = q[k])
  BY <1>1
<1>3. \A k \in 1..Len(r) : k + 1 \in 1..Len(q) /\ k + 1 # 1
  BY <1>1
<1>4. 1 \in 1..Len(q)
  BY <1>1
<1>5. Has(q, "writer") <=> Has(r, "writer") \/ c.to = "writer"
  <2>1. ASSUME Has(q, "writer")
        PROVE  Has(r, "writer") \/ c.to = "writer"
    BY <1>1, <1>2, <2>1 DEF Has
  <2>2. ASSUME Has(r, "writer")
        PROVE  Has(q, "writer")
    BY <1>1, <1>3, <2>2 DEF Has
  <2> QED
    BY <1>1, <1>4, <2>1, <2>2 DEF Has
<1>6. Single(r)
  <2>1. ASSUME NEW i \in 1..Len(r), NEW k \in 1..Len(r), r[i].to = "writer", r[k].to = "writer"
        PROVE  i = k
    <3>1. i + 1 = k + 1
      BY <1>1, <1>3, <2>1 DEF Single, Calls
    <3> QED
      BY <3>1
  <2> QED
    BY <2>1 DEF Single
<1>7. c.to = "writer" => ~Has(r, "writer")
  <2>1. ASSUME c.to = "writer", NEW k \in 1..Len(r), r[k].to = "writer"
        PROVE  FALSE
    <3>1. k + 1 = 1
      BY <1>1, <1>3, <1>4, <2>1 DEF Single, Calls
    <3> QED
      BY <1>3, <3>1
  <2> QED
    BY <2>1 DEF Has
<1>8. \A k \in 1..Len(r) : r[k].to # "reader"
  BY <1>1, <1>3 DEF Calls
<1> QED
  BY <1>1, <1>5, <1>6, <1>7, <1>8 DEF Calls, r, c

\* The writer's part, with the calls.
LEMMA SteadyIs ==
    ASSUME Typed
    PROVE  /\ Steady <=> /\ m_current_read_handler # "wrapped" /\ WriterWakes /\ Calls(posted)
           /\ Typed' => (Steady' <=> /\ m_current_read_handler' # "wrapped" /\ WriterWakes'
                                     /\ Calls(posted'))
  BY DEF Steady, Calls, Typed, Stream!TypeOK

\* The writer is woken, or not.
LEMMA SteadyWakes ==
    ASSUME Typed, Steady, NEW size \in Nat, Stream!cond_wake_writer(size, posted)
    PROVE  /\ Calls(posted')
           /\ m_current_write_handler' \in {"none", "wrapped"}
           /\ m_current_write_handler' # "none" =>
                m_current_write_handler # "none" /\ size >= StreamThreshold
           /\ m_current_write_handler' # "none" \/ Has(posted', "writer")
                <=> m_current_write_handler # "none" \/ Has(posted, "writer")
           /\ ~(m_current_write_handler' # "none" /\ Has(posted', "writer"))
           /\ \A z : Stream!Roused(z) = writer
<1> DEFINE c == Stream!Call("writer", "ok", 0)
<1>1. c \in Stream!Tasks /\ c.to = "writer"
  BY CallIs, StreamAssumption DEF Codes
<1>2. /\ Calls(posted) /\ m_current_write_handler \in {"none", "wrapped"}
      /\ ~(m_current_write_handler # "none" /\ Has(posted, "writer"))
  BY SteadyIs DEF WriterWakes
<1>3. CASE m_current_write_handler # "none" /\ size <= StreamThreshold
  <2>1. m_current_write_handler' = "none" /\ posted' = Append(posted, c)
    BY <1>2, <1>3 DEF Stream!cond_wake_writer, Stream!Drained
  <2> HIDE DEF c
  <2>2. Calls(posted') /\ Has(posted', "writer")
    BY <1>1, <1>2, <1>3, <2>1, PostSteady
  <2> QED
    BY <1>2, <1>3, <2>1, <2>2, NoneRoused
<1>4. CASE ~(m_current_write_handler # "none" /\ size <= StreamThreshold)
  <2>1. UNCHANGED <<m_current_write_handler, posted>>
    BY <1>4 DEF Stream!cond_wake_writer, Stream!Drained
  <2>2. m_current_write_handler # "none" => size >= StreamThreshold
    BY <1>4, StreamAssumption
  <2> QED
    BY <1>2, <2>1, <2>2, NoneRoused
<1> QED
  BY <1>3, <1>4

\* A write, refused or not.
LEMMA SteadyWrite ==
    ASSUME Typed, Steady, NEW n \in 1..StreamChunk, Stream!async_write_some(n)
    PROVE  Typed' /\ Steady'
<1>1. /\ Calls(posted) /\ m_current_write_handler = "none" /\ ~Has(posted, "writer")
      /\ m_current_read_handler # "wrapped"
      /\ writer' = "waiting"
      /\ UNCHANGED <<m_state_read_closed, m_state_write_closed, closed, early, reader,
                     result, got, eof>>
  BY SteadyIs DEF WriterWakes, Stream!async_write_some, Stream!flags, Stream!seen
<1>2. CASE m_state_read_closed
  <2> DEFINE c == Stream!Call("writer", "broken_pipe", 0)
  <2>1. /\ posted' = Append(posted, c)
        /\ UNCHANGED <<m_buffer, m_read_buffer, accepted, m_current_read_handler,
                       m_current_write_handler>>
    BY <1>2 DEF Stream!async_write_some, Stream!data
  <2>2. c \in Stream!Tasks /\ c.to = "writer"
    BY CallIs, StreamAssumption DEF Codes
  <2> HIDE DEF c
  <2>3. Calls(posted') /\ Has(posted', "writer")
    BY <1>1, <2>1, <2>2, PostSteady
  <2>4. Typed'
    BY <1>1, <2>1, <2>3 DEF Typed, Stream!TypeOK, Calls
  <2> QED
    BY <1>1, <2>1, <2>3, <2>4, SteadyIs DEF WriterWakes
<1>3. CASE ~m_state_read_closed
  <2> DEFINE lend == Stream!Call("cond", "ok", Stream!Copied(n))
             done == Stream!Call("writer", "ok", n)
             told == IF m_current_read_handler = "none" THEN posted ELSE Append(posted, lend)
  <2>1. /\ m_current_read_handler' = "none"
        /\ \/ /\ Len(m_buffer') >= StreamThreshold /\ m_current_write_handler' = "wrapped"
              /\ posted' = told
           \/ /\ posted' = Append(told, done) /\ UNCHANGED m_current_write_handler
    BY <1>3 DEF Stream!async_write_some, Stream!Lent
  <2>2. Committed(n) /\ n \in Nat
    <3>1. Stream!Commit(n)
      BY <1>3 DEF Stream!async_write_some
    <3> QED
      BY <3>1, CommitStep, StreamAssumption
  <2>3. n \in 0..StreamBytes /\ Stream!Copied(n) \in 0..StreamBytes
    <3>1. /\ Stream!Copied(n) \in Nat /\ Stream!Copied(n) <= Len(m_buffer) + n
          /\ Len(m_buffer) <= accepted /\ accepted \in Nat /\ Len(m_buffer) \in Nat
      BY <2>2, CopiedIs, BytesOf
    <3>2. accepted' = accepted + n /\ accepted' \in 0..StreamBytes
      BY <2>2 DEF Committed
    <3> QED
      BY <2>2, <3>1, <3>2, StreamAssumption
  <2>4. /\ lend \in Stream!Tasks /\ lend.to = "cond"
        /\ done \in Stream!Tasks /\ done.to = "writer"
    BY <2>3, CallIs DEF Codes
  <2> HIDE DEF lend, done
  <2>5. Calls(told) /\ ~Has(told, "writer")
    BY <1>1, <2>4, PostSteady
  <2> HIDE DEF told
  <2>6. Calls(posted') /\ (Has(posted', "writer") <=> m_current_write_handler' = "none")
    <3>1. CASE posted' = told /\ m_current_write_handler' = "wrapped"
      BY <2>5, <3>1
    <3>2. CASE posted' = Append(told, done) /\ UNCHANGED m_current_write_handler
      <4>1. Calls(Append(told, done)) /\ Has(Append(told, done), "writer")
        BY <2>4, <2>5, PostSteady
      <4> QED
        BY <1>1, <3>2, <4>1
    <3> QED
      BY <2>1, <3>1, <3>2
  <2>7. Typed'
    BY <1>1, <2>1, <2>2, <2>6 DEF Typed, Stream!TypeOK, Calls, Committed
  <2> QED
    BY <1>1, <2>1, <2>6, <2>7, SteadyIs DEF WriterWakes
<1> QED
  BY <1>2, <1>3

\* A read: the end, asleep, or what is there.
LEMMA SteadyRead ==
    ASSUME Typed, Steady, NEW n \in 1..StreamChunk, Stream!read_some(n)
    PROVE  Typed' /\ Steady'
<1> USE DEF Stream!data, Stream!flags, Stream!seen
<1>1. CASE m_buffer = <<>> /\ m_state_write_closed
  <2>1. /\ eof' = TRUE /\ reader' = "done"
        /\ UNCHANGED <<m_buffer, m_read_buffer, accepted, m_state_read_closed,
                       m_state_write_closed, closed, early, m_current_read_handler,
                       m_current_write_handler, posted, writer, result, got>>
    BY <1>1 DEF Stream!read_some
  <2>2. Typed'
    BY <2>1 DEF Typed, Stream!TypeOK
  <2> QED
    BY <2>1, <2>2 DEF Steady, WriterWakes
<1>2. CASE m_buffer = <<>> /\ ~m_state_write_closed
  <2>1. /\ m_read_buffer' = [k \in 1..n |-> 0] /\ m_current_read_handler' = "cond"
        /\ reader' = "asleep"
        /\ UNCHANGED <<m_buffer, accepted, m_state_read_closed,
                       m_state_write_closed, closed, early,
                       m_current_write_handler, posted, writer, result, got, eof>>
    BY <1>2 DEF Stream!read_some
  <2>2. m_read_buffer' \in Seq(0..StreamBytes)
    BY <2>1, StreamAssumption
  <2>3. Typed'
    BY <2>1, <2>2 DEF Typed, Stream!TypeOK
  <2> QED
    BY <2>1, <2>3 DEF Steady, WriterWakes
<1>3. CASE m_buffer # <<>>
  <2>1. /\ got' = got \o Stream!First(m_buffer, n) /\ m_buffer' = Stream!Rest(m_buffer, n)
        /\ Stream!cond_wake_writer(Len(m_buffer'), posted)
        /\ writer' = Stream!Roused(Len(m_buffer'))
        /\ UNCHANGED <<m_read_buffer, accepted, m_current_read_handler, reader, eof,
                       m_state_read_closed, m_state_write_closed, closed, early, result>>
    BY <1>3 DEF Stream!read_some
  <2> DEFINE m == Stream!Smaller(n, Len(m_buffer))
             B == 1..StreamBytes
             f == SubSeq(m_buffer, 1, m)
             r == SubSeq(m_buffer, m + 1, Len(m_buffer))
  <2>2. m \in 0..Len(m_buffer)
    BY BytesOf, StreamAssumption DEF Stream!Smaller
  <2>3. got' = got \o f /\ m_buffer' = r
    BY <2>1 DEF Stream!First, Stream!Rest
  <2> HIDE DEF m
  <2>4. /\ f \in Seq(B) /\ r \in Seq(B) /\ Len(r) = Len(m_buffer) - m
    <3>1. m_buffer \in Seq(B)
      BY BytesOf
    <3> HIDE DEF B
    <3> QED
      BY <2>2, <3>1, CutJoins DEF Parts
  <2> HIDE DEF f, r
  <2>5. f \in Seq(0..StreamBytes)
    BY <2>4, StreamAssumption
  <2>6. /\ got' \in Seq(0..StreamBytes) /\ m_buffer' \in Seq(B)
        /\ Len(m_buffer') \in Nat /\ Len(m_buffer') <= accepted
    <3>1. got \o f \in Seq(0..StreamBytes)
      BY <2>5, BytesOf, ConcatAt
    <3>2. Len(m_buffer) - m \in Nat /\ Len(m_buffer) - m <= accepted
      BY <2>2, BytesOf
    <3> QED
      BY <2>3, <2>4, <3>1, <3>2
  <2>7. /\ Calls(posted') /\ writer' = writer
        /\ m_current_write_handler' \in {"none", "wrapped"}
        /\ m_current_write_handler' # "none" =>
            m_current_write_handler # "none" /\ Len(m_buffer') >= StreamThreshold
        /\ m_current_write_handler' # "none" \/ Has(posted', "writer")
            <=> m_current_write_handler # "none" \/ Has(posted, "writer")
        /\ ~(m_current_write_handler' # "none" /\ Has(posted', "writer"))
    BY <2>1, <2>6, SteadyWakes
  <2>8. Typed'
    BY <2>1, <2>6, <2>7 DEF Typed, Stream!TypeOK, Calls
  <2>9. WriterWakes'
    BY <2>7 DEF Steady, WriterWakes
  <2> QED
    BY <2>1, <2>7, <2>8, <2>9, SteadyIs
<1> QED
  BY <1>1, <1>2, <1>3

\* A call that was posted.
LEMMA SteadyRuns ==
    ASSUME Typed, Steady, Stream!RunCond \/ Stream!RunWriter
    PROVE  Typed' /\ Steady'
<1> DEFINE c == Head(posted)  q == Tail(posted)
<1>1. /\ posted # <<>> /\ posted' = q /\ c.to \in {"cond", "writer"}
      /\ c.to = "cond" => writer' = writer
      /\ writer' \in {writer, "idle", "done"}
      /\ c.to = "writer" => writer' \in {"idle", "done"}
      /\ reader' \in {reader, "woken"}
      /\ result' \in {result, [ec |-> c.ec, bytes |-> c.bytes]}
      /\ UNCHANGED <<m_buffer, m_read_buffer, accepted, m_current_read_handler,
                     m_current_write_handler, m_state_read_closed, m_state_write_closed,
                     closed, early, got, eof>>
  BY DEF Stream!RunCond, Stream!RunWriter, Stream!Called, Stream!WakeReader, Stream!data,
         Stream!flags, Stream!seen
<1>2. /\ Calls(q) /\ c \in Stream!Tasks
      /\ Has(posted, "writer") <=> Has(q, "writer") \/ c.to = "writer"
      /\ c.to = "writer" => ~Has(q, "writer")
  BY <1>1, SteadyIs, CallSteady
<1> HIDE DEF c, q
<1>3. result' \in [ec : Codes, bytes : 0..StreamBytes]
  BY <1>1, <1>2 DEF Typed, Stream!Tasks, Codes
<1>4. Typed'
  BY <1>1, <1>2, <1>3 DEF Typed, Stream!TypeOK, Calls
<1>5. WriterWakes'
  BY <1>1, <1>2 DEF Steady, WriterWakes
<1> QED
  BY <1>1, <1>2, <1>4, <1>5, SteadyIs

\* A read returns, early or not.
LEMMA SteadyReturns ==
    ASSUME Typed, Steady, Stream!ReaderReturns \/ Stream!ReturnsEarly
    PROVE  Typed' /\ Steady'
<1>1. early' \in 0..StreamEarly
  BY StreamAssumption DEF Stream!ReaderReturns, Stream!ReturnsEarly, Typed, Stream!TypeOK
<1>2. PICK told : told.bytes \in Nat /\ Stream!Return(told)
  <2>1. result.bytes \in Nat /\ Len(m_read_buffer) \in Nat
    BY BytesOf, StreamAssumption DEF Typed
  <2>2. \A told \in Stream!Unset : told.bytes \in Nat
    BY <2>1 DEF Stream!Unset
  <2>3. CASE Stream!ReaderReturns
    <3>1. PICK told \in IF early = 0 THEN {result} ELSE Stream!Unset : Stream!Return(told)
      BY <2>3 DEF Stream!ReaderReturns
    <3> QED
      BY <2>1, <2>2, <3>1
  <2>4. CASE Stream!ReturnsEarly
    BY <2>2, <2>4 DEF Stream!ReturnsEarly
  <2> QED
    BY <2>3, <2>4
<1>3. /\ got' = got \o Stream!First(m_read_buffer, told.bytes) /\ eof' \in BOOLEAN
      /\ reader' \in {"idle", "done"}
      /\ UNCHANGED <<m_buffer, m_read_buffer, accepted, m_state_read_closed,
                     m_state_write_closed, closed, m_current_read_handler,
                     m_current_write_handler, posted, writer, result>>
  BY <1>2 DEF Stream!Return, Stream!data
<1>4. got' \in Seq(0..StreamBytes)
  <2> DEFINE m == Stream!Smaller(told.bytes, Len(m_read_buffer))  C == 0..StreamBytes
  <2>1. m \in 0..Len(m_read_buffer) /\ m_read_buffer \in Seq(C)
    BY <1>2, BytesOf DEF Stream!Smaller
  <2>2. Stream!First(m_read_buffer, told.bytes) = SubSeq(m_read_buffer, 1, m)
    BY DEF Stream!First
  <2> HIDE DEF m, C
  <2>3. SubSeq(m_read_buffer, 1, m) \in Seq(C)
    BY <2>1, CutJoins DEF Parts
  <2>4. got \in Seq(C)
    BY BytesOf DEF C
  <2>5. got' \in Seq(C)
    BY <1>3, <2>2, <2>3, <2>4, ConcatAt
  <2> QED
    BY <2>5 DEF C
<1>5. Typed'
  BY <1>1, <1>3, <1>4 DEF Typed, Stream!TypeOK
<1> QED
  BY <1>3, <1>5 DEF Steady, WriterWakes

\* One end closes.
LEMMA SteadyEnds ==
    ASSUME Typed, Steady, NEW type \in {"send", "receive", "both"},
           Stream!WriterCloses(type) \/ Stream!ReaderCloses(type)
    PROVE  Typed' /\ Steady'
<1>1. /\ Stream!shutdown(type) /\ reader' \in {reader, "woken", "done"}
      /\ \/ writer = "idle" /\ writer' = "done"
         \/ writer' = Stream!Roused(Len(m_buffer))
  BY DEF Stream!WriterCloses, Stream!ReaderCloses
<1>2. m_current_read_handler # "wrapped"
  BY DEF Steady
<1>3. /\ {m_state_read_closed', m_state_write_closed', closed'} \subseteq BOOLEAN
      /\ m_current_read_handler' \in {m_current_read_handler, "none"}
      /\ result' \in {result, [ec |-> "eof", bytes |-> 0]}
      /\ Stream!cond_wake_writer(Len(m_buffer), posted)
      /\ UNCHANGED <<m_buffer, m_read_buffer, accepted, got, eof, early>>
  BY <1>1, <1>2 DEF Stream!shutdown, Stream!data, Stream!seen, Typed, Stream!TypeOK
<1>4. /\ Calls(posted') /\ Stream!Roused(Len(m_buffer)) = writer
      /\ m_current_write_handler' \in {"none", "wrapped"}
      /\ m_current_write_handler' # "none" =>
            m_current_write_handler # "none" /\ Len(m_buffer) >= StreamThreshold
      /\ m_current_write_handler' # "none" \/ Has(posted', "writer")
            <=> m_current_write_handler # "none" \/ Has(posted, "writer")
      /\ ~(m_current_write_handler' # "none" /\ Has(posted', "writer"))
  BY <1>3, BytesOf, SteadyWakes
<1>5. writer' = writer \/ (writer = "idle" /\ writer' = "done")
  BY <1>1, <1>4
<1>6. result' \in [ec : Codes, bytes : 0..StreamBytes]
  BY <1>3, StreamAssumption DEF Typed, Codes
<1>7. Typed'
  BY <1>1, <1>3, <1>4, <1>5, <1>6 DEF Typed, Stream!TypeOK, Calls
<1>8. WriterWakes'
  BY <1>3, <1>4, <1>5 DEF Steady, WriterWakes
<1> QED
  BY <1>2, <1>3, <1>4, <1>7, <1>8, SteadyIs

\* Every step of the first pairing, as far as the writer is concerned.
LEMMA SteadyStep ==
    ASSUME Typed, Steady, Stream!Next
    PROVE  Typed' /\ Steady'
  BY SteadyWrite, SteadyRead, SteadyRuns, SteadyReturns, SteadyEnds DEF Stream!Next
-----------------------------------------------------------------------------
(* The steps of the other pairing *)

\* One call of the reader more.
LEMMA ReadingOne ==
    ASSUME NEW q \in Seq(Stream!Tasks), NEW c \in Stream!Tasks, NEW size \in Nat,
           Reading(q, size), c.to = "reader", c.bytes <= size
    PROVE  /\ Append(q, c) \in Seq(Stream!Tasks) /\ Append(q, c) # <<>>
           /\ Reading(Append(q, c), size)
           /\ q = <<>> => Len(Append(q, c)) = 1 /\ Head(Append(q, c)) = c
<1> DEFINE r == Append(q, c)
<1>1. /\ r \in Seq(Stream!Tasks) /\ Len(r) = Len(q) + 1 /\ Len(q) \in Nat
      /\ r[Len(q) + 1] = c /\ \A k \in 1..Len(q) : r[k] = q[k]
  OBVIOUS
<1>2. q = <<>> => Head(r) = c /\ Len(q) = 0
  OBVIOUS
<1> HIDE DEF r
<1>3. \A k \in 1..Len(r) : k \in 1..Len(q) \/ k = Len(q) + 1
  BY <1>1
<1>4. Reading(r, size)
  BY <1>1, <1>3 DEF Reading
<1>5. r # <<>> /\ (q = <<>> => Len(r) = 1)
  BY <1>1, <1>2
<1> QED
  BY <1>1, <1>2, <1>4, <1>5 DEF r

\* What fits a memory fits a larger one.
LEMMA ReadingMore ==
    ASSUME NEW q \in Seq(Stream!Tasks), NEW a \in Nat, NEW b \in Nat, a <= b, Reading(q, a)
    PROVE  Reading(q, b)
<1> SUFFICES ASSUME NEW k \in 1..Len(q)
             PROVE  q[k].to = "reader" /\ q[k].bytes <= b
  BY DEF Reading
<1>1. q[k] \in Stream!Tasks /\ q[k].to = "reader" /\ q[k].bytes <= a
  BY DEF Reading
<1>2. q[k].bytes \in Nat
  BY <1>1, StreamAssumption DEF Stream!Tasks
<1> QED
  BY <1>1, <1>2

\* The other pairing's writer is never posted.
LEMMA WakeThread ==
    ASSUME Swapped, NEW size, NEW q, Stream!cond_wake_writer(size, q)
    PROVE  /\ posted' = q /\ m_current_write_handler' \in {m_current_write_handler, "none"}
           /\ \A z : Stream!Roused(z) \in {writer, "idle"}
  BY DEF Swapped, Stream!cond_wake_writer, Stream!Drained, Stream!Roused

\* The bytes in their order, and the next ones.
LEMMA OrderOn ==
    ASSUME Typed, NEW t \in Seq(0..StreamBytes), NEW n \in Nat, accepted + n <= StreamBytes,
           (got \o t) \o m_buffer = Counted(accepted)
    PROVE  (got \o t) \o (m_buffer \o New(n)) = Counted(accepted + n)
<1> DEFINE C == 0..StreamBytes
           s == got \o t
           u == New(n)
<1>1. s \in Seq(C) /\ m_buffer \in Seq(C)
  BY BytesOf, ConcatAt
<1>2. u \in Seq(C)
  <2>1. u \in Seq(1..StreamBytes)
    BY NewBytes
  <2> HIDE DEF u
  <2> QED
    BY <2>1, StreamAssumption
<1>3. Counted(accepted) \o u = Counted(accepted + n)
  BY CountOn, BytesOf DEF New
<1> HIDE DEF s, u, C
<1>4. Assoc(s, m_buffer, u)
  BY <1>1, <1>2, Associates
<1>5. s \o m_buffer = Counted(accepted)
  BY DEF s
<1> QED
  BY <1>3, <1>4, <1>5 DEF Assoc, s, u

\* What the call posted carries fits the memory.
LEMMA CarriedFits ==
    ASSUME Typed, Swapped
    PROVE  Carried \in Seq(0..StreamBytes)
<1>1. CASE posted = <<>>
  BY <1>1 DEF Carried
<1>2. CASE posted # <<>>
  <2> DEFINE b == Head(posted).bytes  C == 0..StreamBytes
  <2>1. /\ posted \in Seq(Stream!Tasks) /\ Head(posted) = posted[1]
        /\ posted[1] \in Stream!Tasks /\ 1 \in 1..Len(posted)
    BY <1>2, BytesOf
  <2>2. b \in 0..Len(m_read_buffer) /\ m_read_buffer \in Seq(C)
    BY <2>1, BytesOf, StreamAssumption DEF Swapped, Reading, Stream!Tasks
  <2>3. Carried = SubSeq(m_read_buffer, 1, b)
    BY <1>2 DEF Carried
  <2> HIDE DEF b, C
  <2>4. SubSeq(m_read_buffer, 1, b) \in Seq(C)
    BY <2>2, CutJoins DEF Parts
  <2> QED
    BY <2>3, <2>4 DEF C
<1> QED
  BY <1>1, <1>2

\* A write of the thread, refused or not.
LEMMA ThreadWrites ==
    ASSUME Typed, Swapped, ~met => Unmet, NEW n \in 1..StreamChunk, Stream!write_some(n),
           met' = (met \/ (m_current_read_handler # "none" /\ accepted' > accepted))
    PROVE  Typed' /\ Swapped' /\ (~met' => Unmet')
<1>1. CASE m_state_read_closed
  <2>1. /\ writer' = "done"
        /\ UNCHANGED <<m_buffer, m_read_buffer, accepted, posted, m_current_write_handler,
                       m_state_read_closed, m_state_write_closed, closed, early, reader, result,
                       got, eof, m_current_read_handler>>
    BY <1>1 DEF Stream!write_some, Stream!data, Stream!flags, Stream!seen
  <2>2. Typed'
    BY <2>1 DEF Typed, Stream!TypeOK
  <2>3. Swapped'
    BY <2>1 DEF Swapped
  <2>4. met' => met \/ accepted' > accepted
    OBVIOUS
  <2>5. ~met' => ~met
    OBVIOUS
  <2>6. ~met' => Unmet'
    BY <2>1, <2>5 DEF Unmet, Carried
  <2> QED
    BY <2>2, <2>3, <2>6
<1>2. CASE ~m_state_read_closed
  <2> DEFINE c == Stream!Call("reader", "ok", Stream!Copied(n))
             size == Len(m_read_buffer)
  <2>1. /\ posted' = IF m_current_read_handler = "none" THEN posted ELSE Append(posted, c)
        /\ m_current_write_handler' \in {m_current_write_handler, "cond"}
        /\ writer' \in {writer, "waiting"}
        /\ UNCHANGED <<m_state_read_closed, m_state_write_closed, closed, early, reader, result,
                       got, eof, m_current_read_handler>>
    BY <1>2 DEF Stream!write_some, Stream!flags, Stream!seen
  <2>2. Committed(n) /\ n \in Nat /\ n >= 1
    <3>1. Stream!Commit(n)
      BY <1>2 DEF Stream!write_some
    <3> QED
      BY <3>1, CommitStep, StreamAssumption
  <2>3. /\ Stream!Copied(n) \in 0..StreamBytes /\ Stream!Copied(n) <= size
        /\ Len(m_read_buffer') = size /\ accepted' = accepted + n
        /\ accepted + n \in 0..StreamBytes /\ size \in Nat
    <3>1. /\ Stream!Copied(n) \in Nat /\ Stream!Copied(n) <= size
          /\ Stream!Copied(n) <= Len(m_buffer) + n
          /\ Len(m_buffer) <= accepted /\ accepted \in Nat /\ Len(m_buffer) \in Nat
          /\ size \in Nat
      BY <2>2, CopiedIs, BytesOf
    <3>2. /\ accepted' = accepted + n /\ accepted' \in 0..StreamBytes
          /\ Len(m_read_buffer') = size
      BY <2>2 DEF Committed
    <3> HIDE DEF size
    <3> QED
      BY <2>2, <3>1, <3>2, StreamAssumption
  <2>4. c \in Stream!Tasks /\ c.to = "reader" /\ c.bytes = Stream!Copied(n)
    BY <2>3, CallIs DEF Codes
  <2>5. posted \in Seq(Stream!Tasks) /\ Reading(posted, size)
    BY BytesOf DEF Swapped
  <2> HIDE DEF c, size
  <2>6. posted' \in Seq(Stream!Tasks) /\ Reading(posted', size)
    <3>1. Append(posted, c) \in Seq(Stream!Tasks) /\ Reading(Append(posted, c), size)
      BY <2>3, <2>4, <2>5, ReadingOne
    <3> QED
      BY <2>1, <2>5, <3>1
  <2>7. /\ m_buffer' \in Seq(1..StreamBytes) /\ m_read_buffer' \in Seq(0..StreamBytes)
        /\ Len(m_buffer') <= accepted' /\ accepted' \in 0..StreamBytes
    BY <2>2 DEF Committed
  <2>8. Typed'
    <3>1. m_current_write_handler' \in {"none", "cond", "wrapped"}
      BY <2>1 DEF Typed, Stream!TypeOK
    <3> QED
      BY <2>1, <2>6, <2>7, <3>1 DEF Typed, Stream!TypeOK
  <2>9. Swapped'
    <3>1. m_read_buffer' = <<>> \/ Len(m_read_buffer') = StreamChunk
      <4>1. CASE m_read_buffer = <<>>
        <5>1. Len(m_read_buffer') = 0
          BY <2>3, <4>1 DEF size
        <5> QED
          BY <2>7, <5>1
      <4>2. CASE Len(m_read_buffer) = StreamChunk
        BY <2>3, <4>2 DEF size
      <4> QED
        BY <4>1, <4>2 DEF Swapped
    <3> QED
      BY <2>1, <2>3, <2>6, <3>1 DEF Swapped
  <2>10. ASSUME ~met'
         PROVE  Unmet'
    <3>1. ~met /\ m_current_read_handler = "none"
      <4>1. accepted' > accepted
        BY <2>2, <2>3, BytesOf
      <4> QED
        BY <2>10, <4>1
    <3>2. m_read_buffer' = m_read_buffer /\ m_buffer' = m_buffer \o New(n) /\ posted' = posted
      BY <2>1, <2>2, <3>1 DEF Committed
    <3>3. Unmet
      BY <3>1
    <3>4. Carried' = Carried /\ Carried \in Seq(0..StreamBytes)
      BY <3>2, CarriedFits DEF Carried
    <3>5. (got \o Carried) \o m_buffer' = Counted(accepted')
      <4> DEFINE t == Carried
      <4>1. /\ t \in Seq(0..StreamBytes) /\ (got \o t) \o m_buffer = Counted(accepted)
            /\ n \in Nat /\ accepted + n <= StreamBytes
        BY <2>2, <2>3, <3>3, <3>4, StreamAssumption DEF Unmet
      <4> HIDE DEF t
      <4>2. (got \o t) \o (m_buffer \o New(n)) = Counted(accepted + n)
        BY <4>1, OrderOn
      <4> QED
        BY <2>3, <3>2, <4>2 DEF t
    <3> QED
      BY <2>1, <3>1, <3>2, <3>3, <3>4, <3>5 DEF Unmet
  <2> QED
    BY <2>8, <2>9, <2>10
<1> QED
  BY <1>1, <1>2

\* A read of the coroutine: the end, asleep, or what is there.
LEMMA CoroutineReads ==
    ASSUME Typed, Swapped, ~met => Unmet, Stream!async_read_some,
           met' = (met \/ (m_current_read_handler # "none" /\ accepted' > accepted))
    PROVE  Typed' /\ Swapped' /\ (~met' => Unmet')
<1> DEFINE memory == IF m_read_buffer = <<>> THEN [k \in 1..StreamChunk |-> 0]
                     ELSE m_read_buffer
           fits == Stream!First(m_buffer, StreamChunk)
           C == 0..StreamBytes
           size == Len(m_read_buffer)
<1>1. /\ reader = "idle" /\ reader' = "asleep"
      /\ UNCHANGED <<accepted, m_state_read_closed, m_state_write_closed, closed, early, result,
                     got, eof>>
  BY DEF Stream!async_read_some, Stream!flags, Stream!seen
<1>2. ~met' => ~met
  OBVIOUS
<1>3. /\ posted \in Seq(Stream!Tasks) /\ Reading(posted, size) /\ size \in Nat
      /\ m_read_buffer \in Seq(C)
  BY BytesOf DEF Swapped
<1>4. memory \in Seq(C) /\ Len(memory) = StreamChunk /\ size <= StreamChunk
  <2>1. [k \in 1..StreamChunk |-> 0] \in Seq(C) /\ Len([k \in 1..StreamChunk |-> 0]) = StreamChunk
    BY StreamAssumption
  <2>2. m_read_buffer = <<>> => size = 0
    OBVIOUS
  <2> QED
    BY <1>3, <2>1, <2>2, StreamAssumption DEF Swapped
<1>5. ~met => /\ Unmet /\ posted = <<>> /\ m_current_read_handler = "none"
              /\ got \o m_buffer = Counted(accepted)
  <2>1. ASSUME ~met
        PROVE  /\ Unmet /\ posted = <<>> /\ m_current_read_handler = "none"
               /\ got \o m_buffer = Counted(accepted)
    <3>1. Unmet /\ posted = <<>> /\ m_current_read_handler = "none"
      BY <1>1, <2>1 DEF Unmet
    <3>2. got \o <<>> = got
      BY BytesOf
    <3> QED
      BY <3>1, <3>2 DEF Unmet, Carried
  <2> QED
    BY <2>1
<1> HIDE DEF memory
<1>6. CASE /\ m_buffer = <<>> /\ m_state_write_closed
           /\ posted' = Append(posted, Stream!Call("reader", "eof", 0))
           /\ UNCHANGED <<m_buffer, m_read_buffer, writer, m_current_read_handler,
                          m_current_write_handler>>
  <2> DEFINE c == Stream!Call("reader", "eof", 0)
  <2>1. c \in Stream!Tasks /\ c.to = "reader" /\ c.bytes = 0
    BY CallIs, StreamAssumption DEF Codes
  <2>p. posted' = Append(posted, c)
    BY <1>6
  <2> HIDE DEF c, size
  <2>2. /\ posted' \in Seq(Stream!Tasks) /\ Reading(posted', size) /\ posted' # <<>>
        /\ posted = <<>> => Len(posted') = 1 /\ Head(posted') = c
    BY <1>3, <2>1, <2>p, ReadingOne
  <2>3. Typed'
    BY <1>1, <1>6, <2>2 DEF Typed, Stream!TypeOK
  <2>4. Swapped'
    BY <1>6, <2>2 DEF Swapped, size
  <2>5. ASSUME ~met'
        PROVE  Unmet'
    <3>1. /\ Unmet /\ posted = <<>> /\ m_current_read_handler = "none"
          /\ got \o m_buffer = Counted(accepted)
      BY <1>2, <1>5, <2>5
    <3>2. Carried' = <<>>
      <4>1. Carried' = SubSeq(m_read_buffer, 1, 0)
        BY <1>6, <2>1, <2>2, <3>1 DEF Carried
      <4> QED
        BY <1>3, <4>1
    <3>3. got \o <<>> = got
      BY BytesOf
    <3> QED
      BY <1>1, <1>6, <2>2, <3>1, <3>2, <3>3 DEF Unmet
  <2> QED
    BY <2>3, <2>4, <2>5
<1>7. CASE /\ m_buffer = <<>> /\ ~m_state_write_closed
           /\ m_read_buffer' = memory /\ m_current_read_handler' = "wrapped"
           /\ UNCHANGED <<m_buffer, posted, writer, m_current_write_handler>>
  <2>1. Reading(posted, StreamChunk)
    BY <1>3, <1>4, StreamAssumption, ReadingMore
  <2>2. Typed'
    BY <1>1, <1>4, <1>7 DEF Typed, Stream!TypeOK
  <2>3. Swapped'
    BY <1>4, <1>7, <2>1 DEF Swapped
  <2>4. ASSUME ~met'
        PROVE  Unmet'
    <3>1. /\ Unmet /\ posted = <<>> /\ m_current_read_handler = "none"
          /\ got \o m_buffer = Counted(accepted)
      BY <1>2, <1>5, <2>4
    <3>2. Carried' = <<>> /\ Carried = <<>>
      BY <1>7, <3>1 DEF Carried
    <3> QED
      BY <1>1, <1>7, <3>1, <3>2 DEF Unmet
  <2> QED
    BY <2>2, <2>3, <2>4
<1>8. CASE /\ m_buffer # <<>>
           /\ m_read_buffer' = fits \o SubSeq(memory, Len(fits) + 1, StreamChunk)
           /\ m_buffer' = Stream!Rest(m_buffer, StreamChunk)
           /\ Stream!cond_wake_writer(Len(m_buffer'),
                    Append(posted, Stream!Call("reader", "ok", Len(fits))))
           /\ writer' = Stream!Roused(Len(m_buffer'))
           /\ UNCHANGED m_current_read_handler
  <2> DEFINE m == Stream!Smaller(StreamChunk, Len(m_buffer))
             B == 1..StreamBytes
             f == SubSeq(m_buffer, 1, m)
             r == SubSeq(m_buffer, m + 1, Len(m_buffer))
             g == SubSeq(memory, m + 1, StreamChunk)
             c == Stream!Call("reader", "ok", m)
  <2>1. m \in 0..Len(m_buffer) /\ m \in 0..StreamChunk /\ m \in 0..StreamBytes
    <3> DEFINE l == Len(m_buffer)
    <3>1. /\ l \in Nat /\ l <= accepted /\ accepted <= StreamBytes /\ accepted \in Nat
          /\ StreamBytes \in Nat /\ StreamChunk \in Nat
      BY BytesOf, StreamAssumption
    <3>2. m = IF StreamChunk < l THEN StreamChunk ELSE l
      BY DEF Stream!Smaller
    <3> HIDE DEF l, m
    <3>3. m \in 0..l /\ m \in 0..StreamChunk /\ m \in 0..StreamBytes
      BY <3>1, <3>2
    <3> QED
      BY <3>3 DEF l
  <2>2. fits = f /\ m_buffer' = r
    BY <1>8 DEF Stream!First, Stream!Rest
  <2> HIDE DEF m, fits
  <2>3. /\ f \in Seq(B) /\ r \in Seq(B) /\ Len(f) = m /\ Len(r) = Len(m_buffer) - m
        /\ f \o r = m_buffer
    <3>1. m_buffer \in Seq(B)
      BY BytesOf
    <3> HIDE DEF B
    <3> QED
      BY <2>1, <3>1, CutJoins DEF Parts
  <2>4. g \in Seq(C) /\ Len(g) = StreamChunk - m
    <3> HIDE DEF C
    <3> QED
      BY <1>4, <2>1, CutJoins DEF Parts
  <2>5. f \in Seq(C)
    <3> HIDE DEF f
    <3> QED
      BY <2>3, StreamAssumption
  <2>6. m_read_buffer' = f \o g
    BY <1>8, <2>2, <2>3
  <2> HIDE DEF f, g, r
  <2>7. /\ m_read_buffer' \in Seq(C) /\ Len(m_read_buffer') = StreamChunk
        /\ SubSeq(m_read_buffer', 1, m) = f
    <3> HIDE DEF C
    <3>1. f \o g \in Seq(C) /\ Len(f \o g) = Len(f) + Len(g)
      BY <2>4, <2>5, ConcatAt
    <3>2. SubSeq(f \o g, 1, Len(f)) = f
      BY <2>4, <2>5, CutBehind
    <3> QED
      BY <2>1, <2>3, <2>4, <2>6, <3>1, <3>2, StreamAssumption
  <2>8. c \in Stream!Tasks /\ c.to = "reader" /\ c.bytes = m
    BY <2>1, CallIs DEF Codes
  <2>9. /\ posted' = Append(posted, c)
        /\ m_current_write_handler' \in {m_current_write_handler, "none"}
        /\ writer' \in {writer, "idle"}
    <3>1. /\ Stream!cond_wake_writer(Len(m_buffer'), Append(posted, c))
          /\ writer' = Stream!Roused(Len(m_buffer'))
      BY <1>8, <2>2, <2>3
    <3> HIDE DEF c
    <3> QED
      BY <3>1, WakeThread
  <2> HIDE DEF c
  <2>10. /\ posted' \in Seq(Stream!Tasks) /\ Reading(posted', StreamChunk) /\ posted' # <<>>
         /\ posted = <<>> => Len(posted') = 1 /\ Head(posted') = c
    <3>1. Reading(posted, StreamChunk)
      BY <1>3, <1>4, StreamAssumption, ReadingMore
    <3>2. c.bytes <= StreamChunk
      BY <2>1, <2>8, StreamAssumption
    <3> QED
      BY <1>3, <2>8, <2>9, <3>1, <3>2, StreamAssumption, ReadingOne
  <2>11. Len(m_buffer') <= accepted
    BY <2>1, <2>2, <2>3, BytesOf
  <2>12. Typed'
    <3>1. m_current_write_handler' \in {"none", "cond", "wrapped"}
      BY <2>9 DEF Typed, Stream!TypeOK
    <3> QED
      BY <1>1, <1>8, <2>2, <2>3, <2>7, <2>9, <2>10, <2>11, <3>1 DEF Typed, Stream!TypeOK
  <2>13. Swapped'
    BY <1>8, <2>7, <2>9, <2>10 DEF Swapped
  <2>14. ASSUME ~met'
         PROVE  Unmet'
    <3>1. /\ Unmet /\ posted = <<>> /\ m_current_read_handler = "none"
          /\ got \o m_buffer = Counted(accepted)
      BY <1>2, <1>5, <2>14
    <3>2. Carried' = f
      BY <2>7, <2>8, <2>10, <3>1 DEF Carried
    <3>3. (got \o f) \o r = Counted(accepted)
      <4>1. got \in Seq(C) /\ r \in Seq(C) /\ f \in Seq(C)
        <5>1. r \in Seq(0..StreamBytes)
          BY <2>3, StreamAssumption
        <5> QED
          BY <2>5, <5>1, BytesOf
      <4> HIDE DEF C
      <4>2. Assoc(got, f, r)
        BY <4>1, Associates
      <4> QED
        BY <2>3, <3>1, <4>2 DEF Assoc
    <3>4. ((got \o Carried) \o m_buffer)' = (got \o f) \o r
      BY <1>1, <2>2, <3>2
    <3>5. /\ posted' # <<>> /\ Len(posted') = 1 /\ m_current_read_handler' = "none"
          /\ reader' = "asleep" /\ accepted' = accepted
      BY <1>1, <1>8, <2>10, <3>1
    <3> QED
      BY <3>3, <3>4, <3>5 DEF Unmet
  <2> QED
    BY <2>12, <2>13, <2>14
<1> QED
  BY <1>6, <1>7, <1>8 DEF Stream!async_read_some, memory

\* The coroutine's handler sees what it was lent.
LEMMA ReaderRuns ==
    ASSUME Typed, Swapped, ~met => Unmet, Stream!RunReader,
           met' = (met \/ (m_current_read_handler # "none" /\ accepted' > accepted))
    PROVE  Typed' /\ Swapped' /\ (~met' => Unmet')
<1> DEFINE c == Head(posted)  q == Tail(posted)  C == 0..StreamBytes
           f == SubSeq(m_read_buffer, 1, c.bytes)
<1>1. /\ posted # <<>> /\ posted' = q /\ got' = got \o f
      /\ eof' = (c.ec = "eof") /\ reader' \in {"idle", "done"}
      /\ UNCHANGED <<m_buffer, m_read_buffer, accepted, m_current_read_handler,
                     m_current_write_handler, m_state_read_closed, m_state_write_closed,
                     closed, early, writer, result>>
  BY DEF Stream!RunReader, Stream!Called, Stream!data, Stream!flags
<1>2. /\ posted \in Seq(Stream!Tasks) /\ q \in Seq(Stream!Tasks) /\ Len(q) = Len(posted) - 1
      /\ Len(q) \in Nat /\ \A k \in 1..Len(q) : q[k] = posted[k + 1] /\ k + 1 \in 1..Len(posted)
  <2>1. posted \in Seq(Stream!Tasks)
    BY BytesOf
  <2> QED
    BY <1>1, <2>1
<1>3. Carried = f /\ f \in Seq(C)
  <2>1. Carried = f
    BY <1>1 DEF Carried
  <2> QED
    BY <2>1, CarriedFits
<1> HIDE DEF c, q, f
<1>4. got' \in Seq(C)
  BY <1>1, <1>3, BytesOf, ConcatAt
<1>5. Typed'
  BY <1>1, <1>2, <1>4 DEF Typed, Stream!TypeOK
<1>6. Swapped'
  BY <1>1, <1>2 DEF Swapped, Reading
<1>7. ASSUME ~met'
      PROVE  Unmet'
  <2>1. Unmet
    BY <1>7
  <2>2. m_current_read_handler = "none" /\ q = <<>>
    BY <1>1, <1>2, <2>1 DEF Unmet
  <2>3. Carried' = <<>> /\ got' \o <<>> = got'
    BY <1>1, <1>4, <2>2 DEF Carried
  <2> QED
    BY <1>1, <1>3, <2>1, <2>2, <2>3 DEF Unmet
<1> QED
  BY <1>5, <1>6, <1>7

\* The waiting thread wakes by itself.
LEMMA ThreadWakesEarly ==
    ASSUME Typed, Swapped, ~met => Unmet, Stream!WriterReturnsEarly,
           met' = (met \/ (m_current_read_handler # "none" /\ accepted' > accepted))
    PROVE  Typed' /\ Swapped' /\ (~met' => Unmet')
<1>1. /\ writer' = "idle"
      /\ UNCHANGED <<m_buffer, m_read_buffer, accepted, m_current_read_handler,
                     m_current_write_handler, m_state_read_closed, m_state_write_closed,
                     closed, early, posted, reader, result, got, eof>>
  BY DEF Stream!WriterReturnsEarly, Stream!data, Stream!flags, Stream!seen
<1>2. Typed' /\ Swapped'
  BY <1>1 DEF Typed, Stream!TypeOK, Swapped
<1>3. ~met' => Unmet'
  BY <1>1 DEF Unmet, Carried
<1> QED
  BY <1>2, <1>3

\* Either end closes, and a sleeping coroutine is told the end.
LEMMA OtherEnds ==
    ASSUME Typed, Swapped, ~met => Unmet, NEW type \in {"send", "receive", "both"},
           Stream!WriterCloses(type) \/ Stream!ReaderCloses(type),
           met' = (met \/ (m_current_read_handler # "none" /\ accepted' > accepted))
    PROVE  Typed' /\ Swapped' /\ (~met' => Unmet')
<1> DEFINE c == Stream!Call("reader", "eof", 0)
           told == Stream!Ends /\ m_current_read_handler = "wrapped"
           q == IF told THEN Append(posted, c) ELSE posted
<1>h. m_current_read_handler \in {"none", "wrapped"}
  BY DEF Typed, Stream!TypeOK, Swapped
<1>1. /\ {m_state_read_closed', m_state_write_closed', closed'} \subseteq BOOLEAN
      /\ m_current_read_handler' = IF told THEN "none" ELSE m_current_read_handler
      /\ Stream!cond_wake_writer(Len(m_buffer), q)
      /\ UNCHANGED <<m_buffer, m_read_buffer, accepted, got, eof, result, early>>
  <2>1. Stream!shutdown(type)
    BY DEF Stream!WriterCloses, Stream!ReaderCloses
  <2> QED
    BY <1>h, <2>1 DEF Stream!shutdown, Stream!Ends, Stream!data, Stream!seen, Typed,
                      Stream!TypeOK
<1>2. /\ \/ reader = "idle" /\ reader' = "done"
         \/ reader' = reader
      /\ writer' = "done" \/ writer' = Stream!Roused(Len(m_buffer))
  BY <1>h DEF Stream!WriterCloses, Stream!ReaderCloses
<1>3. /\ posted' = q /\ m_current_write_handler' \in {m_current_write_handler, "none"}
      /\ writer' \in {writer, "idle", "done"}
  <2> HIDE DEF q
  <2> QED
    BY <1>1, <1>2, WakeThread
<1>4. c \in Stream!Tasks /\ c.to = "reader" /\ c.bytes = 0
  BY CallIs, StreamAssumption DEF Codes
<1>5. /\ posted \in Seq(Stream!Tasks) /\ Reading(posted, Len(m_read_buffer))
      /\ Len(m_read_buffer) \in Nat /\ m_read_buffer \in Seq(0..StreamBytes)
  BY BytesOf DEF Swapped
<1> HIDE DEF c, told
<1>6. /\ Append(posted, c) \in Seq(Stream!Tasks) /\ Append(posted, c) # <<>>
      /\ Reading(Append(posted, c), Len(m_read_buffer))
      /\ posted = <<>> => Len(Append(posted, c)) = 1 /\ Head(Append(posted, c)) = c
  BY <1>4, <1>5, ReadingOne
<1>7. Typed'
  <2>1. m_current_write_handler' \in {"none", "cond", "wrapped"}
    BY <1>3 DEF Typed, Stream!TypeOK
  <2>2. m_current_read_handler' \in {"none", "cond", "wrapped"}
    BY <1>1, <1>h
  <2>3. posted' \in Seq(Stream!Tasks)
    BY <1>3, <1>5, <1>6
  <2> QED
    BY <1>1, <1>2, <1>3, <2>1, <2>2, <2>3 DEF Typed, Stream!TypeOK
<1>8. Swapped'
  BY <1>1, <1>3, <1>5, <1>6, <1>h DEF Swapped
<1>9. ASSUME ~met'
      PROVE  Unmet'
  <2>1. Unmet /\ ~met
    BY <1>9
  <2>2. CASE ~told
    BY <1>1, <1>2, <1>3, <2>1, <2>2 DEF Unmet, Carried
  <2>3. CASE told
    <3>1. posted = <<>> /\ posted' = Append(posted, c) /\ reader = "asleep"
          /\ m_current_read_handler # "none"
      BY <1>3, <2>1, <2>3 DEF Unmet, told
    <3>2. posted' # <<>> /\ Len(posted') = 1 /\ Head(posted') = c
      BY <1>6, <3>1
    <3>3. Carried' = <<>> /\ Carried = <<>>
      <4>1. Carried' = SubSeq(m_read_buffer, 1, 0)
        BY <1>1, <1>4, <3>2 DEF Carried
      <4>2. SubSeq(m_read_buffer, 1, 0) = <<>>
        BY <1>5
      <4> QED
        BY <3>1, <4>1, <4>2 DEF Carried
    <3>4. reader' = "asleep" /\ m_current_read_handler' = "none"
      BY <1>1, <1>2, <2>3, <3>1
    <3> QED
      BY <1>1, <2>1, <3>1, <3>2, <3>3, <3>4 DEF Unmet
  <2> QED
    BY <2>2, <2>3
<1> QED
  BY <1>7, <1>8, <1>9

\* Every step of the other pairing.
LEMMA SwappedStep ==
    ASSUME Typed, Swapped, ~met => Unmet, Stream!NextOther,
           met' = (met \/ (m_current_read_handler # "none" /\ accepted' > accepted))
    PROVE  Typed' /\ Swapped' /\ (~met' => Unmet')
  BY ThreadWrites, ThreadWakesEarly, CoroutineReads, ReaderRuns, OtherEnds
     DEF Stream!NextOther
-----------------------------------------------------------------------------
(* The two queues side by side *)

\* The stream begins empty, whatever its two flags hold.
LEMMA StreamBegins ==
    ASSUME QueuesInit
    PROVE  Pipes /\ Held = 0 /\ Waiting = <<>>
<1>1. /\ m_buffer = <<>> /\ m_read_buffer = <<>> /\ got = <<>> /\ posted = <<>>
      /\ accepted = 0 /\ reader = "idle" /\ writer = "idle"
      /\ m_current_read_handler = "none" /\ m_current_write_handler = "none"
      /\ result = [ec |-> "ok", bytes |-> 0] /\ eof = FALSE /\ closed = FALSE /\ early = 0
      /\ m_state_read_closed \in BOOLEAN /\ m_state_write_closed \in BOOLEAN
  BY DEF QueuesInit, Stream!Init
<1>2. ~Has(posted, "cond") /\ ~Has(posted, "writer") /\ Once(posted)
      /\ (\A z : Fitting(posted, z)) /\ (\A z : Reading(posted, z))
  BY <1>1 DEF Has, Once, Fitting, Reading
<1>3. Held = 0
  BY <1>1, <1>2 DEF Held, Lent
<1>4. Waiting = <<>>
  <2>1. \A n : n = 0 => SubSeq(<<>>, 1, n) = <<>> /\ <<>> \o <<>> = <<>>
    OBVIOUS
  <2> QED
    BY <1>1, <1>3, <2>1 DEF Waiting
<1>5. Typed
  <2>1. <<>> \in Seq(1..StreamBytes) /\ <<>> \in Seq(0..StreamBytes)
        /\ <<>> \in Seq(Stream!Tasks) /\ 0 \in 0..StreamBytes /\ 0 \in 0..StreamEarly
    BY StreamAssumption
  <2>2. result \in [ec : Codes, bytes : 0..StreamBytes]
    BY <1>1, <2>1 DEF Codes
  <2>3. Stream!TypeOK
    BY <1>1, <2>1 DEF Stream!TypeOK
  <2>4. Len(<<>>) = 0
    OBVIOUS
  <2> QED
    BY <1>1, <2>2, <2>3, <2>4 DEF Typed
<1>6. Paired
  BY <1>1, <1>2, <1>3 DEF Paired, ReaderWakes, WriterWakes, ToldTrue
<1>s. Steady
  BY <1>1, <1>2, <1>6 DEF Steady, Single, Paired
<1>7. Swapped
  BY <1>1, <1>2 DEF Swapped
<1>8. Unmet
  <2>1. (<<>> \o <<>>) \o <<>> = Counted(0)
    BY DEF Counted
  <2> QED
    BY <1>1, <2>1 DEF Unmet, Carried
<1> QED
  BY <1>3, <1>4, <1>5, <1>6, <1>7, <1>8, <1>s DEF Pipes

\* The coroutine queue's steps leave the stream alone.
LEMMA UnchangedStream ==
    ASSUME Pipes, UNCHANGED <<part, streamVars, met>>
    PROVE  Pipes' /\ Conveys /\ EndIsLast
<1> USE DEF streamVars
<1>1. Held' = Held /\ Waiting' = Waiting /\ Carried' = Carried
  BY DEF Held, Waiting, Carried
<1>2. Typed => Typed'
  BY DEF Typed, Stream!TypeOK
<1>3. Paired => Paired'
  BY <1>1 DEF Paired, ReaderWakes, WriterWakes, ToldTrue
<1>4. (Swapped => Swapped') /\ (Unmet => Unmet') /\ (Steady => Steady')
  BY <1>1 DEF Swapped, Unmet, Steady, WriterWakes
<1> QED
  BY <1>1, <1>2, <1>3, <1>4 DEF Pipes, Conveys, EndIsLast

\* A read that returned early has done so for good.
LEMMA EarlyOnce ==
    ASSUME Typed, Stream!Next, early' = 0
    PROVE  early = 0
<1>1. early' = early \/ early' = early + 1
  BY DEF Stream!Next, Stream!async_write_some, Stream!read_some, Stream!RunCond,
         Stream!RunWriter, Stream!Called, Stream!ReaderReturns, Stream!ReturnsEarly,
         Stream!WriterCloses, Stream!ReaderCloses, Stream!shutdown, Stream!flags
<1> QED
  BY <1>1, StreamAssumption DEF Typed, Stream!TypeOK

\* Every step of the two queues keeps the stream's invariant.
LEMMA StreamStep ==
    ASSUME Pipes, [QueuesNext]_queuesVars
    PROVE  /\ Pipes' /\ part' = part
           /\ part = "stream" /\ early' = 0 => Conveys /\ EndIsLast
<1> USE DEF Pipes
<1>1. CASE Queue(Next)
  BY <1>1, UnchangedStream DEF Queue
<1>2. CASE Piped(Stream!Next)
  <2>1. Typed' /\ Steady'
    BY <1>2, SteadyStep DEF Piped
  <2>2. ASSUME early' = 0
        PROVE  Sound
    <3>1. early = 0
      BY <1>2, <2>2, EarlyOnce DEF Piped
    <3> QED
      BY <1>2, <2>2, <3>1, PairedStep DEF Piped
  <2> QED
    BY <1>2, <2>1, <2>2 DEF Piped, Sound
<1>3. CASE Other
  BY <1>3, SwappedStep DEF Other
<1>4. CASE UNCHANGED queuesVars
  BY <1>4, UnchangedStream DEF queuesVars
<1> QED
  BY <1>1, <1>2, <1>3, <1>4 DEF QueuesNext

\* The words of the invariant and those of InterthreadStream.
LEMMA PipesSays == Pipes => StreamInv
<1> SUFFICES ASSUME Pipes
             PROVE  StreamInv
  OBVIOUS
<1>1. Stream!TypeOK
  BY DEF Pipes, Typed
<1>2. ASSUME part = "stream"
      PROVE  Stream!Wakeable
  <2>1. Steady /\ (early = 0 => Paired)
    BY <1>2 DEF Pipes
  <2>2. \A to : Stream!Posted(to) <=> Has(posted, to)
    BY CallsOf
  <2>3. Stream!WriterWakeable
    <3>1. (writer = "waiting") = (m_current_write_handler # "none" \/ Stream!Posted("writer"))
      BY <2>1, <2>2, Zenon DEF Steady, WriterWakes
    <3> QED
      BY <2>1, <2>2, <3>1 DEF Stream!WriterWakeable, Steady, WriterWakes
  <2>4. ASSUME early = 0
        PROVE  Stream!ReaderWakeable
    <3>1. (reader = "asleep") = (m_current_read_handler # "none" \/ Stream!Posted("cond"))
      BY <2>1, <2>2, <2>4, Zenon DEF Paired, ReaderWakes
    <3> QED
      BY <2>1, <2>2, <2>4, <3>1 DEF Stream!ReaderWakeable, Paired, ReaderWakes
  <2>5. ASSUME NEW i \in 1..Len(posted), NEW j \in 1..Len(posted), posted[i].to = posted[j].to,
               posted[i].to = "cond" => early = 0
        PROVE  i = j
    <3>1. CASE early = 0
      BY <2>1, <2>5, <3>1 DEF Paired, ToldTrue, Once
    <3>2. CASE early # 0
      <4>1. posted[i] \in Stream!Tasks
        BY BytesOf DEF Pipes
      <4>2. posted[i].to = "writer"
        BY <2>1, <2>5, <3>2, <4>1 DEF Steady, Stream!Tasks
      <4> QED
        BY <2>1, <2>5, <4>2 DEF Steady, Single
    <3> QED
      BY <3>1, <3>2
  <2> QED
    BY <2>3, <2>4, <2>5 DEF Stream!Wakeable
<1>3. ASSUME part = "other", ~met
      PROVE  Stream!LikeAPipe
  <2> DEFINE C == 0..StreamBytes
  <2>1. /\ got \in Seq(C) /\ Carried \in Seq(C) /\ m_buffer \in Seq(C) /\ accepted \in Nat
        /\ (got \o Carried) \o m_buffer = Counted(accepted)
    BY <1>3, BytesOf, CarriedFits DEF Pipes, Unmet
  <2> HIDE DEF C
  <2>2. Assoc(got, Carried, m_buffer) /\ Carried \o m_buffer \in Seq(C)
    BY <2>1, Associates
  <2>3. got = Counted(Len(got))
    BY <2>1, <2>2, CountedBefore DEF Assoc
  <2> QED
    BY <2>3 DEF Stream!LikeAPipe, Counted
<1> QED
  BY <1>1, <1>2, <1>3 DEF StreamInv

\* The stream's invariant holds always.
LEMMA PipesInvariance == QueuesSpec => []Pipes
<1>1. QueuesInit => Pipes
  BY StreamBegins
<1>2. Pipes /\ [QueuesNext]_queuesVars => Pipes'
  BY StreamStep
<1> QED
  BY <1>1, <1>2, PTL DEF QueuesSpec

\* Of interthread_stream, for any threshold and any writes and reads: who sleeps
\* has exactly one thing that will wake it, a handler in the stream or that
\* handler on its way, the writer always, the reader until a read has returned
\* before it was notified; and in the other pairing the bytes come in their order
\* until a write has found the reader asleep, even if the writing thread wakes by
\* itself.
THEOREM SleepersWake == QueuesSpec => []StreamInv
  BY PipesInvariance, PipesSays, PTL

\* What is inside the abstract pipe, in the words of the invariant.
LEMMA PipeIs ==
    /\ part = "stream" => Stream!InTransit \o m_buffer = Waiting
    /\ part' = "stream" => (Stream!InTransit \o m_buffer)' = Waiting'
  BY CallsOf DEF Stream!InTransit, Waiting, Held

\* A step of the stream is one of the queue between its two ends.
LEMMA StepConveys ==
    ASSUME Pipes, [QueuesNext]_queuesVars
    PROVE  /\ early' = 0 => [Pipe!Next]_(Pipe!vars)
           /\ part = "stream" /\ early' = 0 /\ ~eof /\ eof' /\ closed' => Len(got') = accepted'
<1>1. part' = part /\ (part = "stream" /\ early' = 0 => Conveys /\ EndIsLast)
  BY StreamStep
<1>2. CASE part # "stream"
  BY <1>1, <1>2 DEF Pipe!vars, Told
<1>3. CASE part = "stream" /\ early' = 0
  <2>1. /\ Told(0, accepted) = accepted /\ Told(0, accepted)' = accepted'
        /\ Told(<<>>, Stream!InTransit \o m_buffer) = Waiting
        /\ Told(<<>>, Stream!InTransit \o m_buffer)' = Waiting'
        /\ Told(<<>>, got) = got /\ Told(<<>>, got)' = got'
    BY <1>1, <1>3, PipeIs DEF Told
  <2>2. [Pipe!Next]_(Pipe!vars)
    <3>1. CASE /\ accepted' > accepted /\ accepted' \in Nat /\ UNCHANGED got
               /\ Waiting' = Waiting \o [k \in 1..(accepted' - accepted) |-> accepted + k]
      BY <2>1, <3>1, Zenon DEF Pipe!Next, Pipe!Put
    <3>2. CASE /\ \E n \in 1..Len(Waiting) :
                    /\ got' = got \o SubSeq(Waiting, 1, n)
                    /\ Waiting' = SubSeq(Waiting, n + 1, Len(Waiting))
               /\ UNCHANGED accepted
      BY <2>1, <3>2, Zenon DEF Pipe!Next, Pipe!Take
    <3>3. CASE UNCHANGED <<accepted, Waiting, got>>
      BY <2>1, <3>3 DEF Pipe!vars
    <3> QED
      BY <1>1, <1>3, <3>1, <3>2, <3>3 DEF Conveys
  <2> QED
    BY <1>1, <1>3, <2>2 DEF EndIsLast
<1> QED
  BY <1>2, <1>3

\* Of interthread_stream, for any threshold and any writes and reads: the reader
\* sees the bytes in the order in which they were written, each once, and the end
\* only after the last, up to the first read that returns before it is notified.
THEOREM Conveyed == QueuesSpec => PipeSpec
<1>1. QueuesInit => Pipe!Init
  <2> SUFFICES ASSUME QueuesInit
               PROVE  Pipe!Init
    OBVIOUS
  <2>1. accepted = 0 /\ got = <<>>
    BY DEF QueuesInit, Stream!Init
  <2> QED
    BY <2>1, StreamBegins, PipeIs DEF Pipe!Init, Told
<1>2. Pipes /\ [QueuesNext]_queuesVars =>
        /\ [early' = 0 => [Pipe!Next]_(Pipe!vars)]_queuesVars
        /\ [part = "stream" /\ early' = 0 /\ ~eof /\ eof' /\ closed'
                => Len(got') = accepted']_queuesVars
  BY StepConveys
<1> QED
  BY <1>1, <1>2, PipesInvariance, PTL DEF QueuesSpec, PipeSpec
=============================================================================
