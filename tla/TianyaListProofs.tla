-------------------------- MODULE TianyaListProofs --------------------------
(* Theorems about TianyaList, for a list of any pages, rows and titles: one   *)
(* operation at a time, and the refinement of PostStream, from an invariant   *)
(* that follows the line parser through the rows.                             *)
EXTENDS TianyaList, FiniteSetTheorems, WellFoundedInduction, TLAPS

(* The parts of the inductive invariant *)

Places   == Nat \X Nat
Info     == [Fields -> Places]
Marks    == {"charset", "next", "found", "blank", "url", "title", "close", "author", "hits",
             "replys", "time"}
LineType == [mark : Marks, row : Places]

\* The sequences in s, one behind the other: f[i] is made of the first i.
IsJoined(f, s, V) ==
    /\ f \in [0..Len(s) -> Seq(V)] /\ f[0] = <<>>
    /\ \A i \in 1..Len(s) : f[i] = f[i - 1] \o s[i]
Joined(s, V) == CHOOSE f : IsJoined(f, s, V)

\* part stands in whole behind the first n elements.
Stands(part, whole, n) == \A k \in 1..Len(part) : whole[n + k] = part[k]

\* The rows of a page, and their lines.
RowsOf(p) == [r \in 1..Len(List[p]) |-> <<p, r>>]
RowLen(p, r) == List[p][r].titleLines + 11
LinesOf(p) ==
    [r \in 1..Len(List[p]) |->
        LET ls == RowLines(List[p][r])
        IN [k \in 1..Len(ls) |-> [mark |-> ls[k], row |-> <<p, r>>]]]

\* How many rows come before those of a page, and how many lines before those
\* of a row.
Before(p)   == Len(Joined([q \in Pages |-> RowsOf(q)], Places)[p - 1])
First(p, r) == 1 + Len(Joined(LinesOf(p), LineType)[r - 1])

\* What has been read of row t before its line number k.
ParserAt(row, t, k) ==
    /\ k = 1 => m_state = "unknown"
    /\ k = 2 => m_state = "found"
    /\ k = 3 => m_state = "skip1"
    /\ k = 4 => m_state = "skip2"
    /\ k = 5 => m_state = "target"
    /\ k > 5 /\ ~row.linked => m_state = "unknown"
    /\ k > 5 /\ row.linked =>
        /\ k <= row.titleLines + 6 => m_state = "name"
        /\ k = row.titleLines + 7 => m_state = "skip5"
        /\ k = row.titleLines + 8 => m_state = "author"
        /\ k = row.titleLines + 9 => m_state = "hits"
        /\ k = row.titleLines + 10 => m_state = "replys"
        /\ k = row.titleLines + 11 => m_state = "time"
        /\ m_info["post_url"] = t
        /\ m_info["title"] = IF k > 6 /\ row.titleLines > 0 THEN t ELSE NoRow
        /\ k > row.titleLines + 8 => m_info["author"] = t
        /\ k > row.titleLines + 9 => m_info["hits"] = t
        /\ k > row.titleLines + 10 => m_info["replys"] = t

\* The line number k of row r comes next, and every row before is done with.
InRow(p, r, k) ==
    /\ line = First(p, r) + k
    /\ ParserAt(List[p][r], <<p, r>>, k)
    /\ m_hits = Emitted[Before(p) + r - 1]

AtStart(p) == line = 1 /\ m_state = "unknown" /\ m_hits = Emitted[Before(p)]
AtEnd(p) ==
    /\ line \in {Len(Lines(p)), Len(Lines(p)) + 1}
    /\ m_state = "unknown" /\ m_hits = Emitted[Before(p) + Len(List[p])]

OnPage ==
    LET p == m_post_url IN
    \/ AtStart(p) \/ AtEnd(p)
    \/ \E r \in 1..Len(List[p]) : \E k \in 1..RowLen(p, r) : InRow(p, r, k)

\* Between two pages the parser is at rest.
PlaceInv ==
    /\ m_info \in Info /\ m_hits \in Seq(Info)
    /\ ~started => ops = {} /\ m_hits = <<>> /\ m_state = "unknown"
    /\ \A op \in ops : op.kind = "line" => OnPage
    /\ \A op \in ops : op.kind # "line" =>
        m_state = "unknown" /\ m_hits = Emitted[Before(m_post_url)]

IInv == TypeOK /\ SingleFlight /\ PlaceInv
-----------------------------------------------------------------------------
(* Induction and recursion over an interval *)

\* A set of numbers that is not empty has a least one: of the intervals that end
\* in its members one has no other below it.
LEMMA LeastOf ==
    ASSUME NEW S \in SUBSET Nat, S # {}
    PROVE  \E k \in S : \A l \in S : k <= l
<1> DEFINE upto == {1..k : k \in S}
<1>1. upto \subseteq FiniteSubsetsOf(Nat)
  <2>1. ASSUME NEW k \in S
        PROVE  1..k \in FiniteSubsetsOf(Nat)
    <3>1. k \in Int /\ 1 \in Int
      OBVIOUS
    <3>2. IsFiniteSet(1..k)
      BY <3>1, FS_Interval
    <3>3. 1..k \subseteq Nat
      BY <3>1
    <3> QED
      BY <3>2, <3>3 DEF FiniteSubsetsOf
  <2> QED
    BY <2>1
<1>2. upto # {}
  OBVIOUS
<1>3. PICK x \in upto : \A y \in upto : <<y, x>> \notin StrictSubsetOrdering(Nat)
  <2> HIDE DEF upto
  <2> QED
    BY <1>1, <1>2, FS_StrictSubsetOrderingWellFounded, WFMin, Zenon
<1>4. PICK k \in S : x = 1..k
  OBVIOUS
<1>5. ASSUME NEW l \in S, l < k
      PROVE  FALSE
  <2>1. 1..l \in upto
    OBVIOUS
  <2>2. /\ 1..l \in SUBSET Nat /\ 1..k \in SUBSET Nat
        /\ 1..l \subseteq 1..k /\ 1..l # 1..k
    <3>1. k \in 1..k /\ k \notin 1..l
      BY <1>5
    <3> QED
      BY <1>5, <3>1
  <2>3. <<1..l, 1..k>> \in StrictSubsetOrdering(Nat)
    BY <2>2, Zenon DEF StrictSubsetOrdering
  <2> QED
    BY <1>3, <1>4, <2>1, <2>3, Zenon
<1> QED
  BY <1>5

\* Induction: a set of numbers that has 0, and with a number the next one, has
\* all.
LEMMA Induction ==
    ASSUME NEW n \in Nat, NEW S, 0 \in S,
           \A k \in 1..n : k - 1 \in S => k \in S
    PROVE  \A k \in 0..n : k \in S
<1> DEFINE out == {k \in 0..n : k \notin S}
<1>1. ASSUME out # {}
      PROVE  FALSE
  <2>1. out \in SUBSET Nat
    OBVIOUS
  <2>2. PICK k \in out : \A l \in out : k <= l
    <3> HIDE DEF out
    <3> QED
      BY <1>1, <2>1, LeastOf
  <2>3. k \in 1..n /\ k \notin S
    OBVIOUS
  <2>4. k - 1 \in 0..n /\ ~(k <= k - 1)
    BY <2>3
  <2>5. k - 1 \in S
    BY <2>2, <2>4
  <2> QED
    BY <2>3, <2>5
<1> QED
  BY <1>1

\* f begins with v and goes from each number to the next as step says.
Follows(f, step, v, n, V) ==
    /\ f \in [0..n -> V] /\ f[0] = v
    /\ \A k \in 1..n : f[k] = step[k][f[k - 1]]

\* There is such a function.
LEMMA Recursion ==
    ASSUME NEW V, NEW v \in V, NEW n \in Nat, NEW step \in [1..n -> [V -> V]]
    PROVE  \E f : Follows(f, step, v, n, V)
<1> DEFINE Upto(m, f) == Follows(f, step, v, m, V)
           S == {m \in 0..n : \E f : Upto(m, f)}
<1> USE DEF Follows
<1>1. 0 \in S
  <2>1. [k \in 0..0 |-> v][0] = v
    OBVIOUS
  <2>2. Upto(0, [k \in 0..0 |-> v])
    BY <2>1
  <2> HIDE DEF Upto
  <2> QED
    BY <2>2
<1>2. ASSUME NEW m \in 1..n, m - 1 \in S
      PROVE  m \in S
  <2>1. PICK f : Upto(m - 1, f)
    BY <1>2
  <2> DEFINE g == [k \in 0..m |-> IF k = m THEN step[m][f[m - 1]] ELSE f[k]]
  <2>2. m - 1 \in 0..(m - 1) /\ f[m - 1] \in V
    BY <2>1
  <2>3. step[m][f[m - 1]] \in V
    BY <2>2
  <2>4. \A k \in 0..(m - 1) : k \in 0..m /\ k # m /\ g[k] = f[k] /\ f[k] \in V
    BY <2>1
  <2>5. g \in [0..m -> V]
    <3>1. ASSUME NEW k \in 0..m
          PROVE  (IF k = m THEN step[m][f[m - 1]] ELSE f[k]) \in V
      <4>1. k = m \/ k \in 0..(m - 1)
        OBVIOUS
      <4> QED
        BY <2>3, <2>4, <4>1
    <3> QED
      BY <3>1
  <2>6. g[0] = v
    <3>1. 0 \in 0..(m - 1)
      OBVIOUS
    <3>2. g[0] = f[0]
      BY <2>4, <3>1
    <3> QED
      BY <2>1, <3>2
  <2>7. ASSUME NEW k \in 1..m
        PROVE  g[k] = step[k][g[k - 1]]
    <3>1. k - 1 \in 0..(m - 1)
      OBVIOUS
    <3>2. g[k - 1] = f[k - 1]
      BY <2>4, <3>1
    <3>3. CASE k = m
      BY <3>2, <3>3
    <3>4. CASE k # m
      <4>1. k \in 1..(m - 1) /\ k \in 0..m
        BY <3>4
      <4>2. g[k] = f[k] /\ f[k] = step[k][f[k - 1]]
        BY <2>1, <4>1, <3>4
      <4> QED
        BY <3>2, <4>2
    <3> QED
      BY <3>3, <3>4
  <2>8. Upto(m, g)
    <3> HIDE DEF g
    <3> QED
      BY <2>5, <2>6, <2>7
  <2> HIDE DEF Upto
  <2> QED
    BY <2>8
<1>3. n \in S
  <2> HIDE DEF S
  <2>1. \A k \in 1..n : k - 1 \in S => k \in S
    BY <1>2
  <2>2. \A k \in 0..n : k \in S
    BY <1>1, <2>1, Induction
  <2> QED
    BY <2>2
<1> HIDE DEF Follows
<1> QED
  BY <1>3
-----------------------------------------------------------------------------
(* Sequences behind one another *)

\* One sequence behind another.
LEMMA ConcatAt ==
    ASSUME NEW V, NEW s \in Seq(V), NEW u \in Seq(V)
    PROVE  /\ s \o u \in Seq(V) /\ Len(s \o u) = Len(s) + Len(u)
           /\ Len(s) \in Nat /\ Len(u) \in Nat
           /\ \A i \in 1..Len(s) : (s \o u)[i] = s[i]
           /\ \A i \in 1..Len(u) : (s \o u)[Len(s) + i] = u[i]
  OBVIOUS

LEMMA JoinedExists ==
    ASSUME NEW V, NEW s \in Seq(Seq(V))
    PROVE  IsJoined(Joined(s, V), s, V)
<1> DEFINE n == Len(s)
           step == [i \in 1..n |-> [t \in Seq(V) |-> t \o s[i]]]
<1>1. n \in Nat /\ \A i \in 1..n : s[i] \in Seq(V)
  OBVIOUS
<1>2. step \in [1..n -> [Seq(V) -> Seq(V)]]
  <2>1. \A i \in 1..n, t \in Seq(V) : t \o s[i] \in Seq(V)
    BY <1>1
  <2> HIDE DEF n
  <2> QED BY <2>1
<1>3. <<>> \in Seq(V)
  OBVIOUS
<1>4. PICK f \in [0..n -> Seq(V)] : f[0] = <<>> /\ \A i \in 1..n : f[i] = step[i][f[i - 1]]
  <2> HIDE DEF n, step
  <2>1. \E f : Follows(f, step, <<>>, n, Seq(V))
    BY <1>1, <1>2, <1>3, Recursion
  <2> QED BY <2>1 DEF Follows
<1>5. ASSUME NEW i \in 1..n
      PROVE  f[i] = f[i - 1] \o s[i]
  <2>1. f[i - 1] \in Seq(V)
    <3>1. i - 1 \in 0..n
      BY <1>1
    <3> QED BY <1>4, <3>1
  <2>2. step[i][f[i - 1]] = f[i - 1] \o s[i]
    BY <2>1
  <2> QED BY <1>4, <2>2
<1>6. IsJoined(f, s, V)
  BY <1>4, <1>5 DEF IsJoined
<1> QED BY <1>6, Zenon DEF Joined

\* It is what FlattenSeq makes of all of them.
LEMMA JoinedIsFlat ==
    ASSUME NEW V, NEW s \in Seq(Seq(V)), NEW f, IsJoined(f, s, V)
    PROVE  FlattenSeq(s) = f[Len(s)]
<1> DEFINE n == Len(s)
           IsFlat(h) == h = [i \in 1..Len(s) |-> IF i = 1 THEN s[i] ELSE h[i - 1] \o s[i]]
<1>1. /\ n \in Nat /\ \A i \in 1..n : s[i] \in Seq(V)
      /\ f \in [0..n -> Seq(V)] /\ f[0] = <<>>
      /\ \A i \in 1..n : f[i] = f[i - 1] \o s[i]
  <2>1. n \in Nat /\ \A i \in 1..n : s[i] \in Seq(V)
    OBVIOUS
  <2>2. /\ f \in [0..n -> Seq(V)] /\ f[0] = <<>>
        /\ \A i \in 1..n : f[i] = f[i - 1] \o s[i]
    BY DEF IsJoined
  <2> QED BY <2>1, <2>2
<1>2. CASE n = 0
  <2>1. FlattenSeq(s) = <<>>
    BY <1>2 DEF FlattenSeq
  <2> QED BY <1>1, <1>2, <2>1
<1>3. CASE n # 0
  <2>1. f[1] = s[1]
    <3>1. 1 \in 1..n
      BY <1>1, <1>3
    <3>2. s[1] \in Seq(V)
      BY <1>1, <3>1
    <3>3. ASSUME NEW i \in 1..n, i = 1
          PROVE  f[i] = <<>> \o s[i]
      <4>1. i - 1 = 0
        BY <3>3
      <4>2. f[i] = f[i - 1] \o s[i]
        BY <1>1
      <4> QED BY <1>1, <4>1, <4>2
    <3>4. f[1] = <<>> \o s[1]
      BY <3>1, <3>3
    <3> QED BY <3>2, <3>4
  <2>2. IsFlat([i \in 1..n |-> f[i]])
    <3> DEFINE h == [i \in 1..n |-> f[i]]
    <3>1. ASSUME NEW i \in 1..n
          PROVE  f[i] = IF i = 1 THEN s[i] ELSE h[i - 1] \o s[i]
      <4>1. CASE i = 1
        BY <2>1, <4>1
      <4>2. CASE i # 1
        <5>1. i - 1 \in 1..n
          BY <1>1, <4>2
        <5>2. h[i - 1] = f[i - 1]
          BY <5>1
        <5> QED BY <1>1, <4>2, <5>2
      <4> QED BY <4>1, <4>2
    <3> QED BY <3>1
  <2> DEFINE g == CHOOSE h : IsFlat(h)
  <2>3. IsFlat(g)
    <3> HIDE DEF IsFlat
    <3> QED BY <2>2, Zenon
  <2>4. FlattenSeq(s) = g[n]
    BY <1>3, Zenon DEF FlattenSeq
  <2>5. \A i \in 1..n : g[i] = IF i = 1 THEN s[i] ELSE g[i - 1] \o s[i]
    <3> HIDE DEF g
    <3> QED BY <1>1, <2>3
  <2> HIDE DEF g
  <2> DEFINE S == {i \in 0..n : i = 0 \/ g[i] = f[i]}
  <2>6. \A i \in 0..n : i \in S
    <3>1. 0 \in S
      BY <1>1
    <3>2. ASSUME NEW i \in 1..n, i - 1 \in S
          PROVE  i \in S
      <4>1. CASE i = 1
        BY <2>1, <2>5, <4>1
      <4>2. CASE i # 1
        <5>1. g[i - 1] = f[i - 1]
          BY <3>2, <4>2
        <5>2. g[i] = f[i]
          BY <1>1, <2>5, <4>2, <5>1
        <5> QED BY <5>2
      <4> QED BY <4>1, <4>2
    <3> HIDE DEF S
    <3> QED BY <1>1, <3>1, <3>2, Induction
  <2>7. n \in 0..n
    BY <1>1
  <2>8. g[n] = f[n]
    BY <1>3, <2>6, <2>7
  <2> QED BY <2>4, <2>8
<1> QED BY <1>2, <1>3

\* What the first i make stays in front.
LEMMA JoinedGrows ==
    ASSUME NEW V, NEW s \in Seq(Seq(V)), NEW f, IsJoined(f, s, V), NEW i \in 0..Len(s)
    PROVE  /\ Len(f[i]) <= Len(f[Len(s)])
           /\ \A k \in 1..Len(f[i]) : f[Len(s)][k] = f[i][k]
<1> DEFINE n == Len(s)
           S == {d \in 0..(n - i) : /\ Len(f[i]) <= Len(f[i + d])
                                    /\ \A k \in 1..Len(f[i]) : f[i + d][k] = f[i][k]}
<1>1. /\ n \in Nat /\ i \in 0..n /\ \A j \in 1..n : s[j] \in Seq(V)
      /\ \A j \in 0..n : f[j] \in Seq(V) /\ Len(f[j]) \in Nat
      /\ \A j \in 1..n : f[j] = f[j - 1] \o s[j]
  <2>1. n \in Nat /\ i \in 0..n /\ \A j \in 1..n : s[j] \in Seq(V)
    OBVIOUS
  <2>2. f \in [0..n -> Seq(V)] /\ \A j \in 1..n : f[j] = f[j - 1] \o s[j]
    BY DEF IsJoined
  <2>3. \A j \in 0..n : f[j] \in Seq(V) /\ Len(f[j]) \in Nat
    BY <2>2
  <2> QED BY <2>1, <2>2, <2>3
<1> HIDE DEF n
<1>2. 0 \in S
  BY <1>1
<1>3. ASSUME NEW d \in 1..(n - i), d - 1 \in S
      PROVE  d \in S
  <2> DEFINE a == f[i + (d - 1)]
             b == s[i + d]
  <2>1. i + d \in 1..n /\ (i + d) - 1 = i + (d - 1) /\ i + (d - 1) \in 0..n /\ i + d \in 0..n
    BY <1>1
  <2>2. a \in Seq(V) /\ b \in Seq(V) /\ f[i + d] = a \o b /\ Len(f[i]) \in Nat
    BY <1>1, <2>1
  <2>3. Len(f[i]) <= Len(a) /\ \A k \in 1..Len(f[i]) : a[k] = f[i][k]
    BY <1>3
  <2> HIDE DEF a, b
  <2>4. /\ Len(a \o b) = Len(a) + Len(b) /\ Len(a) \in Nat /\ Len(b) \in Nat
        /\ \A k \in 1..Len(a) : (a \o b)[k] = a[k]
    BY <2>2, ConcatAt
  <2>5. /\ Len(f[i]) <= Len(f[i + d])
        /\ \A k \in 1..Len(f[i]) : f[i + d][k] = f[i][k]
    BY <2>2, <2>3, <2>4
  <2> QED BY <2>5
<1>4. n - i \in S
  <2>1. n - i \in Nat /\ n - i \in 0..(n - i)
    BY <1>1
  <2> HIDE DEF S
  <2> QED BY <1>2, <1>3, <2>1, Induction
<1>5. i + (n - i) = n
  BY <1>1
<1> QED BY <1>4, <1>5 DEF n

\* How long they are ...
LEMMA JoinedLen ==
    ASSUME NEW V, NEW s \in Seq(Seq(V)), NEW f, f = Joined(s, V), NEW i \in 1..Len(s)
    PROVE  /\ Len(f[i - 1]) \in Nat /\ Len(s[i]) \in Nat
           /\ Len(f[i]) = Len(f[i - 1]) + Len(s[i])
           /\ FlattenSeq(s) \in Seq(V) /\ Len(f[i]) <= Len(FlattenSeq(s))
<1> DEFINE a == f[i - 1]
           b == s[i]
<1>1. IsJoined(f, s, V)
  BY JoinedExists
<1>2. FlattenSeq(s) = f[Len(s)]
  BY <1>1, JoinedIsFlat
<1>3. i \in 0..Len(s) /\ i - 1 \in 0..Len(s) /\ Len(s) \in 0..Len(s)
  OBVIOUS
<1>4. Len(f[i]) <= Len(FlattenSeq(s))
  BY <1>1, <1>2, <1>3, JoinedGrows
<1>5. f[i] = a \o b /\ a \in Seq(V) /\ b \in Seq(V) /\ f[Len(s)] \in Seq(V)
  <2>1. b \in Seq(V)
    OBVIOUS
  <2>2. f \in [0..Len(s) -> Seq(V)] /\ f[i] = a \o b
    BY <1>1 DEF IsJoined
  <2> QED BY <1>3, <2>1, <2>2
<1> HIDE DEF a, b
<1>6. Len(a) \in Nat /\ Len(b) \in Nat /\ Len(a \o b) = Len(a) + Len(b)
  BY <1>5, ConcatAt
<1> QED BY <1>2, <1>4, <1>5, <1>6 DEF a, b

\* ... and where the elements of each of them are.
LEMMA JoinedAt ==
    ASSUME NEW V, NEW s \in Seq(Seq(V)), NEW f, f = Joined(s, V), NEW i \in 1..Len(s)
    PROVE  Stands(s[i], FlattenSeq(s), Len(f[i - 1]))
<1> DEFINE a == f[i - 1]
           b == s[i]
<1>1. IsJoined(f, s, V)
  BY JoinedExists
<1>2. FlattenSeq(s) = f[Len(s)]
  BY <1>1, JoinedIsFlat
<1>3. i \in 0..Len(s) /\ i - 1 \in 0..Len(s) /\ Len(s) \in 0..Len(s)
  OBVIOUS
<1>4. \A k \in 1..Len(f[i]) : FlattenSeq(s)[k] = f[i][k]
  BY <1>1, <1>2, <1>3, JoinedGrows
<1>5. f[i] = a \o b /\ a \in Seq(V) /\ b \in Seq(V)
  <2>1. b \in Seq(V)
    OBVIOUS
  <2>2. f \in [0..Len(s) -> Seq(V)] /\ f[i] = a \o b
    BY <1>1 DEF IsJoined
  <2> QED BY <1>3, <2>1, <2>2
<1> HIDE DEF a, b
<1>6. /\ Len(a) \in Nat /\ Len(b) \in Nat /\ Len(a \o b) = Len(a) + Len(b)
      /\ \A k \in 1..Len(b) : (a \o b)[Len(a) + k] = b[k]
  BY <1>5, ConcatAt
<1>7. \A k \in 1..Len(b) : Len(a) + k \in 1..Len(f[i])
  BY <1>5, <1>6
<1> QED BY <1>4, <1>5, <1>6, <1>7 DEF a, b, Stands

\* Their beginning and their end.
LEMMA JoinedFirst ==
    ASSUME NEW V, NEW s \in Seq(Seq(V))
    PROVE  /\ Joined(s, V)[0] = <<>> /\ FlattenSeq(s) = Joined(s, V)[Len(s)]
           /\ FlattenSeq(s) \in Seq(V)
<1>1. IsJoined(Joined(s, V), s, V)
  BY JoinedExists
<1>2. FlattenSeq(s) = Joined(s, V)[Len(s)]
  BY <1>1, JoinedIsFlat
<1> DEFINE f == Joined(s, V)
<1>3. f \in [0..Len(s) -> Seq(V)] /\ f[0] = <<>>
  BY <1>1 DEF IsJoined
<1> HIDE DEF f
<1>4. f[Len(s)] \in Seq(V)
  BY <1>3
<1> QED BY <1>2, <1>3, <1>4 DEF f
-----------------------------------------------------------------------------
(* The list, its rows and its lines *)

\* What the assumption on the list says of a page.
LEMMA PageIs ==
    ASSUME NEW p \in Pages
    PROVE  /\ Len(List) \in Nat /\ p \in 1..Len(List) /\ p \in Nat /\ Len(List[p]) \in Nat
           /\ \A r \in 1..Len(List[p]) :
                /\ List[p][r] \in RowType /\ List[p][r].titleLines \in Nat
                /\ List[p][r].linked \in BOOLEAN
                /\ <<p, r>> \in Places /\ <<p, r>>[1] = p /\ <<p, r>>[2] = r
           /\ RowsOf(p) \in Seq(Places) /\ Len(RowsOf(p)) = Len(List[p])
           /\ \A r \in 1..Len(List[p]) : RowsOf(p)[r] = <<p, r>>
<1>1. Len(List) \in Nat /\ p \in 1..Len(List) /\ p \in Nat
  BY ListAssumption DEF Pages
<1>2. List[p] \in Seq(RowType)
  BY <1>1, ListAssumption
<1>3. Len(List[p]) \in Nat /\ \A r \in 1..Len(List[p]) : List[p][r] \in RowType
  BY <1>2
<1>4. \A r \in 1..Len(List[p]) : /\ List[p][r].titleLines \in Nat
                                 /\ List[p][r].linked \in BOOLEAN
  BY <1>3 DEF RowType
<1>5. \A r \in 1..Len(List[p]) : <<p, r>> \in Places /\ <<p, r>>[1] = p /\ <<p, r>>[2] = r
  BY <1>1, <1>3 DEF Places
<1>6. /\ RowsOf(p) \in Seq(Places) /\ Len(RowsOf(p)) = Len(List[p])
      /\ \A r \in 1..Len(List[p]) : RowsOf(p)[r] = <<p, r>>
  BY <1>3, <1>5 DEF RowsOf
<1> QED BY <1>1, <1>3, <1>4, <1>5, <1>6

\* The rows are numbered page by page.
LEMMA RowsAt ==
    /\ AllRows \in Seq(Places) /\ Before(1) = 0 /\ 1 \in Pages
    /\ \A p \in Pages :
        /\ Before(p) \in Nat /\ Before(p) + Len(List[p]) <= Len(AllRows)
        /\ p + 1 \in Pages => Before(p + 1) = Before(p) + Len(List[p])
        /\ \A r \in 1..Len(List[p]) : AllRows[Before(p) + r] = <<p, r>>
<1> DEFINE pages == [q \in Pages |-> RowsOf(q)]
<1>1. Len(List) \in Nat \ {0} /\ Pages = 1..Len(List)
  BY ListAssumption DEF Pages
<1>2. pages \in Seq(Seq(Places)) /\ Len(pages) = Len(List) /\ \A q \in Pages : pages[q] = RowsOf(q)
  <2>1. \A q \in Pages : RowsOf(q) \in Seq(Places)
    BY PageIs
  <2> QED BY <1>1, <2>1
<1>3. AllRows = FlattenSeq(pages)
  BY DEF AllRows, RowsOf
<1>4. \A q : Before(q) = Len(Joined(pages, Places)[q - 1])
  BY DEF Before
<1> HIDE DEF pages
<1>5. Before(1) = 0
  <2>1. Joined(pages, Places)[0] = <<>> /\ Before(1) = Len(Joined(pages, Places)[1 - 1])
    BY <1>2, <1>4, JoinedFirst
  <2>2. 1 - 1 = 0 /\ Len(<<>>) = 0
    OBVIOUS
  <2> QED BY <2>1, <2>2
<1>6. ASSUME NEW p \in Pages
      PROVE  /\ AllRows \in Seq(Places)
             /\ Before(p) \in Nat /\ Before(p) + Len(List[p]) <= Len(AllRows)
             /\ p + 1 \in Pages => Before(p + 1) = Before(p) + Len(List[p])
             /\ \A r \in 1..Len(List[p]) : AllRows[Before(p) + r] = <<p, r>>
  <2> DEFINE f == Joined(pages, Places)
  <2>1. pages \in Seq(Seq(Places)) /\ p \in 1..Len(pages) /\ pages[p] = RowsOf(p)
    BY <1>1, <1>2
  <2>2. /\ Len(f[p - 1]) \in Nat /\ Len(pages[p]) \in Nat
        /\ Len(f[p]) = Len(f[p - 1]) + Len(pages[p])
        /\ AllRows \in Seq(Places) /\ Len(f[p]) <= Len(AllRows)
        /\ \A k \in 1..Len(pages[p]) : AllRows[Len(f[p - 1]) + k] = pages[p][k]
    <3>1. pages \in Seq(Seq(Places)) /\ p \in 1..Len(pages) /\ f = Joined(pages, Places)
      BY <2>1
    <3> HIDE DEF f
    <3>2. /\ Len(f[p - 1]) \in Nat /\ Len(pages[p]) \in Nat
          /\ Len(f[p]) = Len(f[p - 1]) + Len(pages[p])
          /\ FlattenSeq(pages) \in Seq(Places) /\ Len(f[p]) <= Len(FlattenSeq(pages))
      BY <3>1, JoinedLen
    <3>3. \A k \in 1..Len(pages[p]) : FlattenSeq(pages)[Len(f[p - 1]) + k] = pages[p][k]
      <4>1. Stands(pages[p], FlattenSeq(pages), Len(f[p - 1]))
        BY <3>1, JoinedAt
      <4> QED BY <4>1 DEF Stands
    <3> QED BY <1>3, <3>2, <3>3
  <2>3. Before(p) = Len(f[p - 1]) /\ Before(p + 1) = Len(f[p])
    <3>1. (p + 1) - 1 = p
      BY <1>1
    <3> QED BY <1>4, <3>1
  <2> HIDE DEF f
  <2>4. Len(pages[p]) = Len(List[p]) /\ \A r \in 1..Len(List[p]) : pages[p][r] = <<p, r>>
    BY <2>1, PageIs
  <2> QED BY <2>2, <2>3, <2>4
<1> QED BY <1>1, <1>5, <1>6

\* The lines of a row, by number.
LEMMA RowLinesAt ==
    ASSUME NEW row \in RowType
    PROVE  LET ls == RowLines(row)
               t  == row.titleLines
           IN /\ ls \in Seq(Marks) /\ Len(ls) = t + 11
              /\ ls[1] = "found" /\ (ls[5] = "url" <=> row.linked)
              /\ \A k \in 2..(t + 11) : ls[k] # "found" /\ ls[k] # "next"
              /\ \A k \in 6..(t + 5) : ls[k] # "close"
              /\ ls[t + 6] = "close"
<1> DEFINE t == row.titleLines
           a == <<"found", "blank", "blank", "blank", IF row.linked THEN "url" ELSE "blank">>
           b == [k \in 1..t |-> "title"]
           c == <<"close", "blank", "author", "hits", "replys", "time">>
<1>1. t \in Nat /\ row.linked \in BOOLEAN
  BY DEF RowType
<1>2. a \in Seq(Marks) /\ Len(a) = 5
  <2>1. (IF row.linked THEN "url" ELSE "blank") \in Marks
    BY DEF Marks
  <2>2. "found" \in Marks /\ "blank" \in Marks
    BY DEF Marks
  <2> QED BY <2>1, <2>2
<1>3. /\ a[1] = "found" /\ (a[5] = "url" <=> row.linked)
      /\ \A k \in 2..5 : a[k] # "found" /\ a[k] # "next"
  BY <1>1
<1>4. b \in Seq(Marks) /\ Len(b) = t /\ \A k \in 1..t : b[k] = "title"
  <2>1. "title" \in Marks
    BY DEF Marks
  <2> HIDE DEF t
  <2> QED BY <1>1, <2>1
<1>5. /\ c \in Seq(Marks) /\ Len(c) = 6 /\ c[1] = "close"
      /\ \A k \in 1..6 : c[k] # "found" /\ c[k] # "next"
  <2>1. /\ "close" \in Marks /\ "blank" \in Marks /\ "author" \in Marks /\ "hits" \in Marks
        /\ "replys" \in Marks /\ "time" \in Marks
    BY DEF Marks
  <2>2. c \in Seq(Marks) /\ Len(c) = 6 /\ c[1] = "close"
    BY <2>1
  <2>3. \A k \in 1..6 : c[k] \in {"close", "blank", "author", "hits", "replys", "time"}
    OBVIOUS
  <2> HIDE DEF c
  <2> QED BY <2>2, <2>3
<1>6. RowLines(row) = (a \o b) \o c
  BY DEF RowLines
<1> HIDE DEF a, b, c, t
<1>7. /\ a \o b \in Seq(Marks) /\ Len(a \o b) = t + 5
      /\ \A k \in 1..5 : (a \o b)[k] = a[k]
      /\ \A k \in 1..t : (a \o b)[5 + k] = b[k]
  <2>1. /\ a \o b \in Seq(Marks) /\ Len(a \o b) = Len(a) + Len(b)
        /\ \A i \in 1..Len(a) : (a \o b)[i] = a[i]
        /\ \A i \in 1..Len(b) : (a \o b)[Len(a) + i] = b[i]
    <3>1. a \in Seq(Marks) /\ b \in Seq(Marks)
      BY <1>2, <1>4
    <3> QED BY <3>1
  <2> QED BY <1>1, <1>2, <1>4, <2>1
<1> DEFINE d == a \o b
<1> HIDE DEF d
<1>8. d \in Seq(Marks) /\ Len(d) = t + 5
  BY <1>7 DEF d
<1>9. /\ d \o c \in Seq(Marks) /\ Len(d \o c) = t + 11
      /\ \A k \in 1..(t + 5) : (d \o c)[k] = d[k]
      /\ \A k \in 1..6 : (d \o c)[(t + 5) + k] = c[k]
  <2>1. /\ d \o c \in Seq(Marks) /\ Len(d \o c) = Len(d) + Len(c)
        /\ \A i \in 1..Len(d) : (d \o c)[i] = d[i]
        /\ \A i \in 1..Len(c) : (d \o c)[Len(d) + i] = c[i]
    <3>1. d \in Seq(Marks) /\ c \in Seq(Marks)
      BY <1>5, <1>8
    <3> QED BY <3>1
  <2> QED BY <1>1, <1>5, <1>8, <2>1
<1> DEFINE ls == d \o c
<1> HIDE DEF ls
<1>10. /\ ls \in Seq(Marks) /\ Len(ls) = t + 11
       /\ \A k \in 1..5 : ls[k] = a[k]
       /\ \A k \in 6..(t + 5) : ls[k] = "title"
       /\ \A k \in (t + 6)..(t + 11) : ls[k] = c[k - (t + 5)]
  <2>1. ASSUME NEW k \in 1..5
        PROVE  (d \o c)[k] = a[k]
    <3>1. k \in 1..(t + 5) /\ d[k] = a[k]
      BY <1>1, <1>7 DEF d
    <3> QED BY <1>9, <3>1
  <2>2. ASSUME NEW k \in 6..(t + 5)
        PROVE  (d \o c)[k] = "title"
    <3>1. k - 5 \in 1..t /\ 5 + (k - 5) = k /\ k \in 1..(t + 5)
      BY <1>1
    <3>2. d[k] = "title"
      BY <1>4, <1>7, <3>1 DEF d
    <3> QED BY <1>9, <3>1, <3>2
  <2>3. ASSUME NEW k \in (t + 6)..(t + 11)
        PROVE  (d \o c)[k] = c[k - (t + 5)]
    <3>1. k - (t + 5) \in 1..6 /\ (t + 5) + (k - (t + 5)) = k
      BY <1>1
    <3> QED BY <1>9, <3>1
  <2> QED BY <1>9, <2>1, <2>2, <2>3 DEF ls
<1>11. ls[1] = "found" /\ (ls[5] = "url" <=> row.linked)
  BY <1>3, <1>10
<1>12. ASSUME NEW k \in 2..(t + 11)
       PROVE  ls[k] # "found" /\ ls[k] # "next"
  <2>1. CASE k \in 2..5
    BY <1>3, <1>10, <2>1
  <2>2. CASE k \in 6..(t + 5)
    BY <1>10, <2>2
  <2>3. CASE k \in (t + 6)..(t + 11)
    <3>1. k - (t + 5) \in 1..6
      BY <1>1, <2>3
    <3> QED BY <1>5, <1>10, <2>3, <3>1
  <2> QED BY <1>1, <2>1, <2>2, <2>3
<1>13. ls[t + 6] = "close"
  <2>1. t + 6 \in (t + 6)..(t + 11) /\ (t + 6) - (t + 5) = 1
    BY <1>1
  <2> QED BY <1>5, <1>10, <2>1
<1>14. RowLines(row) = ls
  BY <1>6 DEF ls, d
<1> QED BY <1>10, <1>11, <1>12, <1>13, <1>14 DEF t

\* The length of a row.
LEMMA RowLenIs ==
    ASSUME NEW p \in Pages, NEW r \in 1..Len(List[p])
    PROVE  RowLen(p, r) \in Nat /\ RowLen(p, r) >= 11 /\ RowLen(p, r) = List[p][r].titleLines + 11
<1>1. List[p][r].titleLines \in Nat
  BY PageIs
<1> QED BY <1>1 DEF RowLen

\* The lines of a page's rows, row by row.
LEMMA LinesOfIs ==
    ASSUME NEW p \in Pages
    PROVE  /\ LinesOf(p) \in Seq(Seq(LineType)) /\ Len(LinesOf(p)) = Len(List[p])
           /\ \A r \in 1..Len(List[p]) :
                /\ LinesOf(p)[r] \in Seq(LineType) /\ Len(LinesOf(p)[r]) = RowLen(p, r)
                /\ \A k \in 1..RowLen(p, r) :
                    LinesOf(p)[r][k] = [mark |-> RowLines(List[p][r])[k], row |-> <<p, r>>]
<1>1. Len(List[p]) \in Nat
  BY PageIs
<1>2. ASSUME NEW r \in 1..Len(List[p])
      PROVE  LET ls == RowLines(List[p][r])
                 l  == [k \in 1..Len(ls) |-> [mark |-> ls[k], row |-> <<p, r>>]]
             IN /\ l \in Seq(LineType) /\ Len(l) = RowLen(p, r)
                /\ \A k \in 1..RowLen(p, r) : l[k] = [mark |-> ls[k], row |-> <<p, r>>]
  <2> DEFINE ls == RowLines(List[p][r])
  <2>1. List[p][r] \in RowType /\ <<p, r>> \in Places
    BY PageIs
  <2>2. ls \in Seq(Marks) /\ Len(ls) = RowLen(p, r) /\ Len(ls) \in Nat
    BY <2>1, RowLinesAt DEF RowLen
  <2> HIDE DEF ls
  <2>3. \A k \in 1..Len(ls) : [mark |-> ls[k], row |-> <<p, r>>] \in LineType
    BY <2>1, <2>2 DEF LineType
  <2> DEFINE l == [k \in 1..Len(ls) |-> [mark |-> ls[k], row |-> <<p, r>>]]
  <2>4. l \in Seq(LineType) /\ Len(l) = Len(ls)
    BY <2>2, <2>3
  <2>5. \A k \in 1..Len(ls) : l[k] = [mark |-> ls[k], row |-> <<p, r>>]
    OBVIOUS
  <2> HIDE DEF l
  <2>6. l \in Seq(LineType) /\ Len(l) = RowLen(p, r)
        /\ \A k \in 1..RowLen(p, r) : l[k] = [mark |-> ls[k], row |-> <<p, r>>]
    BY <2>2, <2>4, <2>5
  <2> QED BY <2>6 DEF l, ls
<1>3. /\ LinesOf(p) = [r \in 1..Len(List[p]) |-> LinesOf(p)[r]]
      /\ \A r \in 1..Len(List[p]) :
            LinesOf(p)[r] = LET ls == RowLines(List[p][r])
                            IN [k \in 1..Len(ls) |-> [mark |-> ls[k], row |-> <<p, r>>]]
  BY DEF LinesOf
<1>4. \A r \in 1..Len(List[p]) :
        /\ LinesOf(p)[r] \in Seq(LineType) /\ Len(LinesOf(p)[r]) = RowLen(p, r)
        /\ \A k \in 1..RowLen(p, r) :
            LinesOf(p)[r][k] = [mark |-> RowLines(List[p][r])[k], row |-> <<p, r>>]
  <2> TAKE r \in 1..Len(List[p])
  <2> QED BY <1>2, <1>3, Zenon
<1>5. LinesOf(p) \in Seq(Seq(LineType)) /\ Len(LinesOf(p)) = Len(List[p])
  <2> DEFINE m == Len(List[p])
             l == LinesOf(p)
  <2>1. m \in Nat /\ l = [r \in 1..m |-> l[r]] /\ \A r \in 1..m : l[r] \in Seq(LineType)
    BY <1>1, <1>3, <1>4
  <2> HIDE DEF m, l
  <2>2. l \in Seq(Seq(LineType)) /\ Len(l) = m
    BY <2>1
  <2> QED BY <2>2 DEF m, l
<1> QED BY <1>4, <1>5

\* A page: a line before the lines of its rows, and one behind them.
LEMMA LinesAre ==
    ASSUME NEW p \in Pages
    PROVE  LET g == FlattenSeq(LinesOf(p))
           IN /\ g \in Seq(LineType) /\ Len(g) \in Nat
              /\ Len(Lines(p)) = Len(g) + 2 /\ Lines(p)[1].mark = "charset"
              /\ \A k \in 1..Len(g) : Lines(p)[1 + k] = g[k]
              /\ Lines(p)[Len(g) + 2].mark = IF p < Len(List) THEN "next" ELSE "blank"
              /\ Lines(p)[1] \in LineType /\ Lines(p)[Len(g) + 2] \in LineType
<1> DEFINE h == <<[mark |-> "charset", row |-> <<p, 0>>]>>
           e == IF p < Len(List) THEN <<[mark |-> "next", row |-> <<p, 0>>]>>
                ELSE <<[mark |-> "blank", row |-> <<p, 0>>]>>
           g == FlattenSeq(LinesOf(p))
<1>1. <<p, 0>> \in Places
  BY PageIs DEF Places
<1>2. h \in Seq(LineType) /\ Len(h) = 1 /\ h[1].mark = "charset"
  <2>1. [mark |-> "charset", row |-> <<p, 0>>] \in LineType
    BY <1>1 DEF LineType, Marks
  <2> QED BY <2>1
<1>3. /\ e \in Seq(LineType) /\ Len(e) = 1
      /\ e[1].mark = IF p < Len(List) THEN "next" ELSE "blank"
  <2>1. /\ [mark |-> "next", row |-> <<p, 0>>] \in LineType
        /\ [mark |-> "blank", row |-> <<p, 0>>] \in LineType
    BY <1>1 DEF LineType, Marks
  <2>2. CASE p < Len(List)
    BY <2>1, <2>2
  <2>3. CASE ~(p < Len(List))
    BY <2>1, <2>3
  <2> QED BY <2>2, <2>3
<1>4. g \in Seq(LineType)
  <2>1. LinesOf(p) \in Seq(Seq(LineType))
    BY LinesOfIs
  <2> QED BY <2>1, JoinedFirst
<1>5. Lines(p) = (h \o g) \o e
  BY DEF Lines, LinesOf
<1> HIDE DEF h, e, g
<1>6. /\ h \o g \in Seq(LineType) /\ Len(h \o g) = 1 + Len(g) /\ Len(g) \in Nat
      /\ (h \o g)[1] = h[1] /\ \A k \in 1..Len(g) : (h \o g)[1 + k] = g[k]
  <2>1. h \in Seq(LineType) /\ g \in Seq(LineType)
    BY <1>2, <1>4
  <2>2. /\ h \o g \in Seq(LineType) /\ Len(h \o g) = Len(h) + Len(g) /\ Len(g) \in Nat
        /\ \A i \in 1..Len(h) : (h \o g)[i] = h[i]
        /\ \A i \in 1..Len(g) : (h \o g)[Len(h) + i] = g[i]
    BY <2>1
  <2> QED BY <1>2, <2>2
<1> DEFINE a == h \o g
<1>7. /\ a \in Seq(LineType) /\ Len(a) = 1 + Len(g) /\ Len(g) \in Nat
      /\ a[1] = h[1] /\ \A k \in 1..Len(g) : a[1 + k] = g[k]
  BY <1>6
<1> HIDE DEF a
<1>8. /\ Len(a \o e) = Len(a) + 1 /\ (a \o e)[Len(a) + 1] = e[1]
      /\ \A i \in 1..Len(a) : (a \o e)[i] = a[i]
  <2>1. a \in Seq(LineType) /\ e \in Seq(LineType)
    BY <1>3, <1>7
  <2>2. /\ Len(a \o e) = Len(a) + Len(e)
        /\ \A i \in 1..Len(a) : (a \o e)[i] = a[i]
        /\ \A i \in 1..Len(e) : (a \o e)[Len(a) + i] = e[i]
    BY <2>1
  <2> QED BY <1>3, <2>2
<1>9. Lines(p) = a \o e
  BY <1>5 DEF a
<1> DEFINE l == a \o e
<1> HIDE DEF l
<1>10. /\ Len(l) = Len(g) + 2 /\ l[1] = h[1] /\ l[Len(g) + 2] = e[1]
       /\ \A k \in 1..Len(g) : l[1 + k] = g[k]
  <2>1. l[1] = a[1] /\ \A k \in 1..Len(g) : l[1 + k] = a[1 + k]
    <3>1. 1 \in 1..Len(a) /\ \A k \in 1..Len(g) : 1 + k \in 1..Len(a)
      BY <1>7
    <3> QED BY <1>8, <3>1 DEF l
  <2>2. Len(l) = Len(g) + 2 /\ l[Len(g) + 2] = e[1]
    <3>1. Len(a) + 1 = Len(g) + 2
      BY <1>7
    <3> QED BY <1>8, <3>1 DEF l
  <2> QED BY <1>7, <2>1, <2>2
<1>11. h[1] \in LineType /\ e[1] \in LineType
  BY <1>2, <1>3
<1>12. Lines(p) = l
  BY <1>9 DEF l
<1> QED BY <1>2, <1>3, <1>4, <1>7, <1>10, <1>11, <1>12 DEF g

\* The rows of a page follow each other from its second line on.
LEMMA FirstOfPage ==
    ASSUME NEW p \in Pages
    PROVE  /\ First(p, 1) = 1
           /\ First(p, Len(List[p]) + 1) = Len(FlattenSeq(LinesOf(p))) + 1
<1> DEFINE s == LinesOf(p)
           f == Joined(s, LineType)
<1>1. s \in Seq(Seq(LineType)) /\ Len(s) = Len(List[p])
  BY LinesOfIs
<1>2. f[0] = <<>> /\ FlattenSeq(s) = f[Len(s)]
  <2> HIDE DEF s
  <2> QED BY <1>1, JoinedFirst
<1>3. \A r : First(p, r) = 1 + Len(f[r - 1])
  BY DEF First
<1> HIDE DEF f, s
<1>4. /\ First(p, 1) = 1 + Len(f[1 - 1]) /\ 1 - 1 = 0 /\ Len(<<>>) = 0
      /\ First(p, Len(List[p]) + 1) = 1 + Len(f[(Len(List[p]) + 1) - 1])
      /\ (Len(List[p]) + 1) - 1 = Len(List[p])
      /\ Len(f[Len(s)]) \in Nat
  <2>1. Len(List[p]) \in Nat
    BY PageIs
  <2>2. f[Len(s)] \in Seq(LineType)
    BY <1>1, <1>2, JoinedFirst
  <2> QED BY <1>3, <2>1, <2>2
<1> QED BY <1>1, <1>2, <1>4 DEF s

\* The lines of row r stand where the rows before it end.
LEMMA RowStands ==
    ASSUME NEW p \in Pages, NEW r \in 1..Len(List[p])
    PROVE  /\ First(p, r) \in Nat /\ First(p, r) >= 1
           /\ First(p, r + 1) = First(p, r) + RowLen(p, r)
           /\ First(p, r + 1) <= Len(FlattenSeq(LinesOf(p))) + 1
           /\ Stands(LinesOf(p)[r], FlattenSeq(LinesOf(p)), First(p, r) - 1)
<1> DEFINE s == LinesOf(p)
           f == Joined(s, LineType)
<1>1. s \in Seq(Seq(LineType)) /\ r \in 1..Len(s) /\ Len(s[r]) = RowLen(p, r)
  BY LinesOfIs
<1>2. \A q : First(p, q) = 1 + Len(f[q - 1])
  BY DEF First
<1>3. f = Joined(s, LineType)
  OBVIOUS
<1>4. r \in Nat
  BY PageIs
<1> HIDE DEF f, s
<1>5. /\ Len(f[r - 1]) \in Nat /\ Len(s[r]) \in Nat
      /\ Len(f[r]) = Len(f[r - 1]) + Len(s[r])
      /\ FlattenSeq(s) \in Seq(LineType) /\ Len(f[r]) <= Len(FlattenSeq(s))
  BY <1>1, <1>3, JoinedLen
<1>6. Stands(s[r], FlattenSeq(s), Len(f[r - 1]))
  BY <1>1, <1>3, JoinedAt
<1>7. First(p, r) = 1 + Len(f[r - 1]) /\ First(p, r + 1) = 1 + Len(f[r])
  <2>1. (r + 1) - 1 = r
    BY <1>4
  <2> QED BY <1>2, <2>1
<1>8. Len(FlattenSeq(s)) \in Nat /\ First(p, r) - 1 = Len(f[r - 1])
  BY <1>5, <1>7
<1>9. Stands(s[r], FlattenSeq(s), First(p, r) - 1)
  BY <1>6, <1>8
<1>10. /\ First(p, r) \in Nat /\ First(p, r) >= 1
       /\ First(p, r + 1) = First(p, r) + Len(s[r])
       /\ First(p, r + 1) <= Len(FlattenSeq(s)) + 1
  <2> DEFINE a == Len(f[r - 1])
             b == Len(s[r])
             c == Len(f[r])
             d == Len(FlattenSeq(s))
  <2>1. a \in Nat /\ b \in Nat /\ d \in Nat /\ c = a + b /\ c <= d
    BY <1>5, <1>8
  <2>2. First(p, r) = 1 + a /\ First(p, r + 1) = 1 + c
    BY <1>7
  <2> HIDE DEF a, b, c, d
  <2>3. /\ First(p, r) \in Nat /\ First(p, r) >= 1
        /\ First(p, r + 1) = First(p, r) + b
        /\ First(p, r + 1) <= d + 1
    BY <2>1, <2>2
  <2> QED BY <2>3 DEF b, d
<1>11. First(p, r + 1) = First(p, r) + RowLen(p, r)
  BY <1>1, <1>10
<1> QED BY <1>9, <1>10, <1>11, Zenon DEF s

\* What stands before the rows of a page and behind them.
LEMMA LinesAt ==
    ASSUME NEW p \in Pages
    PROVE  /\ First(p, 1) = 1 /\ Lines(p)[1].mark = "charset"
           /\ Len(Lines(p)) = First(p, Len(List[p]) + 1) + 1 /\ Len(Lines(p)) \in Nat
           /\ Lines(p)[Len(Lines(p))].mark = IF p < Len(List) THEN "next" ELSE "blank"
<1> DEFINE g == FlattenSeq(LinesOf(p))
<1>1. /\ Len(g) \in Nat /\ Len(Lines(p)) = Len(g) + 2 /\ Lines(p)[1].mark = "charset"
      /\ Lines(p)[Len(g) + 2].mark = IF p < Len(List) THEN "next" ELSE "blank"
  BY LinesAre
<1>2. First(p, 1) = 1 /\ First(p, Len(List[p]) + 1) = Len(g) + 1
  BY FirstOfPage
<1> HIDE DEF g
<1> QED BY <1>1, <1>2

\* Line number k of row r.
LEMMA LineOfRow ==
    ASSUME NEW p \in Pages, NEW r \in 1..Len(List[p]), NEW k \in 1..RowLen(p, r)
    PROVE  /\ First(p, r) \in Nat /\ First(p, r) >= 1
           /\ First(p, r + 1) = First(p, r) + RowLen(p, r)
           /\ First(p, r) + k <= Len(Lines(p)) - 1
           /\ Lines(p)[First(p, r) + k] = [mark |-> RowLines(List[p][r])[k], row |-> <<p, r>>]
<1> DEFINE g == FlattenSeq(LinesOf(p))
           b == LinesOf(p)[r]
           a == First(p, r)
           m == RowLen(p, r)
<1>1. /\ Len(g) \in Nat /\ Len(Lines(p)) = Len(g) + 2
      /\ \A i \in 1..Len(g) : Lines(p)[1 + i] = g[i]
  BY LinesAre
<1>2. /\ a \in Nat /\ a >= 1 /\ First(p, r + 1) = a + m
      /\ First(p, r + 1) <= Len(g) + 1 /\ Stands(b, g, a - 1)
  BY RowStands
<1>3. Len(b) = m /\ b[k] = [mark |-> RowLines(List[p][r])[k], row |-> <<p, r>>]
  BY LinesOfIs
<1>4. m \in Nat /\ k \in 1..m
  BY RowLenIs
<1> HIDE DEF g, b, a, m
<1>5. g[(a - 1) + k] = b[k]
  BY <1>2, <1>3, <1>4 DEF Stands
<1>6. (a - 1) + k \in 1..Len(g) /\ 1 + ((a - 1) + k) = a + k /\ a + k <= Len(Lines(p)) - 1
  BY <1>1, <1>2, <1>4
<1>7. Lines(p)[a + k] = g[(a - 1) + k]
  BY <1>1, <1>6
<1> QED BY <1>2, <1>3, <1>5, <1>6, <1>7 DEF a, m
-----------------------------------------------------------------------------
(* What is emitted *)

\* What row number n adds.
Adds == [n \in 1..Len(AllRows) |->
            IF Linked(AllRows[n]) THEN <<WholeRow(AllRows[n])>> ELSE <<>>]

\* It is a row whole, or nothing.
LEMMA AddsIs ==
    /\ Len(AllRows) \in Nat /\ Len(Adds) = Len(AllRows)
    /\ Adds \in Seq(Seq(Info))
    /\ \A n \in 1..Len(AllRows) :
        /\ WholeRow(AllRows[n]) \in Info
        /\ Adds[n] = IF Linked(AllRows[n]) THEN <<WholeRow(AllRows[n])>> ELSE <<>>
<1>1. AllRows \in Seq(Places)
  BY RowsAt
<1>2. Len(AllRows) \in Nat /\ \A n \in 1..Len(AllRows) : AllRows[n] \in Places
  <2> DEFINE a == AllRows
  <2>1. a \in Seq(Places)
    BY <1>1
  <2> HIDE DEF a
  <2>2. Len(a) \in Nat /\ \A n \in 1..Len(a) : a[n] \in Places
    BY <2>1
  <2> QED BY <2>2 DEF a
<1>3. \A t \in Places : WholeRow(t) \in Info
  BY DEF WholeRow, Info, Places, NoRow
<1>4. \A n \in 1..Len(AllRows) : WholeRow(AllRows[n]) \in Info
  BY <1>2, <1>3
<1> DEFINE N == Len(AllRows)
           w == [n \in 1..N |-> WholeRow(AllRows[n])]
           l == [n \in 1..N |-> Linked(AllRows[n])]
<1>5. N \in Nat /\ \A n \in 1..N : w[n] \in Info
  BY <1>2, <1>4
<1>6. Adds = [n \in 1..N |-> IF l[n] THEN <<w[n]>> ELSE <<>>]
  BY DEF Adds
<1> HIDE DEF N, w, l
<1>7. \A n \in 1..N : (IF l[n] THEN <<w[n]>> ELSE <<>>) \in Seq(Info)
  <2> TAKE n \in 1..N
  <2>1. <<w[n]>> \in Seq(Info) /\ <<>> \in Seq(Info)
    BY <1>5
  <2> QED BY <2>1
<1>8. Adds \in Seq(Seq(Info)) /\ Len(Adds) = N
  BY <1>5, <1>6, <1>7
<1>9. \A n \in 1..Len(AllRows) :
        Adds[n] = IF Linked(AllRows[n]) THEN <<WholeRow(AllRows[n])>> ELSE <<>>
  BY DEF Adds
<1> QED BY <1>2, <1>4, <1>8, <1>9 DEF N

\* What the definition of Emitted says: one row behind the other.
LEMMA EmittedIs == IsJoined(Emitted, Adds, Info)
<1> DEFINE N == Len(AllRows)
           V == Seq(Info)
           x(n) == WholeRow(AllRows[n])
           IsEmitted(f) ==
               f = [n \in 0..N |-> IF n = 0 THEN <<>>
                                   ELSE IF Linked(AllRows[n]) THEN Append(f[n - 1], x(n))
                                   ELSE f[n - 1]]
<1>1. /\ N \in Nat /\ Len(Adds) = N /\ Adds \in Seq(Seq(Info))
      /\ \A n \in 1..N : x(n) \in Info /\ Adds[n] \in V
      /\ \A n \in 1..N : Adds[n] = IF Linked(AllRows[n]) THEN <<x(n)>> ELSE <<>>
  <2>1. \A n \in 1..Len(Adds) : Adds[n] \in Seq(Info)
    <3>1. Adds \in Seq(Seq(Info))
      BY AddsIs
    <3> QED BY <3>1
  <2> QED BY <2>1, AddsIs
<1>2. Emitted = CHOOSE f : IsEmitted(f)
  BY DEF Emitted
<1>3. \A n \in 1..N, u \in V :
        u \o Adds[n] = IF Linked(AllRows[n]) THEN Append(u, x(n)) ELSE u
  <2> TAKE n \in 1..N, u \in V
  <2> DEFINE y == x(n)
  <2>1. y \in Info /\ u \in Seq(Info) /\ Adds[n] = IF Linked(AllRows[n]) THEN <<y>> ELSE <<>>
    BY <1>1
  <2> HIDE DEF y
  <2>2. u \o <<y>> = Append(u, y) /\ u \o <<>> = u
    BY <2>1
  <2>3. u \o Adds[n] = IF Linked(AllRows[n]) THEN Append(u, y) ELSE u
    BY <2>1, <2>2
  <2> QED BY <2>3 DEF y
<1>4. PICK f : IsJoined(f, Adds, Info)
  BY <1>1, JoinedExists
<1>5. /\ f \in [0..N -> V] /\ f[0] = <<>> /\ \A n \in 1..N : f[n] = f[n - 1] \o Adds[n]
  BY <1>1, <1>4 DEF IsJoined
<1> HIDE DEF N, V, x
<1>6. 0 \in 0..N /\ \A n \in 1..N : n \in 0..N /\ n # 0 /\ n - 1 \in 0..N
  BY <1>1
<1>7. IsEmitted(f)
  <2>1. ASSUME NEW n \in 0..N
        PROVE  f[n] = IF n = 0 THEN <<>>
                      ELSE IF Linked(AllRows[n]) THEN Append(f[n - 1], x(n))
                      ELSE f[n - 1]
    <3>1. n = 0 \/ n \in 1..N
      BY <1>1
    <3>2. n \in 1..N => f[n - 1] \in V
      BY <1>5, <1>6
    <3> QED BY <1>3, <1>5, <1>6, <3>1, <3>2
  <2> QED BY <1>5, <2>1
<1> DEFINE g == Emitted
<1>8. IsEmitted(g)
  <2> HIDE DEF IsEmitted
  <2> QED BY <1>2, <1>7, Zenon
<1> HIDE DEF g
<1>9. g[0] = <<>>
  BY <1>6, <1>8
<1>10. ASSUME NEW n \in 1..N
       PROVE  g[n] = IF Linked(AllRows[n]) THEN Append(g[n - 1], x(n)) ELSE g[n - 1]
  BY <1>6, <1>8
<1>11. \A n \in 0..N : n \in {k \in 0..N : g[k] \in V}
  <2> DEFINE S == {k \in 0..N : g[k] \in V}
  <2>1. 0 \in S
    <3>1. <<>> \in V
      BY DEF V
    <3> QED BY <1>6, <1>9, <3>1
  <2>2. ASSUME NEW n \in 1..N, n - 1 \in S
        PROVE  n \in S
    <3>1. g[n - 1] \in V /\ n \in 0..N
      BY <1>6, <2>2
    <3>2. Append(g[n - 1], x(n)) \in V
      BY <1>1, <3>1 DEF V
    <3>3. g[n] \in V
      BY <1>10, <3>1, <3>2
    <3> QED BY <3>1, <3>3
  <2> HIDE DEF S
  <2>3. \A n \in 0..N : n \in S
    BY <1>1, <2>1, <2>2, Induction
  <2> QED BY <2>3 DEF S
<1>12. g \in [0..N -> V] /\ \A n \in 1..N : g[n] = g[n - 1] \o Adds[n]
  <2>1. \A n \in 0..N : g[n] \in V
    BY <1>11
  <2>2. g = [n \in 0..N |-> g[n]]
    BY <1>8
  <2> HIDE DEF IsEmitted
  <2>3. ASSUME NEW n \in 1..N
        PROVE  g[n] = g[n - 1] \o Adds[n]
    <3>1. g[n - 1] \in V
      BY <1>6, <2>1
    <3> QED BY <1>3, <1>10, <3>1
  <2> QED BY <2>1, <2>2, <2>3
<1> QED BY <1>1, <1>9, <1>12 DEF g, N, V, IsJoined

\* A row with a link is emitted next, whole; one without it is left out.
LEMMA NextEmitted ==
    ASSUME NEW n \in 1..Len(AllRows)
    PROVE  LET x == WholeRow(AllRows[n])
           IN /\ Emitted[n - 1] \in Seq(Info) /\ Len(Emitted[n - 1]) \in Nat
              /\ x \in Info /\ Len(WholeRows) \in Nat
              /\ Linked(AllRows[n]) =>
                    /\ Emitted[n] = Append(Emitted[n - 1], x)
                    /\ Len(Emitted[n - 1]) < Len(WholeRows)
                    /\ WholeRows[Len(Emitted[n - 1]) + 1] = x
              /\ ~Linked(AllRows[n]) => Emitted[n] = Emitted[n - 1]
<1> DEFINE N == Len(AllRows)
           x == WholeRow(AllRows[n])
           a == Emitted[n - 1]
           b == Emitted[n]
           w == WholeRows
<1>1. /\ N \in Nat /\ n \in 1..N /\ n - 1 \in 0..N /\ n \in 0..N /\ N \in 0..N
      /\ x \in Info /\ Adds[n] = IF Linked(AllRows[n]) THEN <<x>> ELSE <<>>
  <2>1. N \in Nat /\ x \in Info
        /\ Adds[n] = IF Linked(AllRows[n]) THEN <<x>> ELSE <<>>
    BY AddsIs
  <2>2. n \in 1..N
    OBVIOUS
  <2> HIDE DEF N, x
  <2>3. n - 1 \in 0..N /\ n \in 0..N /\ N \in 0..N
    BY <2>1, <2>2
  <2> QED BY <2>1, <2>2, <2>3
<1>2. a \in Seq(Info) /\ b \in Seq(Info) /\ w \in Seq(Info) /\ b = a \o Adds[n]
  <2>1. /\ Emitted \in [0..N -> Seq(Info)]
        /\ \A i \in 1..N : Emitted[i] = Emitted[i - 1] \o Adds[i]
    BY EmittedIs, AddsIs DEF IsJoined
  <2> QED BY <1>1, <2>1 DEF WholeRows
<1>3. Len(b) <= Len(w) /\ \A k \in 1..Len(b) : w[k] = b[k]
  <2>1. /\ Adds \in Seq(Seq(Info)) /\ IsJoined(Emitted, Adds, Info) /\ n \in 0..Len(Adds)
        /\ Len(Adds) = N
    BY <1>1, AddsIs, EmittedIs
  <2>2. /\ Len(Emitted[n]) <= Len(Emitted[Len(Adds)])
        /\ \A k \in 1..Len(Emitted[n]) : Emitted[Len(Adds)][k] = Emitted[n][k]
    BY <2>1, JoinedGrows
  <2> QED BY <2>1, <2>2 DEF WholeRows
<1>4. CASE Linked(AllRows[n])
  <2>1. Adds[n] = <<x>>
    BY <1>1, <1>4
  <2> HIDE DEF N, x, a, b, w
  <2>2. a \o <<x>> = Append(a, x) /\ Len(Append(a, x)) = Len(a) + 1
        /\ Append(a, x)[Len(a) + 1] = x /\ Len(a) \in Nat /\ Len(w) \in Nat
    BY <1>1, <1>2
  <2>3. b = Append(a, x)
    BY <1>2, <2>1, <2>2
  <2>4. Len(a) + 1 \in 1..Len(b) /\ Len(a) < Len(w)
    BY <1>3, <2>2, <2>3
  <2>5. w[Len(a) + 1] = x
    BY <1>3, <2>2, <2>3, <2>4
  <2> QED BY <1>1, <1>2, <1>4, <2>2, <2>3, <2>4, <2>5 DEF x, a, b, w
<1>5. CASE ~Linked(AllRows[n])
  <2>1. Adds[n] = <<>>
    BY <1>1, <1>5
  <2> HIDE DEF N, x, a, b, w
  <2>2. b = a /\ Len(a) \in Nat /\ Len(w) \in Nat
    BY <1>2, <2>1
  <2> QED BY <1>1, <1>2, <1>5, <2>2 DEF x, a, b, w
<1> QED BY <1>4, <1>5

\* The same for row r of a page.
LEMMA RowEmitted ==
    ASSUME NEW p \in Pages, NEW r \in 1..Len(List[p])
    PROVE  LET t   == <<p, r>>
               row == List[p][r]
               b   == Emitted[Before(p) + r - 1]
           IN /\ b \in Seq(Info) /\ Len(b) \in Nat /\ t \in Places /\ Len(WholeRows) \in Nat
              /\ row.linked =>
                    /\ Emitted[Before(p) + r] = Append(b, WholeRow(t))
                    /\ Len(b) < Len(WholeRows) /\ WholeRows[Len(b) + 1] = WholeRow(t)
              /\ ~row.linked => Emitted[Before(p) + r] = b
<1> DEFINE n == Before(p) + r
<1>1. /\ <<p, r>> \in Places /\ <<p, r>>[1] = p /\ <<p, r>>[2] = r /\ Len(List[p]) \in Nat
      /\ r \in Nat
  BY PageIs
<1>2. n \in 1..Len(AllRows) /\ AllRows[n] = <<p, r>>
  <2>1. /\ Before(p) \in Nat /\ Before(p) + Len(List[p]) <= Len(AllRows)
        /\ AllRows[Before(p) + r] = <<p, r>>
    BY RowsAt
  <2>2. Len(AllRows) \in Nat
    BY AddsIs
  <2> QED BY <1>1, <2>1, <2>2
<1>3. Linked(AllRows[n]) = List[p][r].linked
  BY <1>1, <1>2 DEF Linked
<1> HIDE DEF n
<1>4. /\ Emitted[n - 1] \in Seq(Info) /\ Len(Emitted[n - 1]) \in Nat
      /\ Len(WholeRows) \in Nat
      /\ List[p][r].linked =>
            /\ Emitted[n] = Append(Emitted[n - 1], WholeRow(<<p, r>>))
            /\ Len(Emitted[n - 1]) < Len(WholeRows)
            /\ WholeRows[Len(Emitted[n - 1]) + 1] = WholeRow(<<p, r>>)
      /\ ~List[p][r].linked => Emitted[n] = Emitted[n - 1]
  <2> DEFINE a == AllRows[n]
             x == WholeRow(a)
  <2>1. /\ Emitted[n - 1] \in Seq(Info) /\ Len(Emitted[n - 1]) \in Nat
        /\ Len(WholeRows) \in Nat
        /\ Linked(a) =>
            /\ Emitted[n] = Append(Emitted[n - 1], x)
            /\ Len(Emitted[n - 1]) < Len(WholeRows)
            /\ WholeRows[Len(Emitted[n - 1]) + 1] = x
        /\ ~Linked(a) => Emitted[n] = Emitted[n - 1]
    BY <1>2, NextEmitted
  <2>2. x = WholeRow(<<p, r>>) /\ Linked(a) = List[p][r].linked
    BY <1>2, <1>3
  <2> HIDE DEF a, x
  <2> QED BY <2>1, <2>2
<1>5. <<p, r>> \in Places
  BY <1>1
<1>6. n = Before(p) + r /\ n - 1 = Before(p) + r - 1
  <2>1. Before(p) \in Nat
    BY RowsAt
  <2> QED BY <1>1, <2>1 DEF n
<1> QED BY <1>4, <1>5, <1>6

\* Every field of it is from the row.
LEMMA WholeRowIs ==
    ASSUME NEW p \in Pages, NEW r \in 1..Len(List[p])
    PROVE  WholeRow(<<p, r>>) = [f \in Fields |->
                IF f = "title" /\ List[p][r].titleLines = 0 THEN NoRow ELSE <<p, r>>]
<1>1. <<p, r>>[1] = p /\ <<p, r>>[2] = r
  BY PageIs
<1> QED BY <1>1 DEF WholeRow
-----------------------------------------------------------------------------
(* The parser, row by row *)

\* Which line comes next can be told from the state.
LEMMA StateTells ==
    ASSUME NEW row \in RowType, NEW t, NEW k \in 1..(row.titleLines + 11), ParserAt(row, t, k)
    PROVE  /\ m_state = "unknown" => k = 1 \/ (k > 5 /\ ~row.linked)
           /\ m_state = "found" => k = 2
           /\ m_state = "skip1" => k = 3
           /\ m_state = "skip2" => k = 4
           /\ m_state = "target" => k = 5
           /\ m_state = "name" => row.linked /\ k > 5 /\ k <= row.titleLines + 6
           /\ m_state = "skip5" => row.linked /\ k = row.titleLines + 7
           /\ m_state = "author" => row.linked /\ k = row.titleLines + 8
           /\ m_state = "hits" => row.linked /\ k = row.titleLines + 9
           /\ m_state = "replys" => row.linked /\ k = row.titleLines + 10
           /\ m_state = "time" => row.linked /\ k = row.titleLines + 11
<1> DEFINE n == row.titleLines
<1>1. n \in Nat /\ row.linked \in BOOLEAN
  BY DEF RowType
<1>2. k \in 1..5 \/ (k \in 6..(n + 6)) \/ k \in {n + 7, n + 8, n + 9, n + 10, n + 11}
  BY <1>1
<1> HIDE DEF n
<1>3. CASE k \in 1..5
  BY <1>3 DEF ParserAt
<1>4. CASE k \in 6..(n + 11)
  <2>1. CASE ~row.linked
    BY <1>1, <1>4, <2>1 DEF ParserAt
  <2>2. CASE row.linked
    BY <1>1, <1>2, <1>4, <2>2 DEF ParserAt, n
  <2> QED BY <1>1, <2>1, <2>2
<1> QED BY <1>1, <1>2, <1>3, <1>4

\* OnPage once the page is known.
LEMMA OnPageNext ==
    ASSUME NEW p \in Pages, m_post_url' = p,
           \/ AtStart(p)' \/ AtEnd(p)'
           \/ \E r \in 1..Len(List[p]) : \E k \in 1..RowLen(p, r) : InRow(p, r, k)'
    PROVE  OnPage'
  BY DEF OnPage

\* Behind a row come the first line of the next one or the end of the page.
LEMMA RowDone ==
    ASSUME NEW p \in Pages, m_post_url' = p, NEW r \in 0..Len(List[p]),
           line' = First(p, r + 1) + 1, m_state' = "unknown",
           m_hits' = Emitted[Before(p) + r]
    PROVE  OnPage'
<1>1. Len(List[p]) \in Nat
  BY PageIs
<1>2. CASE r = Len(List[p])
  <2>1. Len(Lines(p)) = First(p, Len(List[p]) + 1) + 1
    BY LinesAt
  <2>2. AtEnd(p)'
    BY <1>2, <2>1 DEF AtEnd
  <2> QED BY <2>2, OnPageNext
<1>3. CASE r # Len(List[p])
  <2>1. r + 1 \in 1..Len(List[p])
    BY <1>1, <1>3
  <2>2. RowLen(p, r + 1) \in Nat /\ RowLen(p, r + 1) >= 11
    BY <2>1, RowLenIs
  <2>3. 1 \in 1..RowLen(p, r + 1)
    BY <2>2
  <2>4. Before(p) + r = Before(p) + (r + 1) - 1
    <3>1. Before(p) \in Nat
      BY RowsAt
    <3> QED BY <3>1
  <2>5. ParserAt(List[p][r + 1], <<p, r + 1>>, 1)'
    BY DEF ParserAt
  <2>6. InRow(p, r + 1, 1)'
    BY <2>4, <2>5 DEF InRow
  <2> QED BY <2>1, <2>3, <2>6, OnPageNext
<1> QED BY <1>2, <1>3

\* A line in a row: the next line of it, or the row is done with.
LEMMA RowAdvances ==
    ASSUME NEW p \in Pages, m_post_url' = p,
           NEW r \in 1..Len(List[p]), NEW k \in 1..RowLen(p, r),
           line = First(p, r) + k, line' = line + 1,
           \/ k < RowLen(p, r) /\ ParserAt(List[p][r], <<p, r>>, k + 1)'
              /\ m_hits' = Emitted[Before(p) + r - 1]
           \/ k = RowLen(p, r) /\ m_state' = "unknown" /\ m_hits' = Emitted[Before(p) + r]
    PROVE  OnPage'
<1>1. RowLen(p, r) \in Nat /\ First(p, r) \in Nat /\ First(p, r + 1) = First(p, r) + RowLen(p, r)
  BY RowLenIs, LineOfRow
<1>2. CASE k < RowLen(p, r) /\ ParserAt(List[p][r], <<p, r>>, k + 1)'
           /\ m_hits' = Emitted[Before(p) + r - 1]
  <2> DEFINE a == First(p, r)
             m == RowLen(p, r)
  <2>1. k + 1 \in 1..m /\ line' = a + (k + 1)
    <3>1. a \in Nat /\ m \in Nat /\ k \in 1..m /\ k < m /\ line' = a + k + 1
      BY <1>1, <1>2
    <3> HIDE DEF a, m
    <3> QED BY <3>1
  <2>2. InRow(p, r, k + 1)'
    BY <1>2, <2>1 DEF InRow
  <2> QED BY <2>1, <2>2, OnPageNext
<1>3. CASE k = RowLen(p, r) /\ m_state' = "unknown" /\ m_hits' = Emitted[Before(p) + r]
  <2>1. line' = First(p, r + 1) + 1
    BY <1>1, <1>3
  <2>2. r \in 0..Len(List[p])
    BY PageIs
  <2> QED BY <1>3, <2>1, <2>2, RowDone
<1> QED BY <1>2, <1>3

\* The invariant holds before the first start.
LEMMA InitOk ==
    ASSUME Init
    PROVE  IInv
<1>1. NoRow \in Places
  BY DEF NoRow, Places
<1>2. m_info \in Info /\ DOMAIN m_info = Fields
  BY <1>1 DEF Init, Info
<1>3. Len(List) \in Nat /\ <<>> \in Seq(Info)
  BY ListAssumption
<1>4. TypeOK
  <2>1. /\ m_post_url \in 0..Len(List) /\ line \in Nat \ {0}
        /\ m_socket \in {"closed", "open"} /\ m_state \in States
    <3>1. 0 \in 0..Len(List) /\ 1 \in Nat \ {0}
      BY <1>3
    <3>2. m_post_url = 0 /\ line = 1 /\ m_socket = "closed" /\ m_state = "unknown"
      BY DEF Init
    <3> QED BY <3>1, <3>2 DEF States
  <2>2. \A k \in 1..Len(m_hits) : DOMAIN m_hits[k] = Fields
    BY DEF Init
  <2>3. ops = {}
    BY DEF Init
  <2>4. m_abort \in BOOLEAN
    BY DEF Init
  <2> QED BY <1>2, <2>1, <2>2, <2>3, <2>4 DEF TypeOK
<1>5. SingleFlight
  BY DEF Init, SingleFlight
<1>6. PlaceInv
  BY <1>2, <1>3 DEF Init, PlaceInv, started
<1> QED BY <1>4, <1>5, <1>6 DEF IInv

\* Where the crawl is when an operation ends.
LEMMA Running ==
    ASSUME IInv, NEW op \in ops
    PROVE  /\ m_post_url \in Pages /\ started /\ ops = {op}
           /\ m_info \in Info /\ m_hits \in Seq(Info) /\ line \in Nat \ {0}
           /\ op.kind = "line" => OnPage
           /\ op.kind # "line" => m_state = "unknown" /\ m_hits = Emitted[Before(m_post_url)]
           /\ \A sock : Op("line", sock).kind = "line"
<1>1. started
  BY DEF IInv, PlaceInv
<1>2. m_post_url \in Pages
  BY <1>1 DEF IInv, TypeOK, started, Pages
<1>3. ops = {op}
  BY DEF IInv, SingleFlight
<1>4. \A sock : Op("line", sock).kind = "line"
  BY DEF Op
<1> QED BY <1>1, <1>2, <1>3, <1>4 DEF IInv, TypeOK, PlaceInv

\* A page goes on, line by line.
LEMMA LoopKeeps ==
    ASSUME IInv, NEW op \in ops, Loop(op), OnPage',
           m_post_url' = m_post_url, m_abort' = m_abort, m_socket' = m_socket,
           m_info' \in Info, m_hits' \in Seq(Info), m_state' \in States, line' \in Nat \ {0}
    PROVE  IInv'
<1>1. m_post_url \in Pages /\ started /\ ops = {op}
  BY Running
<1>2. ops' = {} \/ ops' = {Op("line", m_socket)}
  BY <1>1 DEF Loop
<1>3. \A k \in 1..Len(m_hits') : DOMAIN m_hits'[k] = Fields
  <2>1. \A k \in 1..Len(m_hits') : m_hits'[k] \in Info
    OBVIOUS
  <2> QED BY <2>1 DEF Info
<1>4. Op("line", m_socket) \in [kind : {"resolve", "connect", "write", "header", "line"},
                                live : BOOLEAN] /\ Op("line", m_socket).kind = "line"
  BY DEF Op
<1>5. TypeOK'
  BY <1>2, <1>3, <1>4 DEF IInv, TypeOK, Info
<1>6. SingleFlight'
  BY <1>2 DEF SingleFlight
<1>7. PlaceInv'
  BY <1>1, <1>2, <1>4 DEF PlaceInv, started
<1> QED BY <1>5, <1>6, <1>7 DEF IInv
-----------------------------------------------------------------------------
(* The steps of the io thread *)

\* The line at hand, in a row.
LEMMA LineNowIs ==
    ASSUME NEW p \in Pages, m_post_url = p,
           NEW r \in 1..Len(List[p]), NEW k \in 1..RowLen(p, r), line = First(p, r) + k
    PROVE  /\ lineNow.mark = RowLines(List[p][r])[k] /\ lineNow.row = <<p, r>>
           /\ <<p, r>> \in Places /\ List[p][r] \in RowType
           /\ k \in 1..(List[p][r].titleLines + 11) /\ List[p][r].titleLines \in Nat
           /\ RowLen(p, r) = List[p][r].titleLines + 11
<1>1. Lines(p)[First(p, r) + k] = [mark |-> RowLines(List[p][r])[k], row |-> <<p, r>>]
  BY LineOfRow
<1>2. lineNow.mark = RowLines(List[p][r])[k] /\ lineNow.row = <<p, r>>
  BY <1>1 DEF lineNow
<1>3. /\ List[p][r] \in RowType /\ List[p][r].titleLines \in Nat /\ <<p, r>> \in Places
      /\ RowLen(p, r) = List[p][r].titleLines + 11
  BY PageIs, RowLenIs
<1> QED BY <1>2, <1>3

\* A handler that needs the parser to be in the middle of a row finds it there.
LEMMA InsideRow ==
    ASSUME NEW p \in Pages, m_post_url = p, OnPage, m_state # "unknown"
    PROVE  \E r \in 1..Len(List[p]) : \E k \in 1..RowLen(p, r) : InRow(p, r, k)
  BY DEF OnPage, AtStart, AtEnd

\* The opening of a row, or a line of a row without a link.
LEMMA HeadLineInRow ==
    ASSUME NEW p \in Pages, m_post_url = p, NEW op, OnHeadLine(op),
           NEW r \in 1..Len(List[p]), NEW k \in 1..RowLen(p, r), InRow(p, r, k)
    PROVE  OnPage'
<1> DEFINE row == List[p][r]
           t == <<p, r>>
<1>1. /\ lineNow.mark = RowLines(row)[k] /\ row \in RowType /\ row.titleLines \in Nat
      /\ k \in 1..(row.titleLines + 11) /\ RowLen(p, r) = row.titleLines + 11
  BY LineNowIs DEF InRow
<1>2. /\ m_state = "unknown" /\ m_post_url' = p /\ line' = line + 1
      /\ m_state' = IF lineNow.mark = "found" THEN "found" ELSE "unknown"
      /\ m_hits' = m_hits /\ line = First(p, r) + k /\ ParserAt(row, t, k)
      /\ m_hits = Emitted[Before(p) + r - 1]
  BY DEF OnHeadLine, GotLine, InRow
<1>3. k = 1 \/ (k > 5 /\ ~row.linked)
  BY <1>1, <1>2, StateTells
<1>4. CASE k = 1
  <2>1. lineNow.mark = "found"
    BY <1>1, <1>4, RowLinesAt
  <2>2. m_state' = "found" /\ k < RowLen(p, r)
    BY <1>1, <1>2, <1>4, <2>1
  <2>3. ParserAt(row, t, k + 1)'
    BY <1>4, <2>2 DEF ParserAt
  <2> QED BY <1>2, <2>2, <2>3, RowAdvances
<1>5. CASE k > 5 /\ ~row.linked
  <2>1. lineNow.mark # "found"
    <3>1. k \in 2..(row.titleLines + 11)
      BY <1>1, <1>5
    <3> QED BY <1>1, <3>1, RowLinesAt
  <2>2. m_state' = "unknown"
    BY <1>2, <2>1
  <2>3. CASE k < RowLen(p, r)
    <3>1. k + 1 > 5 /\ k + 1 # 2 /\ k + 1 # 3 /\ k + 1 # 4 /\ k + 1 # 5
      BY <1>1, <1>5
    <3>2. ParserAt(row, t, k + 1)'
      BY <1>5, <2>2, <3>1 DEF ParserAt
    <3> QED BY <1>2, <2>3, <3>2, RowAdvances
  <2>4. CASE k = RowLen(p, r)
    <3>1. Emitted[Before(p) + r] = Emitted[Before(p) + r - 1]
      BY <1>5, RowEmitted
    <3> QED BY <1>2, <2>2, <2>4, <3>1, RowAdvances
  <2> QED BY <1>1, <2>3, <2>4
<1> QED BY <1>3, <1>4, <1>5

\* Outside the rows: the line before them, the one behind them.
LEMMA HeadLineOk ==
    ASSUME IInv, NEW op \in ops, OnHeadLine(op)
    PROVE  IInv'
<1>1. PICK p \in Pages : m_post_url = p
  BY Running
<1>2. /\ op.kind = "line" /\ line <= Len(Lines(p)) /\ line' = line + 1 /\ m_state = "unknown"
      /\ lineNow.mark # "next" /\ lineNow = Lines(p)[line]
      /\ m_state' = IF lineNow.mark = "found" THEN "found" ELSE "unknown"
      /\ Loop(op) /\ m_post_url' = p /\ m_info' = m_info /\ m_hits' = m_hits
      /\ m_abort' = m_abort /\ m_socket' = m_socket
  BY <1>1 DEF OnHeadLine, GotLine, lineNow
<1>3. OnPage /\ m_info \in Info /\ m_hits \in Seq(Info) /\ line \in Nat \ {0}
  BY <1>2, Running
<1>4. OnPage'
  <2>1. CASE AtStart(p)
    <3>1. First(p, 0 + 1) = 1 /\ Lines(p)[1].mark = "charset"
      BY LinesAt
    <3>2. line' = First(p, 0 + 1) + 1 /\ m_state' = "unknown"
      BY <1>2, <2>1, <3>1 DEF AtStart
    <3>3. m_hits' = Emitted[Before(p) + 0] /\ 0 \in 0..Len(List[p])
      <4>1. Before(p) \in Nat /\ Len(List[p]) \in Nat
        BY PageIs, RowsAt
      <4> QED BY <1>2, <2>1, <4>1 DEF AtStart
    <3> QED BY <1>2, <3>2, <3>3, RowDone
  <2>2. CASE AtEnd(p)
    <3>1. Len(Lines(p)) \in Nat /\ Lines(p)[Len(Lines(p))].mark \in {"next", "blank"}
      BY LinesAt
    <3>2. line = Len(Lines(p))
      BY <1>2, <2>2, <3>1 DEF AtEnd
    <3>3. AtEnd(p)'
      BY <1>2, <2>2, <3>1, <3>2 DEF AtEnd
    <3> QED BY <1>2, <3>3, OnPageNext
  <2>3. ASSUME NEW r \in 1..Len(List[p]), NEW k \in 1..RowLen(p, r), InRow(p, r, k)
        PROVE  OnPage'
    BY <1>1, <2>3, HeadLineInRow
  <2> QED BY <1>1, <1>3, <2>1, <2>2, <2>3 DEF OnPage
<1>5. m_state' \in States
  BY <1>2 DEF States
<1> QED BY <1>1, <1>2, <1>3, <1>4, <1>5, LoopKeeps

\* The pager is the line behind the rows of a page that is not the last.
LEMMA PagerOk ==
    ASSUME IInv, NEW op \in ops, OnPager(op)
    PROVE  IInv'
<1>1. PICK p \in Pages : m_post_url = p
  BY Running
<1>2. /\ op.kind = "line" /\ line <= Len(Lines(p)) /\ line' = line + 1 /\ m_state = "unknown"
      /\ lineNow.mark = "next" /\ lineNow = Lines(p)[line]
      /\ m_post_url' = p + 1 /\ m_state' = "unknown"
      /\ ops' = (ops \ {op}) \cup {Op("resolve", m_socket)}
      /\ m_info' = m_info /\ m_hits' = m_hits /\ m_abort' = m_abort /\ m_socket' = m_socket
  BY <1>1 DEF OnPager, GotLine, Start, lineNow
<1>3. /\ OnPage /\ m_info \in Info /\ m_hits \in Seq(Info) /\ line \in Nat \ {0}
      /\ ops = {op}
  BY <1>2, Running
<1>4. ~AtStart(p)
  <2>1. Lines(p)[1].mark = "charset"
    BY LinesAt
  <2> QED BY <1>2, <2>1 DEF AtStart
<1>5. ASSUME NEW r \in 1..Len(List[p]), NEW k \in 1..RowLen(p, r), InRow(p, r, k)
      PROVE  FALSE
  <2> DEFINE row == List[p][r]
  <2>1. /\ lineNow.mark = RowLines(row)[k] /\ row \in RowType
        /\ k \in 1..(row.titleLines + 11) /\ row.titleLines \in Nat
    BY <1>1, <1>5, LineNowIs DEF InRow
  <2>2. RowLines(row)[1] = "found"
        /\ \A i \in 2..(row.titleLines + 11) : RowLines(row)[i] # "next"
    BY <2>1, RowLinesAt
  <2>3. k = 1 \/ k \in 2..(row.titleLines + 11)
    BY <2>1
  <2> QED BY <1>2, <2>1, <2>2, <2>3
<1>6. AtEnd(p)
  BY <1>1, <1>3, <1>4, <1>5 DEF OnPage
<1>7. p + 1 \in Pages /\ m_hits = Emitted[Before(p + 1)]
  <2>1. Len(Lines(p)) \in Nat
        /\ Lines(p)[Len(Lines(p))].mark = IF p < Len(List) THEN "next" ELSE "blank"
    BY LinesAt
  <2>2. p < Len(List)
    BY <1>2, <1>6, <2>1 DEF AtEnd
  <2>3. p + 1 \in Pages
    BY <2>2, ListAssumption DEF Pages
  <2>4. Before(p + 1) = Before(p) + Len(List[p])
    BY <2>3, RowsAt
  <2> QED BY <1>6, <2>3, <2>4 DEF AtEnd
<1>8. /\ ops' = {Op("resolve", m_socket)} /\ Op("resolve", m_socket).kind = "resolve"
      /\ Op("resolve", m_socket).live \in BOOLEAN
      /\ Op("resolve", m_socket) \in [kind : {"resolve", "connect", "write", "header", "line"},
                                     live : BOOLEAN]
  BY <1>2, <1>3 DEF Op
<1>9. \A i \in 1..Len(m_hits) : DOMAIN m_hits[i] = Fields
  BY DEF IInv, TypeOK
<1>10. TypeOK'
  <2>1. m_post_url' \in 0..Len(List) /\ line' \in Nat \ {0} /\ m_state' \in States
    BY <1>2, <1>3, <1>7, ListAssumption DEF Pages, States
  <2> QED BY <1>2, <1>8, <1>9, <2>1 DEF IInv, TypeOK
<1>11. SingleFlight'
  BY <1>8 DEF SingleFlight
<1>12. PlaceInv'
  <2>1. started'
    BY <1>2, <1>7, ListAssumption DEF started, Pages
  <2> QED BY <1>2, <1>3, <1>7, <1>8, <2>1 DEF PlaceInv
<1> QED BY <1>10, <1>11, <1>12 DEF IInv

\* The parser behind the link of a row that has one.
LEMMA BehindLink ==
    ASSUME NEW n \in Nat, NEW row, row.titleLines = n, NEW t, NEW k \in 6..(n + 11),
           k <= n + 6 => m_state' = "name",
           k = n + 7 => m_state' = "skip5",
           k = n + 8 => m_state' = "author",
           k = n + 9 => m_state' = "hits",
           k = n + 10 => m_state' = "replys",
           k = n + 11 => m_state' = "time",
           m_info'["post_url"] = t, m_info'["title"] = (IF k > 6 /\ n > 0 THEN t ELSE NoRow),
           k > n + 8 => m_info'["author"] = t,
           k > n + 9 => m_info'["hits"] = t,
           k > n + 10 => m_info'["replys"] = t,
           row.linked
    PROVE  ParserAt(row, t, k)'
<1>1. k # 1 /\ k # 2 /\ k # 3 /\ k # 4 /\ k # 5 /\ k > 5
  OBVIOUS
<1> QED BY <1>1 DEF ParserAt

\* What is common to the handlers of the lines within a row.
LEMMA WithinRow ==
    ASSUME IInv, NEW op \in ops, NEW states, GotLine(op, states), "unknown" \notin states
    PROVE  \E p \in Pages : \E r \in 1..Len(List[p]) : \E k \in 1..RowLen(p, r) :
             /\ m_post_url = p /\ InRow(p, r, k) /\ line' = line + 1 /\ line' \in Nat \ {0}
             /\ lineNow.mark = RowLines(List[p][r])[k] /\ lineNow.row = <<p, r>>
<1>1. PICK p \in Pages : m_post_url = p
  BY Running
<1>2. op.kind = "line" /\ line' = line + 1 /\ m_state # "unknown"
  BY DEF GotLine
<1>3. OnPage /\ line \in Nat \ {0}
  BY <1>2, Running
<1>4. PICK r \in 1..Len(List[p]) : \E k \in 1..RowLen(p, r) : InRow(p, r, k)
  BY <1>1, <1>2, <1>3, InsideRow
<1>5. PICK k \in 1..RowLen(p, r) : InRow(p, r, k)
  BY <1>4
<1>6. lineNow.mark = RowLines(List[p][r])[k] /\ lineNow.row = <<p, r>>
  BY <1>1, <1>5, LineNowIs DEF InRow
<1>7. line' \in Nat \ {0}
  BY <1>2, <1>3
<1> QED BY <1>1, <1>2, <1>5, <1>6, <1>7

\* The lines that are only counted.
LEMMA SkippedLineOk ==
    ASSUME IInv, NEW op \in ops, OnSkippedLine(op)
    PROVE  IInv'
<1>1. /\ GotLine(op, DOMAIN Skip) /\ DOMAIN Skip = {"found", "skip1", "skip2", "skip5"}
      /\ m_state \in DOMAIN Skip /\ m_state' = Skip[m_state] /\ Loop(op)
      /\ m_post_url' = m_post_url /\ m_info' = m_info /\ m_hits' = m_hits
      /\ m_abort' = m_abort /\ m_socket' = m_socket
  BY DEF OnSkippedLine, GotLine, Skip
<1>2. "unknown" \notin DOMAIN Skip
  BY <1>1
<1>3. PICK p \in Pages : \E r \in 1..Len(List[p]) : \E k \in 1..RowLen(p, r) :
        /\ m_post_url = p /\ InRow(p, r, k) /\ line' = line + 1 /\ line' \in Nat \ {0}
  BY <1>1, <1>2, WithinRow
<1>4. PICK r \in 1..Len(List[p]) : \E k \in 1..RowLen(p, r) :
        /\ m_post_url = p /\ InRow(p, r, k) /\ line' = line + 1 /\ line' \in Nat \ {0}
  BY <1>3
<1>5. PICK k \in 1..RowLen(p, r) :
        /\ m_post_url = p /\ InRow(p, r, k) /\ line' = line + 1 /\ line' \in Nat \ {0}
  BY <1>4
<1> DEFINE row == List[p][r]
<1>6. /\ row \in RowType /\ row.titleLines \in Nat /\ row.linked \in BOOLEAN
      /\ RowLen(p, r) = row.titleLines + 11 /\ k \in 1..(row.titleLines + 11)
  <2>1. row \in RowType /\ row.titleLines \in Nat /\ row.linked \in BOOLEAN
    BY PageIs
  <2>2. RowLen(p, r) = row.titleLines + 11
    BY RowLenIs
  <2> QED BY <2>1, <2>2
<1>7. /\ ParserAt(row, <<p, r>>, k) /\ line = First(p, r) + k
      /\ m_hits = Emitted[Before(p) + r - 1]
  BY <1>5 DEF InRow
<1>8. /\ m_state = "found" => k = 2
      /\ m_state = "skip1" => k = 3
      /\ m_state = "skip2" => k = 4
      /\ m_state = "skip5" => row.linked /\ k = row.titleLines + 7
  BY <1>6, <1>7, StateTells
<1>9. /\ m_state = "found" => m_state' = "skip1"
      /\ m_state = "skip1" => m_state' = "skip2"
      /\ m_state = "skip2" => m_state' = "target"
      /\ m_state = "skip5" => m_state' = "author"
  BY <1>1 DEF Skip
<1>10. k < RowLen(p, r) /\ ParserAt(row, <<p, r>>, k + 1)'
  <2>1. CASE m_state = "found"
    BY <1>6, <1>8, <1>9, <2>1 DEF ParserAt
  <2>2. CASE m_state = "skip1"
    BY <1>6, <1>8, <1>9, <2>2 DEF ParserAt
  <2>3. CASE m_state = "skip2"
    BY <1>6, <1>8, <1>9, <2>3 DEF ParserAt
  <2>4. CASE m_state = "skip5"
    <3> DEFINE n == row.titleLines
    <3>1. n \in Nat /\ k = n + 7 /\ row.linked /\ m_state' = "author" /\ k < RowLen(p, r)
      BY <1>6, <1>8, <1>9, <2>4
    <3>2. /\ m_info'["post_url"] = <<p, r>>
          /\ m_info'["title"] = IF k > 6 /\ n > 0 THEN <<p, r>> ELSE NoRow
      <4>1. k > 5 /\ row.linked
        <5>1. n \in Nat /\ k = n + 7
          BY <3>1
        <5> HIDE DEF n
        <5>2. k > 5
          BY <5>1
        <5> QED BY <3>1, <5>2
      <4>2. /\ m_info["post_url"] = <<p, r>>
            /\ m_info["title"] = IF k > 6 /\ row.titleLines > 0 THEN <<p, r>> ELSE NoRow
        BY <1>7, <4>1, Zenon DEF ParserAt
      <4>3. m_info' = m_info
        BY <1>1
      <4> QED BY <4>2, <4>3
    <3>3. n = row.titleLines
      OBVIOUS
    <3> HIDE DEF n
    <3>4. /\ n \in Nat /\ k \in Nat /\ k = n + 7
          /\ k + 1 \in 6..(n + 11) /\ k + 1 = n + 8 /\ k + 1 > 6 /\ k > 6
      BY <3>1
    <3>5. /\ k + 1 <= n + 6 => m_state' = "name"
          /\ k + 1 = n + 7 => m_state' = "skip5"
          /\ k + 1 = n + 8 => m_state' = "author"
          /\ k + 1 = n + 9 => m_state' = "hits"
          /\ k + 1 = n + 10 => m_state' = "replys"
          /\ k + 1 = n + 11 => m_state' = "time"
          /\ ~(k + 1 > n + 8) /\ ~(k + 1 > n + 9) /\ ~(k + 1 > n + 10)
      <4>1. m_state' = "author"
        BY <3>1
      <4> QED BY <3>4, <4>1
    <3>6. m_info'["title"] = IF k + 1 > 6 /\ n > 0 THEN <<p, r>> ELSE NoRow
      BY <3>2, <3>4
    <3> QED BY <3>1, <3>2, <3>3, <3>4, <3>5, <3>6, BehindLink
  <2> QED BY <1>1, <2>1, <2>2, <2>3, <2>4
<1>11. OnPage'
  BY <1>1, <1>5, <1>7, <1>10, RowAdvances
<1>12. m_state' \in States
  BY <1>1, <1>9 DEF States
<1>13. m_info' \in Info /\ m_hits' \in Seq(Info)
  BY <1>1 DEF IInv, PlaceInv
<1> QED BY <1>1, <1>5, <1>11, <1>12, <1>13, LoopKeeps

\* The line of the link tells whether the row has one.
LEMMA TargetOk ==
    ASSUME IInv, NEW op \in ops, OnTarget(op)
    PROVE  IInv'
<1>1. /\ GotLine(op, {"target"}) /\ m_state = "target" /\ Loop(op)
      /\ m_post_url' = m_post_url /\ m_hits' = m_hits
      /\ m_abort' = m_abort /\ m_socket' = m_socket
      /\ IF lineNow.mark = "url"
         THEN /\ m_info' = [m_info EXCEPT !["post_url"] = lineNow.row, !["title"] = NoRow]
              /\ m_state' = "name"
         ELSE m_state' = "unknown" /\ m_info' = m_info
  BY DEF OnTarget, GotLine
<1>2. "unknown" \notin {"target"}
  OBVIOUS
<1> DEFINE At(p, r, k) ==
        /\ m_post_url = p /\ InRow(p, r, k) /\ line' = line + 1 /\ line' \in Nat \ {0}
        /\ lineNow.mark = RowLines(List[p][r])[k] /\ lineNow.row = <<p, r>>
<1>3. PICK p \in Pages : \E r \in 1..Len(List[p]) : \E k \in 1..RowLen(p, r) : At(p, r, k)
  BY <1>1, <1>2, WithinRow
<1>4. PICK r \in 1..Len(List[p]) : \E k \in 1..RowLen(p, r) : At(p, r, k)
  BY <1>3
<1>5. PICK k \in 1..RowLen(p, r) : At(p, r, k)
  BY <1>4
<1> DEFINE row == List[p][r]
           t == <<p, r>>
<1>6. /\ row \in RowType /\ row.titleLines \in Nat /\ row.linked \in BOOLEAN
      /\ RowLen(p, r) = row.titleLines + 11 /\ k \in 1..(row.titleLines + 11) /\ t \in Places
  BY <1>5, PageIs, RowLenIs
<1>7. /\ ParserAt(row, t, k) /\ line = First(p, r) + k
      /\ m_hits = Emitted[Before(p) + r - 1]
  BY <1>5 DEF InRow
<1>8. k = 5 /\ (lineNow.mark = "url" <=> row.linked) /\ lineNow.row = t
  <2>1. k = 5
    BY <1>1, <1>6, <1>7, StateTells
  <2> QED BY <1>5, <1>6, <2>1, RowLinesAt
<1>9. m_info \in Info /\ NoRow \in Places /\ m_hits' \in Seq(Info)
  BY <1>1 DEF IInv, PlaceInv, NoRow, Places
<1>10. ParserAt(row, t, k + 1)' /\ m_info' \in Info /\ m_state' \in States
  <2>1. CASE row.linked
    <3>1. /\ m_info' = [m_info EXCEPT !["post_url"] = t, !["title"] = NoRow]
          /\ m_state' = "name"
      BY <1>1, <1>8, <2>1
    <3>2. m_info'["post_url"] = t /\ m_info'["title"] = NoRow /\ m_info' \in Info
      BY <1>6, <1>9, <3>1 DEF Info, Fields
    <3>3. ParserAt(row, t, k + 1)'
      <4> DEFINE n == row.titleLines
      <4>1. n \in Nat /\ n = row.titleLines /\ k = 5
        BY <1>6, <1>8
      <4> HIDE DEF n
      <4>2. k + 1 \in 6..(n + 11) /\ k + 1 <= n + 6 /\ ~(k + 1 > 6)
        BY <4>1
      <4>3. /\ k + 1 <= n + 6 => m_state' = "name"
            /\ k + 1 = n + 7 => m_state' = "skip5"
            /\ k + 1 = n + 8 => m_state' = "author"
            /\ k + 1 = n + 9 => m_state' = "hits"
            /\ k + 1 = n + 10 => m_state' = "replys"
            /\ k + 1 = n + 11 => m_state' = "time"
            /\ ~(k + 1 > n + 8) /\ ~(k + 1 > n + 9) /\ ~(k + 1 > n + 10)
        <5>1. n \in Nat /\ k = 5
          BY <4>1
        <5>2. m_state' = "name"
          BY <3>1
        <5> QED BY <5>1, <5>2
      <4>4. m_info'["post_url"] = t /\ m_info'["title"] = IF k + 1 > 6 /\ n > 0 THEN t ELSE NoRow
        BY <3>2, <4>1
      <4> QED BY <2>1, <4>1, <4>2, <4>3, <4>4, BehindLink
    <3> QED BY <3>1, <3>2, <3>3 DEF States
  <2>2. CASE ~row.linked
    <3>1. m_info' = m_info /\ m_state' = "unknown"
      BY <1>1, <1>8, <2>2
    <3>2. ParserAt(row, t, k + 1)'
      BY <1>8, <2>2, <3>1 DEF ParserAt
    <3> QED BY <1>9, <3>1, <3>2 DEF States
  <2> QED BY <1>6, <2>1, <2>2
<1>11. OnPage'
  <2>1. k < RowLen(p, r)
    BY <1>6, <1>8
  <2> QED BY <1>1, <1>5, <1>7, <1>10, <2>1, RowAdvances
<1> QED BY <1>1, <1>5, <1>9, <1>10, <1>11, LoopKeeps

\* The title ends with the closing tag, and the skipped lines begin there.
LEMMA NameOk ==
    ASSUME IInv, NEW op \in ops, OnName(op)
    PROVE  IInv'
<1>1. /\ GotLine(op, {"name"}) /\ m_state = "name" /\ Loop(op)
      /\ m_post_url' = m_post_url /\ m_hits' = m_hits
      /\ m_abort' = m_abort /\ m_socket' = m_socket
      /\ IF lineNow.mark = "close"
         THEN m_state' = "skip5" /\ m_info' = m_info
         ELSE m_info' = [m_info EXCEPT !["title"] = lineNow.row] /\ m_state' = m_state
  BY DEF OnName, GotLine
<1>2. "unknown" \notin {"name"}
  OBVIOUS
<1> DEFINE At(p, r, k) ==
        /\ m_post_url = p /\ InRow(p, r, k) /\ line' = line + 1 /\ line' \in Nat \ {0}
        /\ lineNow.mark = RowLines(List[p][r])[k] /\ lineNow.row = <<p, r>>
<1>3. PICK p \in Pages : \E r \in 1..Len(List[p]) : \E k \in 1..RowLen(p, r) : At(p, r, k)
  BY <1>1, <1>2, WithinRow
<1>4. PICK r \in 1..Len(List[p]) : \E k \in 1..RowLen(p, r) : At(p, r, k)
  BY <1>3
<1>5. PICK k \in 1..RowLen(p, r) : At(p, r, k)
  BY <1>4
<1> DEFINE row == List[p][r]
           t == <<p, r>>
<1>6. /\ row \in RowType /\ row.titleLines \in Nat
      /\ RowLen(p, r) = row.titleLines + 11 /\ k \in 1..(row.titleLines + 11) /\ t \in Places
  BY <1>5, PageIs, RowLenIs
<1>7. /\ ParserAt(row, t, k) /\ line = First(p, r) + k
      /\ m_hits = Emitted[Before(p) + r - 1]
  BY <1>5 DEF InRow
<1>8. row.linked /\ k > 5 /\ k <= row.titleLines + 6
  BY <1>1, <1>6, <1>7, StateTells
<1>9. lineNow.mark = "close" <=> k = row.titleLines + 6
  <2>1. lineNow.mark = RowLines(row)[k] /\ RowLines(row)[row.titleLines + 6] = "close"
        /\ \A i \in 6..(row.titleLines + 5) : RowLines(row)[i] # "close"
    BY <1>5, <1>6, RowLinesAt
  <2>2. k = row.titleLines + 6 \/ k \in 6..(row.titleLines + 5)
    BY <1>6, <1>8
  <2>3. row.titleLines + 6 \notin 6..(row.titleLines + 5)
    BY <1>6
  <2> QED BY <2>1, <2>2, <2>3
<1>10. m_info \in Info /\ m_hits' \in Seq(Info) /\ lineNow.row = t
  BY <1>1, <1>5 DEF IInv, PlaceInv
<1>11. /\ m_info["post_url"] = t
       /\ m_info["title"] = IF k > 6 /\ row.titleLines > 0 THEN t ELSE NoRow
  BY <1>7, <1>8 DEF ParserAt
<1>12. ParserAt(row, t, k + 1)' /\ m_info' \in Info /\ m_state' \in States
  <2>1. CASE k = row.titleLines + 6
    <3>1. m_state' = "skip5" /\ m_info' = m_info
      BY <1>1, <1>9, <2>1
    <3>2. m_info'["title"] = IF k + 1 > 6 /\ row.titleLines > 0 THEN t ELSE NoRow
      BY <1>6, <1>11, <2>1, <3>1
    <3>3. ParserAt(row, t, k + 1)'
      <4> DEFINE n == row.titleLines
      <4>1. n \in Nat /\ n = row.titleLines /\ k = n + 6
        BY <1>6, <2>1
      <4>2. m_info'["post_url"] = t
        BY <1>11, <3>1
      <4>3. m_info'["title"] = IF k + 1 > 6 /\ n > 0 THEN t ELSE NoRow
        BY <3>2
      <4> HIDE DEF n
      <4>4. k + 1 \in 6..(n + 11)
        BY <4>1
      <4>5. /\ k + 1 <= n + 6 => m_state' = "name"
            /\ k + 1 = n + 7 => m_state' = "skip5"
            /\ k + 1 = n + 8 => m_state' = "author"
            /\ k + 1 = n + 9 => m_state' = "hits"
            /\ k + 1 = n + 10 => m_state' = "replys"
            /\ k + 1 = n + 11 => m_state' = "time"
            /\ ~(k + 1 > n + 8) /\ ~(k + 1 > n + 9) /\ ~(k + 1 > n + 10)
        <5>1. n \in Nat /\ k = n + 6 /\ k \in Nat
          BY <4>1
        <5>2. m_state' = "skip5"
          BY <3>1
        <5> QED BY <5>1, <5>2
      <4> QED BY <1>8, <4>1, <4>2, <4>3, <4>4, <4>5, BehindLink
    <3> QED BY <1>10, <3>1, <3>3 DEF States
  <2>2. CASE k # row.titleLines + 6
    <3>1. m_state' = "name" /\ m_info' = [m_info EXCEPT !["title"] = t]
      BY <1>1, <1>9, <1>10, <2>2
    <3>2. m_info' \in Info /\ m_info'["title"] = t /\ m_info'["post_url"] = t
      BY <1>6, <1>10, <1>11, <3>1 DEF Info, Fields
    <3>3. k + 1 > 6 /\ row.titleLines > 0 /\ k + 1 <= row.titleLines + 6
      <4> DEFINE n == row.titleLines
      <4>1. n \in Nat
        BY <1>6
      <4>2. k > 5 /\ k <= n + 6
        BY <1>8
      <4>3. k # n + 6
        BY <2>2
      <4> HIDE DEF n
      <4>4. k + 1 > 6 /\ n > 0 /\ k + 1 <= n + 6
        BY <4>1, <4>2, <4>3
      <4> QED BY <4>4 DEF n
    <3>4. ParserAt(row, t, k + 1)'
      <4> DEFINE n == row.titleLines
      <4>1. n \in Nat /\ n = row.titleLines /\ k + 1 <= n + 6 /\ k + 1 > 6 /\ n > 0
            /\ k \in Nat
        BY <1>6, <3>3
      <4> HIDE DEF n
      <4>2. k \in Nat /\ k + 1 \in 6..(n + 11)
        BY <4>1
      <4>3. /\ k + 1 <= n + 6 => m_state' = "name"
            /\ k + 1 # n + 7 /\ k + 1 # n + 8 /\ k + 1 # n + 9 /\ k + 1 # n + 10
            /\ k + 1 # n + 11
            /\ ~(k + 1 > n + 8) /\ ~(k + 1 > n + 9) /\ ~(k + 1 > n + 10)
        <5>1. m_state' = "name"
          BY <3>1
        <5>2. n \in Nat /\ k \in Nat /\ k + 1 <= n + 6
          BY <4>1
        <5>3. /\ k + 1 # n + 7 /\ k + 1 # n + 8 /\ k + 1 # n + 9 /\ k + 1 # n + 10
              /\ k + 1 # n + 11
              /\ ~(k + 1 > n + 8) /\ ~(k + 1 > n + 9) /\ ~(k + 1 > n + 10)
          BY <5>2
        <5> QED BY <5>1, <5>3
      <4>4. m_info'["title"] = IF k + 1 > 6 /\ n > 0 THEN t ELSE NoRow
        BY <3>2, <4>1
      <4> QED BY <1>8, <3>2, <4>1, <4>2, <4>3, <4>4, BehindLink
    <3> QED BY <3>1, <3>2, <3>4 DEF States
  <2> QED BY <2>1, <2>2
<1>13. OnPage'
  <2>1. k < RowLen(p, r)
    BY <1>6, <1>8
  <2> QED BY <1>1, <1>5, <1>7, <1>12, <2>1, RowAdvances
<1> QED BY <1>1, <1>5, <1>10, <1>12, <1>13, LoopKeeps

\* The fields are of the row whose link was read.
LEMMA FieldOk ==
    ASSUME IInv, NEW op \in ops, OnField(op)
    PROVE  IInv'
<1>1. /\ GotLine(op, DOMAIN AfterField) /\ DOMAIN AfterField = {"author", "hits", "replys"}
      /\ m_state \in DOMAIN AfterField /\ m_state' = AfterField[m_state] /\ Loop(op)
      /\ m_info' = [m_info EXCEPT ![m_state] = lineNow.row]
      /\ m_post_url' = m_post_url /\ m_hits' = m_hits
      /\ m_abort' = m_abort /\ m_socket' = m_socket
  BY DEF OnField, GotLine, AfterField
<1>2. "unknown" \notin DOMAIN AfterField
  BY <1>1
<1> DEFINE At(p, r, k) ==
        /\ m_post_url = p /\ InRow(p, r, k) /\ line' = line + 1 /\ line' \in Nat \ {0}
        /\ lineNow.row = <<p, r>>
<1>3. PICK p \in Pages : \E r \in 1..Len(List[p]) : \E k \in 1..RowLen(p, r) : At(p, r, k)
  BY <1>1, <1>2, WithinRow
<1>4. PICK r \in 1..Len(List[p]) : \E k \in 1..RowLen(p, r) : At(p, r, k)
  BY <1>3
<1>5. PICK k \in 1..RowLen(p, r) : At(p, r, k)
  BY <1>4
<1> DEFINE row == List[p][r]
           t == <<p, r>>
           n == row.titleLines
<1>6. /\ row \in RowType /\ n \in Nat /\ RowLen(p, r) = n + 11 /\ k \in 1..(n + 11)
      /\ t \in Places
  BY <1>5, PageIs, RowLenIs
<1>7. /\ ParserAt(row, t, k) /\ line = First(p, r) + k
      /\ m_hits = Emitted[Before(p) + r - 1]
  BY <1>5 DEF InRow
<1>8. /\ m_state = "author" => row.linked /\ k = n + 8
      /\ m_state = "hits" => row.linked /\ k = n + 9
      /\ m_state = "replys" => row.linked /\ k = n + 10
      /\ row.linked
  <2>1. /\ m_state = "author" => row.linked /\ k = n + 8
        /\ m_state = "hits" => row.linked /\ k = n + 9
        /\ m_state = "replys" => row.linked /\ k = n + 10
    BY <1>6, <1>7, StateTells
  <2> QED BY <1>1, <2>1
<1>9. n \in Nat /\ RowLen(p, r) = n + 11 /\ n = row.titleLines
  BY <1>6
<1>10. m_info \in Info /\ m_hits' \in Seq(Info) /\ lineNow.row = t
  BY <1>1, <1>5 DEF IInv, PlaceInv
<1> HIDE DEF n
<1>11. /\ k < RowLen(p, r) /\ ParserAt(row, t, k + 1)' /\ m_info' \in Info
       /\ m_state' \in States
  <2>1. CASE m_state = "author"
    <3>1. k = n + 8 /\ m_info' = [m_info EXCEPT !["author"] = t] /\ m_state' = "hits"
      BY <1>1, <1>8, <1>10, <2>1 DEF AfterField
    <3>2. m_info["post_url"] = t
          /\ m_info["title"] = IF k > 6 /\ n > 0 THEN t ELSE NoRow
      <4>1. k > 5 /\ n = row.titleLines
        BY <1>9, <3>1
      <4> QED BY <1>7, <1>8, <4>1 DEF ParserAt
    <3>3. m_info'["post_url"] = t /\ m_info'["author"] = t /\ m_info' \in Info
          /\ m_info'["title"] = m_info["title"]
      BY <1>6, <1>10, <3>1, <3>2 DEF Info, Fields
    <3>4. k \in Nat /\ k + 1 \in 6..(n + 11) /\ k < RowLen(p, r)
          /\ k + 1 > 6 /\ k > 6
      <4>1. n \in Nat /\ k = n + 8 /\ RowLen(p, r) = n + 11
        BY <1>9, <3>1
      <4>2. k \in Nat /\ k + 1 \in 6..(n + 11) /\ k < n + 11 /\ k + 1 > 6 /\ k > 6
        BY <4>1
      <4> QED BY <4>1, <4>2
    <3>5. m_info'["title"] = IF k + 1 > 6 /\ n > 0 THEN t ELSE NoRow
      BY <3>2, <3>3, <3>4
    <3>6. /\ k + 1 <= n + 6 => m_state' = "name"
          /\ k + 1 = n + 7 => m_state' = "skip5"
          /\ k + 1 = n + 8 => m_state' = "author"
          /\ k + 1 = n + 9 => m_state' = "hits"
          /\ k + 1 = n + 10 => m_state' = "replys"
          /\ k + 1 = n + 11 => m_state' = "time"
          /\ k + 1 > n + 8 => m_info'["author"] = t
          /\ k + 1 > n + 9 => m_info'["hits"] = t
          /\ k + 1 > n + 10 => m_info'["replys"] = t
      <4>1. k \in Nat /\ n \in Nat /\ k = n + 8
        BY <1>9, <3>1, <3>4
      <4>2. m_state' = "hits" /\ m_info'["author"] = t
        BY <3>1, <3>3
      <4> QED BY <4>1, <4>2
    <3>7. ParserAt(row, t, k + 1)'
      BY <1>8, <1>9, <3>3, <3>4, <3>5, <3>6, BehindLink
    <3> QED BY <3>1, <3>3, <3>4, <3>7 DEF States
  <2>2. CASE m_state = "hits"
    <3>1. k = n + 9 /\ m_info' = [m_info EXCEPT !["hits"] = t] /\ m_state' = "replys"
      BY <1>1, <1>8, <1>10, <2>2 DEF AfterField
    <3>2. m_info["post_url"] = t /\ m_info["author"] = t
          /\ m_info["title"] = IF k > 6 /\ n > 0 THEN t ELSE NoRow
      <4>1. k > 5 /\ n = row.titleLines /\ k > row.titleLines + 8
        BY <1>9, <3>1
      <4> QED BY <1>7, <1>8, <4>1 DEF ParserAt
    <3>3. m_info'["post_url"] = t /\ m_info'["author"] = t /\ m_info'["hits"] = t /\ m_info' \in Info
          /\ m_info'["title"] = m_info["title"]
      BY <1>6, <1>10, <3>1, <3>2 DEF Info, Fields
    <3>4. k \in Nat /\ k + 1 \in 6..(n + 11) /\ k < RowLen(p, r)
          /\ k + 1 > 6 /\ k > 6
      <4>1. n \in Nat /\ k = n + 9 /\ RowLen(p, r) = n + 11
        BY <1>9, <3>1
      <4>2. k \in Nat /\ k + 1 \in 6..(n + 11) /\ k < n + 11 /\ k + 1 > 6 /\ k > 6
        BY <4>1
      <4> QED BY <4>1, <4>2
    <3>5. m_info'["title"] = IF k + 1 > 6 /\ n > 0 THEN t ELSE NoRow
      BY <3>2, <3>3, <3>4
    <3>6. /\ k + 1 <= n + 6 => m_state' = "name"
          /\ k + 1 = n + 7 => m_state' = "skip5"
          /\ k + 1 = n + 8 => m_state' = "author"
          /\ k + 1 = n + 9 => m_state' = "hits"
          /\ k + 1 = n + 10 => m_state' = "replys"
          /\ k + 1 = n + 11 => m_state' = "time"
          /\ k + 1 > n + 8 => m_info'["author"] = t
          /\ k + 1 > n + 9 => m_info'["hits"] = t
          /\ k + 1 > n + 10 => m_info'["replys"] = t
      <4>1. k \in Nat /\ n \in Nat /\ k = n + 9
        BY <1>9, <3>1, <3>4
      <4>2. m_state' = "replys" /\ m_info'["author"] = t /\ m_info'["hits"] = t
        BY <3>1, <3>3
      <4> QED BY <4>1, <4>2
    <3>7. ParserAt(row, t, k + 1)'
      BY <1>8, <1>9, <3>3, <3>4, <3>5, <3>6, BehindLink
    <3> QED BY <3>1, <3>3, <3>4, <3>7 DEF States
  <2>3. CASE m_state = "replys"
    <3>1. k = n + 10 /\ m_info' = [m_info EXCEPT !["replys"] = t] /\ m_state' = "time"
      BY <1>1, <1>8, <1>10, <2>3 DEF AfterField
    <3>2. m_info["post_url"] = t /\ m_info["author"] = t /\ m_info["hits"] = t
          /\ m_info["title"] = IF k > 6 /\ n > 0 THEN t ELSE NoRow
      <4>1. k > 5 /\ n = row.titleLines /\ k > row.titleLines + 8 /\ k > row.titleLines + 9
        BY <1>9, <3>1
      <4> QED BY <1>7, <1>8, <4>1 DEF ParserAt
    <3>3. m_info'["post_url"] = t /\ m_info'["author"] = t /\ m_info'["hits"] = t /\ m_info'["replys"] = t /\ m_info' \in Info
          /\ m_info'["title"] = m_info["title"]
      BY <1>6, <1>10, <3>1, <3>2 DEF Info, Fields
    <3>4. k \in Nat /\ k + 1 \in 6..(n + 11) /\ k < RowLen(p, r)
          /\ k + 1 > 6 /\ k > 6
      <4>1. n \in Nat /\ k = n + 10 /\ RowLen(p, r) = n + 11
        BY <1>9, <3>1
      <4>2. k \in Nat /\ k + 1 \in 6..(n + 11) /\ k < n + 11 /\ k + 1 > 6 /\ k > 6
        BY <4>1
      <4> QED BY <4>1, <4>2
    <3>5. m_info'["title"] = IF k + 1 > 6 /\ n > 0 THEN t ELSE NoRow
      BY <3>2, <3>3, <3>4
    <3>6. /\ k + 1 <= n + 6 => m_state' = "name"
          /\ k + 1 = n + 7 => m_state' = "skip5"
          /\ k + 1 = n + 8 => m_state' = "author"
          /\ k + 1 = n + 9 => m_state' = "hits"
          /\ k + 1 = n + 10 => m_state' = "replys"
          /\ k + 1 = n + 11 => m_state' = "time"
          /\ k + 1 > n + 8 => m_info'["author"] = t
          /\ k + 1 > n + 9 => m_info'["hits"] = t
          /\ k + 1 > n + 10 => m_info'["replys"] = t
      <4>1. k \in Nat /\ n \in Nat /\ k = n + 10
        BY <1>9, <3>1, <3>4
      <4>2. m_state' = "time" /\ m_info'["author"] = t /\ m_info'["hits"] = t /\ m_info'["replys"] = t
        BY <3>1, <3>3
      <4> QED BY <4>1, <4>2
    <3>7. ParserAt(row, t, k + 1)'
      BY <1>8, <1>9, <3>3, <3>4, <3>5, <3>6, BehindLink
    <3> QED BY <3>1, <3>3, <3>4, <3>7 DEF States
  <2> QED BY <1>1, <2>1, <2>2, <2>3
<1>12. OnPage'
  BY <1>1, <1>5, <1>7, <1>11, RowAdvances
<1> QED BY <1>1, <1>5, <1>10, <1>11, <1>12, LoopKeeps

\* The row is complete, and it is the next one of the list to be emitted.
LEMMA TimeAdds ==
    ASSUME IInv, NEW op \in ops, OnTime(op)
    PROVE  /\ IInv'
           /\ Len(m_hits) < Len(WholeRows)
           /\ m_hits' = Append(m_hits, WholeRows[Len(m_hits) + 1])
<1>1. /\ GotLine(op, {"time"}) /\ m_state = "time" /\ m_state' = "unknown" /\ Loop(op)
      /\ m_info' = [m_info EXCEPT !["post_time"] = lineNow.row]
      /\ m_post_url' = m_post_url /\ m_hits' = Append(m_hits, m_info')
      /\ m_abort' = m_abort /\ m_socket' = m_socket
  BY DEF OnTime, GotLine
<1>2. "unknown" \notin {"time"}
  OBVIOUS
<1> DEFINE At(p, r, k) ==
        /\ m_post_url = p /\ InRow(p, r, k) /\ line' = line + 1 /\ line' \in Nat \ {0}
        /\ lineNow.row = <<p, r>>
<1>3. PICK p \in Pages : \E r \in 1..Len(List[p]) : \E k \in 1..RowLen(p, r) : At(p, r, k)
  BY <1>1, <1>2, WithinRow
<1>4. PICK r \in 1..Len(List[p]) : \E k \in 1..RowLen(p, r) : At(p, r, k)
  BY <1>3
<1>5. PICK k \in 1..RowLen(p, r) : At(p, r, k)
  BY <1>4
<1> DEFINE row == List[p][r]
           t == <<p, r>>
           n == row.titleLines
<1>6. /\ row \in RowType /\ n \in Nat /\ RowLen(p, r) = n + 11 /\ k \in 1..(n + 11)
      /\ t \in Places
  BY <1>5, PageIs, RowLenIs
<1>7. /\ ParserAt(row, t, k) /\ line = First(p, r) + k
      /\ m_hits = Emitted[Before(p) + r - 1]
  BY <1>5 DEF InRow
<1>8. row.linked /\ k = n + 11
  BY <1>1, <1>6, <1>7, StateTells
<1>9. m_info \in Info /\ m_hits \in Seq(Info) /\ lineNow.row = t
  BY <1>5 DEF IInv, PlaceInv
<1>10. /\ m_info["post_url"] = t /\ m_info["author"] = t /\ m_info["hits"] = t
       /\ m_info["replys"] = t /\ m_info["title"] = IF n > 0 THEN t ELSE NoRow
  <2>1. k > 6 /\ k > n + 8 /\ k > n + 9 /\ k > n + 10 /\ k > 5
    BY <1>6, <1>8
  <2> QED BY <1>7, <1>8, <2>1 DEF ParserAt
<1>11. WholeRow(t) = [f \in Fields |-> IF f = "title" /\ n = 0 THEN NoRow ELSE t]
  BY WholeRowIs
<1>12. m_info' \in Info /\ \A f \in Fields : m_info'[f] = WholeRow(t)[f]
  <2>1. m_info' = [m_info EXCEPT !["post_time"] = t]
    BY <1>1, <1>9
  <2>2. m_info' \in Info
    BY <1>6, <1>9, <2>1 DEF Info
  <2>3. m_info'["title"] = IF n = 0 THEN NoRow ELSE t
    <3>1. m_info'["title"] = m_info["title"]
      BY <1>9, <2>1 DEF Info, Fields
    <3>2. n > 0 <=> n # 0
      BY <1>6
    <3> QED BY <1>10, <3>1, <3>2
  <2>4. \A f \in Fields \ {"title"} : m_info'[f] = t
    BY <1>9, <1>10, <2>1 DEF Info, Fields
  <2> HIDE DEF t, n
  <2>5. \A f \in Fields : WholeRow(t)[f] = IF f = "title" /\ n = 0 THEN NoRow ELSE t
    BY <1>11
  <2> QED BY <2>2, <2>3, <2>4, <2>5
<1>13. m_info' = WholeRow(t)
  <2>1. DOMAIN m_info' = Fields /\ DOMAIN WholeRow(t) = Fields
    BY <1>11, <1>12 DEF Info
  <2>2. m_info' = [f \in Fields |-> m_info'[f]]
    BY <1>12 DEF Info
  <2>3. WholeRow(t) = [f \in Fields |-> WholeRow(t)[f]]
    BY DEF WholeRow
  <2> QED BY <1>12, <2>2, <2>3
<1>14. /\ Emitted[Before(p) + r] = Append(m_hits, WholeRow(t))
       /\ Len(m_hits) < Len(WholeRows) /\ WholeRows[Len(m_hits) + 1] = WholeRow(t)
  BY <1>7, <1>8, RowEmitted
<1>15. m_hits' = Append(m_hits, WholeRow(t))
  BY <1>1, <1>13
<1>16. OnPage'
  <2>1. k = RowLen(p, r)
    BY <1>6, <1>8
  <2>2. m_hits' = Emitted[Before(p) + r]
    BY <1>14, <1>15
  <2> QED BY <1>1, <1>5, <1>7, <2>1, <2>2, RowAdvances
<1>17. m_hits' \in Seq(Info) /\ m_state' \in States
  <2>1. m_info' \in Info /\ m_hits \in Seq(Info)
    BY <1>9, <1>12
  <2>2. Append(m_hits, m_info') \in Seq(Info)
    BY <2>1
  <2> QED BY <1>1, <2>2 DEF States
<1>18. IInv'
  BY <1>1, <1>5, <1>12, <1>16, <1>17, LoopKeeps
<1> QED BY <1>14, <1>15, <1>18

\* An operation ends, and the next one is not yet for the lines of the page.
LEMMA OperationOk ==
    ASSUME IInv, NEW op \in ops, UNCHANGED <<m_post_url, parser, m_abort>>,
           m_socket' \in {"closed", "open"},
           \/ ops' = {}
           \/ /\ op.kind # "line"
              /\ \E q \in [kind : {"connect", "write", "header"}, live : BOOLEAN] : ops' = {q}
    PROVE  IInv'
<1>1. /\ m_post_url' = m_post_url /\ m_state' = m_state /\ m_info' = m_info
      /\ m_hits' = m_hits /\ line' = line /\ m_abort' = m_abort
  BY DEF parser
<1>2. \A a, b \in ops' : a = b
  OBVIOUS
<1>3. ops' \subseteq [kind : {"resolve", "connect", "write", "header", "line"}, live : BOOLEAN]
  OBVIOUS
<1>4. TypeOK' /\ SingleFlight'
  BY <1>1, <1>2, <1>3 DEF IInv, TypeOK, SingleFlight
<1>5. PlaceInv'
  <2>1. started /\ started'
    BY <1>1, Running DEF started
  <2>2. m_info \in Info /\ m_hits \in Seq(Info)
    BY Running
  <2>3. ASSUME NEW q \in ops'
        PROVE  /\ q.kind # "line" /\ op.kind # "line"
               /\ m_state' = "unknown" /\ m_hits' = Emitted[Before(m_post_url')]
    <3>1. q.kind # "line" /\ op.kind # "line"
      OBVIOUS
    <3> QED BY <1>1, <3>1, Running
  <2> QED BY <1>1, <2>1, <2>2, <2>3 DEF PlaceInv
<1> QED BY <1>4, <1>5 DEF IInv

\* The answer begins, and with it the page.
LEMMA HeaderOk ==
    ASSUME IInv, NEW op \in ops, OnHeader(op)
    PROVE  IInv'
<1>1. /\ op.kind = "header" /\ line' = 1 /\ Loop(op) /\ m_post_url' = m_post_url
      /\ m_state' = m_state /\ m_info' = m_info /\ m_hits' = m_hits
      /\ m_abort' = m_abort /\ m_socket' = m_socket
  BY DEF OnHeader
<1>2. PICK p \in Pages : m_post_url = p
  BY Running
<1>3. /\ m_state = "unknown" /\ m_hits = Emitted[Before(p)]
      /\ m_info \in Info /\ m_hits \in Seq(Info)
  BY <1>1, <1>2, Running
<1>4. AtStart(p)'
  BY <1>1, <1>3 DEF AtStart
<1>5. OnPage' /\ line' \in Nat \ {0} /\ m_state' \in States
  BY <1>1, <1>2, <1>3, <1>4, OnPageNext DEF States
<1> QED BY <1>1, <1>3, <1>5, LoopKeeps

\* The connection: none of its handlers touches the parser.
LEMMA IoOk ==
    ASSUME IInv, NEW op \in ops,
           \/ OnResolve(op) \/ OnConnect(op) \/ OnNoConnection(op) \/ OnWrite(op) \/ Fails(op)
    PROVE  IInv'
<1> DEFINE Kinds == [kind : {"connect", "write", "header"}, live : BOOLEAN]
<1>1. ops = {op} /\ m_socket \in {"closed", "open"}
  BY Running DEF IInv, TypeOK
<1>2. \A sock : /\ Op("connect", sock) \in Kinds /\ Op("write", sock) \in Kinds
                /\ Op("header", sock) \in Kinds
  BY DEF Op
<1>3. CASE OnResolve(op)
  <2>1. ops' = {Op("connect", m_socket')} /\ op.kind # "line"
    BY <1>1, <1>3 DEF OnResolve
  <2>2. UNCHANGED <<m_post_url, parser, m_abort>> /\ m_socket' \in {"closed", "open"}
    BY <1>3 DEF OnResolve
  <2> QED BY <1>2, <2>1, <2>2, OperationOk
<1>4. CASE OnConnect(op)
  <2>1. ops' = {Op("write", m_socket)} /\ op.kind # "line"
    BY <1>1, <1>4 DEF OnConnect
  <2>2. UNCHANGED <<m_post_url, parser, m_abort>> /\ m_socket' \in {"closed", "open"}
    BY <1>1, <1>4 DEF OnConnect
  <2> QED BY <1>2, <2>1, <2>2, OperationOk
<1>5. CASE OnWrite(op)
  <2>1. ops' = {Op("header", m_socket)} /\ op.kind # "line"
    BY <1>1, <1>5 DEF OnWrite
  <2>2. UNCHANGED <<m_post_url, parser, m_abort>> /\ m_socket' \in {"closed", "open"}
    BY <1>1, <1>5 DEF OnWrite
  <2> QED BY <1>2, <2>1, <2>2, OperationOk
<1>6. CASE OnNoConnection(op)
  <2>1. ops' = {} /\ UNCHANGED <<m_post_url, parser, m_abort>> /\ m_socket' \in {"closed", "open"}
    BY <1>1, <1>6 DEF OnNoConnection
  <2> QED BY <2>1, OperationOk
<1>7. CASE Fails(op)
  <2>1. ops' = {} /\ UNCHANGED <<m_post_url, parser, m_abort>> /\ m_socket' \in {"closed", "open"}
    BY <1>1, <1>7 DEF Fails
  <2> QED BY <2>1, OperationOk
<1> QED BY <1>3, <1>4, <1>5, <1>6, <1>7
-----------------------------------------------------------------------------
(* The steps of the GUI thread *)

\* The first page.
LEMMA StartOk ==
    ASSUME IInv, GuiStart
    PROVE  IInv'
<1>1. /\ ~started /\ m_post_url' = 1 /\ m_state' = "unknown"
      /\ ops' = {Op("resolve", m_socket)}
      /\ m_info' = m_info /\ m_hits' = m_hits /\ line' = line
      /\ m_abort' = m_abort /\ m_socket' = m_socket
  BY DEF GuiStart, Start
<1>2. /\ Op("resolve", m_socket).kind = "resolve"
      /\ Op("resolve", m_socket) \in [kind : {"resolve", "connect", "write", "header", "line"},
                                     live : BOOLEAN]
  BY DEF Op
<1>3. m_hits' = Emitted[Before(1)]
  <2>1. Emitted[0] = <<>> /\ Before(1) = 0
    BY EmittedIs, RowsAt DEF IsJoined
  <2> QED BY <1>1, <2>1 DEF IInv, PlaceInv
<1>4. TypeOK'
  <2>1. m_post_url' \in 0..Len(List) /\ m_state' \in States
    BY <1>1, ListAssumption DEF States
  <2> QED BY <1>1, <1>2, <2>1 DEF IInv, TypeOK
<1>5. SingleFlight'
  BY <1>1 DEF SingleFlight
<1>6. PlaceInv'
  <2>1. started' /\ m_info' \in Info /\ m_hits' \in Seq(Info)
    BY <1>1 DEF IInv, PlaceInv, started
  <2> QED BY <1>1, <1>2, <1>3, <2>1 DEF PlaceInv
<1> QED BY <1>4, <1>5, <1>6 DEF IInv

\* stop() moves neither the parser nor the operation in flight.
LEMMA StopOk ==
    ASSUME IInv, GuiStop \/ UNCHANGED vars
    PROVE  IInv'
<1>1. /\ m_post_url' = m_post_url /\ m_state' = m_state /\ m_info' = m_info
      /\ m_hits' = m_hits /\ line' = line /\ ops' = ops
      /\ m_abort' \in BOOLEAN /\ m_socket' \in {"closed", "open"}
  BY DEF IInv, TypeOK, GuiStop, vars, parser
<1>2. TypeOK' /\ SingleFlight'
  BY <1>1 DEF IInv, TypeOK, SingleFlight
<1>3. OnPage => OnPage'
  <2>1. ASSUME NEW row, NEW t, NEW k, ParserAt(row, t, k)
        PROVE  ParserAt(row, t, k)'
    BY <1>1, <2>1, Zenon DEF ParserAt
  <2>2. ASSUME NEW p, NEW r, NEW k, InRow(p, r, k)
        PROVE  InRow(p, r, k)'
    BY <1>1, <2>1, <2>2 DEF InRow
  <2>3. ASSUME NEW p
        PROVE  (AtStart(p) => AtStart(p)') /\ (AtEnd(p) => AtEnd(p)')
    BY <1>1 DEF AtStart, AtEnd
  <2>4. m_post_url' = m_post_url
    BY <1>1
  <2> QED BY <2>2, <2>3, <2>4 DEF OnPage
<1>4. PlaceInv'
  BY <1>1, <1>3 DEF IInv, PlaceInv, started
<1> QED BY <1>2, <1>4 DEF IInv
-----------------------------------------------------------------------------
(* The theorems *)

\* Every step keeps the invariant.
LEMMA StepOk == IInv /\ [Next]_vars => IInv'
<1> SUFFICES ASSUME IInv, [Next]_vars
             PROVE  IInv'
  OBVIOUS
<1>1. CASE GuiStart
  BY <1>1, StartOk
<1>2. CASE GuiStop \/ UNCHANGED vars
  BY <1>2, StopOk
<1>3. ASSUME NEW op \in ops,
             \/ OnResolve(op) \/ OnConnect(op) \/ OnNoConnection(op)
             \/ OnWrite(op) \/ OnHeader(op) \/ OnLine(op) \/ Fails(op)
      PROVE  IInv'
  <2>1. CASE OnLine(op)
    BY <2>1, HeadLineOk, PagerOk, SkippedLineOk, TargetOk, NameOk, FieldOk, TimeAdds DEF OnLine
  <2>2. CASE OnHeader(op)
    BY <2>2, HeaderOk
  <2>3. CASE OnResolve(op) \/ OnConnect(op) \/ OnNoConnection(op) \/ OnWrite(op) \/ Fails(op)
    BY <2>3, IoOk
  <2> QED BY <1>3, <2>1, <2>2, <2>3
<1> QED BY <1>1, <1>2, <1>3 DEF Next

\* The parser is in step with the page, after every step.
THEOREM ParserInStep == Spec => []IInv
<1>1. Init => IInv
  BY InitOk
<1> QED BY <1>1, StepOk, PTL DEF Spec

\* start() from inside the coroutine leaves one operation in flight, for a list
\* of any pages, rows and titles.
THEOREM ListSafe == Spec => []ListInv
<1>1. IInv => ListInv
  BY DEF IInv, ListInv
<1> QED BY <1>1, ParserInStep, PTL

\* A step that emits nothing ends the crawl or shows nothing of itself.
LEMMA QuietStep ==
    ASSUME started, ops # {}, started', m_hits' = m_hits
    PROVE  Stream!Finish \/ UNCHANGED Stream!vars
<1>1. phase = "running" /\ phase' \in {"running", "ended"}
  BY DEF phase
<1> QED BY <1>1 DEF Stream!Finish, Stream!vars

\* Every step is one of the stream, or shows nothing of itself.
LEMMA StreamStep ==
    ASSUME IInv, [Next]_vars
    PROVE  [Stream!Next]_(Stream!vars)
<1>1. CASE GuiStart
  <2>1. ~started /\ m_post_url' = 1 /\ ops' # {} /\ m_hits' = m_hits
    BY <1>1 DEF GuiStart, Start
  <2>2. phase = "idle" /\ phase' = "running"
    BY <2>1 DEF phase, started
  <2> QED BY <2>1, <2>2 DEF Stream!Next, Stream!Begin
<1>2. CASE GuiStop \/ UNCHANGED vars
  <2>1. m_post_url' = m_post_url /\ ops' = ops /\ m_hits' = m_hits
    BY <1>2 DEF GuiStop, vars, parser
  <2>2. phase' = phase
    BY <2>1 DEF phase, started
  <2> QED BY <2>1, <2>2 DEF Stream!vars
<1>3. ASSUME NEW op \in ops, OnTime(op)
      PROVE  Stream!Deliver
  <2>1. /\ Len(m_hits) < Len(WholeRows)
        /\ m_hits' = Append(m_hits, WholeRows[Len(m_hits) + 1])
    BY <1>3, TimeAdds
  <2>2. started /\ m_post_url' = m_post_url
    BY <1>3, Running DEF OnTime
  <2>3. phase = "running" /\ phase' \in {"running", "ended"}
    BY <1>3, <2>2 DEF phase, started
  <2> QED BY <2>1, <2>3 DEF Stream!Deliver
<1>4. ASSUME NEW op \in ops,
             \/ OnResolve(op) \/ OnConnect(op) \/ OnNoConnection(op)
             \/ OnWrite(op) \/ OnHeader(op) \/ OnLine(op) \/ Fails(op),
             ~OnTime(op)
      PROVE  Stream!Finish \/ UNCHANGED Stream!vars
  <2>1. m_hits' = m_hits /\ (m_post_url' = m_post_url \/ m_post_url' = m_post_url + 1)
    BY <1>4 DEF OnResolve, OnConnect, OnNoConnection, OnWrite, OnHeader, OnLine, Fails,
                OnHeadLine, OnPager, Start, OnSkippedLine, OnTarget, OnName, OnField, parser
  <2>2. started /\ m_post_url \in Nat
    BY Running, ListAssumption DEF Pages
  <2>3. started'
    BY <2>1, <2>2 DEF started
  <2> QED BY <2>1, <2>2, <2>3, QuietStep
<1> QED BY <1>1, <1>2, <1>3, <1>4 DEF Next, Stream!Next

\* The rows are emitted whole, in the order of the list, none twice and none
\* with a link left out: counting lines never falls out of step with the page,
\* not after a row without a link, a title on several lines or the next page.
THEOREM StreamOfRows == Spec => StreamSpec
<1>1. Init => Stream!Init
  BY DEF Init, Stream!Init, phase, started
<1>2. IInv /\ [Next]_vars => [Stream!Next]_(Stream!vars)
  BY StreamStep
<1> QED BY <1>1, <1>2, ParserInStep, PTL DEF Spec, StreamSpec, Stream!Spec
=============================================================================
