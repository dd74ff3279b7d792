-------------------------- MODULE TianyaWindowProofs --------------------------
(* Theorems about TianyaModel, for all threads and all numbers of clicks, and *)
(* about TianyaWindow, which keeps that table up to date, for whatever rows   *)
(* the crawler finds, however many, and however many windows the user opens.  *)
EXTENDS TianyaWindow, SequenceTheorems, TLAPS

-----------------------------------------------------------------------------
(* The table *)

(* What InsertAt of the community modules builds.                             *)
LEMMA InsertAtProperties ==
    ASSUME NEW S, NEW s \in Seq(S), NEW p \in 1..(Len(s) + 1), NEW e \in S
    PROVE  /\ InsertAt(s, p, e) \in Seq(S)
           /\ Len(InsertAt(s, p, e)) = Len(s) + 1
           /\ \A k \in 1..(Len(s) + 1) :
                InsertAt(s, p, e)[k] = IF k < p THEN s[k]
                                       ELSE IF k = p THEN e ELSE s[k - 1]
<1> DEFINE a == SubSeq(s, 1, p - 1)
           b == <<e>>
           c == SubSeq(s, p, Len(s))
<1>1. Len(s) \in Nat /\ \A k \in 1..Len(s) : s[k] \in S
  BY LenProperties, ElementOfSeq
<1>2. /\ a \in Seq(S)
      /\ Len(a) = p - 1
      /\ \A k \in 1..(p - 1) : a[k] = s[k]
  <2>1. \A k \in 1..(p - 1) : s[k] \in S
    BY <1>1
  <2>2. /\ SubSeq(s, 1, p - 1) \in Seq(S)
        /\ Len(SubSeq(s, 1, p - 1)) = IF 1 <= p - 1 THEN p - 1 - 1 + 1 ELSE 0
        /\ \A k \in 1..(p - 1 - 1 + 1) : SubSeq(s, 1, p - 1)[k] = s[1 + k - 1]
    BY <1>1, <2>1, SubSeqProperties
  <2> QED BY <1>1, <2>2
<1>3. /\ c \in Seq(S)
      /\ Len(c) = Len(s) - p + 1
      /\ \A k \in 1..(Len(s) - p + 1) : c[k] = s[p + k - 1]
  <2>1. \A k \in p..Len(s) : s[k] \in S
    BY <1>1
  <2>2. /\ SubSeq(s, p, Len(s)) \in Seq(S)
        /\ Len(SubSeq(s, p, Len(s))) = IF p <= Len(s) THEN Len(s) - p + 1 ELSE 0
        /\ \A k \in 1..(Len(s) - p + 1) : SubSeq(s, p, Len(s))[k] = s[p + k - 1]
    BY <1>1, <2>1, SubSeqProperties
  <2> QED BY <1>1, <2>2
<1>4. b \in Seq(S) /\ Len(b) = 1 /\ b[1] = e
  OBVIOUS
<1>5. /\ a \o b \in Seq(S)
      /\ Len(a \o b) = p
      /\ \A k \in 1..p : (a \o b)[k] = IF k < p THEN s[k] ELSE e
  <2> HIDE DEF a, b, c
  <2>1. /\ a \o b \in Seq(S)
        /\ Len(a \o b) = Len(a) + Len(b)
        /\ \A k \in 1..(Len(a) + Len(b)) :
            (a \o b)[k] = IF k <= Len(a) THEN a[k] ELSE b[k - Len(a)]
    BY <1>2, <1>4, ConcatProperties
  <2> QED BY <1>1, <1>2, <1>4, <2>1
<1>6. /\ (a \o b) \o c \in Seq(S)
      /\ Len((a \o b) \o c) = Len(s) + 1
      /\ \A k \in 1..(Len(s) + 1) :
            ((a \o b) \o c)[k] = IF k < p THEN s[k]
                                 ELSE IF k = p THEN e ELSE s[k - 1]
  <2> HIDE DEF a, b, c
  <2> DEFINE ab == a \o b
  <2> HIDE DEF ab
  <2>1. ab \in Seq(S) /\ Len(ab) = p
        /\ \A k \in 1..p : ab[k] = IF k < p THEN s[k] ELSE e
    BY <1>5 DEF ab
  <2>2. /\ ab \o c \in Seq(S)
        /\ Len(ab \o c) = Len(ab) + Len(c)
        /\ \A k \in 1..(Len(ab) + Len(c)) :
            (ab \o c)[k] = IF k <= Len(ab) THEN ab[k] ELSE c[k - Len(ab)]
    BY <1>3, <2>1, ConcatProperties
  <2>3. \A k \in 1..(Len(s) + 1) : k > p => k - p \in 1..(Len(s) - p + 1)
                                            /\ c[k - p] = s[k - 1]
    BY <1>1, <1>3
  <2> QED BY <1>1, <1>3, <2>1, <2>2, <2>3 DEF ab
<1> QED BY <1>6 DEF InsertAt
-----------------------------------------------------------------------------
(* A step of the table: nothing but the history changes, or a row is put in   *)
(* where it belongs.                                                          *)
LEMMA UpdateInserts ==
    ASSUME TableTypeOK, NEW info \in Infos, update_tianya_list(info)
    PROVE  \/ m_list_info' = m_list_info
           \/ \E p \in 1..(Len(m_list_info) + 1) :
                /\ IsInsertPoint(p, info)
                /\ m_list_info' = InsertAt(m_list_info, p, info)
  BY DEF update_tianya_list

(* TypeOK.  The table never holds more rows than arrived.                     *)
THEOREM TableTypeCorrect == TableSpec => []TableTypeOK
<1>1. TableInit => TableTypeOK
  BY EmptySeq DEF TableInit, TableTypeOK
<1>2. TableTypeOK /\ [Update]_table => TableTypeOK'
  <2> SUFFICES ASSUME TableTypeOK, [Update]_table PROVE TableTypeOK'
    OBVIOUS
  <2>1. CASE Update
    <3>1. PICK info \in Infos : /\ update_tianya_list(info)
                                /\ arrived' = Append(arrived, info)
      BY <2>1 DEF Update
    <3>2. arrived' \in Seq(Infos) /\ Len(arrived') = Len(arrived) + 1
      BY <3>1, AppendProperties DEF TableTypeOK
    <3>3. m_list_info' \in Seq(Infos) /\ Len(m_list_info') <= Len(m_list_info) + 1
      BY <3>1, UpdateInserts, InsertAtProperties, LenProperties DEF TableTypeOK
    <3> QED BY <3>2, <3>3, LenProperties DEF TableTypeOK
  <2>2. CASE UNCHANGED table
    BY <2>2 DEF table, TableTypeOK
  <2> QED BY <2>1, <2>2
<1> QED BY <1>1, <1>2, PTL DEF TableSpec
-----------------------------------------------------------------------------
(* The induction of the next two theorems.  Stability needs order (a row that *)
(* is put above others has more clicks than all of them) and the origin of    *)
(* every row.                                                                 *)
Origin == \A k \in 1..Len(m_list_info) : \E i \in 1..Len(arrived) :
             m_list_info[k] = arrived[i]

TableInv == TableTypeOK /\ Sorted /\ Origin /\ Stable

(* The clicks of a row are a number.                                         *)
LEMMA InfoHits == ASSUME NEW info \in Infos PROVE info.hits \in Int
  BY HitsAssumption DEF Infos

(* What arrived before keeps its number.                                      *)
LEMMA ArrivedGrows ==
    ASSUME TableTypeOK, NEW info \in Infos, arrived' = Append(arrived, info)
    PROVE  /\ arrived' \in Seq(Infos)
           /\ Len(arrived) \in Nat
           /\ Len(arrived') = Len(arrived) + 1
           /\ \A i \in 1..Len(arrived) : arrived'[i] = arrived[i]
           /\ arrived'[Len(arrived) + 1] = info
  BY AppendProperties, LenProperties DEF TableTypeOK

(* Putting a row in at the point find_if returns keeps order, origin and     *)
(* stability.                                                                 *)
LEMMA InsertKeepsTable ==
    ASSUME TableInv, TableTypeOK', NEW info \in Infos,
           arrived' = Append(arrived, info),
           NEW p \in 1..(Len(m_list_info) + 1), IsInsertPoint(p, info),
           m_list_info' = InsertAt(m_list_info, p, info)
    PROVE  Sorted' /\ Origin' /\ Stable'
<1> DEFINE n == Len(m_list_info)
           m == Len(arrived)
<1>1. /\ n \in Nat /\ Len(m_list_info') = n + 1
      /\ \A k \in 1..n : m_list_info[k].hits \in Int
      /\ \A k \in 1..(n + 1) :
            m_list_info'[k] = IF k < p THEN m_list_info[k]
                              ELSE IF k = p THEN info ELSE m_list_info[k - 1]
  <2>1. m_list_info \in Seq(Infos)
    BY DEF TableInv, TableTypeOK
  <2>2. n \in Nat /\ \A k \in 1..n : m_list_info[k] \in Infos
    BY <2>1, ElementOfSeq, LenProperties
  <2>3. /\ Len(m_list_info') = n + 1
        /\ \A k \in 1..(n + 1) :
              m_list_info'[k] = IF k < p THEN m_list_info[k]
                                ELSE IF k = p THEN info ELSE m_list_info[k - 1]
    BY <2>1, InsertAtProperties
  <2> QED BY <2>2, <2>3, InfoHits
<1>2. /\ m \in Nat /\ Len(arrived') = m + 1
      /\ \A i \in 1..m : arrived'[i] = arrived[i]
      /\ arrived'[m + 1] = info
  BY ArrivedGrows DEF TableInv
<1>3. info.hits \in Int
  BY InfoHits
<1>4. \A k \in 1..(p - 1) : m_list_info[k].hits >= info.hits
  BY DEF IsInsertPoint
\* The rows from p on have fewer clicks.
<1>5. \A k \in p..n : m_list_info[k].hits < info.hits
  <2> SUFFICES ASSUME NEW k \in p..n PROVE m_list_info[k].hits < info.hits
    OBVIOUS
  <2>1. p <= n /\ m_list_info[p].hits < info.hits
    BY <1>1 DEF IsInsertPoint
  <2>2. CASE k = p
    BY <2>1, <2>2
  <2>3. CASE k # p
    <3>1. m_list_info[p].hits >= m_list_info[k].hits
      BY <1>1, <2>3 DEF TableInv, Sorted
    <3> QED BY <1>1, <1>3, <2>1, <3>1
  <2> QED BY <2>2, <2>3
<1>p. p \in 1..(n + 1)
  OBVIOUS
<1> HIDE DEF n, m
<1>6. Sorted'
  <2> SUFFICES ASSUME NEW k \in 1..(n + 1), NEW l \in 1..(n + 1), k < l
               PROVE  m_list_info'[k].hits >= m_list_info'[l].hits
    BY <1>1 DEF Sorted
  <2>1. \A x, y \in 1..n : x < y => m_list_info[x].hits >= m_list_info[y].hits
    BY DEF TableInv, Sorted, n
  <2>2. CASE l < p
    BY <1>1, <1>p, <2>1, <2>2
  <2>3. CASE l = p
    BY <1>1, <1>p, <1>4, <2>3
  <2>4. CASE l > p /\ k = p
    <3>1. l - 1 \in p..n /\ l - 1 \in 1..n
      BY <1>1, <1>p, <2>4
    <3>2. m_list_info'[k] = info /\ m_list_info'[l] = m_list_info[l - 1]
      BY <1>1, <1>p, <2>4
    <3> QED BY <1>1, <1>3, <1>5, <3>1, <3>2
  <2>5. CASE l > p /\ k > p
    BY <1>1, <2>1, <2>5
  <2>6. CASE l > p /\ k < p
    <3>1. m_list_info'[k] = m_list_info[k] /\ m_list_info'[l] = m_list_info[l - 1]
      BY <1>1, <2>6
    <3>2. k < l - 1 /\ l - 1 \in 1..n /\ k \in 1..n
      BY <1>1, <2>6
    <3> QED BY <2>1, <3>1, <3>2
  <2> QED BY <1>1, <2>2, <2>3, <2>4, <2>5, <2>6
<1>7. Origin'
  <2> SUFFICES ASSUME NEW k \in 1..(n + 1)
               PROVE  \E i \in 1..(m + 1) : m_list_info'[k] = arrived'[i]
    BY <1>1, <1>2 DEF Origin
  <2>1. \A x \in 1..n : \E i \in 1..m : m_list_info[x] = arrived[i]
    BY DEF TableInv, Origin, n, m
  <2>2. CASE k = p
    BY <1>1, <1>2, <2>2
  <2>3. CASE k # p
    <3>1. PICK x \in 1..n : m_list_info'[k] = m_list_info[x]
      <4>1. CASE k < p
        BY <1>1, <1>p, <4>1
      <4>2. CASE k > p
        <5>1. k - 1 \in 1..n /\ m_list_info'[k] = m_list_info[k - 1]
          BY <1>1, <1>p, <4>2
        <5> QED BY <5>1
      <4> QED BY <1>p, <2>3, <4>1, <4>2
    <3> QED BY <1>2, <2>1, <3>1
  <2> QED BY <2>2, <2>3
<1>8. Stable'
  <2> SUFFICES \A k, l \in 1..Len(m_list_info') :
                   k < l /\ m_list_info'[k].hits = m_list_info'[l].hits =>
                       \E i, j \in 1..Len(arrived') : /\ i < j
                                                     /\ arrived'[i] = m_list_info'[k]
                                                     /\ arrived'[j] = m_list_info'[l]
    BY Zenon DEF Stable
  <2> TAKE k, l \in 1..Len(m_list_info')
  <2> HAVE k < l /\ m_list_info'[k].hits = m_list_info'[l].hits
  <2>n. k \in 1..(n + 1) /\ l \in 1..(n + 1)
    BY <1>1
  <2> SUFFICES \E i, j \in 1..(m + 1) : /\ i < j
                                       /\ arrived'[i] = m_list_info'[k]
                                       /\ arrived'[j] = m_list_info'[l]
    BY <1>2
  \* Two rows that were there.
  <2>1. CASE k # p /\ l # p
    <3>1. PICK x \in 1..n, y \in 1..n : /\ x < y
                                         /\ m_list_info'[k] = m_list_info[x]
                                         /\ m_list_info'[l] = m_list_info[y]
      <4>1. CASE l < p
        <5>1. /\ k \in 1..n /\ l \in 1..n
              /\ m_list_info'[k] = m_list_info[k] /\ m_list_info'[l] = m_list_info[l]
          BY <1>1, <1>p, <4>1
        <5> QED BY <5>1
      <4>2. CASE k > p
        <5>1. k - 1 \in 1..n /\ l - 1 \in 1..n /\ k - 1 < l - 1
          BY <1>1, <1>p, <4>2
        <5>2. m_list_info'[k] = m_list_info[k - 1] /\ m_list_info'[l] = m_list_info[l - 1]
          BY <1>1, <1>p, <4>2
        <5> QED BY <5>1, <5>2
      <4>3. CASE k < p /\ l > p
        <5>1. k \in 1..n /\ l - 1 \in 1..n /\ k < l - 1
          BY <1>1, <4>3
        <5>2. m_list_info'[k] = m_list_info[k] /\ m_list_info'[l] = m_list_info[l - 1]
          BY <1>1, <4>3
        <5> QED BY <5>1, <5>2
      <4> QED BY <1>1, <2>1, <4>1, <4>2, <4>3
    <3>2. PICK i \in 1..m, j \in 1..m : /\ i < j
                                         /\ arrived[i] = m_list_info[x]
                                         /\ arrived[j] = m_list_info[y]
      BY <3>1 DEF TableInv, Stable, n, m
    <3> QED BY <1>2, <3>1, <3>2
  \* The new row below: it is the last arrival.
  <2>2. CASE l = p
    <3>1. k \in 1..n /\ m_list_info'[k] = m_list_info[k] /\ m_list_info'[l] = info
      BY <1>1, <2>2
    <3>2. PICK i \in 1..m : m_list_info[k] = arrived[i]
      BY <3>1 DEF TableInv, Origin, n, m
    <3> QED BY <1>2, <3>1, <3>2
  \* The new row above: it has more clicks.
  <2>3. CASE k = p
    <3>1. l - 1 \in p..n /\ m_list_info'[k] = info /\ m_list_info'[l] = m_list_info[l - 1]
      BY <1>1, <2>3
    <3> QED BY <1>1, <1>3, <1>5, <3>1
  <2> QED BY <2>1, <2>2, <2>3
<1> QED BY <1>6, <1>7, <1>8

(* Every step keeps the inductive invariant.                                  *)
LEMMA TableStep == TableInv /\ TableTypeOK' /\ [Update]_table => TableInv'
<1> SUFFICES ASSUME TableInv, TableTypeOK', [Update]_table PROVE TableInv'
  OBVIOUS
<1>1. CASE Update
  <2>1. PICK info \in Infos : /\ update_tianya_list(info)
                              /\ arrived' = Append(arrived, info)
    BY <1>1 DEF Update
  <2>2. CASE m_list_info' = m_list_info
    <3>1. /\ Len(arrived) \in Nat /\ Len(arrived') = Len(arrived) + 1
          /\ \A i \in 1..Len(arrived) : arrived'[i] = arrived[i]
      BY <2>1, ArrivedGrows DEF TableInv
    <3>2. Sorted'
      BY <2>2 DEF TableInv, Sorted
    <3>3. Origin'
      BY <2>2, <3>1 DEF TableInv, Origin
    <3>4. Stable'
      <4> SUFFICES ASSUME NEW k \in 1..Len(m_list_info),
                          NEW l \in 1..Len(m_list_info), k < l,
                          m_list_info[k].hits = m_list_info[l].hits
                   PROVE  \E i, j \in 1..Len(arrived') :
                              /\ i < j
                              /\ arrived'[i] = m_list_info[k]
                              /\ arrived'[j] = m_list_info[l]
        BY <2>2 DEF Stable
      <4>1. PICK i \in 1..Len(arrived), j \in 1..Len(arrived) :
                i < j /\ arrived[i] = m_list_info[k] /\ arrived[j] = m_list_info[l]
        BY DEF TableInv, Stable
      <4> QED BY <3>1, <4>1
    <3> QED BY <3>2, <3>3, <3>4 DEF TableInv
  <2>3. CASE \E p \in 1..(Len(m_list_info) + 1) :
                /\ IsInsertPoint(p, info)
                /\ m_list_info' = InsertAt(m_list_info, p, info)
    BY <2>1, <2>3, InsertKeepsTable DEF TableInv
  <2> QED BY <2>1, <2>2, <2>3, UpdateInserts DEF TableInv
<1>2. CASE UNCHANGED table
  <2>1. m_list_info' = m_list_info /\ arrived' = arrived
    BY <1>2 DEF table
  <2>2. Sorted'
    BY <2>1 DEF TableInv, Sorted
  <2>3. Origin'
    BY <2>1 DEF TableInv, Origin
  <2>4. Stable'
    <3> SUFFICES ASSUME NEW k \in 1..Len(m_list_info),
                        NEW l \in 1..Len(m_list_info), k < l,
                        m_list_info[k].hits = m_list_info[l].hits
                 PROVE  \E i, j \in 1..Len(arrived') :
                            /\ i < j
                            /\ arrived'[i] = m_list_info[k]
                            /\ arrived'[j] = m_list_info[l]
      BY <2>1 DEF Stable
    <3>1. PICK i \in 1..Len(arrived), j \in 1..Len(arrived) :
              i < j /\ arrived[i] = m_list_info[k] /\ arrived[j] = m_list_info[l]
      BY DEF TableInv, Stable
    <3> QED BY <2>1, <3>1
  <2> QED BY <2>2, <2>3, <2>4 DEF TableInv
<1> QED BY <1>1, <1>2

(* Sorted and Stable: most clicked first, ties in the order of arrival.       *)
THEOREM TableCorrect == TableSpec => []Ordered
<1>1. TableInit => TableInv
  BY EmptySeq DEF TableInit, TableInv, TableTypeOK, Sorted, Origin, Stable
<1>2. TableInv /\ TableTypeOK' /\ [Update]_table => TableInv'
  BY TableStep
<1>3. TableTypeOK /\ TableInv => Ordered
  BY DEF TableInv, Ordered
<1> QED BY <1>1, <1>2, <1>3, TableTypeCorrect, PTL DEF TableSpec
-----------------------------------------------------------------------------
(* NothingLost.  A row that is not put in has its thread in the table; one    *)
(* that is put in only moves the others.                                      *)
Present == \A i \in 1..Len(arrived) : \E k \in 1..Len(m_list_info) :
              m_list_info[k].post_url = arrived[i].post_url

(* A row is left out only if its thread is in the table.                      *)
LEMMA DuplicateIsPresent ==
    ASSUME TableTypeOK, NEW info \in Infos, NEW p \in 1..(Len(m_list_info) + 1),
           IsDuplicate(p, info)
    PROVE  \E k \in 1..Len(m_list_info) : m_list_info[k].post_url = info.post_url
<1>1. CASE p <= Len(m_list_info)
  BY <1>1 DEF IsDuplicate
<1>2. CASE ~(p <= Len(m_list_info))
  <2>1. m_list_info # <<>> /\ Last(m_list_info).post_url = info.post_url
    BY <1>2 DEF IsDuplicate
  <2>2. Len(m_list_info) \in Nat /\ Len(m_list_info) # 0
    BY <2>1, EmptySeq, LenProperties DEF TableTypeOK
  <2> QED BY <2>1, <2>2 DEF Last
<1> QED BY <1>1, <1>2

(* A call of update_tianya_list keeps every thread that arrived in the table. *)
LEMMA UpdateKeepsPresent ==
    ASSUME TableTypeOK, Present, NEW info \in Infos,
           update_tianya_list(info), arrived' = Append(arrived, info)
    PROVE  Present'
<1> DEFINE n == Len(m_list_info)
           m == Len(arrived)
<1>1. /\ m \in Nat /\ Len(arrived') = m + 1
      /\ \A i \in 1..m : arrived'[i] = arrived[i]
      /\ arrived'[m + 1] = info
  BY ArrivedGrows
<1>2. PICK p \in 1..(n + 1) :
          m_list_info' = IF IsDuplicate(p, info) THEN m_list_info
                         ELSE InsertAt(m_list_info, p, info)
  BY DEF update_tianya_list
<1>3. n \in Nat /\ m_list_info \in Seq(Infos)
  BY LenProperties DEF TableTypeOK
<1>4. CASE IsDuplicate(p, info)
  <2>1. \E k \in 1..n : m_list_info[k].post_url = info.post_url
    BY <1>4, DuplicateIsPresent
  <2>2. \A i \in 1..(m + 1) : \E k \in 1..n :
            m_list_info[k].post_url = arrived'[i].post_url
    BY <1>1, <2>1 DEF Present
  <2> QED BY <1>1, <1>2, <1>4, <2>2 DEF Present
<1>5. CASE ~IsDuplicate(p, info)
  <2>1. /\ Len(m_list_info') = n + 1
        /\ \A k \in 1..(n + 1) :
              m_list_info'[k] = IF k < p THEN m_list_info[k]
                                ELSE IF k = p THEN info ELSE m_list_info[k - 1]
    BY <1>2, <1>3, <1>5, InsertAtProperties
  <2>2. \A k \in 1..n : \E l \in 1..(n + 1) : m_list_info'[l] = m_list_info[k]
    <3> SUFFICES ASSUME NEW k \in 1..n
                 PROVE  \E l \in 1..(n + 1) : m_list_info'[l] = m_list_info[k]
      OBVIOUS
    <3>1. CASE k < p
      BY <1>3, <2>1, <3>1
    <3>2. CASE k >= p
      <4>1. k + 1 \in 1..(n + 1) /\ m_list_info'[k + 1] = m_list_info[k]
        BY <1>3, <2>1, <3>2
      <4> QED BY <4>1
    <3> QED BY <1>3, <3>1, <3>2
  <2>3. \A i \in 1..(m + 1) : \E l \in 1..(n + 1) :
            m_list_info'[l].post_url = arrived'[i].post_url
    <3> SUFFICES ASSUME NEW i \in 1..(m + 1)
                 PROVE  \E l \in 1..(n + 1) :
                            m_list_info'[l].post_url = arrived'[i].post_url
      OBVIOUS
    <3>1. CASE i = m + 1
      <4>1. m_list_info'[p] = info /\ arrived'[i] = info
        BY <1>1, <1>3, <2>1, <3>1
      <4> QED BY <4>1
    <3>2. CASE i \in 1..m
      <4>1. PICK k \in 1..n : m_list_info[k].post_url = arrived[i].post_url
        BY <3>2 DEF Present
      <4>2. PICK l \in 1..(n + 1) : m_list_info'[l] = m_list_info[k]
        BY <2>2
      <4> QED BY <1>1, <3>2, <4>1, <4>2
    <3> QED BY <1>1, <3>1, <3>2
  <2> QED BY <1>1, <2>1, <2>3 DEF Present
<1> QED BY <1>4, <1>5

(* NothingLost: the table has every thread the crawler found, and no other.   *)
THEOREM TableComplete == TableSpec => []NothingLost
<1>1. TableInit => Present /\ TableInv
  BY EmptySeq DEF TableInit, Present, TableInv, TableTypeOK, Sorted, Origin, Stable
<1>2. TableTypeOK /\ Present /\ [Update]_table => Present'
  <2> SUFFICES ASSUME TableTypeOK, Present, [Update]_table PROVE Present'
    OBVIOUS
  <2>1. CASE Update
    BY <2>1, UpdateKeepsPresent DEF Update
  <2>2. CASE UNCHANGED table
    BY <2>2 DEF table, Present
  <2> QED BY <2>1, <2>2
<1>3. TableInv /\ TableTypeOK' /\ [Update]_table => TableInv'
  BY TableStep
<1>4. Present /\ TableInv => NothingLost
  BY DEF Present, TableInv, Origin, NothingLost
<1> QED BY <1>1, <1>2, <1>3, <1>4, TableTypeCorrect, PTL DEF TableSpec
-----------------------------------------------------------------------------
(* The window *)

\* The table has every row that was emitted but the last.
Behind == \E info \in Infos : delivered = Append(arrived, info)

\* The table has every row, but for the one whose update was dropped when the
\* table died.
RowInv ==
    /\ slot \in {"count", "update"} => Behind
    /\ slot \notin {"count", "update"} =>
        arrived = delivered \/ (~membersLive /\ Behind)

\* The text of the status bar was made before the row went into the table.
CountInv ==
    /\ slot = "update" => statusmessage = Len(m_list_info)
    /\ slot = "message" => statusmessage \in {Len(m_list_info) - 1, Len(m_list_info)}
    /\ slot = "notice" =>
        shown \in {Len(m_list_info) - 1, Len(m_list_info)} \/ ~statusLive
    /\ slot = "none" /\ shown # -1 =>
        shown \in {Len(m_list_info) - 1, Len(m_list_info)} \/ ~statusLive

\* The call the io thread waits for is the last entry of the queue ...
WaitInv == waiting =>
    /\ slot \in {"update", "message"}
    /\ gui_queue # <<>>
    /\ Last(gui_queue).kind = slot
    /\ slot = "update" => Last(gui_queue).info = Last(delivered)
    /\ slot = "message" => Last(gui_queue).n = statusmessage

\* ... and the only call in it, as long as calls are not dropped.
CallInv == membersLive =>
    \A k \in 1..Len(gui_queue) :
        gui_queue[k].kind # "notice" => waiting /\ k = Len(gui_queue)

\* Nobody is waited for once he is gone.
GoneInv ==
    /\ ~membersLive => ~(waiting /\ slot = "update")
    /\ ~statusLive => ~waiting

\* The queue holds a few entries: what is left of the row before, and one entry
\* for each step of the slot once the loop has ended.
LengthInv ==
    /\ membersLive =>
        /\ slot \in {"none", "count"} => Len(gui_queue) <= 1
        /\ slot = "update" => Len(gui_queue) <= IF waiting THEN 2 ELSE 1
        /\ slot = "message" => Len(gui_queue) <= IF waiting THEN 1 ELSE 0
        /\ slot = "notice" => Len(gui_queue) = 0
    /\ ~membersLive =>
        /\ slot \in {"count", "update"} => Len(gui_queue) <= 1
        /\ slot = "message" => Len(gui_queue) <= IF waiting THEN 3 ELSE 2
        /\ slot = "notice" => Len(gui_queue) <= 3

WinInv ==
    /\ TypeOK /\ Len(delivered) <= Len(Rows)
    /\ RowInv /\ CountInv /\ WaitInv /\ CallInv /\ GoneInv /\ LengthInv
-----------------------------------------------------------------------------
(* Sequences: the row put in, the prefix, the last entry.                     *)

(* A sequence is a prefix of itself ...                                       *)
LEMMA IsPrefixOfItself ==
    ASSUME NEW S, NEW s \in Seq(S)
    PROVE  IsPrefix(s, s)
  BY LenProperties DEF IsPrefix

(* ... and of itself with one more element.                                   *)
LEMMA PrefixOfAppend ==
    ASSUME NEW S, NEW s \in Seq(S), NEW e \in S
    PROVE  IsPrefix(s, Append(s, e))
<1>2. /\ Append(s, e) \in Seq(S) /\ Len(Append(s, e)) = Len(s) + 1
      /\ \A k \in 1..Len(s) : Append(s, e)[k] = s[k]
      /\ Len(s) \in Nat
  BY AppendProperties, LenProperties
<1> DEFINE t == Append(s, e)
<1> HIDE DEF t
<1>3. /\ SubSeq(s, 1, Len(s)) \in Seq(S) /\ Len(SubSeq(s, 1, Len(s))) = Len(s)
      /\ \A k \in 1..Len(s) : SubSeq(s, 1, Len(s))[k] = s[k]
  BY SubSeqFull
<1>4. /\ SubSeq(t, 1, Len(s)) \in Seq(S) /\ Len(SubSeq(t, 1, Len(s))) = Len(s)
      /\ \A k \in 1..Len(s) : SubSeq(t, 1, Len(s))[k] = t[k]
  <2>1. \A k \in 1..Len(s) : t[k] \in S
    BY <1>2, ElementOfSeq DEF t
  <2>2. /\ SubSeq(t, 1, Len(s)) \in Seq(S)
        /\ Len(SubSeq(t, 1, Len(s))) = IF 1 <= Len(s) THEN Len(s) - 1 + 1 ELSE 0
        /\ \A k \in 1..(Len(s) - 1 + 1) : SubSeq(t, 1, Len(s))[k] = t[1 + k - 1]
    BY <1>2, <2>1, SubSeqProperties
  <2> QED BY <1>2, <2>2
<1>5. \A k \in 1..Len(s) : t[k] = s[k]
  BY <1>2 DEF t
<1>6. SubSeq(s, 1, Len(s)) = SubSeq(t, 1, Len(s))
  BY <1>3, <1>4, <1>5, SeqEqual
<1> QED BY <1>2, <1>6 DEF IsPrefix, t

(* One entry more at the end of the queue.                                    *)
LEMMA Posted ==
    ASSUME NEW q \in Seq(Events), NEW event \in Events
    PROVE  /\ Append(q, event) \in Seq(Events)
           /\ Len(Append(q, event)) = Len(q) + 1
           /\ Append(q, event) # <<>>
           /\ Last(Append(q, event)) = event
           /\ \A k \in 1..Len(q) : Append(q, event)[k] = q[k]
           /\ Len(q) \in Nat
  BY AppendProperties, LenProperties DEF Last

(* One entry less at its head.                                                *)
LEMMA Run ==
    ASSUME NEW q \in Seq(Events), q # <<>>
    PROVE  /\ Head(q) \in Events /\ Head(q) = q[1]
           /\ Tail(q) \in Seq(Events) /\ Len(Tail(q)) = Len(q) - 1
           /\ \A k \in 1..Len(Tail(q)) : Tail(q)[k] = q[k + 1]
           /\ Len(q) \in Nat \ {0}
           /\ Len(q) = 1 => Tail(q) = <<>> /\ Head(q) = Last(q)
           /\ Len(q) > 1 => Tail(q) # <<>> /\ Last(Tail(q)) = Last(q)
  BY HeadTailProperties, EmptySeq, LenProperties DEF Last

(* The table changes by a row at the most.                                    *)
LEMMA TableGrows ==
    ASSUME NEW info \in Infos, m_list_info \in Seq(Infos),
           update_tianya_list(info)
    PROVE  /\ m_list_info' \in Seq(Infos)
           /\ Len(m_list_info') \in {Len(m_list_info), Len(m_list_info) + 1}
<1>1. PICK p \in 1..(Len(m_list_info) + 1) :
        m_list_info' = m_list_info \/ m_list_info' = InsertAt(m_list_info, p, info)
  BY DEF update_tianya_list
<1>2. /\ InsertAt(m_list_info, p, info) \in Seq(Infos)
      /\ Len(InsertAt(m_list_info, p, info)) = Len(m_list_info) + 1
  BY InsertAtProperties
<1> QED BY <1>1, <1>2
-----------------------------------------------------------------------------
(* The initial state.                                                         *)
LEMMA InitWinInv == Init => WinInv
<1> SUFFICES ASSUME Init PROVE WinInv
  OBVIOUS
<1>1. /\ delivered = <<>> /\ phase = "idle" /\ m_list_info = <<>> /\ arrived = <<>>
      /\ slot = "none" /\ statusmessage = 0 /\ waiting = FALSE
      /\ io_thread = "starting" /\ m_work = "unset" /\ reset_posted = FALSE
      /\ gui = "loop" /\ gui_queue = <<>>
      /\ main_open = TRUE /\ viewers = 0 /\ m_abort = FALSE /\ shown = -1
  BY DEF Init, Stream!Init, TableInit
<1>2. /\ <<>> \in Seq(Infos) /\ <<>> \in Seq(Events) /\ Len(<<>>) = 0
      /\ Len(Rows) \in Nat /\ MaxViewers \in Nat
  BY EmptySeq, LenProperties, WindowAssumption
<1>3. TableTypeOK
  BY <1>1, <1>2 DEF TableTypeOK
<1>4. TypeOK
  <2>1. statusmessage \in 0..Len(Rows) /\ shown \in -1..Len(Rows) /\ viewers \in 0..MaxViewers
    BY <1>1, <1>2
  <2>2. delivered \in Seq(Infos) /\ gui_queue \in Seq(Events) /\ Len(gui_queue) <= 4
    BY <1>1, <1>2
  <2>3. waiting \in BOOLEAN /\ reset_posted \in BOOLEAN /\ main_open \in BOOLEAN /\ m_abort \in BOOLEAN
    BY <1>1
  <2> QED BY <1>1, <1>3, <2>1, <2>2, <2>3 DEF TypeOK, Stream!Phases
<1> QED BY <1>1, <1>2, <1>4 DEF WinInv, RowInv, CountInv, WaitInv, CallInv, GoneInv,
                LengthInv, membersLive, statusLive
-----------------------------------------------------------------------------
(* The steps that touch neither the slot nor the queue nor the table, and     *)
(* leave alive what was alive.                                                *)
LEMMA Elsewhere ==
    ASSUME WinInv, TypeOK',
           UNCHANGED <<delivered, io, gui_queue, table, shown>>,
           membersLive' <=> membersLive, statusLive' <=> statusLive
    PROVE  WinInv'
<1>1. /\ UNCHANGED <<delivered, slot, statusmessage, waiting, gui_queue>>
      /\ UNCHANGED <<m_list_info, arrived, shown>>
  BY DEF io, table
<1> QED BY <1>1 DEF WinInv, RowInv, CountInv, WaitInv, CallInv, GoneInv, LengthInv,
                Behind

(* TypeOK on what the io thread, the crawler and the windows keep.            *)
LEMMA NextElsewhere ==
    ASSUME WinInv,
           \/ IoThread \/ IoFinish \/ IoUndefined \/ IoReset \/ IoEnd
           \/ GuiStart \/ UserOpens \/ UserCloses \/ GuiAboutToQuit \/ GuiJoin
    PROVE  WinInv'
<1>1. UNCHANGED <<delivered, io, gui_queue, table, shown>>
  BY DEF IoThread, IoFinish, IoUndefined, IoReset, IoEnd, GuiStart, UserOpens,
         UserCloses, GuiAboutToQuit, GuiJoin, Stream!Finish, Stream!Begin, crawl
<1>2. (membersLive' <=> membersLive) /\ (statusLive' <=> statusLive)
  BY DEF IoThread, IoFinish, IoUndefined, IoReset, IoEnd, GuiStart, UserOpens,
         UserCloses, GuiAboutToQuit, GuiJoin, LastClosed, membersLive, statusLive
<1>3. TypeOK'
  <2>1. /\ UNCHANGED <<delivered, slot, statusmessage, waiting, gui_queue>>
        /\ UNCHANGED <<m_list_info, arrived, shown>>
    BY <1>1 DEF io, table
  <2>2. TableTypeOK'
    BY <2>1 DEF WinInv, TypeOK, TableTypeOK
  <2>3. /\ phase' \in Stream!Phases
        /\ io_thread' \in {"starting", "running", "ended", "undefined"}
        /\ m_work' \in {"unset", "held", "reset"}
        /\ gui' \in {"loop", "quit", "leaving", "members", "joining", "exited"}
        /\ viewers' \in 0..MaxViewers
    BY WindowAssumption
       DEF IoThread, IoFinish, IoUndefined, IoReset, IoEnd, GuiStart, UserOpens,
           UserCloses, GuiAboutToQuit, GuiJoin, Stream!Finish, Stream!Begin,
           Stream!Phases, crawl, work, win, WinInv, TypeOK, LastClosed
  <2>4. reset_posted' \in BOOLEAN /\ main_open' \in BOOLEAN /\ m_abort' \in BOOLEAN
    BY DEF IoThread, IoFinish, IoUndefined, IoReset, IoEnd, GuiStart, UserOpens,
           UserCloses, GuiAboutToQuit, GuiJoin, work, win, WinInv, TypeOK
  <2> QED BY <2>1, <2>2, <2>3, <2>4 DEF WinInv, TypeOK
<1> QED BY <1>1, <1>2, <1>3, Elsewhere
-----------------------------------------------------------------------------
(* The steps of the slot on the io thread.                                    *)

(* The table is as it was, and so is its type.                                *)
LEMMA TableStays == ASSUME TypeOK, UNCHANGED table PROVE TableTypeOK'
  BY DEF TypeOK, TableTypeOK, table

(* A new row: the table is now one behind.                                    *)
LEMMA RowStep == ASSUME WinInv, IoRow PROVE WinInv'
<1>1. /\ UNCHANGED <<statusmessage, waiting, gui, gui_queue, m_list_info, arrived, shown>>
      /\ UNCHANGED <<io_thread, m_work, reset_posted, main_open, viewers, m_abort>>
      /\ slot = "none" /\ slot' = "count" /\ membersLive
      /\ delivered' = Append(delivered, Rows[Len(delivered) + 1])
      /\ Len(delivered) < Len(Rows) /\ phase' \in {"running", "ended"}
  BY DEF IoRow, Stream!Deliver, work, win, table
<1>2. /\ delivered' \in Seq(Infos) /\ Len(delivered') = Len(delivered) + 1
      /\ Rows[Len(delivered) + 1] \in Infos
      /\ Len(delivered') <= Len(Rows)
  <2>1. Len(delivered) \in Nat /\ Len(Rows) \in Nat
    BY LenProperties, WindowAssumption DEF WinInv, TypeOK
  <2>2. Rows[Len(delivered) + 1] \in Infos
    BY <1>1, <2>1, ElementOfSeq, WindowAssumption
  <2> QED BY <1>1, <2>1, <2>2, AppendProperties DEF WinInv, TypeOK
<1>3. TypeOK'
  <2>1. TableTypeOK'
    BY <1>1, TableStays DEF WinInv, table
  <2> QED BY <1>1, <1>2, <2>1 DEF WinInv, TypeOK, Stream!Phases
<1>4. Behind'
  <2>1. arrived = delivered
    BY <1>1 DEF WinInv, RowInv
  <2> QED BY <1>1, <1>2, <2>1 DEF Behind
<1>5. ~waiting
  BY <1>1 DEF WinInv, WaitInv
<1> QED BY <1>1, <1>2, <1>3, <1>4, <1>5 DEF WinInv, RowInv, CountInv, WaitInv, CallInv,
            GoneInv, LengthInv, membersLive, statusLive

(* The text: the count is that of the table as it is.                         *)
LEMMA CountStep == ASSUME WinInv, IoCount PROVE WinInv'
<1>1. /\ UNCHANGED <<delivered, phase, waiting, gui, gui_queue, m_list_info, arrived, shown>>
      /\ UNCHANGED <<io_thread, m_work, reset_posted, main_open, viewers, m_abort>>
      /\ slot = "count" /\ slot' = "update" /\ statusmessage' = Len(m_list_info)
      /\ membersLive
  BY DEF IoCount, work, win, table, crawl
<1>2. Behind /\ Behind'
  BY <1>1 DEF WinInv, RowInv, Behind
<1>3. TypeOK'
  <2>1. TableTypeOK'
    BY <1>1, TableStays DEF WinInv, table
  <2>2. Len(m_list_info) \in 0..Len(Rows)
    <3>1. PICK info \in Infos : delivered = Append(arrived, info)
      BY <1>2 DEF Behind
    <3>2. arrived \in Seq(Infos) /\ m_list_info \in Seq(Infos)
          /\ Len(m_list_info) <= Len(arrived) /\ Len(delivered) <= Len(Rows)
      BY DEF WinInv, TypeOK, TableTypeOK
    <3>3. Len(delivered) = Len(arrived) + 1 /\ Len(arrived) \in Nat
          /\ Len(m_list_info) \in Nat
      BY <3>1, <3>2, AppendProperties, LenProperties
    <3> QED BY <3>2, <3>3, LenProperties, WindowAssumption
  <2> QED BY <1>1, <2>1, <2>2 DEF WinInv, TypeOK
<1>4. ~waiting
  BY <1>1 DEF WinInv, WaitInv
<1> QED BY <1>1, <1>2, <1>3, <1>4 DEF WinInv, RowInv, CountInv, WaitInv, CallInv,
            GoneInv, LengthInv, membersLive, statusLive

(* The call of update_tianya_list is posted.                                  *)
LEMMA UpdateStep == ASSUME WinInv, IoUpdate PROVE WinInv'
<1> DEFINE event == [kind |-> "update", info |-> Last(delivered)]
<1>1. /\ UNCHANGED <<delivered, phase, statusmessage, gui, slot, m_list_info, arrived, shown>>
      /\ UNCHANGED <<io_thread, m_work, reset_posted, main_open, viewers, m_abort>>
      /\ slot = "update" /\ ~waiting /\ waiting' = TRUE /\ membersLive
      /\ gui_queue' = Append(gui_queue, event)
  BY DEF IoUpdate, Call, work, win, table, crawl
<1>2. Behind /\ Behind'
  BY <1>1 DEF WinInv, RowInv, Behind
<1>3. event \in Events /\ event.kind = "update" /\ event.info = Last(delivered)
  <2>1. PICK info \in Infos : delivered = Append(arrived, info)
    BY <1>2 DEF Behind
  <2>2. arrived \in Seq(Infos)
    BY DEF WinInv, TypeOK, TableTypeOK
  <2>3. Last(delivered) = info
    BY <2>1, <2>2, AppendProperties, LenProperties DEF Last
  <2> QED BY <2>3 DEF Events
<1> HIDE DEF event
<1>4. /\ gui_queue' \in Seq(Events) /\ Len(gui_queue') = Len(gui_queue) + 1
      /\ gui_queue' # <<>> /\ Last(gui_queue') = event
      /\ \A k \in 1..Len(gui_queue) : gui_queue'[k] = gui_queue[k]
      /\ Len(gui_queue) \in Nat
  BY <1>1, <1>3, Posted DEF WinInv, TypeOK
<1>5. Len(gui_queue) <= 1
  BY <1>1 DEF WinInv, LengthInv
<1>6. TypeOK'
  <2>1. TableTypeOK'
    BY <1>1, TableStays DEF WinInv, table
  <2> QED BY <1>1, <1>4, <1>5, <2>1 DEF WinInv, TypeOK
<1>7. CallInv'
  BY <1>1, <1>4 DEF WinInv, CallInv
<1>8. WaitInv'
  BY <1>1, <1>3, <1>4 DEF WaitInv
<1>9. membersLive' /\ statusLive'
  BY <1>1 DEF membersLive, statusLive
<1> QED BY <1>1, <1>2, <1>3, <1>4, <1>5, <1>6, <1>7, <1>8, <1>9
        DEF WinInv, RowInv, CountInv, GoneInv, LengthInv

(* The call of showMessage is posted.                                         *)
LEMMA MessageStep == ASSUME WinInv, IoMessage PROVE WinInv'
<1> DEFINE event == [kind |-> "message", n |-> statusmessage]
<1>1. /\ UNCHANGED <<delivered, phase, statusmessage, gui, slot, m_list_info, arrived, shown>>
      /\ UNCHANGED <<io_thread, m_work, reset_posted, main_open, viewers, m_abort>>
      /\ slot = "message" /\ ~waiting /\ waiting' = TRUE /\ statusLive
      /\ gui_queue' = Append(gui_queue, event)
  BY DEF IoMessage, Call, work, win, table, crawl
<1>2. Behind <=> Behind'
  BY <1>1 DEF Behind
<1>3. event \in Events /\ event.kind = "message" /\ event.n = statusmessage
  BY DEF Events, WinInv, TypeOK
<1> HIDE DEF event
<1>4. /\ gui_queue' \in Seq(Events) /\ Len(gui_queue') = Len(gui_queue) + 1
      /\ gui_queue' # <<>> /\ Last(gui_queue') = event
      /\ \A k \in 1..Len(gui_queue) : gui_queue'[k] = gui_queue[k]
      /\ Len(gui_queue) \in Nat
  BY <1>1, <1>3, Posted DEF WinInv, TypeOK
<1>5. Len(gui_queue) <= 2 /\ (membersLive => Len(gui_queue) = 0)
  BY <1>1, <1>4 DEF WinInv, LengthInv
<1>6. TypeOK'
  <2>1. TableTypeOK'
    BY <1>1, TableStays DEF WinInv, table
  <2> QED BY <1>1, <1>4, <1>5, <2>1 DEF WinInv, TypeOK
<1>7. (membersLive' <=> membersLive) /\ statusLive'
  BY <1>1 DEF membersLive, statusLive
<1>8. CallInv'
  BY <1>1, <1>4, <1>5, <1>7 DEF CallInv
<1>9. WaitInv'
  BY <1>1, <1>3, <1>4 DEF WaitInv
<1> QED BY <1>1, <1>2, <1>4, <1>5, <1>6, <1>7, <1>8, <1>9
        DEF WinInv, RowInv, CountInv, GoneInv, LengthInv

(* The closure for the columns is posted, and the row is done with.           *)
LEMMA NoticeStep == ASSUME WinInv, IoNotice PROVE WinInv'
<1> DEFINE event == [kind |-> "notice"]
<1>1. /\ UNCHANGED <<delivered, phase, statusmessage, waiting, gui, m_list_info, arrived, shown>>
      /\ UNCHANGED <<io_thread, m_work, reset_posted, main_open, viewers, m_abort>>
      /\ slot = "notice" /\ slot' = "none"
      /\ gui_queue' = Append(gui_queue, event)
  BY DEF IoNotice, work, win, table, crawl
<1>2. Behind <=> Behind'
  BY <1>1 DEF Behind
<1>3. event \in Events /\ event.kind = "notice"
  BY DEF Events
<1> HIDE DEF event
<1>4. /\ gui_queue' \in Seq(Events) /\ Len(gui_queue') = Len(gui_queue) + 1
      /\ gui_queue' # <<>> /\ Last(gui_queue') = event
      /\ \A k \in 1..Len(gui_queue) : gui_queue'[k] = gui_queue[k]
      /\ Len(gui_queue) \in Nat
  BY <1>1, <1>3, Posted DEF WinInv, TypeOK
<1>5. Len(gui_queue) <= 3 /\ (membersLive => Len(gui_queue) = 0) /\ ~waiting
  BY <1>1, <1>4 DEF WinInv, LengthInv, WaitInv
<1>6. TypeOK'
  <2>1. TableTypeOK'
    BY <1>1, TableStays DEF WinInv, table
  <2> QED BY <1>1, <1>4, <1>5, <2>1 DEF WinInv, TypeOK
<1>7. (membersLive' <=> membersLive) /\ (statusLive' <=> statusLive)
  BY <1>1 DEF membersLive, statusLive
<1>8. CallInv'
  <2> SUFFICES ASSUME membersLive', NEW k \in 1..Len(gui_queue'),
                      gui_queue'[k].kind # "notice"
               PROVE  FALSE
    BY DEF CallInv
  <2>1. k = Len(gui_queue')
    BY <1>4, <1>5, <1>7
  <2> QED BY <1>3, <1>4, <2>1 DEF Last
<1> QED BY <1>1, <1>2, <1>4, <1>5, <1>6, <1>7, <1>8
        DEF WinInv, RowInv, CountInv, GoneInv, LengthInv, WaitInv
-----------------------------------------------------------------------------
(* The steps of the GUI thread.                                               *)

(* What the event loop finds at the head of its queue: the call the io thread *)
(* waits for, alone, or a notice.                                             *)
LEMMA HeadOfQueue ==
    ASSUME WinInv, gui = "loop", gui_queue # <<>>, Head(gui_queue).kind # "notice"
    PROVE  /\ waiting /\ Len(gui_queue) = 1 /\ Tail(gui_queue) = <<>>
           /\ Head(gui_queue) = Last(gui_queue)
           /\ Head(gui_queue).kind = slot
<1>1. membersLive
  BY DEF membersLive
<1>2. /\ Len(gui_queue) \in Nat \ {0} /\ Head(gui_queue) = gui_queue[1]
      /\ Len(gui_queue) = 1 => Tail(gui_queue) = <<>> /\ Head(gui_queue) = Last(gui_queue)
  BY Run DEF WinInv, TypeOK
<1>3. waiting /\ 1 = Len(gui_queue)
  <2>1. 1 \in 1..Len(gui_queue) /\ gui_queue[1].kind # "notice"
    BY <1>2
  <2> QED BY <1>1, <2>1 DEF WinInv, CallInv
<1> QED BY <1>2, <1>3 DEF WinInv, WaitInv

(* update_tianya_list runs: the table has caught up.                          *)
LEMMA UpdateRuns ==
    ASSUME WinInv, gui = "loop", gui_queue # <<>>, Head(gui_queue).kind = "update",
           gui_queue' = Tail(gui_queue),
           update_tianya_list(Head(gui_queue).info),
           arrived' = Append(arrived, Head(gui_queue).info),
           Return("message"),
           UNCHANGED <<shown, crawl, statusmessage, work, gui, win>>
    PROVE  WinInv'
<1> DEFINE e == Head(gui_queue)
<1>1. /\ waiting /\ slot = "update" /\ Len(gui_queue) = 1 /\ gui_queue' = <<>>
      /\ e = Last(gui_queue) /\ waiting' = FALSE /\ slot' = "message"
      /\ e.info = Last(delivered)
  BY HeadOfQueue DEF WinInv, WaitInv, Return
<1>2. /\ UNCHANGED <<delivered, phase, io_thread, m_work, reset_posted>>
      /\ UNCHANGED <<main_open, viewers, m_abort, shown, statusmessage, gui>>
  BY DEF crawl, work, win
<1>3. PICK info \in Infos : delivered = Append(arrived, info)
  BY <1>1 DEF WinInv, RowInv, Behind
<1>4. arrived \in Seq(Infos) /\ m_list_info \in Seq(Infos)
      /\ Len(m_list_info) <= Len(arrived)
  BY DEF WinInv, TypeOK, TableTypeOK
<1>5. e.info = info /\ Len(delivered) = Len(arrived) + 1
      /\ Len(arrived) \in Nat /\ Len(m_list_info) \in Nat
  BY <1>1, <1>3, <1>4, AppendProperties, LenProperties DEF Last
<1>6. arrived' = delivered /\ Len(arrived') = Len(arrived) + 1 /\ arrived' \in Seq(Infos)
  BY <1>3, <1>5 DEF WinInv, TypeOK
<1>7. /\ m_list_info' \in Seq(Infos)
      /\ Len(m_list_info') \in {Len(m_list_info), Len(m_list_info) + 1}
  BY <1>4, <1>5, TableGrows
<1>8. TypeOK'
  <2>1. TableTypeOK'
    BY <1>4, <1>5, <1>6, <1>7 DEF TableTypeOK
  <2>2. gui_queue' \in Seq(Events) /\ Len(gui_queue') <= 4
    <3>1. <<>> \in Seq(Events) /\ Len(<<>>) <= 4
      BY EmptySeq
    <3> QED BY <1>1, <3>1, Zenon
  <2> QED BY <1>1, <1>2, <2>1, <2>2 DEF WinInv, TypeOK
<1>9. statusmessage' \in {Len(m_list_info') - 1, Len(m_list_info')}
  BY <1>1, <1>2, <1>5, <1>7 DEF WinInv, CountInv
<1>10. membersLive' /\ statusLive' /\ Len(gui_queue') = 0
  BY <1>1, <1>2 DEF membersLive, statusLive
<1> QED BY <1>1, <1>2, <1>6, <1>8, <1>9, <1>10
        DEF WinInv, RowInv, CountInv, WaitInv, CallInv, GoneInv, LengthInv

(* What the update at the head of the queue gives the table is the next row of *)
(* the crawler.                                                               *)
LEMMA UpdateIsNext ==
    ASSUME WinInv, gui = "loop", gui_queue # <<>>, Head(gui_queue).kind = "update"
    PROVE  Head(gui_queue).info \in Infos /\ Len(arrived) < MaxUpdates
<1>1. waiting /\ slot = "update" /\ Head(gui_queue) = Last(gui_queue)
  BY HeadOfQueue DEF WinInv, WaitInv
<1>2. PICK info \in Infos : delivered = Append(arrived, info)
  BY <1>1 DEF WinInv, RowInv, Behind
<1>3. arrived \in Seq(Infos)
  BY DEF WinInv, TypeOK, TableTypeOK
<1>4. Last(delivered) = info /\ Len(delivered) = Len(arrived) + 1 /\ Len(arrived) \in Nat
  BY <1>2, <1>3, AppendProperties, LenProperties DEF Last
<1>5. Head(gui_queue).info = info
  BY <1>1, <1>4 DEF WinInv, WaitInv
<1>6. Len(delivered) <= Len(Rows) /\ Len(Rows) <= MaxUpdates /\ MaxUpdates \in Nat
      /\ Len(Rows) \in Nat
  BY HitsAssumption, WindowAssumption, LenProperties DEF WinInv
<1> QED BY <1>4, <1>5, <1>6

(* showMessage runs: what is shown is behind by one row at the most.          *)
LEMMA MessageRuns ==
    ASSUME WinInv, gui = "loop", gui_queue # <<>>, Head(gui_queue).kind = "message",
           gui_queue' = Tail(gui_queue), shown' = Head(gui_queue).n,
           Return("notice"),
           UNCHANGED <<table, crawl, statusmessage, work, gui, win>>
    PROVE  WinInv'
<1>1. /\ waiting /\ slot = "message" /\ gui_queue' = <<>>
      /\ waiting' = FALSE /\ slot' = "notice" /\ shown' = statusmessage
  BY HeadOfQueue DEF WinInv, WaitInv, Return
<1>2. /\ UNCHANGED <<delivered, phase, io_thread, m_work, reset_posted>>
      /\ UNCHANGED <<main_open, viewers, m_abort, statusmessage, gui>>
      /\ UNCHANGED <<m_list_info, arrived>>
  BY DEF crawl, work, win, table
<1>3. TypeOK'
  <2>1. TableTypeOK'
    BY TableStays DEF WinInv
  <2>2. gui_queue' \in Seq(Events) /\ Len(gui_queue') <= 4
    <3>1. <<>> \in Seq(Events) /\ Len(<<>>) <= 4
      BY EmptySeq
    <3> QED BY <1>1, <3>1, Zenon
  <2>3. shown' \in -1..Len(Rows)
    BY <1>1, LenProperties, WindowAssumption DEF WinInv, TypeOK
  <2> QED BY <1>1, <1>2, <2>1, <2>2, <2>3 DEF WinInv, TypeOK
<1>4. membersLive' /\ statusLive' /\ membersLive /\ Len(gui_queue') = 0
  BY <1>1, <1>2 DEF membersLive, statusLive
<1>5. Behind' <=> Behind
  BY <1>2 DEF Behind
<1> QED BY <1>1, <1>2, <1>3, <1>4, <1>5
        DEF WinInv, RowInv, CountInv, WaitInv, CallInv, GoneInv, LengthInv

(* The notice of the row before runs: nothing changes but the queue.          *)
LEMMA NoticeRuns ==
    ASSUME WinInv, gui = "loop", gui_queue # <<>>, Head(gui_queue).kind = "notice",
           gui_queue' = Tail(gui_queue),
           UNCHANGED <<table, shown, waiting, slot, crawl, statusmessage, work, gui, win>>
    PROVE  WinInv'
<1>1. /\ UNCHANGED <<delivered, phase, io_thread, m_work, reset_posted, waiting, slot>>
      /\ UNCHANGED <<main_open, viewers, m_abort, statusmessage, gui, shown>>
      /\ UNCHANGED <<m_list_info, arrived>>
  BY DEF crawl, work, win, table
<1>2. /\ gui_queue' \in Seq(Events) /\ Len(gui_queue') = Len(gui_queue) - 1
      /\ \A k \in 1..Len(gui_queue') : gui_queue'[k] = gui_queue[k + 1]
      /\ Len(gui_queue) \in Nat \ {0}
      /\ Len(gui_queue) = 1 => Head(gui_queue) = Last(gui_queue)
      /\ Len(gui_queue) > 1 => gui_queue' # <<>> /\ Last(gui_queue') = Last(gui_queue)
  BY Run DEF WinInv, TypeOK
<1>3. TypeOK'
  <2>1. TableTypeOK'
    BY TableStays DEF WinInv
  <2> QED BY <1>1, <1>2, <2>1 DEF WinInv, TypeOK
<1>4. membersLive' /\ statusLive' /\ membersLive
  BY <1>1 DEF membersLive, statusLive
<1>5. Behind' <=> Behind
  BY <1>1 DEF Behind
<1>6. WaitInv'
  <2> SUFFICES ASSUME waiting' PROVE WaitInv'
    BY DEF WaitInv
  <2>1. Len(gui_queue) > 1
    BY <1>1, <1>2 DEF WinInv, WaitInv
  <2> QED BY <1>1, <1>2, <2>1 DEF WinInv, WaitInv
<1>7. CallInv'
  <2> SUFFICES ASSUME NEW k \in 1..Len(gui_queue'), gui_queue'[k].kind # "notice"
               PROVE  waiting' /\ k = Len(gui_queue')
    BY DEF CallInv
  <2> DEFINE l == k + 1
             n == Len(gui_queue)
             m == Len(gui_queue')
  <2>1. l \in 1..Len(gui_queue) /\ gui_queue[l].kind # "notice"
    BY <1>2
  <2>2. l = n => k = m
    <3>1. m = n - 1 /\ n \in Nat /\ k \in 1..m
      BY <1>2
    <3> HIDE DEF n, m
    <3> QED BY <3>1
  <2> HIDE DEF l
  <2>3. waiting /\ l = Len(gui_queue)
    BY <1>4, <2>1 DEF WinInv, CallInv
  <2> QED BY <1>1, <2>2, <2>3
<1>8. LengthInv'
  <2> DEFINE n == Len(gui_queue)
             m == Len(gui_queue')
  <2>1. m = n - 1 /\ n \in Nat
    BY <1>2
  <2>2. CASE waiting
    <3>1. LengthInv
      BY DEF WinInv
    <3>2. waiting' /\ slot' = slot
      BY <1>1, <2>2
    <3> QED BY <1>4, <2>1, <2>2, <3>1, <3>2 DEF LengthInv
  <2>3. CASE ~waiting
    <3>1. LengthInv
      BY DEF WinInv
    <3>2. ~waiting' /\ slot' = slot
      BY <1>1, <2>3
    <3> QED BY <1>4, <2>1, <2>3, <3>1, <3>2 DEF LengthInv
  <2> QED BY <2>2, <2>3
<1>9. RowInv' /\ CountInv' /\ GoneInv'
  <2>1. statusLive
    BY DEF statusLive, membersLive
  <2> QED BY <1>1, <1>4, <1>5, <2>1 DEF WinInv, RowInv, CountInv, GoneInv
<1>10. Len(delivered') <= Len(Rows)
  BY <1>1 DEF WinInv
<1> QED BY <1>3, <1>6, <1>7, <1>8, <1>9, <1>10 DEF WinInv
-----------------------------------------------------------------------------
(* The loop runs what was posted.                                             *)
LEMMA EventStep == ASSUME WinInv, GuiEvent PROVE WinInv'
<1>1. gui = "loop" /\ gui_queue # <<>> /\ gui_queue' = Tail(gui_queue)
      /\ UNCHANGED <<crawl, statusmessage, work, gui, win>>
  BY DEF GuiEvent
<1>2. CASE /\ Head(gui_queue).kind = "update"
           /\ update_tianya_list(Head(gui_queue).info)
           /\ arrived' = Append(arrived, Head(gui_queue).info)
           /\ Return("message")
           /\ UNCHANGED shown
  BY <1>1, <1>2, UpdateRuns
<1>3. CASE /\ Head(gui_queue).kind = "message"
           /\ shown' = Head(gui_queue).n
           /\ Return("notice")
           /\ UNCHANGED table
  BY <1>1, <1>3, MessageRuns
<1>4. CASE /\ Head(gui_queue).kind = "notice"
           /\ UNCHANGED <<table, shown, waiting, slot>>
  BY <1>1, <1>4, NoticeRuns
<1> QED BY <1>2, <1>3, <1>4 DEF GuiEvent

(* The table dies: the update that is on its way is dropped, and the io       *)
(* thread goes on.                                                            *)
LEMMA MembersStep == ASSUME WinInv, GuiDestroyMembers PROVE WinInv'
<1>1. /\ UNCHANGED <<delivered, phase, io_thread, m_work, reset_posted, gui_queue>>
      /\ UNCHANGED <<main_open, viewers, statusmessage, shown, m_list_info, arrived>>
      /\ gui = "leaving" /\ gui' = "members" /\ m_abort' = TRUE
      /\ Dropped("update")
  BY DEF GuiDestroyMembers, crawl, work, table
<1>2. membersLive /\ ~membersLive' /\ statusLive /\ statusLive'
  BY <1>1 DEF membersLive, statusLive
<1>3. Behind' <=> Behind
  BY <1>1 DEF Behind
<1>4. TableTypeOK'
  BY <1>1, TableStays DEF WinInv, table
<1>5. CASE waiting /\ slot = "update"
  <2>1. Last(gui_queue).kind = "update"
    BY <1>5 DEF WinInv, WaitInv
  <2>2. waiting' = FALSE /\ slot' = "message"
    BY <1>1, <1>5, <2>1 DEF Dropped
  <2> HIDE DEF WinInv
  <2>3. TypeOK'
    BY <1>1, <1>4, <2>2 DEF WinInv, TypeOK
  <2>4. Len(gui_queue) <= 2 /\ Behind /\ statusmessage = Len(m_list_info)
    BY <1>2, <1>5 DEF WinInv, LengthInv, RowInv, CountInv
  <2> QED BY <1>1, <1>2, <1>3, <2>2, <2>3, <2>4
          DEF WinInv, RowInv, CountInv, WaitInv, CallInv, GoneInv, LengthInv
<1>6. CASE ~(waiting /\ slot = "update")
  <2>1. waiting => Last(gui_queue).kind # "update"
    BY <1>6 DEF WinInv, WaitInv
  <2>2. (waiting' <=> waiting) /\ waiting' \in BOOLEAN
    BY <1>1, <2>1 DEF Dropped
  <2>3. slot' = slot
    BY <1>1, <2>2 DEF Dropped
  <2>4. TypeOK'
    BY <1>1, <1>4, <2>2, <2>3 DEF WinInv, TypeOK
  <2>5. CallInv' /\ GoneInv' /\ RowInv' /\ CountInv'
    BY <1>1, <1>2, <1>3, <1>6, <2>2, <2>3
       DEF WinInv, RowInv, CountInv, CallInv, GoneInv
  <2>6. WaitInv'
    BY <1>1, <2>2, <2>3 DEF WinInv, WaitInv
  <2>7. LengthInv'
    BY <1>1, <1>2, <1>6, <2>2, <2>3 DEF WinInv, LengthInv
  <2>8. Len(delivered') <= Len(Rows)
    BY <1>1 DEF WinInv
  <2> QED BY <2>4, <2>5, <2>6, <2>7, <2>8 DEF WinInv
<1> QED BY <1>5, <1>6

(* The status bar dies: so does the last call anybody could wait for.         *)
LEMMA StatusBarStep == ASSUME WinInv, GuiDestroyStatusBar PROVE WinInv'
<1>1. /\ UNCHANGED <<delivered, phase, io_thread, m_work, reset_posted, gui_queue>>
      /\ UNCHANGED <<main_open, viewers, m_abort>>
      /\ UNCHANGED <<statusmessage, shown, m_list_info, arrived>>
      /\ gui = "members" /\ gui' = "joining"
      /\ Dropped("message")
  BY DEF GuiDestroyStatusBar, crawl, work, table, win
<1>2. ~membersLive /\ ~membersLive' /\ statusLive /\ ~statusLive'
  BY <1>1 DEF membersLive, statusLive
<1>3. Behind' <=> Behind
  BY <1>1 DEF Behind
<1>4. TableTypeOK'
  BY <1>1, TableStays DEF WinInv, table
<1>5. CASE waiting
  <2>1. slot = "message" /\ Last(gui_queue).kind = "message"
    BY <1>2, <1>5 DEF WinInv, WaitInv, GoneInv
  <2>2. waiting' = FALSE /\ slot' = "notice"
    BY <1>1, <1>5, <2>1 DEF Dropped
  <2>3. TypeOK'
    BY <1>1, <1>4, <2>2 DEF WinInv, TypeOK
  <2>4. Len(gui_queue) <= 3
    BY <1>2, <1>5, <2>1 DEF WinInv, LengthInv
  <2> QED BY <1>1, <1>2, <1>3, <2>1, <2>2, <2>3, <2>4
          DEF WinInv, RowInv, CountInv, WaitInv, CallInv, GoneInv, LengthInv
<1>6. CASE ~waiting
  <2>1. waiting' = FALSE /\ slot' = slot
    BY <1>1, <1>6 DEF Dropped
  <2>2. TypeOK'
    BY <1>1, <1>4, <2>1 DEF WinInv, TypeOK
  <2> QED BY <1>1, <1>2, <1>3, <1>6, <2>1, <2>2
          DEF WinInv, RowInv, CountInv, WaitInv, CallInv, GoneInv, LengthInv
<1> QED BY <1>5, <1>6
-----------------------------------------------------------------------------
(* Every step keeps the induction.                                            *)
LEMMA NextWinInv == WinInv /\ [Next]_vars => WinInv'
<1> SUFFICES ASSUME WinInv, [Next]_vars PROVE WinInv'
  OBVIOUS
<1>1. CASE UNCHANGED vars
  BY <1>1 DEF vars, crawl, io, work, win, table, WinInv, TypeOK, RowInv, CountInv,
              WaitInv, CallInv, GoneInv, LengthInv, Behind, membersLive, statusLive,
              TableTypeOK
<1>2. CASE Next
  BY <1>2, NextElsewhere, RowStep, CountStep, UpdateStep, MessageStep, NoticeStep,
     EventStep, MembersStep, StatusBarStep
     DEF Next, Io, GuiShutdown
<1> QED BY <1>1, <1>2

(* InStep is what the induction says of the table, the text and the queue.    *)
LEMMA WinInvInStep == WinInv => InStep
<1> SUFFICES ASSUME WinInv PROVE InStep
  OBVIOUS
<1>1. arrived \in Seq(Infos) /\ delivered \in Seq(Infos)
  BY DEF WinInv, TypeOK, TableTypeOK
<1>2. IsPrefix(arrived, delivered)
  <2>1. CASE arrived = delivered
    BY <1>1, <2>1, IsPrefixOfItself
  <2>2. CASE Behind
    BY <1>1, <2>2, PrefixOfAppend DEF Behind
  <2> QED BY <2>1, <2>2 DEF WinInv, RowInv
<1>3. slot = "count" => Len(arrived) = Len(delivered) - 1
  <2> SUFFICES ASSUME slot = "count" PROVE Len(arrived) = Len(delivered) - 1
    OBVIOUS
  <2>1. PICK info \in Infos : delivered = Append(arrived, info)
    BY DEF WinInv, RowInv, Behind
  <2> QED BY <1>1, <2>1, AppendProperties, LenProperties
<1>4. gui = "loop" =>
        \A j, k \in 1..Len(gui_queue) :
            gui_queue[j].kind # "notice" /\ gui_queue[k].kind # "notice" => j = k
  BY DEF WinInv, CallInv, membersLive
<1>5. membersLive /\ slot \notin {"count", "update"} => arrived = delivered
  BY DEF WinInv, RowInv
<1> QED BY <1>2, <1>3, <1>4, <1>5 DEF InStep, WinInv, CountInv

(* The induction, which says more than the runs check: nobody is waited for   *)
(* once it is gone, and the queue holds four entries at the most.             *)
THEOREM Invariance == Spec => []WinInv
  BY InitWinInv, NextWinInv, PTL DEF Spec

(* InStep: the table keeps step with the crawler, one call is on its way at a *)
(* time, and the number in the status bar is behind by one row at the most.   *)
THEOREM WindowSafe == Spec => []InStep
  BY Invariance, WinInvInStep, PTL

(* CallsReturn, its safety half: the io thread waits only for a receiver that *)
(* still lives, and its call is still in the queue.                           *)
WaitsForTheLiving == waiting =>
    /\ slot \in {"update", "message"} /\ gui_queue # <<>>
    /\ Last(gui_queue).kind = slot
    /\ IF slot = "update" THEN membersLive ELSE statusLive

(* No wait outlives its receiver: neither thread is in the other's way when   *)
(* the program ends.                                                          *)
THEOREM NobodyWaitsForTheDead == Spec => []WaitsForTheLiving
<1>1. WinInv => WaitsForTheLiving
  BY DEF WinInv, WaitInv, GoneInv, WaitsForTheLiving
<1> QED BY <1>1, Invariance, PTL
(* The slot gives the table its rows one by one, and nothing else changes it: *)
(* the window's table is that of TianyaModel, ...                             *)
THEOREM UsesTable == Spec => TableSpec
<1>1. Init => TableInit
  BY DEF Init
<1>2. WinInv /\ [Next]_vars => [Update]_table
  <2> SUFFICES ASSUME WinInv, [Next]_vars PROVE [Update]_table
    OBVIOUS
  <2>1. CASE GuiEvent
    <3>1. gui = "loop" /\ gui_queue # <<>>
      BY <2>1 DEF GuiEvent
    <3>2. CASE UNCHANGED table
      BY <3>2
    <3>3. CASE /\ Head(gui_queue).kind = "update"
               /\ update_tianya_list(Head(gui_queue).info)
               /\ arrived' = Append(arrived, Head(gui_queue).info)
      <4>1. Head(gui_queue).info \in Infos /\ Len(arrived) < MaxUpdates
        BY <3>1, <3>3, UpdateIsNext
      <4>2. Update
        BY <3>3, <4>1 DEF Update
      <4> QED BY <4>2
    <3> QED BY <2>1, <3>2, <3>3 DEF GuiEvent
  <2>2. CASE UNCHANGED table
    BY <2>2
  <2>3. UNCHANGED table \/ GuiEvent
    BY DEF Next, Io, GuiShutdown, vars, IoThread, IoCount, IoUpdate, IoMessage, IoNotice,
           IoReset, IoEnd, IoRow, IoFinish, IoUndefined, GuiStart, GuiAboutToQuit,
           GuiDestroyMembers, GuiDestroyStatusBar, GuiJoin, UserOpens, UserCloses
  <2> QED BY <2>1, <2>2, <2>3
<1> QED BY <1>1, <1>2, Invariance, PTL DEF Spec, TableSpec

(* ... in order and complete whatever the crawler does and whenever the       *)
(* program ends.                                                              *)
THEOREM WindowTableCorrect == Spec => [](Ordered /\ NothingLost)
  BY UsesTable, TableCorrect, TableComplete, PTL
=============================================================================
