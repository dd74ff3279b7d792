----------------------------- MODULE TianyaModel -----------------------------
(* src/model/tianyamodel.cpp: the table of the threads found.  The crawler    *)
(* hands its rows to update_tianya_list, one at a time and in any order: the  *)
(* forum's list moves while it is crawled, and a thread comes again on a      *)
(* later page, with the same clicks or with more.                             *)
EXTENDS Integers, SequencesExt

CONSTANTS Urls,       \* the threads
          Hits,       \* the clicks a thread may have
          MaxUpdates  \* bound: how many rows are handed over

ASSUME HitsAssumption == Hits \subseteq Int /\ MaxUpdates \in Nat

Infos == [post_url : Urls, hits : Hits]

VARIABLES m_list_info,
          arrived       \* history: the arguments of every call

table == <<m_list_info, arrived>>

TableInit == m_list_info = <<>> /\ arrived = <<>>

\* Faulty variant of IsInsertPoint: "<=", in front of those with as many clicks.
BeforeEqual(p, info) ==
    /\ \A k \in 1..(p - 1) : m_list_info[k].hits > info.hits
    /\ p <= Len(m_list_info) => m_list_info[p].hits <= info.hits

\* find_if: the first row with fewer clicks, or behind the last row.
IsInsertPoint(p, info) ==
    /\ \A k \in 1..(p - 1) : m_list_info[k].hits >= info.hits
    /\ p <= Len(m_list_info) => m_list_info[p].hits < info.hits

\* Faulty variant of IsDuplicate: the clicks are compared.
SameHits(p, info) ==
    \E k \in 1..Len(m_list_info) : m_list_info[k].hits = info.hits

\* Is the thread there already?  Above other rows all of them are searched,
\* for a row at the end only the last one.
IsDuplicate(p, info) ==
    IF p <= Len(m_list_info)
    THEN \E k \in 1..Len(m_list_info) : m_list_info[k].post_url = info.post_url
    ELSE m_list_info # <<>> /\ Last(m_list_info).post_url = info.post_url

update_tianya_list(info) ==
    \E p \in 1..(Len(m_list_info) + 1) :
        /\ IsInsertPoint(p, info)
        /\ m_list_info' = IF IsDuplicate(p, info) THEN m_list_info
                          ELSE InsertAt(m_list_info, p, info)

Update ==
    /\ Len(arrived) < MaxUpdates
    /\ \E info \in Infos :
        /\ update_tianya_list(info)
        /\ arrived' = Append(arrived, info)

TableSpec == TableInit /\ [][Update]_table
-----------------------------------------------------------------------------
(* Properties *)

TableTypeOK ==
    /\ m_list_info \in Seq(Infos)
    /\ arrived \in Seq(Infos)
    /\ Len(m_list_info) <= Len(arrived)

\* The most clicked thread comes first, whatever the order of arrival.
Sorted == \A k, l \in 1..Len(m_list_info) :
    k < l => m_list_info[k].hits >= m_list_info[l].hits

\* Among threads with as many clicks the earlier arrival stands above, and
\* inserting between rows never swaps those that are there: of two rows as
\* often clicked the upper one has arrived before the lower one last did.
Stable == \A k, l \in 1..Len(m_list_info) :
    k < l /\ m_list_info[k].hits = m_list_info[l].hits =>
        \E i, j \in 1..Len(arrived) :
            i < j /\ arrived[i] = m_list_info[k] /\ arrived[j] = m_list_info[l]

\* The table is in order, whatever order the rows come in.
Ordered == TableTypeOK /\ Sorted /\ Stable

\* Every thread handed over is in the table, in one of the states in which it
\* arrived: only a repetition is left out.
NothingLost ==
    /\ \A i \in 1..Len(arrived) : \E k \in 1..Len(m_list_info) :
        m_list_info[k].post_url = arrived[i].post_url
    /\ \A k \in 1..Len(m_list_info) : \E i \in 1..Len(arrived) :
        m_list_info[k] = arrived[i]

\* The comment in update_tianya_list: avoid repetitions.
NoRepetition == \A k, l \in 1..Len(m_list_info) :
    m_list_info[k].post_url = m_list_info[l].post_url => k = l
=============================================================================
