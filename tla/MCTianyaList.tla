---------------------------- MODULE MCTianyaList ----------------------------
(* Instances of TianyaList for TLC.                                           *)
EXTENDS TianyaList

Row(titleLines, linked) == [titleLines |-> titleLines, linked |-> linked]

\* Three pages: a row without a link, titles on two lines, on one and on none,
\* and a page without a row.
ThreePages == << << Row(1, TRUE), Row(1, FALSE), Row(2, TRUE) >>,
                 << >>,
                 << Row(0, TRUE), Row(1, TRUE) >> >>
=============================================================================
