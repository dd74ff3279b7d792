------------------------------- MODULE HandOver -------------------------------
(* What a queue between producers and consumers promises: the things put in   *)
(* come out in the order in which they were put, none twice; those still      *)
(* inside may be thrown away, the youngest first.  The things are numbered in *)
(* the order in which they are put.                                           *)
EXTENDS Integers, Sequences

VARIABLES put,       \* how many things have been put in
          waiting,   \* what is inside, the oldest first
          received   \* what has come out

vars == <<put, waiting, received>>

Init == put = 0 /\ waiting = <<>> /\ received = <<>>

Put == /\ put' \in Nat /\ put' > put
       /\ waiting' = waiting \o [k \in 1..(put' - put) |-> put + k]
       /\ UNCHANGED received

Take == \E n \in 1..Len(waiting) :
        /\ received' = received \o SubSeq(waiting, 1, n)
        /\ waiting' = SubSeq(waiting, n + 1, Len(waiting))
        /\ UNCHANGED put

Discard == /\ \E n \in 0..Len(waiting) : waiting' = SubSeq(waiting, 1, n)
           /\ UNCHANGED <<put, received>>

Next == Put \/ Take \/ Discard

Spec == Init /\ [][Next]_vars
=============================================================================
