------------------------------ MODULE PostStream ------------------------------
(* What a tianya_context promises to the slots connected to its two signals:  *)
(* the posts of the thread's author arrive one at a time, in the order of the *)
(* thread, none twice and none left out in between, and the end is announced  *)
(* at most once.  The stream may also die without a word: the handlers of a   *)
(* failed resolve and of a failed connect emit nothing.                       *)
EXTENDS Naturals, Sequences

CONSTANT Posts   \* the host's posts, in thread order

VARIABLES delivered,   \* what m_one_content_fetched has emitted so far
          phase        \* "idle", "running", "ended" (announced) or "silent"

vars == <<delivered, phase>>

Phases == {"idle", "running", "ended", "silent"}

Init == delivered = <<>> /\ phase = "idle"

Begin == /\ phase = "idle"
         /\ phase' = "running"
         /\ UNCHANGED delivered

\* The next post; a stop noticed right after it ends the stream in the same step.
Deliver == /\ phase = "running"
           /\ Len(delivered) < Len(Posts)
           /\ delivered' = Append(delivered, Posts[Len(delivered) + 1])
           /\ phase' \in {"running", "ended"}

Finish == /\ phase = "running"
          /\ phase' \in {"ended", "silent"}
          /\ UNCHANGED delivered

Next == Begin \/ Deliver \/ Finish

Spec == Init /\ [][Next]_vars
=============================================================================
