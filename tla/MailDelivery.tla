---------------------------- MODULE MailDelivery ----------------------------
(* What mx::smtp promises to the caller of async_sendmail: the handler is     *)
(* called at most once; it is told success only if the server has accepted    *)
(* the mail; and nothing is sent any more once it has been called.            *)
EXTENDS Naturals

VARIABLES result,    \* "none", "trying", "sent" or "failed"
          accepted   \* how often the server accepted the mail

vars == <<result, accepted>>

Init == result = "none" /\ accepted = 0

Submit == result = "none" /\ result' = "trying" /\ UNCHANGED accepted

\* More than once if the answer to the first time is lost.
Accept == result = "trying" /\ accepted' = accepted + 1 /\ UNCHANGED result

Report == /\ result = "trying"
          /\ \/ result' = "sent" /\ accepted > 0
             \/ result' = "failed"
          /\ UNCHANGED accepted

Next == Submit \/ Accept \/ Report

Spec == Init /\ [][Next]_vars
=============================================================================
