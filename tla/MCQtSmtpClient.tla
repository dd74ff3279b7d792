--------------------------- MODULE MCQtSmtpClient ---------------------------
(* One mail to three people and one to one. *)
EXTENDS QtSmtpClient

CONSTANTS m1, m2, r1, r2, r3

MCMails == {m1, m2}
MCRecipients == [m \in MCMails |-> IF m = m1 THEN <<r1, r2, r3>> ELSE <<r2>>]
=============================================================================
