--------------------------- MODULE MCTianyaContext ---------------------------
(* An instance of TianyaContext for TLC: a small thread of the forum.         *)
EXTENDS TianyaContext

Post(by, quotes) == [by |-> by, quotes |-> quotes, stamped |-> TRUE]

\* Two pages.  The guest is quoted before and after the guest has posted, the
\* second time on the next page; a quotation behind dashes, a byline nobody
\* signed, one without a time, and words of the host's own at the end.
Thread == << << Post("host", NoOne), Post("host", "guest"), Post("guest", "host") >>,
             << Post("host", "guest"), Post(NoOne, NoOne), Post("host", Separator),
                [by |-> "host", quotes |-> NoOne, stamped |-> FALSE],
                Post("host", NoOne) >> >>
=============================================================================
