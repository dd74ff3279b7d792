----------------------------- MODULE TianyaWindow -----------------------------
(* src/tianyawindow.cpp and src/main.cpp: the main window, its crawler on the *)
(* io thread, and the end of the program.  For every row the crawler emits,   *)
(* the slot on the io thread calls the table and then the status bar on the   *)
(* GUI thread and waits for each call (Qt::BlockingQueuedConnection).  The    *)
(* crawler is used through what it promises, PostStream; the table is         *)
(* TianyaModel.                                                               *)
EXTENDS TianyaModel

CONSTANTS Rows,       \* what the crawler finds, in its order
          MaxViewers  \* bound: other windows open at a time

\* What the io thread posts to the GUI thread.
Events == [kind : {"update"}, info : Infos]
          \cup [kind : {"message"}, n : 0..Len(Rows)]
          \cup [kind : {"notice"}]

ASSUME WindowAssumption ==
    /\ Rows \in Seq(Infos) /\ Len(Rows) <= MaxUpdates
    /\ MaxViewers \in Nat

VARIABLES
    \* io thread
    delivered, phase,  \* the crawler, as PostStream has it
    slot,              \* "none" or the step of the slot: "count", "update",
                       \* "message", "notice"
    statusmessage,     \* the number in the text the slot has prepared
    waiting,           \* the io thread waits for a call on the GUI thread
    io_thread,         \* "starting", "running", "ended", "undefined"
    m_work,            \* "unset", "held" or "reset"
    reset_posted,      \* the closure that resets m_work is queued
    \* GUI thread
    gui,               \* "loop", "quit", "leaving", "members", "joining", "exited"
    gui_queue,
    main_open, viewers,
    m_abort,
    shown              \* the number the status bar shows, -1 before the first

crawl == <<delivered, phase>>
io    == <<slot, statusmessage, waiting>>
work  == <<io_thread, m_work, reset_posted>>
win   == <<main_open, viewers, m_abort>>
vars  == <<crawl, io, work, gui, gui_queue, win, table, shown>>

Stream == INSTANCE PostStream WITH Posts <- Rows

TypeOK ==
    /\ delivered \in Seq(Infos) /\ phase \in Stream!Phases
    /\ slot \in {"none", "count", "update", "message", "notice"}
    /\ statusmessage \in 0..Len(Rows) /\ shown \in -1..Len(Rows)
    /\ waiting \in BOOLEAN /\ reset_posted \in BOOLEAN
    /\ io_thread \in {"starting", "running", "ended", "undefined"}
    /\ m_work \in {"unset", "held", "reset"}
    /\ gui \in {"loop", "quit", "leaving", "members", "joining", "exited"}
    /\ gui_queue \in Seq(Events) /\ Len(gui_queue) <= 4
    /\ main_open \in BOOLEAN /\ viewers \in 0..MaxViewers /\ m_abort \in BOOLEAN
    /\ TableTypeOK

Init ==
    /\ Stream!Init /\ TableInit
    /\ slot = "none" /\ statusmessage = 0 /\ waiting = FALSE
    /\ io_thread = "starting" /\ m_work = "unset" /\ reset_posted = FALSE
    /\ gui = "loop" /\ gui_queue = <<>>
    /\ main_open = TRUE /\ viewers = 0 /\ m_abort = FALSE
    /\ shown = -1
-----------------------------------------------------------------------------
(* The io thread *)
running == io_thread = "running"

\* The thread's function: m_work is made here, then m_asio.run().
IoThread ==
    /\ io_thread = "starting"
    /\ io_thread' = "running"
    /\ m_work' = "held"
    /\ UNCHANGED <<crawl, io, reset_posted, gui, gui_queue, win, table, shown>>

\* The model and the crawler are members of the window; the status bar is a
\* child of it, which goes later.
membersLive == gui \in {"loop", "quit", "leaving"}
statusLive  == membersLive \/ gui = "members"

\* The crawler emits a row.
IoRow ==
    /\ running /\ slot = "none" /\ membersLive
    /\ Stream!Deliver
    /\ slot' = "count"
    /\ UNCHANGED <<statusmessage, waiting, work, gui, gui_queue, win, table, shown>>

IoFinish ==
    /\ running /\ slot = "none" /\ membersLive
    /\ Stream!Finish
    /\ UNCHANGED <<io, work, gui, gui_queue, win, table, shown>>

\* "updated to %1 rows": rowCount() is read on this thread, before the update.
IoCount ==
    /\ running /\ slot = "count" /\ membersLive
    /\ statusmessage' = Len(m_list_info)
    /\ slot' = "update"
    /\ UNCHANGED <<crawl, waiting, work, gui, gui_queue, win, table, shown>>

\* Faulty variant of Call: Qt::QueuedConnection, nobody waits.
CallQueued(event, next) ==
    /\ gui_queue' = Append(gui_queue, event)
    /\ slot' = next
    /\ UNCHANGED waiting

\* invokeMethod with Qt::BlockingQueuedConnection; next is the step after it.
Call(event, next) ==
    /\ gui_queue' = Append(gui_queue, event)
    /\ waiting' = TRUE
    /\ UNCHANGED slot

IoUpdate ==
    /\ running /\ slot = "update" /\ ~waiting /\ membersLive
    /\ Call([kind |-> "update", info |-> Last(delivered)], "message")
    /\ UNCHANGED <<crawl, statusmessage, work, gui, win, table, shown>>

IoMessage ==
    /\ running /\ slot = "message" /\ ~waiting /\ statusLive
    /\ Call([kind |-> "message", n |-> statusmessage], "notice")
    /\ UNCHANGED <<crawl, statusmessage, work, gui, win, table, shown>>

\* post_on_gui_thread, which adjusts the columns after the first insertion.
IoNotice ==
    /\ running /\ slot = "notice"
    /\ gui_queue' = Append(gui_queue, [kind |-> "notice"])
    /\ slot' = "none"
    /\ UNCHANGED <<crawl, statusmessage, waiting, work, gui, win, table, shown>>

\* The crawler or its slot uses a member of the window that is gone: nothing is
\* known of the io thread from here on.
IoUndefined ==
    /\ running /\ ~waiting
    /\ \/ ~membersLive /\ (slot \in {"count", "update"} \/ (slot = "none" /\ phase = "running"))
       \/ ~statusLive /\ slot = "message"
    /\ io_thread' = "undefined"
    /\ UNCHANGED <<crawl, io, m_work, reset_posted, gui, gui_queue, win, table, shown>>

\* The closure posted by aboutToQuit.
IoReset ==
    /\ running /\ slot = "none" /\ reset_posted
    /\ m_work' = "reset"
    /\ reset_posted' = FALSE
    /\ UNCHANGED <<crawl, io, io_thread, gui, gui_queue, win, table, shown>>

\* m_asio.run() returns when there is no work: no m_work, no operation.
IoEnd ==
    /\ running /\ slot = "none" /\ phase # "running"
    /\ m_work = "reset" /\ ~reset_posted
    /\ io_thread' = "ended"
    /\ UNCHANGED <<crawl, io, m_work, reset_posted, gui, gui_queue, win, table, shown>>
-----------------------------------------------------------------------------
(* The GUI thread *)

\* real_start_tianya, from a timer of the window.
GuiStart ==
    /\ gui = "loop"
    /\ Stream!Begin
    /\ UNCHANGED <<io, work, gui, gui_queue, win, table, shown>>

\* The answer to a blocking call.
Return(next) ==
    /\ waiting' = FALSE
    /\ slot' = IF waiting THEN next ELSE slot

\* The event loop runs what was posted: update_tianya_list, showMessage, or the
\* closure that arms the timer for the columns.
GuiEvent ==
    /\ gui = "loop"
    /\ gui_queue # <<>>
    /\ gui_queue' = Tail(gui_queue)
    /\ LET e == Head(gui_queue)
       IN \/ /\ e.kind = "update"
             /\ update_tianya_list(e.info)
             /\ arrived' = Append(arrived, e.info)
             /\ Return("message")
             /\ UNCHANGED shown
          \/ /\ e.kind = "message"
             /\ shown' = e.n
             /\ Return("notice")
             /\ UNCHANGED table
          \/ /\ e.kind = "notice"
             /\ UNCHANGED <<table, shown, waiting, slot>>
    /\ UNCHANGED <<crawl, statusmessage, work, gui, win>>

\* QApplication quits when the last window is closed.
LastClosed(open, others) == gui' = IF open \/ others > 0 THEN gui ELSE "quit"

\* "View" in the menu opens a viewer of its own.
UserOpens ==
    /\ gui = "loop" /\ main_open
    /\ m_list_info # <<>>
    /\ viewers < MaxViewers
    /\ viewers' = viewers + 1
    /\ UNCHANGED <<crawl, io, work, gui, gui_queue, main_open, m_abort, table, shown>>

UserCloses ==
    /\ gui = "loop"
    /\ \/ /\ viewers > 0
          /\ viewers' = viewers - 1
          /\ UNCHANGED <<main_open, m_abort>>
       \/ /\ main_open            \* closeEvent stops the crawler
          /\ main_open' = FALSE
          /\ m_abort' = TRUE
          /\ UNCHANGED viewers
    /\ LastClosed(main_open', viewers')
    /\ UNCHANGED <<crawl, io, work, gui_queue, table, shown>>

\* Faulty variant of GuiAboutToQuit: m_work is not reset.
GuiForgetsWork ==
    /\ gui = "quit"
    /\ gui' = "leaving"
    /\ UNCHANGED <<crawl, io, work, gui_queue, win, table, shown>>

\* aboutToQuit, and exec() returns: nothing that is posted runs from here on.
GuiAboutToQuit ==
    /\ gui = "quit"
    /\ reset_posted' = TRUE
    /\ gui' = "leaving"
    /\ UNCHANGED <<crawl, io, io_thread, m_work, gui_queue, win, table, shown>>

\* Faulty variant of Dropped: the pending call is not answered.
DroppedSilently(kind) == UNCHANGED <<waiting, slot>>

\* A receiver dies: Qt drops the calls posted to it and releases those who wait.
Dropped(kind) ==
    /\ waiting' = (waiting /\ Last(gui_queue).kind # kind)
    /\ slot' = IF waiting /\ ~waiting'
               THEN IF kind = "update" THEN "message" ELSE "notice"
               ELSE slot

\* ~TianyaWindow: stop(), then the members: the table and the crawler ...
GuiDestroyMembers ==
    /\ gui = "leaving"
    /\ gui' = "members"
    /\ m_abort' = TRUE
    /\ Dropped("update")
    /\ UNCHANGED <<crawl, statusmessage, work, gui_queue, main_open, viewers, table, shown>>

\* ... then, in ~QMainWindow, the children, the status bar among them.
GuiDestroyStatusBar ==
    /\ gui = "members"
    /\ gui' = "joining"
    /\ Dropped("message")
    /\ UNCHANGED <<crawl, statusmessage, work, gui_queue, win, table, shown>>

\* ~AsioQApplication: m_asio_thread.join().
GuiJoin ==
    /\ gui = "joining"
    /\ io_thread = "ended"
    /\ gui' = "exited"
    /\ UNCHANGED <<crawl, io, work, gui_queue, win, table, shown>>
-----------------------------------------------------------------------------
Io == \/ IoThread \/ IoCount \/ IoUpdate \/ IoMessage \/ IoNotice
      \/ IoReset \/ IoEnd
GuiShutdown == \/ GuiAboutToQuit \/ GuiDestroyMembers
               \/ GuiDestroyStatusBar \/ GuiJoin

Next == \/ Io \/ IoRow \/ IoFinish \/ IoUndefined
        \/ GuiStart \/ GuiEvent \/ GuiShutdown \/ UserOpens \/ UserCloses

Spec == Init /\ [][Next]_vars

(* Both threads go on with what they have begun. Nothing is assumed of the    *)
(* crawler, the forum or the user.                                            *)
FairSpec == Spec /\ WF_vars(Io) /\ WF_vars(GuiEvent) /\ WF_vars(GuiShutdown)
-----------------------------------------------------------------------------
(* Properties *)

\* The table keeps step with the crawler: it has every row emitted, in that
\* order, as soon as the slot is past the update, so that the row count the io
\* thread reads is never one that the GUI thread is about to change, no two calls
\* are on their way at a time, and the number shown, which is that before the
\* insertion, is behind by one row at the most.
InStep ==
    /\ TypeOK
    /\ IsPrefix(arrived, delivered)
    /\ membersLive /\ slot \notin {"count", "update"} => arrived = delivered
    /\ slot = "count" => Len(arrived) = Len(delivered) - 1
    /\ slot = "none" /\ shown # -1 =>
        shown \in {Len(m_list_info) - 1, Len(m_list_info)} \/ ~statusLive
    /\ gui = "loop" =>
        \A j, k \in 1..Len(gui_queue) :
            gui_queue[j].kind # "notice" /\ gui_queue[k].kind # "notice" => j = k

\* The io thread waits for a call only as long as there is somebody to answer
\* it: the event loop, or the destructor of the receiver that drops it.  The two
\* threads never wait for each other, not even at the end, when one joins the
\* other.
CallsReturn == waiting ~> ~waiting

\* A program whose crawler is at rest when its last window closes exits: m_work
\* is reset although the thread that made it may not even have started, and
\* join() returns.
ExitsFromRest ==
    (gui = "quit" /\ phase # "running" /\ slot = "none") ~> gui = "exited"
=============================================================================
