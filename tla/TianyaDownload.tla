--------------------------- MODULE TianyaDownload ---------------------------
(* src/tianya_download.cpp and the two windows built over it, NovelViewer and *)
(* SendProgress.  A tianya_download lives on the GUI thread and owns a        *)
(* tianya_context, whose two signals call its slots on the io thread; a slot  *)
(* posts a closure to the GUI thread, which looks at *is_gone before it acts. *)
(* The context is used through what it promises, PostStream.                  *)
EXTENDS Integers, SequencesExt

CONSTANTS Clients,   \* of "viewer" (NovelViewer) and "progress" (SendProgress)
          NumPosts,  \* posts by the author of the thread
          MaxSaves,  \* bound: how often the viewer's user saves to a file
          MaxMails   \* bound: how often the viewer's user mails the novel

ASSUME DownloadAssumption ==
    /\ Clients \subseteq {"viewer", "progress"}
    /\ NumPosts \in Nat /\ MaxSaves \in Nat /\ MaxMails \in Nat

Posts == [i \in 1..NumPosts |-> i]

VARIABLES
    client,          \* the window this object belongs to
    \* io thread
    fetched, phase,  \* the context, as PostStream has it
    context,         \* the posts it kept, m_context_info.context
    emitting,        \* signals not emitted yet
    slot,            \* the slots running, at most one
    io_queue,        \* files to be written by a posted closure
    mails,           \* every mail handed to mx::smtp
    \* GUI thread
    gui,             \* "idle", "mailing", "closing", "disconnected", "deleted"
    gui_queue,       \* closures posted to the GUI thread
    connected,       \* the signals whose slot is still connected
    is_gone,
    m_first_chunk,   \* "yes", "armed" (the 200 ms timer runs), "fired"
    shown,           \* emissions of chunk_download_notify
    completed,       \* emissions of download_complete
    told,            \* the mails whose send_complete was emitted
    timer,           \* SendProgress: deleteLater in 2 s
    files            \* the files written

ctx  == <<client, fetched, phase>>
io   == <<context, emitting, slot>>
view == <<m_first_chunk, shown, completed, told, timer>>
vars == <<ctx, io, io_queue, mails, gui, gui_queue, connected, is_gone, view, files>>

Stream == INSTANCE PostStream WITH delivered <- fetched

Emissions == [kind : {"chunk"}, n : 1..NumPosts] \cup [kind : {"complete"}]
Items     == Emissions \cup [kind : {"mailed"}, n : Nat]

Chunk(n)  == [kind |-> "chunk", n |-> n]
Complete  == [kind |-> "complete"]
Mailed(m) == [kind |-> "mailed", n |-> m]

Mails == [text : Seq(1..NumPosts), after : BOOLEAN,
          result : {"reading", "sending", "sent", "failed"}]

Files == [shownThen : Seq(1..NumPosts), text : Seq(1..NumPosts)]

TypeOK ==
    /\ client \in Clients
    /\ fetched \in Seq(1..NumPosts) /\ phase \in Stream!Phases
    /\ context \in Seq(1..NumPosts)
    /\ emitting \in Seq(Emissions) /\ slot \in Seq(Emissions) /\ Len(slot) <= 1
    /\ gui \in {"idle", "mailing", "closing", "disconnected", "deleted"}
    /\ gui_queue \in Seq(Items)
    /\ connected \subseteq {"chunk", "complete"} /\ is_gone \in BOOLEAN /\ timer \in BOOLEAN
    /\ m_first_chunk \in {"yes", "armed", "fired"}
    /\ shown \in Seq(1..NumPosts)
    /\ completed \in 0..1
    /\ \A m \in told : m \in 1..Len(mails)
    /\ mails \in Seq(Mails)
    /\ io_queue \in Seq(Seq(1..NumPosts))
    /\ files \in Seq(Files)

Init ==
    /\ client \in Clients
    /\ Stream!Init
    /\ context = <<>> /\ emitting = <<>> /\ slot = <<>>
    /\ io_queue = <<>> /\ mails = <<>> /\ files = <<>>
    /\ gui = "idle" /\ gui_queue = <<>>
    /\ connected = {"chunk", "complete"} /\ is_gone = FALSE
    /\ m_first_chunk = "yes"
    /\ shown = <<>> /\ completed = 0 /\ told = {} /\ timer = FALSE
-----------------------------------------------------------------------------
(* The io thread.  It runs one handler at a time: while a slot runs, or a     *)
(* signal is being emitted, nothing else does.                                *)
ioIdle == emitting = <<>> /\ slot = <<>>

\* A byline was read: the post is kept or not, then m_one_content_fetched is
\* emitted, and m_download_complete too if a stop is noticed.
IoFetch ==
    /\ ioIdle
    /\ Stream!Deliver
    /\ LET n == Last(fetched')
       IN /\ context' \in {context, Append(context, n)}
          /\ emitting' = IF phase' = "ended" THEN <<Chunk(n), Complete>>
                         ELSE <<Chunk(n)>>
    /\ UNCHANGED <<client, slot, io_queue, mails, gui, gui_queue, connected,
                   is_gone, view, files>>

\* The download ends, with m_download_complete or in silence.
IoFinish ==
    /\ ioIdle
    /\ Stream!Finish
    /\ emitting' = IF phase' = "ended" THEN <<Complete>> ELSE <<>>
    /\ UNCHANGED <<client, context, slot, io_queue, mails, gui, gui_queue, connected,
                   is_gone, view, files>>

\* The signal calls its slot if it is still connected.
IoEmit ==
    /\ slot = <<>>
    /\ emitting # <<>>
    /\ slot' = IF Head(emitting).kind \in connected THEN <<Head(emitting)>> ELSE <<>>
    /\ emitting' = Tail(emitting)
    /\ UNCHANGED <<ctx, context, io_queue, mails, gui, gui_queue, connected,
                   is_gone, view, files>>

\* Faulty variant of IoSlot: the closure overtakes those that wait.
IoSlotOvertakes ==
    /\ slot # <<>>
    /\ gui_queue' = <<Head(slot)>> \o gui_queue
    /\ slot' = <<>>
    /\ UNCHANGED <<ctx, context, emitting, io_queue, mails, gui, connected,
                   is_gone, view, files>>

\* The body of either slot.  It reads this->m_tianya_context before it posts:
\* a destructor that ran since the slot was called makes that a use of freed
\* memory, whose value only the dead closure would see.
IoSlot ==
    /\ slot # <<>>
    /\ gui_queue' = Append(gui_queue, Head(slot))
    /\ slot' = <<>>
    /\ UNCHANGED <<ctx, context, emitting, io_queue, mails, gui, connected,
                   is_gone, view, files>>

\* The closure of save_to_file: it holds the context alive and reads it here.
IoSave ==
    /\ ioIdle
    /\ io_queue # <<>>
    /\ files' = Append(files, [shownThen |-> Head(io_queue), text |-> context])
    /\ io_queue' = Tail(io_queue)
    /\ UNCHANGED <<ctx, io, mails, gui, gui_queue, connected, is_gone, view>>

\* Faulty variant of SmtpHandler: a mail that failed is not reported at all.
HandlerTellsSuccess(m, result) ==
    gui_queue' = IF is_gone \/ result = "failed" THEN gui_queue
                 ELSE Append(gui_queue, Mailed(m))

\* mx::smtp's handler: the error code is dropped.
SmtpHandler(m, result) ==
    gui_queue' = IF is_gone THEN gui_queue ELSE Append(gui_queue, Mailed(m))

\* mx::smtp calls the handler, once for each mail, in any order.
IoMailEnds ==
    /\ ioIdle
    /\ \E m \in 1..Len(mails), result \in {"sent", "failed"} :
        /\ mails[m].result = "sending"
        /\ mails' = [mails EXCEPT ![m].result = result]
        /\ SmtpHandler(m, result)
    /\ UNCHANGED <<ctx, io, io_queue, gui, connected, is_gone, view, files>>
-----------------------------------------------------------------------------
(* The GUI thread *)

\* start_download, from the constructor of NovelViewer or SendProgress::start.
GuiStart ==
    /\ gui = "idle"
    /\ Stream!Begin
    /\ UNCHANGED <<client, io, io_queue, mails, gui, gui_queue, connected,
                   is_gone, view, files>>

\* start_send_mail up to the loop of serialize_to_io_device.
BeginMail ==
    /\ gui' = "mailing"
    /\ mails' = Append(mails, [text |-> context, after |-> completed' = 1,
                               result |-> "reading"])

\* The loop is over: it has read the posts kept when it began, or, the io
\* thread appending meanwhile, anything up to what is kept now.
GuiMailRead ==
    /\ gui = "mailing"
    /\ gui' = "idle"
    /\ \E n \in Len(Last(mails).text)..Len(context) :
        mails' = [mails EXCEPT ![Len(mails)] =
                    [@ EXCEPT !.text = SubSeq(context, 1, n), !.result = "sending"]]
    /\ UNCHANGED <<ctx, io, io_queue, gui_queue, connected, is_gone, view, files>>

\* Faulty variant of Alive: *is_gone is not looked at.
GoneIgnored(closure) == closure

\* "if (*is_gone) return;"
Alive(closure) == ~is_gone /\ closure

OnChunk(n) ==
    /\ shown' = Append(shown, n)
    /\ m_first_chunk' = IF m_first_chunk = "yes" THEN "armed" ELSE m_first_chunk
    /\ UNCHANGED <<completed, told, timer, gui, mails>>

\* NovelViewer only tells; SendProgress::start_sendmail mails the novel.
OnComplete ==
    /\ completed' = completed + 1
    /\ IF client = "progress" THEN BeginMail ELSE UNCHANGED <<gui, mails>>
    /\ UNCHANGED <<shown, m_first_chunk, told, timer>>

\* SendProgress::mail_sended arms deleteLater.
OnMailed(m) ==
    /\ told' = told \cup {m}
    /\ timer' = (timer \/ client = "progress")
    /\ UNCHANGED <<shown, m_first_chunk, completed, gui, mails>>

\* The event loop runs the next closure that was posted.
GuiEvent ==
    /\ gui \in {"idle", "deleted"}
    /\ gui_queue # <<>>
    /\ gui_queue' = Tail(gui_queue)
    /\ LET e == Head(gui_queue)
       IN \/ Alive(e.kind = "chunk")    /\ OnChunk(e.n)
          \/ Alive(e.kind = "complete") /\ OnComplete
          \/ Alive(e.kind = "mailed")   /\ OnMailed(e.n)
          \/ is_gone /\ UNCHANGED <<view, gui, mails>>
    /\ UNCHANGED <<ctx, io, io_queue, connected, is_gone, files>>

\* The 200 ms timer of the first chunk; it dies with the object.
GuiFirstTimer ==
    /\ gui = "idle"
    /\ m_first_chunk = "armed"
    /\ m_first_chunk' = "fired"
    /\ UNCHANGED <<ctx, io, io_queue, mails, gui, gui_queue, connected, is_gone,
                   shown, completed, told, timer, files>>

\* The viewer's buttons.
UserSave ==
    /\ client = "viewer"
    /\ gui = "idle"
    /\ Len(io_queue) + Len(files) < MaxSaves
    /\ io_queue' = Append(io_queue, shown)
    /\ UNCHANGED <<ctx, io, mails, gui, gui_queue, connected, is_gone, view, files>>

UserMail ==
    /\ client = "viewer"
    /\ gui = "idle"
    /\ Len(mails) < MaxMails
    /\ UNCHANGED completed
    /\ BeginMail
    /\ UNCHANGED <<ctx, io, io_queue, gui_queue, connected, is_gone,
                   m_first_chunk, shown, told, timer, files>>

\* The window is closed by the user, or deleteLater is due; ~tianya_download
\* sets *m_is_gone, disconnects the signals, and stops the context.
GuiClose ==
    /\ gui = "idle"
    /\ gui' = "closing"
    /\ is_gone' = TRUE
    /\ UNCHANGED <<ctx, io, io_queue, mails, gui_queue, connected, view, files>>

\* disconnect() does not wait for a slot that runs.
GuiDisconnect ==
    /\ gui = "closing"
    /\ connected' = connected \ {IF "complete" \in connected THEN "complete" ELSE "chunk"}
    /\ gui' = IF connected' = {} THEN "disconnected" ELSE gui
    /\ UNCHANGED <<ctx, io, io_queue, mails, gui_queue, is_gone, view, files>>

GuiStop ==
    /\ gui = "disconnected"
    /\ gui' = "deleted"
    /\ UNCHANGED <<ctx, io, io_queue, mails, gui_queue, connected, is_gone, view, files>>
-----------------------------------------------------------------------------
GuiStep == \/ GuiEvent \/ GuiMailRead \/ GuiFirstTimer
           \/ GuiDisconnect \/ GuiStop
           \/ timer /\ GuiClose
IoStep  == IoFinish \/ IoEmit \/ IoSlot \/ IoSave
Next    == \/ IoFetch \/ IoStep \/ IoMailEnds
           \/ GuiStart \/ GuiStep \/ GuiClose \/ UserSave \/ UserMail

Spec == Init /\ [][Next]_vars

(* Both threads go on with what they have to do, and mx::smtp calls its       *)
(* handler in the end: Smtp shows when.                                       *)
FairSpec == Spec /\ WF_vars(GuiEvent \/ GuiMailRead \/ GuiDisconnect \/ GuiStop)
                 /\ WF_vars(timer /\ GuiClose)
                 /\ WF_vars(IoEmit \/ IoSlot)
                 /\ WF_vars(IoMailEnds)
-----------------------------------------------------------------------------
(* Properties *)

\* The window shows the posts in the order they were fetched, none twice and
\* none left out, and says the download is complete after the last of them: the
\* signals, the slots and Qt's queue keep the order across the threads.
ShownInOrder ==
    /\ IsPrefix(shown, fetched)
    /\ completed = 1 => shown = fetched /\ phase = "ended"

\* Once *is_gone is set no closure that is still queued touches the window, and
\* no mail is begun.
GoneIsSilent == [][is_gone => UNCHANGED view /\ Len(mails') = Len(mails)]_vars

\* A saved file holds posts kept in their order, and all of those the user had
\* on the screen at the click, although the io thread writes it later.
SaveCoversShown ==
    \A i \in 1..Len(files) :
        /\ IsPrefix(files[i].text, context)
        /\ \A k \in 1..Len(context) :
            Contains(files[i].shownThen, context[k]) => Contains(files[i].text, context[k])

\* A mail begun after the end of the download carries every post kept: the
\* io thread no longer appends to what the GUI thread is reading.
MailWhole ==
    \A i \in 1..Len(mails) : mails[i].after => mails[i].text = context

\* SendProgress mails at most once, and not before the download has ended.  The
\* end may have come early: ProgressMailsWhole asks for more.
ProgressMailsOnce ==
    client = "progress" => Len(mails) <= 1 /\ \A i \in 1..Len(mails) : mails[i].after

\* What the window shows, what its user saves and what is mailed agree with what
\* was fetched and kept on the other thread.
WindowInv == TypeOK /\ ShownInOrder /\ SaveCoversShown /\ MailWhole /\ ProgressMailsOnce

\* tianya_context.hpp:414, "完全下载完成后发射这个信号": the signal on which
\* SendProgress mails comes when everything is downloaded, so what it mails was
\* taken from a whole thread.
ProgressMailsWhole == client = "progress" /\ mails # <<>> => fetched = Posts

\* A SendProgress that saw the end of its download disappears by itself.
ProgressCloses == (client = "progress" /\ completed = 1) ~> is_gone

=============================================================================
