# A TLA+ model of tianya

`tianya` downloads the novels people write in the threads of the forum
bbs.tianya.cn, shows them while they arrive, saves them, and mails them to a
Kindle. This directory holds TLA+ modules translated from its source, the TLC
configurations that check them, and proofs for TLAPS.

## 1. The system

Two threads run the program. The **GUI thread** runs Qt's event loop and owns every
widget and every `tianya_download` (one for each novel being read or mailed).
The **io thread** runs one `boost::asio::io_service`: every network operation,
every handler and every coroutine. They meet in three ways:

* the GUI thread calls methods of the objects of the io thread directly
  (`tianya_context::start`, `stop`, `filter_reply`), without a lock;
* the io thread hands closures to the GUI thread (`post_on_gui_thread`, a queued
  Qt signal), or calls a slot of it and waits (`Qt::BlockingQueuedConnection`);
* the GUI thread posts closures to the io thread (`io_service::post`).

| component | state | operations | hard because | correct when |
|---|---|---|---|---|
| `tianya_context` (libtianya) downloads one thread | page, parser state, kept posts, names seen, abort flag, socket | `start`, `stop`, `filter_reply`, handlers of resolve and connect, coroutine `process_handle`, two signals | called from the GUI thread while its coroutine runs; restarts itself for each page; errors end silently or like success | posts come in order, once; one operation at a time; the end is announced once; little happens after `stop` |
| `tianya_list` (libtianya) crawls the index of threads | page, parser state, hits, abort flag, socket | `start`, `stop`, coroutine, one signal | endless; its slot blocks on the GUI thread | every row is built of one item |
| `tianya_download` wraps a context for Qt | signals connected, "gone" flag, first-chunk flag, mailer | constructor, destructor, `start_download`, `save_to_file`, `start_send_mail`, two slots on the io thread | closures outlive the object; the kept posts are read by both threads | no closure acts for a dead object; what is shown, saved, mailed are prefixes of what was fetched |
| `NovelViewer`, `SendProgress` | progress bars, status | windows over a `tianya_download` | closed at any moment | each mail is sent once, for the whole download |
| `mx::smtp` sends a mail | retry count, sockets, buffers, recipients | `async_sendmail` and a coroutine with up to 21 retries | answers cut in segments, lost answers, leftovers in buffers, TLS | success means accepted, the handler is called once |
| `avproxy` connects through proxies | chain of hops | `async_proxy_connect`, tcp, socks5, http | recursion over a chain that is built in one order and walked in the other | connected means every hop was passed |
| `TianyaModel`, `TianyaWindow` | sorted rows | `update_tianya_list`, filter, resize slots | blocking calls between threads, shutdown | rows sorted, no thread lost, each call answered |
| `main`, `AsioQApplication` | io thread, work guard | quit, join | windows die before the io thread | the process ends |
| `async_coro_queue` (avboost) between coroutines | values, sleeping poppers and waiters | `async_pop`, `async_wait`, `push`, `cancele`, `clear` | handlers ask again from inside their own call | no value lost, no sleeper beside a value, nobody called twice |
| `interthread_stream` (avboost) between threads | buffer, sleeping reader and writer, flags of closing | four reads and writes, `shutdown` | conditions waited for once, handlers called under the lock, closing at any moment | bytes in order, once; a sleeper has something that wakes it |
| `SmtpClient` (the Qt mail library) | connection, state, marks of the mail in hand | connect, log in, send, reset, quit, five blocking waits, slots of the socket | 40 states, answers in pieces, marks that outlive an operation | sent means stored; client and server in step; each operation signalled |
| `boost/hash` | block, count of bits seen, state of a hash or a cypher | update, end of message, encypher and decypher | optimised and plain code side by side, packing over any widths | the same digest whatever way it was made |
| `base64`, `urlencode`, `wcwidth` | an iterator's place | encode, decode, width | edges: incomplete groups, escapes, ends of tables | a text comes back |
| `internet_mail_format`, the Qt MIME writer | none that lasts | headers, lines and parts of a mail, written and read | lines broken at a limit, inside escapes and headers | a mail is read as it was written |

Not listed above: `timedcall`, `avloop`, `async_foreach`, `acceptor_server`,
`splice_stream` and the adapters of handlers, the JSON and other text helpers,
and a dialog (section 5). `PROJECT.json` lists every component, modelled or
not, with the reason, and the hazards, each at the line where it bites.

## 2. The modules

| module | models | uses |
|---|---|---|
| `PostStream` | abstract: what a downloader promises its listener, items in order, once, one end | |
| `TianyaContext` | `tianya_context.hpp`: start, stop, filter, handlers, coroutine, line parser | refines `PostStream` |
| `TianyaList` | `tianya_list.hpp`, `tianya_list.cpp`: the crawler of the index | refines `PostStream` |
| `TianyaDownload` | `tianya_download.cpp`, `novelviewer.cpp`, `sendprogress.cpp` | a context as `PostStream` |
| `MailDelivery` | abstract: what `async_sendmail` promises its caller | |
| `Smtp` | `smtp.hpp`, `smtp.cpp`: the retrying coroutine, over a server and a connection | refines `MailDelivery` |
| `ProxyChain` | avproxy: the recursion over a chain; the tcp, socks5 and http hops | |
| `TianyaModel` | `tianyamodel.cpp`: insertion into the sorted table | |
| `TianyaWindow` | `tianyawindow.cpp`, `main.cpp`, `asioqapplication`, `syncobj`: blocking calls between the threads, shutdown | the crawler as `PostStream`; extends `TianyaModel`, whose `table` it fills |
| `HandOver` | abstract: what a queue promises, things come out in the order they were put in, none twice | |
| `AsyncCoroQueue` | `async_coro_queue.hpp` | refines `HandOver` |
| `InterthreadStream` | `interthread_stream.hpp`, in both pairings of a thread with an asynchronous end | refines `HandOver` |
| `QtSmtpClient` | `mime/src/smtpclient.cpp` over a server | |
| `HashPack` | `pack.hpp`, `exploder.hpp`, `imploder.hpp`: rows of values of one width become rows of another | |
| `HashStream` | `stream_preprocessor.hpp` and the block hash below it | `HashPack` |
| `BlockCypher` | `block_cyphers/`: SHACAL, SHACAL-1, SHACAL-2, MD4, MD5, Threefish, both ways | |
| `CubeHash` | `cubehash.hpp`, `cubehash_policy.hpp`: three bodies of one transformation | |
| `Adler`, `Digest` | `adler.hpp` with `primes.hpp`; `digest.hpp`, `digest_io.hpp` | |
| `UrlEncode`, `Base64`, `WcWidth` | `urlencode.hpp`, `base64.hpp`, `wcwidth.c` | |
| `MailText` | quoted-printable, headers, lines and parts: `internet_mail_format.hpp` and the writer under `mime/` | |
| `TianyaContextProofs`, `TianyaListProofs`, `TianyaDownloadProofs`, `SmtpProofs`, `TianyaWindowProofs`, `QueuesProofs`, `QtSmtpClientProofs`, `HashProofs` | theorems | the modules they are named for; `HashProofs` is about `CubeHash` and `BlockCypher`, `SmtpProofs` also has those of `ProxyChain`, `TianyaWindowProofs` those of `TianyaModel`, and `QueuesProofs` is about `AsyncCoroQueue` and `InterthreadStream` as `MCQueues` instantiates them |
| `MC...` | the small instances; `MCQueues` and `MCParts` put modules that share nothing side by side, an execution being one of them | |

The composition follows the program: a wrapper uses the object below it through
the abstract specification which that object was shown to implement, and not
through a second model of it. `Smtp` stands below `TianyaDownload` in the same
way, whose `IoMailEnds` calls a mail's handler once, as `MailDelivery` promises.

### How state and actions correspond to the code

**TianyaContext.** The variables that begin with `m_`, and `author` and
`context`, are the members of the class. `ops` holds the asynchronous
operations in flight; each handler takes its operation out and puts the next
one in, so one action is one handler, or one run of the coroutine from one
`yield` to the next. `Start` is the method `start`, called by the GUI thread and
by the coroutine itself for the next page. Each line of HTML is reduced to the
one thing the parser looks for in it (`Kind`); the parser's `switch` is
`OnHeadLine`, `OnFirstPager`, `OnSecondPager`, `OnBodyLine`, `OnOtherLine`,
`OnByline`, one for each state and thing found. `Loop` is the head of the `while`
with its look at `m_abort`. `OnByline` reads `m_filter_reply` twice because the
code does, without a lock; the GUI's store may fall between.
`fetched`, `completes`, `requests`, `late`, `bylines` and `steady` are
history: what the signals and the peer saw. A text is the list of posts whose
lines were gathered into it, so that lines of two posts in one text would show.

**TianyaList.** The same shape. A page is a sequence of typed lines, the parser
counts them (`found`, `skip1`, `skip2`, ...). `m_info` remembers for each field
the row it came from, so that a row built of two rows shows. The set ordered by
clicks and the one ordered by replies hold the same items: `m_hits` is kept in
the order of insertion.

**TianyaDownload.** `IoFetch`/`IoFinish` are steps of the context, `IoEmit` is
boost's signal looking whether the slot is still connected, `IoSlot` the body of
a slot up to its `post_on_gui_thread`, `GuiEvent` one closure run by Qt's event
loop. Closing is three steps, as in the destructor: the flag, two
`disconnect`s, `stop()`; the io thread may run between any two. `BeginMail` and
`GuiMailRead` are the two ends of the loop in `serialize_to_io_device`, which
walks the posts on the GUI thread while the io thread may append to them.

**Smtp.** `cmd` and `step` are the place in the two coroutines, the session and
the loop over the recipients (`send_rcpt_tos_op`); `step` tells apart
the write, the read and the check of the answer. A copy of the object goes on in
each handler, but the sockets and buffers are shared pointers: `m_readbuf`,
`m_writebuf` and `m_sslsocket` pass from an attempt to the next one. `leftover`
is what broken writes left in `m_writebuf`, as a row of commands: `WriteFails`
puts its command there, the next EHLO goes behind it, and `OldWritten` sends
what stands in front, one command at a time, on the plain connection. The
recipients have a buffer of their own, which is lost with them. The server is
modelled from what the client relies on and may refuse anything; an answer has
one line or two, arrives cut at any line, and may lag behind the commands of the
recipients, whose operation looks at the first line only. `bare` is history: in
which of the ways there are a login has crossed the wire unencrypted.

**ProxyChain.** `m_chain` is `add()`'s order reversed, because `add` inserts at
the front; `level` is how deep `clone_poped` went. `CallHandler` is the call of
`m_handler`, which resumes the operation one level up through
`proxy_error_mapper`. The http hop does not wait for its answer: it goes on with
a status nobody has set (`HttpHandshake`), and the proxy's answer, with which the
hop becomes a part of `path` or does not, comes when the caller has been told
(`HttpReadEnds`, `HttpReadFails`), who then is told again.

**TianyaModel.** `IsInsertPoint` is the `find_if`, `IsDuplicate` the two searches.

**TianyaWindow.** `slot` is the place in the slot on the io thread: count the
rows, call the table and wait, call the status bar and wait, post the closure
for the columns. `gui` counts the steps of the shutdown: `quit`, the slots of
`aboutToQuit`, the members of the window, its children, the join. When the
crawler or the slot touches a member that is gone the io thread's state is
`undefined` and nothing more is claimed of it.

**AsyncCoroQueue.** `m_handlers` is the queue of sleeping poppers,
`m_wait_handlers` of those who wait for data, `m_list` of values; `io_service`
the row of posted handlers, each with what it is told. `Run` calls the oldest:
a looper pops again from inside its call, as the example in the header does.
`async_pop` with a timeout is not there: its wrapper cannot be instantiated.

**InterthreadStream.** `m_current_read_handler` and `m_current_write_handler`
say who sleeps. A handler called under the lock is a part of the action; the
handler that wakes a thread runs later (`WakeReader`, `RunCond`), then the
thread goes on (`ReaderReturns`). Both threads wait for their condition once and
not in a loop, and a condition may be left without having been notified:
`ReturnsEarly` gives the caller of `read_some` what an uninitialised number of
bytes happens to be and leaves its handler behind, in the stream or on its way,
with pointers into a frame that is gone; from then on what a read finds in its
variables is anything (`early` counts these). `WriterReturnsEarly` is the same for
`write_some`. `m_state_read_closed` and
`m_state_write_closed` are not initialised by the constructor and start as
anything. `NextOther` is the pairing of a writing thread and an asynchronous reader.

**QtSmtpClient.** `state` has the code's names. `processResponse` checks the
code of the line in hand and goes through `changeState`, whose recursion from
state to state is one action up to the state that waits (`Enter`, `Continue`,
`NextRecipient`). `out` holds the commands on the wire, `in` the lines of
answers; `socketReadyRead` takes any number of the lines there are and looks at
the last one only, as the code does. `mailReset` is signalled before the state
is set: between the two, while `resetting` holds, the slots of the signal may call
any operation, and `ReadyAfterReset` then overwrites the state it has left
(`overtaken` remembers that the last operation was such a call). `quit()` may be
called in every state, without a connection too. Slots that wait, or that are
connected to `stateChanged`, are not modelled. `srv`, `envelope` and `stored` are
an external server that may refuse anything.

**HashPack, HashStream.** A value is the set of the positions of its ones, so
that a shift is a shift of positions and the packing of any width into any
other can be compared with one definition of the stream of bits (`Stream`).
The compressor is left open: the state of a hash is the row of blocks it was
given, and two messages have one digest only if they made the same blocks.

**BlockCypher, CubeHash.** Rounds, rotations, orders and index tables are the
code's; the operations on words and the constants are CONSTANTS. A step is a
round. In `CubeHash` a step of the transformation may be done by any of the
three bodies, beside the reference.

**Adler, Digest, UrlEncode, Base64, MailText, WcWidth** are operators; `MCParts` grows
an input value by value and looks at the operators at each length. In
`MailText` the 76 and 78 characters of a line are a parameter.

Operators whose comment begins with "Faulty variant of" model no code: each is
the definition it names with one mistake in it, and exists to show that a
property notices the mistake.

## 3. What is checked

`tlc -config <cfg> <module>`; all runs together take about four minutes. States
are distinct states.

| run | module, configuration | states | shows |
|---|---|---|---|
| `context` | `MCTianyaContext`, `Context.cfg` | 4 561 | one operation at a time, one end signal, little after `stop()`, exact filter, refinement of `PostStream`, termination |
| `list` | `MCTianyaList`, `List.cfg` | 323 | rows whole, in order, once; the crawler stops and ends |
| `download` | `TianyaDownload`, `Download.cfg` | 681 696 | what is shown, saved and mailed is what was fetched; a closed window stays silent |
| `download_cut` | `TianyaDownload`, `DownloadCut.cfg` | violated | a novel is mailed before all of it has arrived |
| `smtp` | `Smtp`, `Smtp.cfg` | 112 639 | answers are matched to their commands, TLS, duplicates, refinement of `MailDelivery`, every mail reported |
| `smtp_login` | `Smtp`, `SmtpLogin.cfg` | violated | a login left in the buffer goes out with the next EHLO, before TLS |
| `proxy_auto` | `MCProxyChain`, `ProxyAuto.cfg` | violated | `autoproxychain` adds its hops in the other order |
| `table_repeats` | `TianyaModel`, `TableRepeats.cfg` | violated | a thread may be in the table twice |
| `queues` | `MCQueues`, `Queues.cfg` | 443 928 | both queues of avboost: order, nobody forgotten, everything consumed |
| `queues_pipe` | `MCQueues`, `QueuesPipe.cfg` | violated | a read that wakes by itself returns bytes nobody wrote |
| `qtmail` | `MCQtSmtpClient`, `QtMail.cfg` | 84 235 | sent means stored, nothing in the clear, client and server in step, each operation signalled |
| `parts` | `MCParts`, `Parts.cfg` | 48 122 | one part at a time: the window keeps step with its crawler, blocking calls return, the program exits; the table is sorted, stable and complete; a chain in the order the code wants goes through its hops; cyphers go back, hashes take the message whole, builds agree, texts and mails are read |

`CHECK_DEADLOCK FALSE` is in every configuration because every system here does
stop: a download ends, a mail is reported, the program exits, and the histories
that are bounded run full. That nothing stops too early is what the liveness
properties say.

### Bounds, and why they are enough

* `context`: two pages show a page followed and a last page, both pagers, state
  carried from page to page and state that is reset. The eight posts hold a
  quotation of someone before and after that one has posted, across the page
  break, quotations behind dashes, a byline without an author and one without a
  time. `MaxToggles = 2` lets the filter go on and off again inside one post. A
  third page repeats the second; the theorems of section 6 hold for any `Site`.
* `list`: each way a row can go wrong for a parser that counts lines (no link;
  a title on no, one and two lines) with a good row after it, and an empty page.
* `download`: three posts, so that one is shown, one is queued and one is being
  fetched; one save and one mail, since neither interacts with another of its
  kind other than by the order of queues that posts use already. Both kinds of
  client are initial states of the one run.
* `smtp`: `RetryLimit = 1` makes three attempts (20 in the code make 22): an
  attempt that leaves something behind, one that meets it, one that meets what
  that one left. Two recipients: one accepted and one refused, in both orders.
  Answers of two lines stand for longer ones: a line after the first that the
  client may or may not have looked at. What is left of a mail's text counts as
  one command, and a refusal has one code, 550, that nobody waits for.
* `parts`, the chain: three proxies, the last perhaps http: a hop with a hop on
  either side. `MaxReentries` caps how often the stray read of the http hop comes back.
* `parts`, the table: four rows over three threads and three click counts: two rows
  equal, one above and one below, and a repetition of any.
* `queues`: one of each kind of handler and two waiters, so that a waiter is
  answered while another sleeps; four values, more than there are sleepers. Five
  bytes against a threshold of two (512 in the code) and pieces of up to two:
  a writer that sleeps, is woken and sleeps again, reads that take a part. One
  read that returns early is enough to break what depends on the waits, and what
  does not depend on them must hold after it; the threads of the other pairing
  may wake by themselves as often as they like.
* `qtmail`: two mails, so that the marks of one are there when the next is sent;
  three recipients (all kinds of transition between lists) and one; a password
  in one command or in two; every kind of connection. At most two mails.
* `parts`, the algorithms: words of three and four bits make a carry, a rotation and a
  borrow visible, and the numbers of rounds are the real ones; CubeHash has two
  rounds, since the bodies agree round by round and the theorem has any number.
  Messages of up to five values in blocks of two to eight; every endian. Inputs
  of Adler go past the longest run of its smaller widths. Base64 to five octets:
  every length modulo three and a whole group before it. Strings of width: one
  character of each kind, and the tables at both ends of every interval. Mails:
  lines of four to eight characters and headers of six to ten, so that four
  octets break in every place an escape, an address or a key has.
* `parts`, the window: four rows, one that comes again above and one at the end; one viewer
  besides the main window, so that either may be closed last.

### Fairness, and what justifies it

* `TianyaContext`, `TianyaList`: `OsSpec` is what the operating system owes: a
  resolve, a connect and a write end in one way or the other, and a read on a
  closed socket fails. A peer owes nothing. That it answers (`PeerEnds`,
  `ForumEnds`) is a hypothesis inside `DownloadEnds` and `CrawlEnds`, because no
  read in the code has a timeout.
* `TianyaDownload`: Qt's and asio's loops go on with what is queued; a destructor
  that was begun is finished; a `deleteLater` that is due happens; a mail's
  handler is called (which `Smtp`'s `Reported` shows). Nothing is assumed of the
  forum, of the start, or of the user.
* `Smtp`: a timer expires, and each write or read ends, if by the connection
  breaking. There is no timeout in `smtp.hpp`: with a server that goes silent on
  a connection that stays up, a mail is never reported.
* `ProxyChain`: each operation ends.
* `AsyncCoroQueue`: the `io_service` calls what is posted. `InterthreadStream`:
  the same, a woken thread runs, and the reader goes on reading (`Flows` is
  about a reader that does). `QtSmtpClient`: Qt's event loop runs, the slots of
  `mailReset` return, the server answers, a connection that one side has closed ends; the refusal of a command
  is an answer, and a server that goes silent is what the timeout of the wait
  functions is for, which is left out.
* `TianyaWindow`: both threads go on with what they have begun. The crawler's own
  steps are not fair: it may never finish, and `ExitsFromRest` therefore speaks
  of a crawler that is at rest.

### The properties

*Context.* `ContextInv` has six parts. `SingleFlight`: `start` calls itself from
inside the coroutine it replaces; were both to live on they would share socket,
buffers and parser. `CompleteOnce`: the end is announced once, with nothing left
that could emit a post. `IndexInStep`, `RequestsInOrder`: the progress stays
below one, the pages are asked for in order and once. `LateWork`: after
`stop()` at most one more thing happens, either the post in hand or, since
`stop()` does not cancel the resolver, a new connection and a request on it.
`FilterExact`: with the filter on and untouched, the posts kept are those of a
definition over the whole thread, though the parser learns names as it goes;
and whatever is clicked and when, the posts kept are posts emitted, in the order
of the thread and none twice, and those that quote nobody are among them.
`StreamSpec`: the emissions refine `PostStream`. `StopSettles`, `DownloadEnds`:
liveness, as above; the exception in `StopSettles` is the read on the connection
opened after `stop()`, which nothing would close.

*List.* `StreamSpec` here says that the crawler, which is kept in step by
counting lines, emits whole rows only. `ListInv`, `StopSettles` and
`CrawlEnds` are as above.

*Download.* `WindowInv` (`ShownInOrder`, `SaveCoversShown`, `MailWhole`,
`ProgressMailsOnce`) relates what one thread did to what the other has fetched
at that time. `ProgressMailsOnce` says that the mail is begun once and after the
end was announced, which is all the code sees to: the end of a download that
broke off is announced as well, and that what is mailed be the whole thread is
`ProgressMailsWhole`, which `download_cut` finds violated. `GoneIsSilent` is an action property: once the flag is set no
closure touches the window. `ProgressCloses`: a `SendProgress` goes away by itself.

*Smtp.* `SessionInv`: `InTurn`, despite leftovers in shared buffers, cut and late
answers and an error that `check_server_cap` drops, the server never gets a
command of the mail out of turn once the login is past; `AuthUnderTls` says how far the promise of
TLS goes for the login written in its turn: it goes out plain to a server with TLS
only if the answer to EHLO was read in pieces, or behind the answer to left over
bytes. `LoginEncrypted` asks the same of every byte of a login, the one left over
from a broken write included; `smtp_login` finds it violated.
`DuplicatesNeedLoss` bounds the deliveries by the lost answers. `Reported`: each
mail is reported, as failed only after `RetryLimit + 2` attempts.

*Proxy.* `AllHops`, `ChainInv` (`HandlerOnce`, `RefusalIsMapped`), `EachAnswered`
hold for chains added from the last hop to the first. A chain that ends in an http
proxy is excepted where the code is at fault: `AllHops` then asks for every hop
before that proxy, whose own consent nobody waits for, and `HandlerOnce` for
nothing, since the late answer calls the handler again.

*Table and window.* `Ordered` (`Sorted`, `Stable`), `NothingLost`; `InStep` says that the
count read on the wrong thread is never read during a change, and that the
status bar is one row behind at most; `CallsReturn` that the blocking calls never
meet the join in a deadlock; `ExitsFromRest` that the work guard, made on one
thread and reset by way of the other, is always released.

*Queues.* `QueueInv`: who has asked is in exactly one place, asleep or answered,
and nobody sleeps beside a value; the two assertions of `push` are a part of it.
`QueueSpec`, `PipeSpec`: values and bytes leave in the order they came, none
twice, and only `clear` and a closing throw any away; the end of a stream comes
after the last byte. `StreamInv`: who sleeps in the stream has exactly one thing
that will wake it; and the other pairing is a pipe as long as no write has found
the reader asleep, even if the writing thread wakes by itself, which is how far it
works. What they say of the reader, and `PipeSpec`, reach up to the first read
that returns before it was notified; what they say of the writer does not depend
on it. `Consumed`, `Flows`: while
somebody pops, or reads, nothing stays behind and no writer sleeps for ever.
`UsedLikeAPipe` asks for all of it without the exceptions, and for a writer that
is released when the reader closes, as the comment on the class does; `queues_pipe`
finds it violated.

*Qt mail.* `SentMeansStored`: the marks of one mail never pass for the next; a
mail told as sent has been taken in for every recipient. `NothingExposed`: with
STARTTLS neither a password nor a mail goes out in the clear. `InStep`: exactly
one answer is outstanding while the state expects one. `EverySignalled`: each
operation on a connection ends with a signal and each wait returns, without the
timeout. The last two leave out the one operation that a slot of `mailReset` has
called, whose state the code overwrites: its answer is not looked at, and the next
operation finds client and server in step again.

*Algorithms.* `HashesTheMessage` compares the stream with the padding of Merkle
and Damgard over bits, in whatever pieces, by whatever way of `update`, whatever
was hashed before. `Retraces` follows `decypher` back over every block
`encypher` went through, with the tables the code writes down a second time.
`BodiesAgree`: a digest does not depend on the build. `AdlerExact`: sums that
are reduced late never overflow. `CodecsExact`: a URL and a digest come back, a
text of base64 holds what was encoded and is decoded if it needs no padding, a
mail is read as it was written but for the headers and names of section 4, digests
of any lengths are in one order. `WidthsAdd`: the tables are searched in full, a
character is as wide as the comment before `mk_wcwidth` says, and a string as wide
as its characters together.

Each property has a mutant in `PROJECT.json`: a plausible mistake in one
definition under which the run finds the property violated.

## 4. Where code and comments disagree

* **A proxy chain in the wrong order** (`proxy_auto`). `autoproxychain` adds
  the tcp hop first; `add` inserts at the front and the operation starts at the
  back, so that socks5 is never spoken to the proxy and the connection is
  reported as made.
* **A repetition** (`table_repeats`). `tianyamodel.cpp:17` says repetitions are
  avoided; a row that goes to the end of the table is compared with the last row alone.
* **The end signal does not mean the end** (`download_cut`).
  `tianya_context.hpp:414` says `m_download_complete` is emitted when the download is
  completely finished, and line 82 emits it after a failed write or read and after
  `stop()` too (`Fails`, `Loop` of `TianyaContext`; the `ended` of `PostStream` is
  either). `SendProgress` then mails the part that arrived.
* **A login outside TLS** (`smtp_login`). `smtp.hpp:292` says that TLS is turned on
  if the server supports it, and the login comes after it. When the write of AUTH
  under TLS fails, the login stays in `m_writebuf`, and the retry writes it in
  front of its EHLO, on the plain socket (285-286).
* **A stream that is not quite a pipe** (`queues_pipe`). `interthread_stream.hpp:12`
  says it is used like one. `read_some` waits for its condition once, without a loop
  (231), and if the wait returns by itself it returns a number of bytes that nobody
  has set and leaves its handler behind; that is the shortest way to the violation.
  Two more are in the model: `write_some` (197) keeps the read handler it has called,
  so that the next write copies into a read that is over, and `shutdown` of the
  reader wakes a sleeping writer only when the buffer is at most 512 bytes full (257).

Met while modelling, visible in the modules, without a run of their own:

* failure is told as success: the handler in `tianya_download.cpp:147` drops
  the error code (`SmtpHandler`), so that the windows say "finished sending"
  (`novelviewer.cpp:222`, `sendprogress.cpp:60`) of a mail `mx::smtp` gave up on;
* the read at `proxy_http.hpp:125` is started without a `yield`: the status is
  parsed from an empty buffer into a variable nobody has set, so that a success may
  be told before the proxy has answered, or although it refuses
  (`HttpHandshake`), and the read that is left calls the handler again
  (`HttpReadEnds`). Line 127 says the answer is checked for 200;
* two mails of one viewer at a time mark both progress dialogs when the first ends
  (`novelviewer.cpp:219`);
* the buffers of `proxy_socks5.hpp:70` and `proxy_http.hpp:120` are temporaries
  that die before a write that does not go through at once;
* `async_coro_queue.hpp:350` says that `cancele` cancels all operations; those
  who wait for data are answered only if somebody waits to pop (line 355), and
  sleep on otherwise;
* the flags of closing of `interthread_stream` are read before anyone sets them;
* Qt's client: `isReset` is never set, so that `waitForReset` (169) never says
  yes; `quit()` without a connection (159) stays in its state with no signal, and no
  connection can be made any more; `mailReset` is emitted before the state is ready
  again (460), so that what a slot of it asks for is lost (`ReadyAfterReset`); 251, "will forward", is taken for a
  refusal (547); of several lines that arrive together only the last is looked
  at (651); an error before a wait has begun is not seen by it; lines of a mail
  that begin with a dot are sent as they are (422);
* `base64_decode` of a padded text keeps the last octet and drops those in front
  of it (`base64_decode` in `Base64`), and reads before the start of an empty one.
  So no text whose length is no multiple of three comes back, and `CodecsExact` asks
  for the others only; the program decodes nothing;
* the mail the program sends cannot be written: `MimeAttachment` of a
  `QByteArray` leaves `MimeFile::file` null (`mimefile.cpp:42`), and
  `MimeFile::writeContent` (63) opens `*file` all the same, inside the
  `custom_data` of `tianya_download.cpp:143`. `TianyaDownload` and `Smtp` go on
  as if the text had been written, which is how a repaired writer behaves;
* `MimeQPFormatter` does not count the "=" it moves to the next line, which may
  become 77 characters long (`QuotedHolds`); `MimeMessage::format` leaves a "_"
  as it is, which a reader takes for a blank (`NameHolds`);
* a header folded directly behind its key is not read back, since the blank
  behind the colon is trimmed off; only the first header of a mail keeps it,
  for that line is not trimmed (`imf_read_stream` in `MailText`), and
  `HeadersHold` says nothing of the others. Folded lines are joined without
  a blank. `imf_base64inline_decode` looks for one character between "=?" and
  "?=", so that no encoded word is ever decoded. `imf_decode_multipart` wants the
  boundary in quotation marks, which `MimePart` does not write;
* `url_encode_iterator`'s difference takes no notice of the place inside an
  escape, and the iterator at the end looks at the character there;
* the comment on Adler's limit says 16 for a word of 16 bits, the code has 15;
* `avboost/example/multi_proxychain.cpp:32` builds its chain in the same order as
  `autoproxychain`, from the first proxy to the last;
* `queryfromstr` in `auto_proxychain.hpp:22` and `:33` tests for a port the wrong
  way round, and without one `find() + 1` wraps to 0;
* the status bar counts the rows before the update it reports;
* an EHLO answer cut in two hides STARTTLS from `check_server_cap`, and the login
  goes out unencrypted. The comment promises TLS "if the server supports it";
  `AuthUnderTls` states the condition under which that is true;
* `stop()` leaves the resolver running, which opens a new socket afterwards.

## 5. What is not modelled, and why

* Inside a library call. `stop()` closes a socket on one thread that asio may be
  using on the other; the model orders the two either way, and leaves the
  undefined behaviour of the call itself aside. The walk over the posts in
  `serialize_to_io_device` while the io thread appends is modelled by how far it
  gets, not by what a half-linked node may look like.
* Memory that was freed. A slot may run on a destroyed `tianya_download`
  (`IoSlot` after `GuiStop`), and the crawler on a destroyed window
  (`IoUndefined`). The steps are there and no value is claimed after them.
* Mails in flight at exit. `io_service::run()` returns when the last retry of the
  last mail is over, more than 45 minutes in the worst case; `TianyaWindow` has
  the crawler as its only work.
* Text: HTML is reduced to the marks a parser looks for. The JSON reader is a
  grammar of boost::spirit, `stringencodings.hpp` calls iconv. Of a mail, the
  fixed order of its headers, the names in front of addresses and the body,
  which is base64 or left as it is.
* Layout: columns, filter line, scroll bars, dialogs, settings.
* `timedcall`, `avloop`, `async_foreach`, `async_dir_walk`, `acceptor_server`,
  `multihandler`, `splice_stream`: adapters of one call of asio each, which the
  program does not use, but for the timer, the wait between two attempts in `Smtp`.
* Of the hash library: initial values and tables of constants (a wrong digit
  changes no property but the digest), SHACAL-2 of 512 bits and the two larger
  Threefish, which repeat the smaller ones with other tables, lengths of more
  than 64 bits, and `crc.hpp`, which calls `boost::crc`.
* An http hop below another hop; `proxy_ssl.hpp`, a stub.
* A crawler's window as an observer of mails and of `SendProgress`: the windows
  of a download are `TianyaDownload`, and `TianyaWindow` counts them as open.

## 6. What is proved

`tlapm <module>` on each of the eight modules checks the proofs; nothing is left
without one.

| theorem | statement | in |
|---|---|---|
| `TypeCorrect` | `Spec => []TypeOK` | `TianyaContextProofs` |
| `FlightSafe` | `Spec => []SingleFlight` | |
| `CompleteSafe` | `Spec => []CompleteOnce` | |
| `IndexSafe` | `Spec => []IndexInStep` | |
| `RequestSafe` | `Spec => []RequestsInOrder` | |
| `StopBound` | `Spec => []LateWork` | |
| `ContextSafe` | `Spec => []ContextInv`, all of these | |
| `FilterSafe` | `Spec => []FilterExact` | |
| `StreamsPosts` | `Spec => StreamSpec`: the downloader implements `PostStream` | |
| `ParserInStep` | `Spec => []IInv`, where the parser stands in the row it reads | `TianyaListProofs` |
| `ListSafe` | `Spec => []ListInv` | |
| `StreamOfRows` | `Spec => StreamSpec`: the crawler implements `PostStream` | |
| `WindowSafe` | `Spec => []WindowInv` | `TianyaDownloadProofs` |
| `GoneSafe` | `Spec => GoneIsSilent` | |
| `SessionSafe` | `Spec => []SessionInv`, the login in its turn; of a login left over `LoginEncrypted` speaks | `SmtpProofs` |
| `DuplicatesSafe` | `Spec => []DuplicatesNeedLoss` | |
| `AttemptsSafe` | `Spec => []AttemptsBound` | |
| `Delivers` | `Spec => DeliverySpec`: `mx::smtp` implements `MailDelivery` | |
| `ChainTypeCorrect` | `ChainSpec => []ChainTypeOK` | |
| `CalledOnce` | `ChainSpec => []HandlerOnce` | |
| `ChainSafe` | `ChainSpec => []ChainInv`, for chains that lead outward | |
| `HopsSafe` | `ChainSpec => []AllHops`, for chains that lead outward; an http proxy at the end is excepted | |
| `TableTypeCorrect` | `TableSpec => []TableTypeOK` | `TianyaWindowProofs` |
| `TableCorrect` | `TableSpec => []Ordered` | |
| `TableComplete` | `TableSpec => []NothingLost` | |
| `WindowSafe` | `Spec => []InStep` | |
| `NobodyWaitsForTheDead` | `Spec => []WaitsForTheLiving` | |
| `UsesTable` | `Spec => TableSpec`: the window's table is one that `TianyaModel` allows | |
| `WindowTableCorrect` | `Spec => [](Ordered /\ NothingLost)` | |
| `NobodyForgotten` | `Spec => []QueueInv` | `QueuesProofs` |
| `HandsOver` | `Spec => QueueSpec`: the queue implements `HandOver` | |
| `SleepersWake` | `QueuesSpec => []StreamInv` | |
| `Conveyed` | `QueuesSpec => PipeSpec`: the stream implements `HandOver`, up to the first read that returns early | |
| `SentSafe` | `Spec => []SentMeansStored` | `QtSmtpClientProofs` |
| `ExposesNothing` | `Spec => []NothingExposed` | |
| `StaysInStep` | `Spec => []InStep`, but for what a slot of `mailReset` has called | |
| `DigestOfAnyBuild` | `CubeSpec => []BodiesAgree` | `HashProofs` |
| `CyphersGoBack` | `CypherSpec => []Retraces` | |

They hold for every value of the constants that satisfies the assumptions:
`ConstAssumption` (the thread is a non-empty sequence of pages, each a sequence
of posts; the author of the thread is one of the authors; "no author" and the
dashes are not), `ListAssumption` (the index is a non-empty sequence of pages,
each a sequence of rows), `HitsAssumption` (clicks are integers, the number of
updates is a natural number), `MailsAssumption` (the recipients of a mail are a
sequence of addresses, empty or not), the assumptions of `TianyaDownload` and
`TianyaWindow` on their numbers of posts, rows and windows, of
`Smtp` on its recipients, its limit of retries and its server, of `ProxyChain`
on its chains (a tcp hop in each, and before any http hop but the first), of
`AsyncCoroQueue` on its handlers, `StreamAssumption` (the threshold of the stream, the
number of bytes, the size of a call and how many reads may return early are natural
numbers, any of them zero),
`CubeWordAssumption` (words are closed under
the machine's operations and addition commutes), `CubeInputAssumption`,
`WordAssumption` (words are the numbers below some modulus, closed under the machine's
operations; exclusive or undoes itself and a rotation to the right one to the
left) and `InputAssumption`, that keys, blocks, tweaks and constants are words.

`ChainSafe` and `HopsSafe` have one more hypothesis, `OutwardOnly`: the tcp hop is the
last that was `add`ed. The code does not ask for it and `autoproxychain` does
not do it, which is the finding of the run `proxy_auto`; the theorems say what
holds of a chain whose builder knows the order. `CalledOnce` holds of any chain
without an http hop.

**TianyaContext.** The invariant `IInv` is a conjunction of six parts, proved
together by one case for each action (`StartStep` for the handlers up to the
header, `LineStep` for the lines of the parser, `PagerStep` for the restart,
`GuiStep` for the other thread).

* `TypeOK` needs the two lemmas on the page as a sequence of lines: a pager line
  stands only on a page with a successor (`NextHasPage`), so that `start` is
  given a page that exists, and a byline belongs to a post (`BylineHasPost`).
* `FlightInv` adds to `SingleFlight` that nothing is in flight before the first
  `start`; without it `GuiStart` would add an operation to another one.
* `CompleteInv` adds that an announced end leaves nothing in flight *and* that
  the object has been started; otherwise a second `start` could follow the end.
  With both, the step that counts to one takes the last operation out.
* `IndexInv`: `m_page_index` is one behind `m_post_url`. With `TypeOK`, this
  bounds the progress below 100%.
* `RequestInv`: `RequestsInOrder` alone is not inductive, since it does not know
  which page the write in flight is for. The part added says that the page in
  hand is requested exactly when its answer is being read.
* `LateInv`: `late <= 1` is not inductive. The part added says that the one late
  thing leaves nothing to do but to wait for one header, so that neither a
  byline nor a second write is due.

`FilterExact` and the refinement need to know where in the forum the parser is,
which is the second invariant, `Whole`. It adds three parts:

* `PlaceInv`: while a page is read, the parser's state, the text gathered and
  the pager already seen are functions of the line (`ParserInv`), and the number of
  bylines read is the number of posts on the pages before (`Offset`) and of
  those before the line (`Done`); between two pages the parser is at rest.
* `TextInv`: what was emitted are the texts of the host's posts among those
  read, and, with the filter on and untouched, the names known are the names seen
  in them and the texts kept those of `Kept`.
* `SomeKept`: `FilterExact`'s statements for any clicks, and that what was kept
  lies before the place of the parser, without which the order would not last.

The definitions over the whole forum are sequences made of sequences of any
length, so that their proofs are by induction. `LeastOf` (a set of numbers has a
least one, from the well-foundedness of finite sets) gives `Induction`, stated
with sets instead of predicates, and `Recursion`, that a function defined step by
step exists. From them: `AllPostsAre` and `PostHasNumber` (the `FlattenSeq` of the pages
has page `p`'s post `i` at `Offset(p) + i`), `TextsAre`, `TextsGrow`, `NextText` (the next
chosen post is the next of all texts). `StepStream` then maps each step to one of
`PostStream`: a byline of the host is a `Deliver`, an end with or without a signal is
a `Finish`, everything else a stutter.

**TianyaList.** `IInv` is `TypeOK`, `SingleFlight` and `PlaceInv`. The parser has eleven
states and a page is read in one run, so that nothing short of following
it line by line tells that the fields of a row are that row's: `ParserAt` gives
its state and the fields filled in before line `k` of a row, `InRow` adds that
`m_hits` holds the rows before it. A row without a link leaves the parser at
rest to its last line, one with a link has its title in as many lines as it
takes, and the proof has one lemma for each kind of line (`HeadLineOk`, `TargetOk`,
`NameOk`, `FieldOk`, `TimeAdds`, `PagerOk`). That the pager stands only behind the rows
of a page with a successor is a fact about `Lines`. `Before` and `First` number
the rows and their lines over the whole index; as in `TianyaContextProofs`
they are sums over sequences of any length, and a joined sequence is shown
equal to `FlattenSeq` of its parts by `Induction`. The rows to be emitted before each place are
`Emitted`, a function over the numbers of rows. `StreamOfRows` then follows as for
the downloader: the line of the time is a `Deliver`, the last end a `Finish`, all
else a stutter.

**TianyaDownload.** The three queues between the threads are one: `Pipe` is the
queue of the GUI followed by the slot and by the signal under way. While the window
lives, everything fetched and not shown yet is in it, in order, and behind the
end of the download there are only answers to mails (`InOrder`). Each step of
either thread moves one item on, takes one out or adds one. `SaveInv` and `MailInv` say
of each file and mail on record what the other thread had then. The
destructor's three steps need `AliveInv` only: after the flag nothing is claimed of
the queue. `GoneIsSilent` is about single steps and follows from it.

**Smtp.** The server answers to what it was sent, the client looks at what it
asked for, and in between are two buffers that outlive the attempt. What keeps the
two in step is a promise about the lines, read or due (`ReadInv`): what the client
waits for is told by a line of the right code only if the server has done what it was
asked for (`Awaits`). Lines of an EHLO's answer and of what was left in
`m_writebuf` may stand before it (`Early`), whose codes are none that the login or
what follows waits for (`EarlyCodes`, `LoginCodes`). That needs to know what can
be left: `LeftoverShape` says that it is EHLOs behind one other command at most, since
what is left goes out before the next EHLO or stays with that EHLO behind it;
`LeftoverInv` that in a session it is empty once EHLO is written. The recipients'
operation looks at the first line of an answer only, so that the answers may lag
behind the recipients (`RcptInv`): a line with 250 is then still for a recipient that
the server has accepted. `OldWritten` has a lemma of its own (`OldWrittenKeeps`):
before an EHLO the server refuses whatever else comes, with 550. `RetryInv` and
`LossInv` count attempts and lost answers.

**ProxyChain.** `BaseInv`: the way down ends at the first tcp hop and each hop
adds itself to the path once. `OutwardInv`: when the chain leads outward, `path` is
the part of the chain below the level in hand, from the tcp hop on, at each of
the stages. `AllHops` is that statement at the top level.

**TianyaModel.** `TableInv` is `TypeOK /\ Sorted /\ Origin /\ Stable`; `Origin`
(each row of the table has arrived) is needed because a new row arrives after
every row of the table only if those have arrived at all, which is what
`Stable` asks (the theorems are in `TianyaWindowProofs`). `InsertAtProperties` states what the community module's `InsertAt`
does to each index, and `InsertKeepsTable` splits on whether each of two rows
lies in front of the new one, is it, or lies behind it. `NothingLost` is proved
from the same invariant and `DuplicateIsPresent`: what `IsDuplicate` finds is a
row of that thread.

**TianyaWindow.** `WinInv` ties the io thread's place in the slot to the queue of
the GUI: the call it waits for is the last entry and the only call (`WaitInv`,
`CallInv`), which is why it always has somebody to answer it; the table lacks the
row of that call and no other (`RowInv`); the text of the status bar was made one row
earlier (`CountInv`); nobody is waited for who is gone (`GoneInv`). From the lengths
of the queue (`LengthInv`) follows the bound in `TypeOK`. `UsesTable` is by steps: the only
action that touches the table is the GUI's turn with a row in hand, which is a step
of `TableSpec` because the rows not yet inserted keep the number of calls under
`MaxUpdates`; what is proved of any `TableSpec` then holds in the window.

**AsyncCoroQueue.** `QueueInv` is inductive as it stands: that nobody sleeps
beside a value needs that a waiter is in one place only, and the other way
round. The three rows of names are compared as sequences without repetitions,
and each kind of move between them (append, take the first, answer all) is a
lemma about rows; `push`, which may answer waiters and hand the value on, is the
longest case.

`HandsOver` maps the contents to the values already given to handlers that are
posted (`InFlight`) with `m_list` behind them. `Given` runs over the posted
handlers, so that its existence and its effect at either end of the row are by
`Induction` and `Recursion`, as in `TianyaContextProofs`; that a listed value is never the
mark for none (`ListedValues`) is the second invariant. Then `pop` and
`async_pop_impl` move a value from one part of the contents to the other
(`PopKeeps`), `push` is a `Put` (`PushPuts`), a cancelled waiter adds nothing
(`CanceleKeeps`), `clear` discards (`ClearDiscards`) and a handler called takes the
first value there is (`RunTakes`).

**InterthreadStream.** `Pipes` is the inductive invariant. For a coroutine that
writes and a thread that reads it is `Paired`: who sleeps has either left a
handler or has one call posted, never both (`ReaderWakes`, `WriterWakes`); what
the call lends lies within the reader's memory, who is told the end
has had everything, and what was got, lent and buffered adds up to what was
accepted (`ToldTrue`). The last is what `Wakeable` lacks: without it a wake-up might
hand out bytes that nobody wrote. For the other pairing `Swapped` holds always, and
`Unmet` until a write meets the sleeping reader: the call posted, the
buffer and the bytes got are together what was written. `StepConveys` maps each step
to a `Put`, a `Take` or a stutter. Once a read has returned early only
the writer's half is claimed, which is proved for every step, those of the reader
who finds anything in its variables included. The contents are the part of the reader's
memory that is lent (`Lending`) with `m_buffer` behind it.

**QtSmtpClient.** `IInv` is `Typed`, `PlaceInv`, `ResetInv`, `SecureInv`, `TurnInv`, `ServerInv` and `StoreInv`.
`ResetInv` says in which states the client can be while `mailReset` is signalled.
`TurnInv` is the protocol's turn-taking: a state that awaits an answer has either
one command on the wire (`Asks` says which) and nothing to read, or one whole
answer, of any number of lines, and nothing on the wire; in every other state both
are empty. `ServerInv` says what the good answer stands for, as a promise: once it
is on its way the server has done what the state asked, and before that the envelope is what
`addressIt` says; it has to add that no error was signalled while the client waits
for the TLS handshake, a state that no answer of the server ends. `StoreInv` counts the mails taken in against the calls, from
which at most one copy for each call follows. `SentSafe`, `ExposesNothing` and `StaysInStep` are
read off. The proof has one lemma for each answer's effect, since
`socketReadyRead` takes the client from each of its states to the next.

**CubeHash.** Each half of a round is shown equal, word by word, in the three
forms: the unrolled one since rotating and swapping words commute, the one with
registers since word `4r + l` is lane `l` of register `r` and swapping registers
or shuffling lanes is the flip of one bit of the index. `BodiesAgree` follows by
induction over steps, so that mixtures of the bodies agree as well.

**BlockCypher.** `RoundUndone` is the key: each cypher's backward round takes its
forward round back. What a round adds, mixes or rotates in is a function of words
that it leaves alone (`f`, `md4_fun`, a subkey), so that it comes to two facts:
a word to which a number was added modulo the word's range is had back by
subtracting it (`Undone`, from the uniqueness of remainders, for any modulus), and
the rotations of the two directions are by the same number of places although
their tables are written in opposite orders (`SameTurns`). SHACAL-2 has two sums that share
a term, of which one gives the other; Threefish the exclusive or of `MixUndone`.
`CypherInv` adds to `Retraces` that each block of the trail is a round behind the one
before it; the tweak is a parameter of the round for that statement's sake.

**Only model-checked**: every liveness property (`StopSettles`,
`DownloadEnds`, `CrawlEnds`, `ProgressCloses`, `Reported`, `EachAnswered`,
`CallsReturn`, `ExitsFromRest`, `Consumed`, `Flows`, `EverySignalled`), which the prover
cannot do; what the recursive operators of the algorithms compute, and whatever
uses operations on bits, which it cannot be told (`HashesTheMessage`, `AdlerExact`,
`CodecsExact`, `WidthsAdd`).

## 7. Plan

Written, in this order: `PostStream` and `TianyaContext` (the program's purpose)
with its proofs; `TianyaDownload` (where the threads meet) with its proofs; `Smtp` over
`MailDelivery` (the longest protocol) with its proofs; `ProxyChain` (what `Smtp` connects
through) with its proofs; `TianyaList` with its proofs; `TianyaModel` and `TianyaWindow`
with theirs; the queues of avboost over `HandOver`, with their proofs; the Qt
client with its proofs; the hash library, CubeHash and the cyphers with their proofs,
and the codecs.

Every safety property outside those algorithms is proved. A next step would have to change the
models first: the codecs, Adler and the widths as recursive functions, which would
let lemmas about one step of each be stated, and `HashStream` over a stream of bits
with indexes instead of a fold; what they compute for every input stays an induction
over data. Of the code, the JSON reader's driver and the crawler's slots on a
destroyed window (`PROJECT.json`, the hazard without a property) are left.
