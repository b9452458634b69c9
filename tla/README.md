# Furen in TLA+

Furen is a small C++ framework for network services: framed messages over TCP with
heartbeats, an event bus, a daemon with a pid file, and a log that is written by a
thread of its own. This directory holds TLA+ models of its parts, the TLC
configurations that check them, and TLAPS proofs about them. Paths are relative to
the repository; line numbers refer to its source files.

Contents: [inventory](#inventory), [modules](#modules), [Framing](#framing),
[Session](#session), [Client](#client), [Link and Channel](#link-and-channel),
[Server](#server), [Daemon](#daemon), [Config](#config), [EventBus](#eventbus),
[LogProcessor and LogLine](#logprocessor-and-logline), [runs](#runs), [bounds](#bounds),
[fairness](#fairness), [proofs](#proofs), [what the checks found](#what-the-checks-found),
[what is not modelled](#what-is-not-modelled), [plan](#plan).

## Inventory

| component | state | operations | used by / uses |
|---|---|---|---|
| `Transport::Session` | `messageItemQueue_`, `message_`, `heartbeatTimer_`, the operations outstanding on `socket_`, two callbacks | `start`, `write`, the handlers of header, body, write and timer, `handleError` | made and started by `Server`; calls its two callbacks |
| `Transport::Client` | `messageItemQueue_`, `message_`, `endpointIterator_`, the operations on `socket_` | `start`, `write`, the handlers of connect, header, body and write | used by an application; calls `readCallback_` and the write callbacks |
| `Transport::Message` | a buffer and `bodyLength_` | `setData`, `encodeHeader`, `decodeHeader`, `isHeartbeat` | read into and written from by both ends |
| `Transport::Server`, `SessionManager` | the acceptor, `currentSessionId_`, `sessionMap_` | `accept`, `handleAccept`, the two callbacks it gives a session; `addSession`, `getSession` | turns what a session reports into events for the bus |
| `Processing::EventBus` | `listeners_`, `mutex_`, the lazily made `instance_` | `instance`, `registerListener`, `dispatchEvent` | called by `Server`; calls listeners with the mutex held |
| `Daemon` | the pid file, the process itself, the configuration | `main`, `start`, `stop`, `restart`, `daemonize`, `run`, `loadAndVlidateConfigFile` | runs a `Service`; initialises the log |
| `Log` (`LogProcessor`, `Pipe`, `File`, `MessageProcessor`, `Message`) | a pipe, a reader thread, the current file and its index | `init`, `operator+=`, `readFromPipe`, `File::write`, `rotate`, `getLastFileIndex` | called from every thread through `LOG` |
| `Utilities` (`Error`, `Exception`) | none | none | values |

How they interact: `Server` accepts and starts a `Session` for each connection. A
`Session` and a `Client` are the two ends of a connection; a client writes every
heartbeat back, which restarts the server's timer. All handlers of the two run on the
one thread that calls `io_service::run` (`src/Transport/test/ServerTest.cpp:59`), so a
handler is atomic, and what is hard is the order of handlers, the calls an application
makes from inside callbacks, and operations that were complete before somebody
cancelled them. `Session` reports to `Server`, which dispatches events to listeners on
the same thread. `Daemon` processes share nothing but the pid file. Loggers and the
reader thread share the pipe and `file_`.

What is hard in each, and what would make it correct:

- **Session, Client**: one `async_write` at a time although `write` is re-entrant; the
  queue is never left unwritten; every message is called back once and in order; every
  frame is delivered once; the heartbeat survives every order of expiry and reset; the
  end of the connection is reported, and how often.
- **Daemon**: at most one daemon; the pid file leads to it; `stop` and `restart` do what
  they say; all with processes that crash, pids that are used again and calls that fail.
- **Server**: distinct ids, every accepted session started and registered, events in the
  order of the callbacks.
- **EventBus**: listeners called in the order of registration and exactly once for each
  event; no wait that cannot end.
- **Log**: lines reach the files whole, once, in the order of each thread; files grow to
  the rotation size and no further than one line; a restart goes on where it stopped.
- **Both ends together**: what one application writes is what the other receives, and
  heartbeats come back, whatever else is being written.
- **Message, configuration**: decoding undoes encoding within the limits, whatever the text
  looks like, and no header makes a body longer than its buffer; a configuration that is
  accepted has every field.

PROJECT.json lists the hazards one by one, each at its line and with the properties that
would catch it.

## Modules

| module | models |
|---|---|
| `Frame` | what `decodeHeader` and `isHeartbeat` make of a frame, by kinds of frame |
| `Framing` | `src/Transport/Message.cpp` character by character, and the reading of a stream of frames |
| `WriteQueue` | the write queue that `Session` and `Client` have in the same words, as operators |
| `OrderedWriter` | abstract: what a direction of a connection promises to the caller of `write` |
| `Session` | `src/Transport/Session.cpp`, the whole class |
| `Client` | `src/Transport/Client.cpp`, the whole class |
| `Link` | a `Session` and a `Client` joined by the two directions of a connection |
| `Channel` | abstract: what a connection promises to the applications at its ends, in one direction |
| `Server` | `src/Transport/Server.cpp` and `SessionManager.cpp`, with the two events |
| `Daemon` | `src/Daemon/Daemon.cpp` except the configuration |
| `Config` | `loadAndVlidateConfigFile` of `src/Daemon/Daemon.cpp` |
| `EventBus` | `src/Processing/EventBus.cpp`, the whole class |
| `LogProcessor` | `src/Log/LogProcessor.cpp` with the parts of `Pipe.cpp` and `File.cpp` it uses |
| `LogLine` | `formatMessage` of `src/Log/MessageProcessor.cpp`, and what a frame of the pipe leaves of a line |
| `Journal` | abstract: what the log promises to whoever reads its files |
| `MCFraming`, `MCSession`, `MCClient`, `MCServer`, `MCDaemon`, `MCEventBus`, `MCLogProcessor` | small constants for TLC |
| `WriteQueueProofs`, `SessionProofs`, `ClientProofs`, `ServerProofs`, `EventBusProofs`, `DaemonProofs`, `LogProcessorProofs`, `LinkProofs` | theorems about the module each is named after, `LinkProofs` about `Framing` as well |

`Session` and `Client` extend `Frame` and `WriteQueue` and refine `OrderedWriter`; `Link`
is made of an instance of each and refines `Channel` twice, `Framing` refines it once more.
`LogProcessor` extends
`LogLine` and refines `Journal`. In each module the definitions headed "Faulty variant" are deliberate mistakes: the
property they break is named in PROJECT.json, which shows that the property can fail.
They are used nowhere else.

### Frame and WriteQueue

A frame is one of five kinds, told apart by what its reader does: an application message,
a body that begins with `PING`, a body so short that `strncmp` compares bytes nobody wrote
(both outcomes are possible), a header that does not decode, and a header whose body never
comes. `WriteQueue` has a write side as a record of the queue and of the `async_write`
operations whose handler has not run. `Write` is `Session::write` (76-89), applied to the
calls one callback makes in a row; `Completed` is `handleWrite` without an error (91-102),
where the callback runs before `pop_front`. Messages are numbered by the order of the calls
of `write`.

### Framing

`SetData` is `setData` with the header it encodes and `strncpy`, `DecodeHeader` is `atoi`
with the conversion to `unsigned int` and the comparison with `MAX_BODY_SIZE`; `stream` is
the characters on the way. `ReadMessageHeader` and `ReadMessageBody` are what the read
handlers of both ends do with the message. The other end is either one that uses
`Transport::Message` (`own`, action `Write`) or any program at all (`WriteForeign`), which
decides at `FramingInit`. `Frame` has the kinds of frame that come out of this for `Session`
and `Client`, where a message is a value. `MAX_BODY_SIZE`, `Value` (what `atoi` makes of
digits) and `Numeral` (what `%d` makes of a number) are recursive functions. `StringsArrive`
is the refinement: to two ends that use `Message` the stream is one direction of a `Channel`
whose messages are the texts as `strncpy` leaves them, which is what lets `Link` hand over
messages instead of characters. `LinkProofs` extends `Link` and `Framing` together; the
definitions that would have the same name in both are `FramingInit`, `FramingNext`,
`FramingSpec` and `framingVars` here.

### Session

`readOp` is the read operation on the socket; `timer` counts the waits of
`heartbeatTimer_` that are pending and those that have expired with their handler queued,
as `cancel` only reaches the former; `peer` is the connection as the socket sees it. The
other variables are the class's fields (`messageItemQueue`) and histories: `accepted` and
`called` count and list the calls of `write` and of write callbacks, `rx`, `rcvd` and
`delivered` follow the frames, `tx` what the kernel has taken. `closes` counts the calls
of `closeCallback_`.

Each handler is one action, or one for each of its branches: `HandleReadMessageHeader`,
`HandleReadMessageBody`, `HandleWrite`, `HeartbeatHandle` and `Start`. Callbacks run
inside them and may call `write` (`Replies`); `AppWrite` is a call from another handler of
the same thread. `TimerExpires`, `SendCompletes`, `SendFails` and the `Peer` actions are
the clock, the kernel and the peer. Nothing is assumed about the order of handlers that
are ready, which is more than Asio may do and covers it. A write fails only on a reset
connection; a half-closed one still takes bytes.

### Client

The same write side, echoes instead of a timer, and a connection that is attempted over
several endpoints: `conn` goes through `trying` and `refused` for each of them
(`AttemptFails`, `NextEndpoint`). A write made meanwhile waits on the same socket and fails
with the attempt. Errors of connecting and reading are calls of `readCallback_` (`errors`),
those of writing calls of the write's own callback (`failures`).

### Link and Channel

`S` and `C` are instances of the two modules with variables of their own. A frame that one
end has handed to the kernel (`tx`) becomes the other end's next frame (`rx`) when it
arrives (`ArriveUp`, `ArriveDown`): it is a heartbeat or its echo, or a message of the
application, whose text is taken neither to begin with `PING` nor to be shorter. A session
starts only once the client's attempt has succeeded. Each end sees a loss on its own
(`SessionLoses`, `ClientLoses`), and what was on the way to it does not arrive.
`Channel` has the calls of `write` at one end and the calls of the read callback at the
other: the latter follow the former without gaps. The refinement mapping takes the
application's messages out of the queue and the calls back, and looks up what was received
by its place in `rx`.

### Server

`accepts` holds the `async_accept` operation with the session it was given, and whether its
handler is ready; `sessionMap` and `currentSessionId` are the fields, `working` the
directions of each started session that have not failed yet, `backlog` what the kernel holds.
`HandleAccept` is the whole handler, the next `accept` included. A session calls
`handleConnectionClose` once for each direction that fails, which is what `CloseCount` of
`Session` allows. Nobody takes a session out of the registry, and the callbacks it holds are
bound to itself, so no `Session` that was started ever goes, nor does its socket
(`Alive`, `Connected`): once the descriptors are used up the accept loop only fails.
`currentSessionId_` has 64 bits and is not taken to wrap.

### Daemon

A process is its pid and what it is doing (`pc`): a command at one of its steps, a daemon
between fork and exit, another program, or a process that has been sent `SIGTERM`. A pid is
free again when its process has ended, and anyone may get it. `pidFile` is absent, empty
(created by `fopen`, not yet flushed by `fclose`) or holds a pid; `handles` are the daemons
that have the present file open, as one that was removed meanwhile takes its pid with it.
`trouble` records whether commands overlapped, a call failed, a signal went astray or a
daemon crashed: the properties say from which of these they are free. A signal may also be
refused (`KillFails`): no process has the pid, or the one that has it belongs to another user.
If that is a program of his, nothing has gone wrong; if it is the daemon or another process of
this program, `trouble` records that the signal was denied.

`Check` and `Fork` are apart, as they are in `start` (47 and 59), and so are the steps of
`daemonize` up to the pid file (97-163) and of `stop` (65-86). The two forks are one step,
since nobody can see the process between them. `fs::exists` with the call that follows it is
one step, since that call gives up in the same way when the file has gone.

### Config

One step of `Tests` for each field that `loadAndVlidateConfigFile` reads: the field read, the
field tested, and the values that pass. A value is absent, a relative or an absolute text; a
rotation size that is 0 or no number counts as absent, as the code reads it with 0 as default.

### EventBus

Each thread is at a place in `instance`, `registerListener` or `dispatchEvent` (`pc`). The
two tests of `instance` (31 and 33) with `instanceMutex_` between them are steps of their
own, and so is every `notify`, as they are what threads interleave; the body of
`registerListener` is one step under `mutex_`. A listener in `Reentrant` uses the bus from
within `notify`. `mutex_` is not recursive, so its thread stays at "lock again": no step
leads on. `known` and `returned` record which registrations had returned when a dispatch
began. The pointer that `instance` tests without a lock is taken to be written in one step
after the object has been made, as the compilers this is built with do.

### LogProcessor and LogLine

`stage` is how far `init` has come: it starts the reader thread (51) before it makes `file_`
(52). A logger tests `file_` and makes its message (`LogMessage`), then writes one frame to
the pipe, where it blocks while the pipe is full (`WriteToPipe`). The reader takes a frame
(`ReadFromPipe`). `File::write` is three steps: the current file is opened and, if it is not
there, created (`GetFile`), unless it is open; the message is written and flushed
(`WriteToFile`); the size is looked at, and a file that is full is closed and the next index
taken (`Rotate`). `written` is set between the last two. `End` stands for every way the process
ends, an exception that leaves a thread included, and may come between any of these steps: an
empty file stays behind, or a full one, which the next run finds as it is. What is in the pipe
is lost. `fwrite` and `fflush` are one step, since at an end between them the buffer is written
or lost, as if the end had come after both or before. A message is one frame and one unit of
file size.

The next run searches the directory (`MakeFile`), in which there may be files of others: a
name is a sequence of characters, `Find`, `PassedOver` and `IndexText` are the calls of
`find` and `substr` in `getLastFileIndex`, and where `lexical_cast` throws, `init` throws and
the program ends. `FormatMessage` replaces the first occurrence of each placeholder, one after the other, so that a text
may bring in a placeholder of its own; a format without one of them makes the first message
end the program. `ThroughPipe` is what the padding and cutting of `Pipe::write` and the
C string of `Pipe::read` leave of a line.

## Runs

| run | shows |
|---|---|
| `framing` | `BodyFits`: whatever arrives, a body fits its buffer; `TextsArrive`: between two ends that use `Message` the reader never loses its place, texts arrive up to their first NUL, heartbeats are told from other texts |
| `session` | the safety of a session: `SingleWrite`, `NoLostWakeup`, `Conservation`, `DeliveredOnce`, `HeartbeatAlive`, `CloseCount`, `NoNewWaits`, and that it implements `OrderedWriter`; `PeerLossReported` |
| `session_write_report` | counterexample: a failed write is not reported to its callback |
| `client` | `FramesAnswered` (application messages delivered once and in order, each heartbeat echoed once), `FailureReportedOnce`, that it implements `OrderedWriter`, that connecting ends (`ConnectEnds`) and a loss is reported (`LossReported`) |
| `link` | both directions of a connection implement a `Channel`; `Settles`: when the applications pause, all is received and every heartbeat has come back |
| `daemon` | `OneDaemon` and `FileLeadsToDaemon` without overlap and failing calls, `OrderlyRefusal` and `StopLeavesNone` without crashes too; `RestartRuns`: restart comes to its end with a daemon running |
| `daemon_double` | counterexample: overlapping starts make two daemons |
| `daemon_stale` | counterexample: after a crash start refuses for ever |
| `server` | `RegistryExact`: ids, registry, connections and events agree however accepts fail; `ConnectionsServed`: every connection is served until the descriptors are used up |
| `config_format` | counterexample: a configuration without `log.format` is accepted |
| `eventbus` | `ListStandsStill` and `DispatchIsHeard`: the locks do what they are for, also while the instance is being made; `CallsReturn`: only a listener that uses the bus itself can block it |
| `log` | `NothingLost`: messages and `init`'s order; `FilesInTurn`: rotation and the search over restarts, also of a run that ended in the middle of `File::write`; `LinesTold`: a line says what the format means; that the files are a `Journal`; `MessagesReachFile` |

Deadlock is not checked: a stream that is read to its end, a connection that has ended, a server nobody connects to any more, a system in which nobody gives another
command, a bus blocked by a reentrant listener and a program that has been run for the last
time rightly stop.

### Bounds

`MaxFrames`, `MaxWrites` and `MaxReply` bound the peer's frames, the application's calls of
`write` and those inside one callback. Three writes with two from inside a callback reach a
queue with a message in flight, one behind it and one added during the completion of the
first, which is every case `write` and `handleWrite` tell apart; three frames for the
client reach every sequence of a frame handled, one being read and one on the way. The
session has two, as its timer multiplies the states; its safety is proved for any number.
Two expiries (`MaxBeats`) give the first one's handler a second wait to meet. Failures are not
bounded except by what can fail. Two endpoints give the client a refusal with an endpoint
left and one without; no endpoint at all is among the initial states.

`Framing` counts in binary with a header of three digits, where a header may hold a sign, a
space or a NUL at each place, and a negative number wraps as an `unsigned int` does. Two
texts show whether the reader keeps its place after the first: all of at most two characters,
one that looks like a header and a body, one with a NUL in it, and the longest. Four
characters of another program are a header and the first character of a body.

In `Link` both applications write twice, also from inside a callback, and one heartbeat is
due, so that an echo meets messages of the client's own at every place in its queue.

Three pids hold a command, the daemon it deals with and one more of either kind, or another
program; three commands are a start, a second one that meets what the first left, and one
that overlaps. One crash leaves a stale file; two tries of `kill` stand for ten. In the two
runs for a counterexample the pids are a symmetry set, which is sound because no property
and no definition tells them apart; the run with the liveness property does not use it.

Three connections with descriptors for two reach a loop that only fails, after failures that
pass; four session objects are as many as are alive at once while
`handleAccept` makes the next, and two
events and the closes show both sessions reporting in every order.

Two threads and four calls of the bus are the maker of the instance, one that meets it, a
registration and a dispatch that must know of it. Two loggers with two messages each fill a
pipe of two frames; with a rotation size of one message, two runs restart at a full file and
at a fresh one. A frame of nine characters has room for the longest of the formats with a
short text and not with a long one. The formats have their text first, one placeholder
twice, or one missing; the texts look like a placeholder, fit exactly, are too long, or hold
a NUL. The directories have no other file, the copy an editor left with a higher index, or a
file of a log whose name ends with this one's.

### Fairness

`io_service::run` executes every handler that is ready, hence weak fairness for each handler;
the clock does not stop (`TimerExpires`), and the kernel ends every write, as long as the
peer reads, and every connection attempt. Neither the peer nor the application has to do
anything. In `Link` that is one condition for the handlers of each end and one for the
kernel: an `io_service` runs some handler while there is one. For daemons, the system runs every process (`Program`); a service may run for
ever and nobody has to give a command. For the server, its handlers run and the kernel answers an
accept while a connection waits, with success or with an error. For the bus, every thread runs on, which for a mutex is
only sure because the calls of the others end. For the log, the reader runs through the steps of `File::write` and the kernel wakes
the writers of a full pipe in turn, which is strong fairness of `WriteToPipe`.

## Proofs

`WriteQueueProofs` has the lemmas about the write queue: a call of `write` and a completion
keep it *orderly* (at most one operation, and it writes the front), the log of messages only
grows at its end, and numbering is kept.

`SessionProofs` proves, for all values of the constants allowed by `SessionAssumption`, that
`IInv` is an invariant, and from it every safety property of the run `session`. The
properties are not inductive by themselves. `IInv` adds to them

- that an operation has failed only on a reset connection, without which `NoLostWakeup` would
  not survive `WriteFailed`;
- that what the kernel has taken is what was called back, and the one message whose handler
  is still to run, without which nothing ties `tx` to the queue;
- that a body is only read after a header that decodes, which `DeliveredOnce` needs to know
  what is complete;
- that the timer is untouched before `start`.

`StepGood` has one case for each action; the two action properties, `NoNewWaits` and the
step of the refinement, are proved along with the invariant since they need the same case
analysis (`Good`). `WireGood` adds for `Link` that the wire holds the messages of the log
themselves and in its order (`OnWire`), not only as many. `ImplementsWriter` is the refinement: `log` is the calls back followed
by the queue, `sent` the length of the wire, `acked` the number of calls back.

`ClientProofs` does the same for the client on the lemmas of `WriteQueueProofs`. Its writes
may meet a connection that is not there yet, so the premise of the session, that only a reset
connection fails a write, is gone; in its place `FailureReportedOnce` is part of the
invariant: the failed write is reported once, and the queue that stays behind it is never
started again. From it follow `FailureReportedOnce` and the refinement of `OrderedWriter`, in
which an echo is a call like any other. `FramesAnswered` says of the
frames read so far that the application messages among them are delivered, each once and in the
order of their arrival, that nothing else is, and that there is one echo for each frame that is
not delivered; it says nothing of the order in which echoes stand in the queue, which the
refinements of `OrderedWriter` and of `Channel` settle. The invariant adds (`AnswerInv`) that a
body is only awaited after a header that decodes: a handler that reads a frame either delivers
it, behind all that was delivered before, or accepts one echo more, and every other step leaves
both as they are.

`ServerProofs` proves `RegistryExact`. The invariant adds that at most one accept is
outstanding (`OneAccept`), so that a handler that runs does not find its session registered
already, and counts each connection in the backlog, in the answered accept or in the registry.

`EventBusProofs` proves that there is one instance at most, `ListStandsStill` and
`DispatchIsHeard`. The invariant says who holds the two mutexes (`Locks`: the thread that is
inside, which is what makes a list stand still), that nobody passes `instance()` before the
instance is there and that it starts empty (`MadeFirst`, without which a registration could
be lost), that a registration is in the list before it returns and stays (`Listed`), and that
what a dispatch has notified is a beginning of its list (`Walked`).

`DaemonProofs` proves all that the run `daemon` checks except the liveness. Its invariant has
two parts, each for the histories its properties are about. `Orderly`, as long as no commands
overlap and no call fails: one process at a time is busy with the pid file, and the file says
how far it is, absent up to the opening, then empty, then the pid of the daemon that works;
which is also the pid that `stop` has read and, after the signal, is nobody's any more.
`Tidy`, without crashes either: where there is a file there is a daemon or a `stop` about to
remove it, and `stop` never reads a pid of its own. The proof needs no bound on the pids, nor
that they are finitely many. A signal that is denied disturbs neither part: `stop` leaves the
file and the daemon as they are, and the `start` of a restart finds the file.

`LogProcessorProofs` proves the safety of the log in three steps.

- What the operators compute: `FlattenSeqIs` has the text of a fold as "what was there before,
  followed by the next part", from which appending to the last file is appending to `Lines`
  (`LinesUpTo`); `SearchFinds`, that the search of a restart returns the index of the last file
  with the log's own names read as what they are; `FormatIsMeant`, that replacing one
  placeholder after the other puts each value where the format means it, although a value may
  bring in a placeholder: the text comes last, and the other values hold none (`NextReplacement`
  is one replacement, with the parts of the line already in place); `Piped`, what a frame leaves.
- The invariant `IInv`. `RunInv` has what a stage allows: what is in the pipe
  or in the reader's hand is of the present run, and there is nothing, and no file open, before
  `file_` is made.
  `FileInv` is the growth of the files with the file the run writes next: every file before it is
  full, and if it is over the size itself, then by messages of former runs, unless `rotate` is
  about to look at it, which is what makes
  the next line neither leave a gap nor be a second one over the size. That `getFile` may leave
  an empty file changes nothing of what is in the files (`GetFileGood`). `ChainInv` is the order in `NothingLost` for the files, the hand and the
  pipe as one sequence, each logger's numbers complete up to what it has logged.
- From it `NothingLost`, `FilesInTurn`, and the refinement of `Journal`, whose only step is the
  one by which a line enters a file; and with `FormatInv` (nothing is logged with a format that lacks a
  placeholder) `LinesTold`.

`LinkProofs` has two parts, one about the characters and one about the messages.

For `Framing` it proves `BodyFits`, `TextsArrive` and the refinement `StringsArrive`, from
`FramingAssumption` (a base of at least two, a header of at least one digit, an unsigned
integer with room for twice the limit, letters that are no digit, sign, blank or NUL, and texts
that fit), for any other program, any number of texts and characters, and any size of header.

- The C library. `NumeralIs`: the numeral of a number means it again and, up to the limit,
  fits in the header; it is an induction over the number that uses all smaller ones
  (`StrongInduction`), as `%d` divides. `ValueAppend` is the step the other way, one digit
  more. `SpanIs` says that `Span` finds the end of the first run and nothing else does,
  `CStringIs` and `StrncpyIs` what is before the first NUL. `EncodeHeaderIs` puts them
  together: `atoi` finds the number behind the blanks again. `DecodeHeaderIs` adds the limit.
- The invariant `FramingInv`. `BodyFits` only needs the stream to be of characters; `TextsArrive`
  is not inductive, as what the next header says depends on all that is on the way. `InPlace` says that there is a way to cut the stream: a sequence
  `rest`, for each text what is on the way behind its frame, of which the reader is either at
  the beginning of a frame with as many frames read as messages (`AtFrame`), or behind its
  header, with the length of the text in `length` (`AtBody`). `Matching` says that each body
  read is the `strncpy` of its text, and its heartbeat flag one that `strncmp` may give.
  `WriteGood` lengthens every `rest` by a frame, `HeaderGood` and `BodyGood` move the reader.
- From it the refusal of a header is impossible, and a stream that is empty between frames has
  nothing left over, since a frame is never empty (`StaysInStep`); `IsHeartbeatIs` turns what
  `strncmp` sees in the copy into what is so of the text (`TellsHeartbeats`).

What another program writes only has types; `BodyFits` there is the whole of the limit, for
`atoi` is an integer whatever it is given (`AtoiInt`) and the conversion to `unsigned` makes
it a number that the comparison catches (`DecodeHeaderIs`).

For `Link` it proves the two refinements of `Channel`, `DownIsChannel` and `UpIsChannel`, from
the theorems about the two ends: it takes `StepGood` and `WireGood` of `SessionProofs` and
`ClientProofs` through an instance of each, and opens neither class again. What it adds
(`LinkInv`) is about the wire between them: what arrived at one end is a beginning of what the
other end's kernel took, kind by kind (`Carried`), and what was read and handed over is as much
of it as the read operation says (`Reads`). `AppWrites` picks the application's messages out of a
log that also holds heartbeats or echoes; the lemmas about it say that it grows with the log and
that the next application's message of the wire is the next of `AppWrites` (`NextWrite`), from
which each step of an end is a write, a receipt or a stutter of the channel (`SenderStep`,
`DeliverStep`). The fairness in `FairSpec` is not used.

Where a proof needs an induction over data (`FlattenSeqIs`, the parts of a line, `AppWrites`,
numerals), it is one over the naturals from the least-number principle, stated for sets
(`LeastMember`, `Induction`, `StrongInduction`), since the provers cannot instantiate a theorem
with an operator as its parameter. That a recursive function exists is proved in the same way,
with the step as a function (`Recursion`).

The proofs rest on the assumptions about the constants in each module and on nothing else.

What is only model-checked: liveness (`PeerLossReported`, `ConnectEnds`, `LossReported`,
`Settles`, `RestartRuns`, `ConnectionsServed`, `CallsReturn`, `MessagesReachFile`), which the
provers cannot reason about, as it needs `ENABLED`; and `Config`, a function of finitely many
kinds of field, which TLC goes through. Every invariant and every other action property or
refinement that a passing run checks is proved for all values of the constants; `StringsArrive`
is proved and in no run, as `TextsArrive` says the same of the small instance.

## What the checks found

- `session_write_report`: `Session::handleWrite` never calls the callback of a write that
  failed (`src/Transport/Session.cpp:104`), though the callbacks have a branch for it
  (`src/Transport/Session.cpp:125-126`, `src/Transport/test/ServerTest.cpp:43-45`) and
  `Client::handleWrite` does call it.
- `daemon_double` and `daemon_stale`: the pid file does not show what the comment at
  `src/Daemon/Daemon.cpp:45` takes it to show. Two starts that overlap, or one given before
  the last has written its pid, both find no file; and a file a crash left is taken for a
  running daemon by every later start.

- `config_format`: after reading `log.format` the code tests `level_` again
  (`src/Daemon/Daemon.cpp:232`), so that the message on the next line is never printed for the
  field it names. A log without a format then throws at the first message, as
  `formatMessage` looks for its placeholders (`src/Log/MessageProcessor.cpp:36`).

Behaviour that the properties record and that a reader may not expect: a session reports its
end up to twice (`CloseCount`); an expiry that was queued when the session ended still writes
a heartbeat to it and arms the timer, whose expiry does the same, until a write that fails
cancels the wait, and for ever if the queue has stopped already, as no write is tried any more
(`NoNewWaits` says that it takes such an expiry and that the waits and handlers of a closed
session never become more); after one failed write
neither end ever writes again, and on the client only that write's callback is told
(`FailureReportedOnce`); a message that begins with `PING` is treated as a heartbeat; a listener
that uses the bus blocks it for good (`CallsReturn`); a file of the log exceeds the rotation size
by one more message for each run that begins in a full file (`OneOver`); a run that ends
between the opening of a file and the first write leaves an empty one, which the next run goes
on with (`GetFile`); a text with a
NUL in it is sent at its full length with what follows the NUL lost (`InStep`); a message
that is longer than a frame of the pipe loses its end of line, so that the next one continues
its line (`LinesTold`); a file in the directory whose name contains the log's name and does
not read as `<name>_<number>.log` keeps the program from starting, and one that does read so
moves the first index (`OnlyLastHasRoom`); a log whose own name contains `.log` stops its
program from starting again in the same way, which `LogAssumption` leaves out;
a server keeps every session and its descriptor for ever (`RegistryExact`, `ConnectionsServed`).

## What is not modelled

- `setData` with more than `MAX_BODY_SIZE` characters, which is undefined behaviour left to
  the caller (`FramingAssumption`).
- The buffer of `stdio` between `File::write` and the disk: `fwrite` is taken to succeed or to
  end the process, and nobody looks at the result of the `fflush` behind it (`File.cpp:45`).
- The texts of errors, times and ids, name resolution and addresses.
- Partial reads and writes: Asio's composed operations hide them.
- Destruction of a session or a client: their handlers and the registry keep them alive.
- Several threads in `io_service::run`: the classes have no locks and are not used so.
- Signal delivery that takes time: a process that has been sent `SIGTERM` does no more.
- `getLogLevel`, the second constructor and the setters of a log message, which nothing calls;
  `Utilities`, whose classes only carry values; the build files and the test programs, which
  were read for how the classes are used.

## Plan

In the order of what matters most to a user of the framework:

1. `Frame`, `WriteQueue`, `OrderedWriter`, `Session` with proofs; `Client`; `Daemon`;
   `EventBus`; `Journal`, `LogProcessor`; `Server`; `Config`. Done.
2. `Channel` and `Link`; `Framing`; the search for the last file among others and the lines
   of the log. Done.
3. The configuration of the passing kind: what is accepted has absolute paths, what is
   complete is accepted.
4. Theorems about `Client`, `Server`, `EventBus`, `Daemon`, `LogProcessor` and `Link`. Done.
5. Theorems about `Framing`: that `Atoi` undoes `Numeral`, then `InStep` with what is on the
   way cut into frames, and the refinement of `Channel`. Done.
