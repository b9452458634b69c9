------------------------------- MODULE Session -------------------------------
(***************************************************************************)
(* One accepted connection of the server: Transport::Session, together     *)
(* with what its handlers can observe of the socket, of the heartbeat      *)
(* timer and of the application behind the three kinds of callback.        *)
(*                                                                         *)
(* One thread runs io_service, so a completion handler is one atomic step. *)
(* Nothing is assumed about the order in which the handlers of different   *)
(* operations run once those operations are complete.                      *)
(***************************************************************************)
EXTENDS Frame, WriteQueue

CONSTANTS
  InKinds,    \* the kinds of frame the peer sends
  MaxFrames,  \* bound: frames of the peer
  MaxWrites,  \* bound: the application writes only below this many write() calls
  MaxReply,   \* bound: write() calls made inside one callback
  MaxBeats    \* bound: expiries of the heartbeat timer

ASSUME SessionAssumption ==
  /\ InKinds \subseteq Kinds
  /\ MaxFrames \in Nat /\ MaxWrites \in Nat
  /\ MaxReply \in Nat /\ MaxBeats \in Nat

VARIABLES
  readOp,           \* the read operation outstanding on socket_
  messageItemQueue, \* messageItemQueue_
  writing,          \* the async_write operations whose handler has not run
  timer,            \* heartbeatTimer_: waits pending, and expired with the handler queued
  closes,           \* calls of closeCallback_
  accepted,         \* calls of write()
  called,           \* the items whose write callback has run, in that order
  delivered,        \* the frames handed to readCallback_, as positions in rx
  rx,               \* every frame the peer has sent
  rcvd,             \* frames of rx whose header has been read; message_ is rx[rcvd]
  tx,               \* the items whose bytes the kernel has taken, in that order
  peer,             \* the connection as the socket sees it
  beats             \* expiries of the timer so far

writeVars == <<messageItemQueue, writing, accepted>>
peerVars  == <<rx, peer>>
vars == <<readOp, messageItemQueue, writing, timer, closes, accepted, called,
          delivered, rx, rcvd, tx, peer, beats>>

Init ==
  /\ readOp = "unstarted"
  /\ messageItemQueue = <<>> /\ writing = <<>>
  /\ timer = [pending |-> 0, expired |-> 0]
  /\ closes = 0 /\ accepted = 0 /\ called = <<>> /\ delivered = <<>>
  /\ rx = <<>> /\ rcvd = 0 /\ tx = <<>> /\ peer = "open" /\ beats = 0

-----------------------------------------------------------------------------
(* The heartbeat timer.  Cancelling returns the pending waits with an      *)
(* error, on which heartbeatHandle returns at once, so they simply leave   *)
(* the count; a wait that has expired keeps its queued handler.            *)

Cancel(t)         == [t EXCEPT !.pending = 0]
ExpiresFromNow(t) == Cancel(t)
AsyncWait(t)      == [t EXCEPT !.pending = @ + 1]

\* Faulty variants: a re-arm without a wait, an error path that re-arms.
RearmWithoutWait(t) == ExpiresFromNow(t)
ResetOnError(t)     == AsyncWait(Cancel(t))

ResetHeartbeatTimer(t) == AsyncWait(ExpiresFromNow(Cancel(t)))
RearmHeartbeat(t)      == AsyncWait(ExpiresFromNow(t))
TimerOnError(t)        == Cancel(t)

-----------------------------------------------------------------------------
(* The write side: see WriteQueue.                                         *)

WriteSide == [queue |-> messageItemQueue, ops |-> writing]

\* The write() calls a callback of the application may make.
Replies == {n \in 0..MaxReply : n = 0 \/ accepted + n <= MaxWrites}

\* Only the application's callbacks write; heartbeatWriteHandle just logs.
CallbackWrites(item) == IF item.by = "app" THEN Replies ELSE {0}

SetWriteSide(s, n) ==
  /\ messageItemQueue' = s.queue
  /\ writing' = s.ops
  /\ accepted' = accepted + n

\* closeCallback_ first, with the n writes it makes on s, then the timer.
HandleError(s, n) ==
  /\ closes' = closes + 1
  /\ SetWriteSide(Write(s, NewItems(accepted, n, "app")), n)
  /\ timer' = TimerOnError(timer)

-----------------------------------------------------------------------------
(* Session::start and the read handlers.                                   *)

Start ==
  /\ readOp = "unstarted"
  /\ readOp' = "header"
  /\ timer' = AsyncWait(timer)
  /\ UNCHANGED <<writeVars, closes, called, delivered, rcvd, tx, peerVars, beats>>

\* Bytes that arrived before the end of the connection can still be read.
HeaderArrived == rcvd < Len(rx)
BodyArrived   == rx[rcvd] # "cut"

\* Faulty variant: the end of the stream is not an error.
ReadFailsOnReset(arrived) == peer = "reset"

ReadFails(arrived) == peer = "reset" \/ (peer = "fin" /\ ~arrived)

\* Faulty variant: the next read is started after an error, too.
ReadContinues ==
  /\ readOp' = "header"
  /\ \E n \in Replies : HandleError(WriteSide, n)
  /\ UNCHANGED <<called, delivered, tx, peerVars, beats>>

ReadStops ==
  /\ readOp' = "stopped"
  /\ \E n \in Replies : HandleError(WriteSide, n)
  /\ UNCHANGED <<called, delivered, tx, peerVars, beats>>

ReadMessageHeader ==
  /\ readOp = "header" /\ HeaderArrived
  /\ rcvd' = rcvd + 1
  /\ DecodeHeader(rx[rcvd + 1])
  /\ timer' = ResetHeartbeatTimer(timer)
  /\ readOp' = "body"
  /\ UNCHANGED <<writeVars, closes, called, delivered, tx, peerVars, beats>>

RejectMessageHeader ==
  /\ readOp = "header" /\ HeaderArrived
  /\ rcvd' = rcvd + 1
  /\ ~DecodeHeader(rx[rcvd + 1])
  /\ ReadStops

FailMessageHeader ==
  /\ readOp = "header" /\ ReadFails(HeaderArrived)
  /\ ReadStops
  /\ UNCHANGED rcvd

HandleReadMessageHeader ==
  ReadMessageHeader \/ RejectMessageHeader \/ FailMessageHeader

ReadMessageBody ==
  /\ readOp = "body" /\ BodyArrived
  /\ \E heartbeat \in IsHeartbeat(rx[rcvd]) :
       \/ /\ heartbeat
          /\ UNCHANGED <<writeVars, delivered>>
       \/ /\ ~heartbeat
          /\ delivered' = Append(delivered, rcvd)
          /\ \E n \in Replies : SetWriteSide(Write(WriteSide, NewItems(accepted, n, "app")), n)
  /\ readOp' = "header"
  /\ UNCHANGED <<timer, closes, called, rcvd, tx, peerVars, beats>>

FailMessageBody ==
  /\ readOp = "body" /\ ReadFails(BodyArrived)
  /\ ReadStops
  /\ UNCHANGED rcvd

HandleReadMessageBody == ReadMessageBody \/ FailMessageBody

-----------------------------------------------------------------------------
(* Session::handleWrite.                                                   *)

\* Faulty variant: success is reported before the kernel has taken the bytes.
FinishedEarly(i, st) ==
  i \in DOMAIN writing /\ (st = "sent" \/ writing[i].st = st)

Finished(i, st) == i \in DOMAIN writing /\ writing[i].st = st

\* The write side when the handler of the i-th operation starts.
AtHandler(i) == [queue |-> messageItemQueue, ops |-> Remove(writing, i)]

WriteSucceeded(i) ==
  /\ Finished(i, "sent")
  /\ called' = Append(called, writing[i].item)
  /\ \E n \in CallbackWrites(writing[i].item) :
       SetWriteSide(Completed(AtHandler(i), NewItems(accepted, n, "app")), n)
  /\ UNCHANGED <<closes, timer>>

\* Faulty variant: a failed write is popped and the next one started.
WriteFailedPops(i) ==
  /\ Finished(i, "failed")
  /\ closes' = closes + 1
  /\ SetWriteSide(PopFront(AtHandler(i)), 0)
  /\ timer' = TimerOnError(timer)
  /\ UNCHANGED called

\* The item keeps its place in the queue and its callback is not called.
WriteFailed(i) ==
  /\ Finished(i, "failed")
  /\ \E n \in Replies : HandleError(AtHandler(i), n)
  /\ UNCHANGED called

HandleWrite ==
  /\ \E i \in DOMAIN writing : WriteSucceeded(i) \/ WriteFailed(i)
  /\ UNCHANGED <<readOp, delivered, rcvd, tx, peerVars, beats>>

-----------------------------------------------------------------------------
(* Session::heartbeatHandle for a wait that expired, and the application's *)
(* own calls of write(), made from other handlers of the same thread.      *)

HeartbeatHandle ==
  /\ timer.expired > 0
  /\ SetWriteSide(Write(WriteSide, NewItems(accepted, 1, "heartbeat")), 1)
  /\ timer' = RearmHeartbeat([timer EXCEPT !.expired = @ - 1])
  /\ UNCHANGED <<readOp, closes, called, delivered, rcvd, tx, peerVars, beats>>

AppWrite ==
  /\ readOp # "unstarted"
  /\ accepted < MaxWrites
  /\ SetWriteSide(Write(WriteSide, NewItems(accepted, 1, "app")), 1)
  /\ UNCHANGED <<readOp, timer, closes, called, delivered, rcvd, tx, peerVars, beats>>

-----------------------------------------------------------------------------
(* The socket, the clock and the peer.                                     *)

TimerExpires ==
  /\ timer.pending > 0
  /\ beats < MaxBeats
  /\ timer' = [pending |-> 0, expired |-> timer.expired + timer.pending]
  /\ beats' = beats + 1
  /\ UNCHANGED <<readOp, writeVars, closes, called, delivered, rcvd, tx, peerVars>>

SendCompletes ==
  /\ peer # "reset"
  /\ \E i \in DOMAIN writing :
       /\ writing[i].st = "sending"
       /\ writing' = [writing EXCEPT ![i].st = "sent"]
       /\ tx' = Append(tx, writing[i].item)
  /\ UNCHANGED <<readOp, messageItemQueue, accepted, timer, closes, called,
                 delivered, rcvd, peerVars, beats>>

SendFails ==
  /\ peer = "reset"
  /\ \E i \in DOMAIN writing :
       /\ writing[i].st = "sending"
       /\ writing' = [writing EXCEPT ![i].st = "failed"]
  /\ UNCHANGED <<readOp, messageItemQueue, accepted, timer, closes, called,
                 delivered, rcvd, tx, peerVars, beats>>

\* Nothing follows a header whose body stays out.
PeerSend(kind) ==
  /\ peer = "open"
  /\ Len(rx) < MaxFrames
  /\ rx # <<>> => rx[Len(rx)] # "cut"
  /\ rx' = Append(rx, kind)
  /\ UNCHANGED <<readOp, writeVars, timer, closes, called, delivered, rcvd, tx, peer, beats>>

PeerFin ==
  /\ peer = "open"
  /\ peer' = "fin"
  /\ UNCHANGED <<readOp, writeVars, timer, closes, called, delivered, rx, rcvd, tx, beats>>

PeerReset ==
  /\ peer # "reset"
  /\ peer' = "reset"
  /\ UNCHANGED <<readOp, writeVars, timer, closes, called, delivered, rx, rcvd, tx, beats>>

-----------------------------------------------------------------------------
Next ==
  \/ Start \/ HandleReadMessageHeader \/ HandleReadMessageBody
  \/ HandleWrite \/ HeartbeatHandle \/ AppWrite
  \/ TimerExpires \/ SendCompletes \/ SendFails
  \/ \E kind \in InKinds : PeerSend(kind)
  \/ PeerFin \/ PeerReset

Spec == Init /\ [][Next]_vars

\* The io_service runs every handler that is ready, the clock does not stop,
\* and the kernel ends every write while the peer keeps reading.  Neither
\* the application nor the peer ever has to do anything.
Fairness ==
  /\ WF_vars(Start)
  /\ WF_vars(HandleReadMessageHeader) /\ WF_vars(HandleReadMessageBody)
  /\ WF_vars(HandleWrite) /\ WF_vars(HeartbeatHandle) /\ WF_vars(TimerExpires)
  /\ WF_vars(SendCompletes) /\ WF_vars(SendFails)

FairSpec == Spec /\ Fairness

-----------------------------------------------------------------------------
(* Properties.                                                             *)

\* The types of the state, and how often the session reports its end: once
\* for each direction that can fail.
TypeOK ==
  /\ readOp \in {"unstarted", "header", "body", "stopped"}
  /\ messageItemQueue \in Seq(Items) /\ writing \in Seq(Ops)
  /\ timer \in [pending : Nat, expired : Nat]
  /\ closes \in 0..2 /\ accepted \in Nat /\ beats \in Nat
  /\ called \in Seq(Items) /\ tx \in Seq(Items)
  /\ rx \in Seq(Kinds) /\ rcvd \in 0..Len(rx) /\ delivered \in Seq(Nat)
  /\ peer \in {"open", "fin", "reset"}

\* write() and handleWrite never have two async_write operations on the
\* socket, whose bytes would mix, and the one they have is the queue's front,
\* also when a callback writes while its own item is still queued.
SingleWrite ==
  /\ Len(writing) <= 1
  /\ writing # <<>> =>
       messageItemQueue # <<>> /\ writing[1].item = Head(messageItemQueue)

\* write() starts an operation only on an empty queue, so handleWrite must
\* never leave a queue that nobody is writing; it does so only when the
\* connection is lost.
Stuck == messageItemQueue # <<>> /\ writing = <<>>
NoLostWakeup == Stuck => peer = "reset"

\* Every message given to write() is either still queued or had its callback
\* called, exactly once and in the order of the calls; the wire has them in
\* that order, too.
Conservation ==
  LET log == called \o messageItemQueue
  IN  Len(log) = accepted /\ Numbered(log) /\ Numbered(tx)

\* Every complete application message is handed to readCallback_ exactly
\* once and in the order of arrival; a heartbeat never is.
DeliveredOnce ==
  LET read     == IF readOp = "body" THEN rcvd - 1 ELSE rcvd
      complete == IF readOp = "header" THEN rcvd ELSE rcvd - 1
  IN  /\ \A j \in 1..Len(delivered) :
           delivered[j] \in 1..read /\ rx[delivered[j]] \in {"data", "short"}
      /\ \A i, j \in 1..Len(delivered) : i < j => delivered[i] < delivered[j]
      /\ \A i \in 1..complete :
           rx[i] = "data" => \E j \in 1..Len(delivered) : delivered[j] = i

\* At most one wait of heartbeatTimer_ is pending: every re-arm cancels.
OneWait == timer.pending <= 1

\* While the session reads and its writes have not failed, the next heartbeat
\* is always scheduled: no interleaving of expiry and reset loses the timer.
Reading == readOp \in {"header", "body"}
HeartbeatAlive == Reading /\ ~Stuck => timer.pending + timer.expired >= 1

\* closeCallback_ is called once when reading ends and once when writing
\* fails, so the listener sees zero, one or two closes and no more.
CloseCount ==
  closes = (IF readOp = "stopped" THEN 1 ELSE 0) + (IF Stuck THEN 1 ELSE 0)

\* From the end of reading on the timer gets no wait it did not have: the wait
\* that is pending is cancelled, and a handler that was queued by then goes on
\* as one chain of waits and handlers that never becomes two.  So a session that
\* ends with no expiry queued writes no heartbeat ever after, whichever of the
\* two directions fails first and whatever else fails later.
Waits(t) == t.pending + t.expired
NoNewWaits ==
  [][readOp' = "stopped" =>
       Waits(timer') <= IF readOp = "stopped" THEN Waits(timer) ELSE timer.expired]_vars

\* The write side implements an ordered writer: the wire and the callbacks
\* follow the order of the calls, one message at a time.
Writer == INSTANCE OrderedWriter WITH
  Messages <- Items, log <- called \o messageItemQueue,
  sent <- Len(tx), acked <- Len(called)
WriterSpec == Writer!Spec

\* A connection the peer has ended is reported to closeCallback_.
PeerLossReported == peer # "open" ~> closes > 0

\* Every write that failed has had its callback called, as the failure
\* branches of the callbacks expect.
FailedWriteReported ==
  Stuck => \E i \in 1..Len(called) : called[i] = Head(messageItemQueue)

=============================================================================
