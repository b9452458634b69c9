------------------------------- MODULE Client -------------------------------
(***************************************************************************)
(* Transport::Client: the connecting end of a connection, with what its    *)
(* handlers can observe of the resolver's endpoints, of the socket and of  *)
(* the application behind its two kinds of callback.                       *)
(*                                                                         *)
(* One thread runs io_service: a completion handler is one atomic step.    *)
(* async_connect tries the endpoints in turn; a write() made meanwhile is  *)
(* started on the socket at once, and waits in the kernel's queue behind   *)
(* the connection attempt it shares the socket with.                       *)
(***************************************************************************)
EXTENDS Frame, WriteQueue, FiniteSets

CONSTANTS
  Endpoints,  \* bound: endpoints the resolver returned
  InKinds,    \* the kinds of frame the peer sends
  MaxFrames,  \* bound: frames of the peer
  MaxWrites,  \* bound: the application writes only below this many write() calls
  MaxReply    \* bound: write() calls made inside one callback

ASSUME ClientAssumption ==
  /\ InKinds \subseteq Kinds
  /\ Endpoints \in Nat /\ MaxFrames \in Nat
  /\ MaxWrites \in Nat /\ MaxReply \in Nat

VARIABLES
  readOp,           \* the connect or read operation outstanding on socket_
  messageItemQueue, \* messageItemQueue_
  writing,          \* the async_write operations whose handler has not run
  errors,           \* calls of readCallback_ with an error
  failures,         \* calls of a write callback with an error
  accepted,         \* calls of write()
  called,           \* the items whose callback has run without error, in order
  delivered,        \* the frames handed to readCallback_, as positions in rx
  rx,               \* every frame the peer has sent
  rcvd,             \* frames of rx whose header has been read; message_ is rx[rcvd]
  tx,               \* the items whose bytes the kernel has taken, in order
  conn,             \* the connection as the socket sees it
  untried           \* endpoints not yet tried

writeVars == <<messageItemQueue, writing, accepted>>
connVars  == <<conn, untried>>
vars == <<readOp, messageItemQueue, writing, errors, failures, accepted, called,
          delivered, rx, rcvd, tx, conn, untried>>

Init ==
  /\ readOp = "unstarted"
  /\ messageItemQueue = <<>> /\ writing = <<>>
  /\ errors = 0 /\ failures = 0 /\ accepted = 0 /\ called = <<>>
  /\ delivered = <<>> /\ rx = <<>> /\ rcvd = 0 /\ tx = <<>>
  /\ conn = "closed" /\ untried \in 0..Endpoints

-----------------------------------------------------------------------------
(* The write side: see WriteQueue.                                         *)

WriteSide == [queue |-> messageItemQueue, ops |-> writing]

\* The write() calls a callback of the application may make.
Replies == {n \in 0..MaxReply : n = 0 \/ accepted + n <= MaxWrites}

\* Only the application's callbacks write; handleHeartbeatWrite just logs.
CallbackWrites(item) == IF item.by = "app" THEN Replies ELSE {0}

SetWriteSide(s, n) ==
  /\ messageItemQueue' = s.queue
  /\ writing' = s.ops
  /\ accepted' = accepted + n

WritesOf(n, by) == SetWriteSide(Write(WriteSide, NewItems(accepted, n, by)), n)

-----------------------------------------------------------------------------
(* Client::start and handleConnect.                                        *)

\* The first endpoint is tried at once; with none, the handler gets an error.
Start ==
  /\ readOp = "unstarted"
  /\ readOp' = "connect"
  /\ IF untried > 0
     THEN conn' = "trying" /\ untried' = untried - 1
     ELSE UNCHANGED connVars
  /\ UNCHANGED <<writeVars, errors, failures, called, delivered, rx, rcvd, tx>>

\* readCallback_ is called with an error, and no operation is started.
ReadStops ==
  /\ readOp' = "stopped"
  /\ errors' = errors + 1
  /\ \E n \in Replies : WritesOf(n, "app")
  /\ UNCHANGED <<failures, called, delivered, rx, tx, connVars>>

\* Faulty variant: only the lack of any endpoint is seen as a failure.
ConnectUnresolved == conn = "closed"
ConnectFailed == conn = "closed" \/ (conn = "refused" /\ untried = 0)

HandleConnect ==
  /\ readOp = "connect"
  /\ \/ /\ conn \in {"open", "fin", "reset"}
        /\ readOp' = "header"
        /\ UNCHANGED <<writeVars, errors, failures, called, delivered, rx, tx, connVars>>
     \/ ConnectFailed /\ ReadStops
  /\ UNCHANGED rcvd

-----------------------------------------------------------------------------
(* The read handlers.                                                      *)

HeaderArrived == rcvd < Len(rx)
BodyArrived   == rx[rcvd] # "cut"

\* Faulty variant: the end of the stream is not an error.
ReadFailsOnReset(arrived) == conn = "reset"

\* Bytes that arrived before the end of the connection can still be read.
ReadFails(arrived) == conn = "reset" \/ (conn = "fin" /\ ~arrived)

HandleReadMessageHeader ==
  /\ readOp = "header"
  /\ \/ /\ HeaderArrived
        /\ rcvd' = rcvd + 1
        /\ \/ /\ DecodeHeader(rx[rcvd + 1])
              /\ readOp' = "body"
              /\ UNCHANGED <<writeVars, errors, failures, called, delivered, rx, tx, connVars>>
           \/ ~DecodeHeader(rx[rcvd + 1]) /\ ReadStops
     \/ ReadFails(HeaderArrived) /\ ReadStops /\ UNCHANGED rcvd

\* Faulty variant: the heartbeat is delivered, too.
EchoAndDeliver == WritesOf(1, "heartbeat") /\ delivered' = Append(delivered, rcvd)

\* A heartbeat is written back as it came.
Echo == WritesOf(1, "heartbeat") /\ UNCHANGED delivered

Deliver ==
  /\ delivered' = Append(delivered, rcvd)
  /\ \E n \in Replies : WritesOf(n, "app")

HandleReadMessageBody ==
  /\ readOp = "body"
  /\ \/ /\ BodyArrived
        /\ \E heartbeat \in IsHeartbeat(rx[rcvd]) :
             (heartbeat /\ Echo) \/ (~heartbeat /\ Deliver)
        /\ readOp' = "header"
        /\ UNCHANGED <<errors, failures, called, rx, tx, connVars>>
     \/ ReadFails(BodyArrived) /\ ReadStops
  /\ UNCHANGED rcvd

-----------------------------------------------------------------------------
(* Client::write, from outside the callbacks, and handleWrite.             *)

AppWrite ==
  /\ readOp # "unstarted"
  /\ accepted < MaxWrites
  /\ WritesOf(1, "app")
  /\ UNCHANGED <<readOp, errors, failures, called, delivered, rx, rcvd, tx, connVars>>

\* Faulty variant: success is reported before the kernel has taken the bytes.
FinishedEarly(i, st) ==
  i \in DOMAIN writing /\ (st = "sent" \/ writing[i].st = st)

Finished(i, st) == i \in DOMAIN writing /\ writing[i].st = st

\* The write side when the handler of the i-th operation starts.
AtHandler(i) == [queue |-> messageItemQueue, ops |-> Remove(writing, i)]

WriteSucceeded(i) ==
  /\ Finished(i, "sent")
  /\ called' = Append(called, writing[i].item)
  /\ \E n \in CallbackWrites(writing[i].item) :
       SetWriteSide(Completed(AtHandler(i), NewItems(accepted, n, "app")), n)
  /\ UNCHANGED failures

\* Faulty variant: the queue moves on to the next item after an error.
AfterErrorNext(s, items) == Completed(s, items)

\* The write side after the callback of a failed item: nothing is popped.
AfterError(s, items) == Write(s, items)

WriteFailed(i) ==
  /\ Finished(i, "failed")
  /\ failures' = failures + 1
  /\ \E n \in CallbackWrites(writing[i].item) :
       SetWriteSide(AfterError(AtHandler(i), NewItems(accepted, n, "app")), n)
  /\ UNCHANGED called

HandleWrite ==
  /\ \E i \in DOMAIN writing : WriteSucceeded(i) \/ WriteFailed(i)
  /\ UNCHANGED <<readOp, errors, delivered, rx, rcvd, tx, connVars>>

-----------------------------------------------------------------------------
(* The socket and the peer.                                                *)

\* The writes that wait behind a connection attempt fail with it.
Aborted == [i \in DOMAIN writing |->
  IF writing[i].st = "sending" THEN [writing[i] EXCEPT !.st = "failed"] ELSE writing[i]]

AttemptFails ==
  /\ conn = "trying"
  /\ conn' = "refused"
  /\ writing' = Aborted
  /\ UNCHANGED <<readOp, messageItemQueue, errors, failures, accepted, called,
                 delivered, rx, rcvd, tx, untried>>

\* async_connect closes the socket and opens it again for the next endpoint.
NextEndpoint ==
  /\ conn = "refused" /\ untried > 0
  /\ conn' = "trying"
  /\ untried' = untried - 1
  /\ writing' = Aborted
  /\ UNCHANGED <<readOp, messageItemQueue, errors, failures, accepted, called,
                 delivered, rx, rcvd, tx>>

Connected ==
  /\ conn = "trying"
  /\ conn' = "open"
  /\ UNCHANGED <<readOp, writeVars, errors, failures, called, delivered, rx, rcvd, tx, untried>>

SendCompletes ==
  /\ conn \in {"open", "fin"}
  /\ \E i \in DOMAIN writing :
       /\ writing[i].st = "sending"
       /\ writing' = [writing EXCEPT ![i].st = "sent"]
       /\ tx' = Append(tx, writing[i].item)
  /\ UNCHANGED <<readOp, messageItemQueue, errors, failures, accepted, called,
                 delivered, rx, rcvd, connVars>>

SendFails ==
  /\ conn \in {"closed", "refused", "reset"}
  /\ \E i \in DOMAIN writing :
       /\ writing[i].st = "sending"
       /\ writing' = [writing EXCEPT ![i].st = "failed"]
  /\ UNCHANGED <<readOp, messageItemQueue, errors, failures, accepted, called,
                 delivered, rx, rcvd, tx, connVars>>

\* Nothing follows a header whose body stays out.
PeerSend(kind) ==
  /\ conn = "open"
  /\ Len(rx) < MaxFrames
  /\ rx # <<>> => rx[Len(rx)] # "cut"
  /\ rx' = Append(rx, kind)
  /\ UNCHANGED <<readOp, writeVars, errors, failures, called, delivered, rcvd, tx, connVars>>

PeerFin ==
  /\ conn = "open"
  /\ conn' = "fin"
  /\ UNCHANGED <<readOp, writeVars, errors, failures, called, delivered, rx, rcvd, tx, untried>>

PeerReset ==
  /\ conn \in {"open", "fin"}
  /\ conn' = "reset"
  /\ UNCHANGED <<readOp, writeVars, errors, failures, called, delivered, rx, rcvd, tx, untried>>

-----------------------------------------------------------------------------
Next ==
  \/ Start \/ HandleConnect \/ HandleReadMessageHeader \/ HandleReadMessageBody
  \/ HandleWrite \/ AppWrite
  \/ AttemptFails \/ NextEndpoint \/ Connected \/ SendCompletes \/ SendFails
  \/ \E kind \in InKinds : PeerSend(kind)
  \/ PeerFin \/ PeerReset

Spec == Init /\ [][Next]_vars

\* The io_service runs every handler that is ready; the kernel ends every
\* connection attempt, and every write while the peer keeps reading.  The
\* application and the peer never have to do anything.
Fairness ==
  /\ WF_vars(Start) /\ WF_vars(HandleConnect)
  /\ WF_vars(HandleReadMessageHeader) /\ WF_vars(HandleReadMessageBody)
  /\ WF_vars(HandleWrite)
  /\ WF_vars(AttemptFails \/ Connected) /\ WF_vars(NextEndpoint)
  /\ WF_vars(SendCompletes) /\ WF_vars(SendFails)

FairSpec == Spec /\ Fairness

-----------------------------------------------------------------------------
(* Properties.                                                             *)

\* The types of the state.  The client starts once, so readCallback_ gets at
\* most one error, and no more than one write callback ever does.
TypeOK ==
  /\ readOp \in {"unstarted", "connect", "header", "body", "stopped"}
  /\ messageItemQueue \in Seq(Items) /\ writing \in Seq(Ops)
  /\ errors \in 0..1 /\ failures \in 0..1 /\ accepted \in Nat
  /\ called \in Seq(Items) /\ tx \in Seq(Items)
  /\ rx \in Seq(Kinds) /\ rcvd \in 0..Len(rx) /\ delivered \in Seq(Nat)
  /\ conn \in {"closed", "trying", "refused", "open", "fin", "reset"}
  /\ untried \in 0..Endpoints

\* The client stops writing exactly when a write has failed, and says so to
\* the callback of that write and of no other: the items behind it, and those
\* written later, are never answered.
Stuck == messageItemQueue # <<>> /\ writing = <<>>
FailureReportedOnce == failures = IF Stuck THEN 1 ELSE 0

\* Of n frames, every application message was handed to readCallback_, once and
\* in the order of arrival, no heartbeat was, and as many echoes were accepted
\* for writing as there are frames left.
Heartbeats(log) == {i \in 1..Len(log) : log[i].by = "heartbeat"}
Echoes == Cardinality(Heartbeats(called \o messageItemQueue))
Answered(n) ==
  /\ \A j \in 1..Len(delivered) :
       delivered[j] \in 1..n /\ rx[delivered[j]] \in {"data", "short"}
  /\ \A i, j \in 1..Len(delivered) : i < j => delivered[i] < delivered[j]
  /\ \A i \in 1..n : rx[i] = "data" => \E j \in 1..Len(delivered) : delivered[j] = i
  /\ Len(delivered) + Echoes = n

\* The frames that are complete: all whose header was read but the one whose
\* body is awaited.  Where reading has stopped the last may have been in vain.
Complete ==
  IF readOp = "stopped" THEN {rcvd - 1, rcvd}
  ELSE IF readOp = "body" THEN {rcvd - 1} ELSE {rcvd}

\* Every complete frame is answered in one of the two ways and only one: the
\* handler of a body neither echoes a message, nor delivers a heartbeat or
\* forgets it, while echoes and the application's writes share the queue.
FramesAnswered == \E n \in Complete : Answered(n)

\* The write side implements an ordered writer.
Writer == INSTANCE OrderedWriter WITH
  Messages <- Items, log <- called \o messageItemQueue,
  sent <- Len(tx), acked <- Len(called)
WriterSpec == Writer!Spec

\* Connecting ends, one way or the other, however many endpoints refuse.
ConnectEnds == readOp = "connect" ~> readOp # "connect"

\* The end of an established connection is reported to readCallback_.
LossReported == conn \in {"fin", "reset"} ~> errors = 1

=============================================================================
