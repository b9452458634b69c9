-------------------------------- MODULE Link --------------------------------
(***************************************************************************)
(* A Session and the Client at the other end of its connection.  Each is   *)
(* the whole module of that name; what one of them has handed to the       *)
(* kernel, its tx, arrives as the other's rx, in order and after any       *)
(* delay.  Framing shows that an end reads the frames the other has        *)
(* written.  The texts of the applications do not begin with PING and are  *)
(* not shorter than it.                                                    *)
(***************************************************************************)
EXTENDS Naturals, Sequences

CONSTANTS
  Endpoints,      \* bound: endpoints the resolver returned
  SessionWrites,  \* bounds: write() calls at the two ends, as in the modules
  ClientWrites,
  MaxReply,       \* bound: write() calls made inside one callback
  MaxBeats        \* bound: expiries of the heartbeat timer

ASSUME LinkAssumption ==
  {Endpoints, SessionWrites, ClientWrites, MaxReply, MaxBeats} \subseteq Nat

VARIABLES
  sReadOp, sQueue, sWriting, sTimer, sCloses, sAccepted, sCalled, sDelivered,
  sRx, sRcvd, sTx, sPeer, sBeats,
  cReadOp, cQueue, cWriting, cErrors, cFailures, cAccepted, cCalled, cDelivered,
  cRx, cRcvd, cTx, cConn, cUntried

\* Frames are bounded by the writes of the other end.
S == INSTANCE Session WITH
  InKinds <- {"data", "ping"}, MaxFrames <- ClientWrites + MaxBeats,
  MaxWrites <- SessionWrites,
  readOp <- sReadOp, messageItemQueue <- sQueue, writing <- sWriting,
  timer <- sTimer, closes <- sCloses, accepted <- sAccepted,
  called <- sCalled, delivered <- sDelivered, rx <- sRx, rcvd <- sRcvd,
  tx <- sTx, peer <- sPeer, beats <- sBeats

C == INSTANCE Client WITH
  InKinds <- {"data", "ping"}, MaxFrames <- SessionWrites + MaxBeats,
  MaxWrites <- ClientWrites,
  readOp <- cReadOp, messageItemQueue <- cQueue, writing <- cWriting,
  errors <- cErrors, failures <- cFailures, accepted <- cAccepted,
  called <- cCalled, delivered <- cDelivered, rx <- cRx, rcvd <- cRcvd,
  tx <- cTx, conn <- cConn, untried <- cUntried

sVars == <<sReadOp, sQueue, sWriting, sTimer, sCloses, sAccepted, sCalled,
           sDelivered, sRx, sRcvd, sTx, sPeer, sBeats>>
cVars == <<cReadOp, cQueue, cWriting, cErrors, cFailures, cAccepted, cCalled,
           cDelivered, cRx, cRcvd, cTx, cConn, cUntried>>
vars  == <<sVars, cVars>>

Init == S!Init /\ C!Init

\* The connection is there as soon as the client's attempt succeeds; when the
\* server accepts it and starts the session is another matter.
Established == cConn \in {"open", "fin", "reset"}

-----------------------------------------------------------------------------
(* The two ends.                                                           *)

SessionStarts == Established /\ S!Start

SessionHandles ==
  \/ S!HandleReadMessageHeader \/ S!HandleReadMessageBody
  \/ S!HandleWrite \/ S!HeartbeatHandle

SessionStep ==
  /\ \/ SessionStarts \/ SessionHandles \/ S!AppWrite
     \/ S!TimerExpires \/ S!SendCompletes \/ S!SendFails
  /\ UNCHANGED cVars

ClientHandles ==
  \/ C!Start \/ C!HandleConnect
  \/ C!HandleReadMessageHeader \/ C!HandleReadMessageBody \/ C!HandleWrite

ClientStep ==
  /\ \/ ClientHandles \/ C!AppWrite
     \/ C!AttemptFails \/ C!NextEndpoint \/ C!Connected
     \/ C!SendCompletes \/ C!SendFails
  /\ UNCHANGED sVars

-----------------------------------------------------------------------------
(* The network.                                                            *)

\* What the other end makes of a message: a heartbeat is one, the echo, which
\* is written as it came, too.
Kind(item) == IF item.by = "heartbeat" THEN "ping" ELSE "data"

ArriveUp ==
  /\ Len(sRx) < Len(cTx)
  /\ S!PeerSend(Kind(cTx[Len(sRx) + 1]))
  /\ UNCHANGED cVars

ArriveDown ==
  /\ Len(cRx) < Len(sTx)
  /\ C!PeerSend(Kind(sTx[Len(cRx) + 1]))
  /\ UNCHANGED sVars

\* Either end sees the connection end when the program at the other goes, or
\* the network does; nothing that is on the way to it then arrives.
SessionLoses ==
  /\ Established
  /\ S!PeerFin \/ S!PeerReset
  /\ UNCHANGED cVars

ClientLoses ==
  /\ C!PeerFin \/ C!PeerReset
  /\ UNCHANGED sVars

-----------------------------------------------------------------------------
Next ==
  \/ SessionStep \/ ClientStep
  \/ ArriveUp \/ ArriveDown
  \/ SessionLoses \/ ClientLoses

\* Each end's io_service goes on running handlers while there are any, and
\* the kernel goes on sending and connecting, and delivers what is on the way.
Kernel ==
  \/ ArriveUp \/ ArriveDown
  \/ S!SendCompletes /\ UNCHANGED cVars
  \/ (C!AttemptFails \/ C!NextEndpoint \/ C!Connected) /\ UNCHANGED sVars
  \/ (C!SendCompletes \/ C!SendFails) /\ UNCHANGED sVars

Fairness ==
  /\ WF_vars((SessionStarts \/ SessionHandles) /\ UNCHANGED cVars)
  /\ WF_vars(ClientHandles /\ UNCHANGED sVars)
  /\ WF_vars(Kernel)

FairSpec == Init /\ [][Next]_vars /\ Fairness

-----------------------------------------------------------------------------
(* Properties.                                                             *)

\* The application's calls of write() at an end, and what the application at
\* the other end of it has received: entries of tx, by their place in rx.
AppWrites(log) ==
  LET writes[i \in 0..Len(log)] ==
        IF i = 0 THEN <<>>
        ELSE IF log[i].by = "app" THEN Append(writes[i - 1], log[i])
        ELSE writes[i - 1]
  IN  writes[Len(log)]
Received(tx, delivered) == [j \in DOMAIN delivered |-> tx[delivered[j]]]

Down == INSTANCE Channel WITH
  Messages <- S!Items,
  written <- AppWrites(sCalled \o sQueue), received <- Received(sTx, cDelivered)
Up == INSTANCE Channel WITH
  Messages <- C!Items,
  written <- AppWrites(cCalled \o cQueue), received <- Received(cTx, sDelivered)

\* From the server's application to the client's, the two ends, with their
\* queues, heartbeats, echoes and lost connections, implement a channel: what
\* is received is what was written, in order and without gaps.
DownChannel == Down!Spec

\* So they do in the other direction, in which writes are made before the
\* connection is there, and echoes mix with them.
UpChannel == Up!Spec

Lost == sPeer # "open" \/ cConn \in {"fin", "reset"}

Echoes == Len(SelectSeq(sRx, LAMBDA frame : frame = "ping"))

Settled ==
  /\ Len(AppWrites(sCalled \o sQueue)) = Len(cDelivered)
  /\ \/ /\ Len(AppWrites(cCalled \o cQueue)) = Len(sDelivered)
        /\ sBeats = Echoes
     \/ cFailures = 1

\* Whenever the applications pause, all they have written is received, and
\* every heartbeat has come back to the session to restart its timer, unless
\* the connection is lost: nothing waits for ever behind other writes at
\* either end.  A client whose write met a failed connection attempt has
\* stopped writing, and with it echoing.
Settles == []<>(Settled \/ Lost)

=============================================================================
