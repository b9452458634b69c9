------------------------------- MODULE Server -------------------------------
(***************************************************************************)
(* Transport::Server with its SessionManager: the accept loop, the ids and *)
(* the registry of the sessions, and the events they become.               *)
(*                                                                         *)
(* Of a session only its existence and its calls of the two callbacks are  *)
(* seen from here; the module Session has the rest of it.  One thread runs *)
(* io_service, so a handler is one atomic step.                            *)
(***************************************************************************)
EXTENDS Integers, Sequences, FiniteSets

CONSTANTS
  Sessions,       \* the Session objects; one that is gone may come again
  MaxDescriptors, \* the connections the process has descriptors for
  MaxConnections, \* bound: connections that arrive
  MaxFailures,    \* bound: accepts that fail although a descriptor is left
  MaxEvents       \* bound: no message arrives after that many events

ASSUME ServerAssumption ==
  /\ MaxDescriptors \in Nat /\ MaxConnections \in Nat
  /\ MaxFailures \in Nat /\ MaxEvents \in Nat
  /\ IsFiniteSet(Sessions)
  \* One to wait for a connection, one whose accept has just failed.
  /\ Cardinality(Sessions) > MaxDescriptors + 1

VARIABLES
  started,           \* start() has been called
  accepts,           \* the async_accept operations whose handler has not run
  currentSessionId,  \* currentSessionId_
  sessionMap,        \* sessionMap_ of sessionManager_
  working,           \* of each started session, the directions without an error
  backlog,           \* connections the kernel holds for the acceptor
  arrived,           \* every connection that has arrived
  failures,          \* accepts that have failed although a descriptor was left
  events             \* the events given to the bus

vars == <<started, accepts, currentSessionId, sessionMap, working, backlog,
          arrived, failures, events>>

Ids == 0..MaxConnections

Init ==
  /\ started = FALSE /\ accepts = {} /\ currentSessionId = 0 /\ sessionMap = <<>>
  /\ working = [s \in {} |-> {}]
  /\ backlog = 0 /\ arrived = 0 /\ failures = 0 /\ events = <<>>

-----------------------------------------------------------------------------
(* SessionManager.                                                         *)

\* std::map::insert leaves an id that is there already as it is.
AddSession(map, id, s) ==
  [i \in DOMAIN map \cup {id} |-> IF i \in DOMAIN map THEN map[i] ELSE s]

Registered == {sessionMap[id] : id \in DOMAIN sessionMap}

\* A session is kept by its accept operation, by the registry and, once it is
\* started, by the callbacks it holds, which are bound to it: so for ever.
Alive == {a.session : a \in accepts} \cup Registered \cup DOMAIN working

\* The socket of a session is closed with the session and not before.
Connected ==
  Registered \cup DOMAIN working \cup {a.session : a \in {b \in accepts : b.st = "accepted"}}
DescriptorLeft == Cardinality(Connected) < MaxDescriptors

-----------------------------------------------------------------------------
(* The accept loop.  The acceptor listens from its construction on.        *)

AsyncAccept(s) == [session |-> s, st |-> "waiting"]

\* Server::accept, called where the operations others are still to be handled.
Accept(others) ==
  \E s \in Sessions \ Alive : accepts' = others \cup {AsyncAccept(s)}

Start ==
  /\ ~started /\ started' = TRUE
  /\ Accept({})
  /\ UNCHANGED <<currentSessionId, sessionMap, working, backlog, arrived, failures, events>>

\* Session::start gives the session its callbacks and starts to read.
StartSession(s) == working' = [t \in DOMAIN working \cup {s} |->
                                 IF t = s THEN {"read", "write"} ELSE working[t]]

\* Faulty variant: the same id is given again.
AcceptedSameId(a) ==
  /\ a.st = "accepted"
  /\ sessionMap' = AddSession(sessionMap, currentSessionId, a.session)
  /\ StartSession(a.session)
  /\ UNCHANGED currentSessionId

Accepted(a) ==
  /\ a.st = "accepted"
  /\ sessionMap' = AddSession(sessionMap, currentSessionId, a.session)
  /\ currentSessionId' = currentSessionId + 1
  /\ StartSession(a.session)

AcceptFailed(a) ==
  /\ a.st = "failed"
  /\ UNCHANGED <<sessionMap, currentSessionId, working>>

\* Faulty variants: the loop ends with an error; it goes on before a
\* connection has come.
AcceptUnlessFailed(a) ==
  IF a.st = "failed" THEN accepts' = accepts \ {a} ELSE Accept(accepts \ {a})
AcceptTwice(a) ==
  \/ Accept(accepts \ {a})
  \/ \E s, t \in Sessions \ Alive : s # t /\ accepts' = {AsyncAccept(s), AsyncAccept(t)}

AcceptNext(a) == Accept(accepts \ {a})

HandleAccept(a) ==
  /\ Accepted(a) \/ AcceptFailed(a)
  /\ AcceptNext(a)
  /\ UNCHANGED <<started, backlog, arrived, failures, events>>

-----------------------------------------------------------------------------
(* The callbacks of a session.                                             *)

ReceiveMessageEvent(s)  == [id |-> "ReceiveMessageEvent", session |-> s]
ConnectionCloseEvent(s) == [id |-> "ConnectionCloseEvent", session |-> s]

Dispatch(event) == events' = Append(events, event)

HandleReceiveMessage(s) ==
  /\ s \in DOMAIN working /\ "read" \in working[s]
  /\ Len(events) < MaxEvents
  /\ Dispatch(ReceiveMessageEvent(s))
  /\ UNCHANGED <<started, accepts, currentSessionId, sessionMap, working, backlog, arrived, failures>>

\* A session calls it once for each direction that fails.  Nothing is taken
\* out of the registry.
HandleConnectionClose(s) ==
  /\ s \in DOMAIN working
  /\ \E d \in working[s] : working' = [working EXCEPT ![s] = @ \ {d}]
  /\ Dispatch(ConnectionCloseEvent(s))
  /\ UNCHANGED <<started, accepts, currentSessionId, sessionMap, backlog, arrived, failures>>

-----------------------------------------------------------------------------
(* The kernel.                                                             *)

Arrives ==
  /\ arrived < MaxConnections
  /\ arrived' = arrived + 1 /\ backlog' = backlog + 1
  /\ UNCHANGED <<started, accepts, currentSessionId, sessionMap, working, failures, events>>

Ends(a, st) == accepts' = (accepts \ {a}) \cup {[a EXCEPT !.st = st]}

AcceptSucceeds(a) ==
  /\ a.st = "waiting" /\ backlog > 0 /\ DescriptorLeft
  /\ Ends(a, "accepted")
  /\ backlog' = backlog - 1
  /\ UNCHANGED <<started, currentSessionId, sessionMap, working, arrived, failures, events>>

\* The connection stays in the backlog.  With a descriptor left it is the
\* system that is short of something, for a while.
AcceptFails(a) ==
  /\ a.st = "waiting" /\ backlog > 0
  /\ DescriptorLeft => failures < MaxFailures
  /\ failures' = IF DescriptorLeft THEN failures + 1 ELSE failures
  /\ Ends(a, "failed")
  /\ UNCHANGED <<started, currentSessionId, sessionMap, working, backlog, arrived, events>>

-----------------------------------------------------------------------------
Loop == \E a \in accepts : HandleAccept(a) \/ AcceptSucceeds(a) \/ AcceptFails(a)

Next ==
  \/ Start \/ Arrives \/ Loop
  \/ \E s \in Sessions : HandleReceiveMessage(s) \/ HandleConnectionClose(s)

Spec == Init /\ [][Next]_vars

\* io_service runs every handler that is ready, and the kernel answers an
\* accept as long as a connection waits.
FairSpec == Spec /\ WF_vars(Start) /\ WF_vars(Loop)

-----------------------------------------------------------------------------
(* Properties.                                                             *)

\* The types of the state.  At most one accept is outstanding, so that no
\* connection is taken for a session that another one has been given.
TypeOK ==
  /\ started \in BOOLEAN
  /\ accepts \subseteq [session : Sessions, st : {"waiting", "accepted", "failed"}]
  /\ Cardinality(accepts) <= 1
  /\ currentSessionId \in Ids
  /\ DOMAIN sessionMap \subseteq Ids /\ Registered \subseteq Sessions
  /\ DOMAIN working \subseteq Sessions
  /\ \A s \in DOMAIN working : working[s] \subseteq {"read", "write"}
  /\ backlog \in 0..MaxConnections /\ arrived \in 0..MaxConnections
  /\ failures \in 0..MaxFailures
  /\ events \in Seq([id : {"ReceiveMessageEvent", "ConnectionCloseEvent"}, session : Sessions])

\* The registry finds exactly the sessions that were started, each under one id
\* of its own, the ids being given without a gap however many accepts failed
\* in between; and every connection is in the backlog, with an accept whose
\* handler is to run, or in the registry, where it stays after its end.  So an
\* event is always one of a session that the registry finds.
RegistryExact ==
  /\ DOMAIN sessionMap = 0..currentSessionId - 1
  /\ \A i, j \in DOMAIN sessionMap : sessionMap[i] = sessionMap[j] => i = j
  /\ Registered = DOMAIN working
  /\ \A a \in accepts : a.session \notin Registered
  /\ arrived = backlog + currentSessionId + Cardinality({a \in accepts : a.st = "accepted"})
  /\ \A n \in 1..Len(events) : events[n].session \in Registered

\* Every connection that arrives is accepted and started, whatever fails before
\* it, unless the sessions that are kept have used up the descriptors: from then
\* on the loop fails and accepts again without end.
ConnectionsServed ==
  \A n \in 1..MaxConnections :
    arrived >= n ~> currentSessionId >= n \/ ~DescriptorLeft

=============================================================================
