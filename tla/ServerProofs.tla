---------------------------- MODULE ServerProofs ----------------------------
(***************************************************************************)
(* The registry of Server, for any number of sessions, descriptors,        *)
(* connections and failures.                                               *)
(***************************************************************************)
EXTENDS Server, FiniteSetTheorems, TLAPS

\* At most one accept is outstanding, and none before start().
OneAccept ==
  /\ accepts = {} \/ \E a : accepts = {a}
  /\ ~started => accepts = {}

Answered(operations) == Cardinality({a \in operations : a.st = "accepted"})

\* The types that Cardinality plays no part in.
Types ==
  /\ started \in BOOLEAN
  /\ accepts \subseteq [session : Sessions, st : {"waiting", "accepted", "failed"}]
  /\ currentSessionId \in Nat
  /\ DOMAIN sessionMap = 0..currentSessionId - 1
  /\ \A id \in DOMAIN sessionMap : sessionMap[id] \in Sessions
  /\ DOMAIN working \subseteq Sessions
  /\ working = [s \in DOMAIN working |-> working[s]]
  /\ \A s \in DOMAIN working : working[s] \subseteq {"read", "write"}
  /\ backlog \in Nat /\ arrived \in 0..MaxConnections
  /\ failures \in 0..MaxFailures
  /\ events \in Seq([id : {"ReceiveMessageEvent", "ConnectionCloseEvent"}, session : Sessions])

\* A session has one id, and the registry is what was started.
Exact ==
  /\ \A i, j \in DOMAIN sessionMap : sessionMap[i] = sessionMap[j] => i = j
  /\ Registered = DOMAIN working
  /\ \A a \in accepts : a.session \notin Registered
  /\ \A n \in 1..Len(events) : events[n].session \in Registered

\* Every connection is somewhere.
Counted == arrived = backlog + currentSessionId + Answered(accepts)

IInv == Types /\ OneAccept /\ Exact /\ Counted

-----------------------------------------------------------------------------
(* The outstanding operation.                                              *)

\* How many connections the outstanding operation holds.
LEMMA AnsweredIs ==
  /\ Answered({}) = 0
  /\ \A a : Answered({a}) = IF a.st = "accepted" THEN 1 ELSE 0
<1>1. Cardinality({}) = 0
  BY FS_EmptySet
<1>2. {a \in {} : a.st = "accepted"} = {}
  OBVIOUS
<1>3. ASSUME NEW a PROVE Answered({a}) = IF a.st = "accepted" THEN 1 ELSE 0
  <2>1. CASE a.st = "accepted"
    <3>1. {b \in {a} : b.st = "accepted"} = {a}
      BY <2>1
    <3> QED BY <2>1, <3>1, FS_Singleton DEF Answered
  <2>2. CASE a.st # "accepted"
    <3>1. {b \in {a} : b.st = "accepted"} = {}
      BY <2>2
    <3> QED BY <2>2, <3>1, <1>1 DEF Answered
  <2> QED BY <2>1, <2>2
<1> QED BY <1>1, <1>2, <1>3 DEF Answered

LEMMA AnsweredNat == ASSUME OneAccept PROVE Answered(accepts) \in Nat
<1>1. CASE accepts = {}
  BY <1>1, AnsweredIs
<1>2. CASE \E a : accepts = {a}
  <2>1. PICK a : accepts = {a}
    BY <1>2
  <2>2. Answered({a}) \in Nat
    BY AnsweredIs
  <2> QED BY <2>1, <2>2
<1> QED BY <1>1, <1>2 DEF OneAccept

\* accept(), called when no other operation is left, makes the only one; its
\* session is new, and is not the registry's nor a started one's.
LEMMA AcceptMakesOne ==
  ASSUME Accept({})
  PROVE  \E s \in Sessions :
           /\ accepts' = {AsyncAccept(s)}
           /\ s \notin Registered
           /\ \A a \in accepts : s # a.session
           /\ Answered(accepts') = 0
<1>1. PICK s \in Sessions \ Alive : accepts' = {} \cup {AsyncAccept(s)}
  BY DEF Accept
<1>2. accepts' = {AsyncAccept(s)}
  BY <1>1
<1>3. s \notin Registered /\ \A a \in accepts : s # a.session
  BY <1>1 DEF Alive
<1>4. Answered(accepts') = 0
  BY <1>2, AnsweredIs DEF AsyncAccept
<1> QED BY <1>1, <1>2, <1>3, <1>4

-----------------------------------------------------------------------------
(* The initial state and the steps.                                        *)

LEMMA InitIInv == Init => IInv
<1> SUFFICES ASSUME Init PROVE IInv
  OBVIOUS
<1> USE DEF Init
<1>1. Types
  <2>1. DOMAIN sessionMap = 0..currentSessionId - 1 /\ DOMAIN sessionMap = {}
    OBVIOUS
  <2>2. DOMAIN working = {} /\ working = [s \in DOMAIN working |-> working[s]]
    OBVIOUS
  <2>3. events \in Seq([id : {"ReceiveMessageEvent", "ConnectionCloseEvent"}, session : Sessions])
    OBVIOUS
  <2>4. arrived \in 0..MaxConnections /\ failures \in 0..MaxFailures
    BY ServerAssumption
  <2> QED BY <2>1, <2>2, <2>3, <2>4 DEF Types
<1>2. OneAccept
  BY DEF OneAccept
<1>3. Exact
  BY DEF Exact, Registered
<1>4. Counted
  BY AnsweredIs DEF Counted
<1> QED BY <1>1, <1>2, <1>3, <1>4 DEF IInv

\* An accept that failed changes nothing but the operation.
LEMMA HandleFailedKeeps ==
  ASSUME IInv, NEW a \in accepts, AcceptFailed(a), HandleAccept(a)
  PROVE  IInv'
<1>1. accepts = {a} /\ started
  BY DEF IInv, OneAccept, Types
<1>2. accepts \ {a} = {}
  BY <1>1
<1>3. PICK s \in Sessions : /\ accepts' = {AsyncAccept(s)} /\ s \notin Registered
                            /\ Answered(accepts') = 0
  BY <1>2, AcceptMakesOne DEF HandleAccept, AcceptNext
<1>4. Answered(accepts) = 0
  BY <1>1, AnsweredIs DEF AcceptFailed
<1>5. UNCHANGED <<started, backlog, arrived, failures, events, sessionMap,
                  currentSessionId, working>>
  BY DEF HandleAccept, AcceptFailed
<1>6. Types'
  BY <1>3, <1>5 DEF IInv, Types, AsyncAccept
<1>7. OneAccept'
  BY <1>1, <1>3, <1>5 DEF OneAccept
<1>8. Exact'
  BY <1>3, <1>5 DEF IInv, Exact, Registered, AsyncAccept
<1>9. Counted'
  BY <1>3, <1>4, <1>5 DEF IInv, Counted
<1> QED BY <1>6, <1>7, <1>8, <1>9 DEF IInv

\* An accept that succeeded puts its session under the next id.
LEMMA HandleAcceptedKeeps ==
  ASSUME IInv, NEW a \in accepts, Accepted(a), HandleAccept(a)
  PROVE  IInv'
<1>1. /\ accepts = {a} /\ started /\ a.st = "accepted"
      /\ a.session \in Sessions /\ a.session \notin Registered
  BY DEF IInv, OneAccept, Types, Exact, Accepted
<1>2. accepts \ {a} = {}
  BY <1>1
<1>3. PICK s \in Sessions : /\ accepts' = {AsyncAccept(s)} /\ s \notin Registered
                            /\ s # a.session /\ Answered(accepts') = 0
  BY <1>2, AcceptMakesOne DEF HandleAccept, AcceptNext
<1>4. Answered(accepts) = 1
  BY <1>1, AnsweredIs
<1>5. /\ UNCHANGED <<started, backlog, arrived, failures, events>>
      /\ currentSessionId' = currentSessionId + 1
  BY <1>1 DEF HandleAccept, Accepted, AcceptFailed
<1>6. currentSessionId \in Nat /\ DOMAIN sessionMap = 0..currentSessionId - 1
  BY DEF IInv, Types
<1>7. /\ DOMAIN sessionMap' = 0..currentSessionId
      /\ sessionMap'[currentSessionId] = a.session
      /\ \A i \in DOMAIN sessionMap : sessionMap'[i] = sessionMap[i]
  BY <1>6 DEF Accepted, AddSession
<1>8. Registered' = Registered \cup {a.session}
  BY <1>6, <1>7 DEF Registered
<1>9. working' = [t \in DOMAIN working \cup {a.session} |->
                    IF t = a.session THEN {"read", "write"} ELSE working[t]]
  BY DEF Accepted, StartSession
<1>10. Types'
  <2>1. /\ DOMAIN sessionMap' = 0..currentSessionId' - 1 /\ currentSessionId' \in Nat
        /\ \A id \in DOMAIN sessionMap' : sessionMap'[id] \in Sessions
    BY <1>1, <1>5, <1>6, <1>7 DEF IInv, Types
  <2>2. /\ DOMAIN working' \subseteq Sessions
        /\ working' = [t \in DOMAIN working' |-> working'[t]]
        /\ \A t \in DOMAIN working' : working'[t] \subseteq {"read", "write"}
    BY <1>1, <1>9 DEF IInv, Types
  <2>3. accepts' \subseteq [session : Sessions, st : {"waiting", "accepted", "failed"}]
    BY <1>3 DEF AsyncAccept
  <2> QED BY <1>5, <2>1, <2>2, <2>3 DEF IInv, Types
<1>11. OneAccept'
  BY <1>1, <1>3, <1>5 DEF OneAccept
<1>12. Exact'
  <2>1. \A i, j \in DOMAIN sessionMap' : sessionMap'[i] = sessionMap'[j] => i = j
    BY <1>1, <1>6, <1>7 DEF IInv, Exact, Registered
  <2>2. Registered' = DOMAIN working'
    BY <1>8, <1>9 DEF IInv, Exact
  <2>3. \A b \in accepts' : b.session \notin Registered'
    BY <1>3, <1>8 DEF AsyncAccept
  <2>4. \A n \in 1..Len(events') : events'[n].session \in Registered'
    BY <1>5, <1>8 DEF IInv, Exact
  <2> QED BY <2>1, <2>2, <2>3, <2>4 DEF Exact
<1>13. Counted'
  BY <1>3, <1>4, <1>5, <1>6 DEF IInv, Counted, Types
<1> QED BY <1>10, <1>11, <1>12, <1>13 DEF IInv

\* An event is of a session that is started, and so registered.
LEMMA DispatchKeeps ==
  ASSUME IInv, NEW s \in DOMAIN working,
         NEW id \in {"ReceiveMessageEvent", "ConnectionCloseEvent"},
         Dispatch([id |-> id, session |-> s])
  PROVE  /\ events' \in Seq([id : {"ReceiveMessageEvent", "ConnectionCloseEvent"},
                             session : Sessions])
         /\ \A n \in 1..Len(events') : events'[n].session \in Registered
<1> DEFINE event == [id |-> id, session |-> s]
           Events == [id : {"ReceiveMessageEvent", "ConnectionCloseEvent"}, session : Sessions]
<1>1. event \in Events /\ events \in Seq(Events) /\ s \in Registered
  BY DEF IInv, Types, Exact
<1>2. events' = Append(events, event)
  BY DEF Dispatch
<1>3. Len(events') = Len(events) + 1 /\ events' \in Seq(Events)
  BY <1>1, <1>2
<1>4. ASSUME NEW n \in 1..Len(events') PROVE events'[n].session \in Registered
  <2>1. CASE n = Len(events) + 1
    BY <1>1, <1>2, <2>1
  <2>2. CASE n # Len(events) + 1
    <3>1. n \in 1..Len(events) /\ events'[n] = events[n]
      BY <1>1, <1>2, <1>3, <2>2
    <3> QED BY <3>1 DEF IInv, Exact
  <2> QED BY <2>1, <2>2
<1> QED BY <1>3, <1>4

-----------------------------------------------------------------------------
(* The invariant.                                                          *)

LEMMA StepIInv == IInv /\ [Next]_vars => IInv'
<1> SUFFICES ASSUME IInv, [Next]_vars PROVE IInv'
  OBVIOUS
<1>1. CASE Start
  <2>1. accepts = {}
    BY <1>1 DEF Start, IInv, OneAccept
  <2>2. PICK s \in Sessions : /\ accepts' = {AsyncAccept(s)} /\ s \notin Registered
                              /\ Answered(accepts') = 0
    BY <1>1, AcceptMakesOne DEF Start
  <2>3. Answered(accepts) = 0
    BY <2>1, AnsweredIs
  <2>4. Types'
    BY <1>1, <2>2 DEF IInv, Types, Start, AsyncAccept
  <2>5. OneAccept'
    BY <1>1, <2>2 DEF OneAccept, Start
  <2>6. Exact'
    BY <1>1, <2>2 DEF IInv, Exact, Registered, Start, AsyncAccept
  <2>7. Counted'
    BY <1>1, <2>2, <2>3 DEF IInv, Counted, Start
  <2> QED BY <2>4, <2>5, <2>6, <2>7 DEF IInv
<1>2. CASE Arrives
  <2>1. Types'
    BY <1>2, ServerAssumption DEF IInv, Types, Arrives
  <2>2. OneAccept' /\ Exact'
    BY <1>2 DEF IInv, OneAccept, Exact, Registered, Arrives
  <2>3. accepts' = accepts
    BY <1>2 DEF Arrives
  <2>4. Counted'
    BY <1>2, <2>3, AnsweredNat DEF IInv, Types, Counted, Arrives
  <2> QED BY <2>1, <2>2, <2>4 DEF IInv
<1>3. ASSUME NEW a \in accepts, HandleAccept(a) PROVE IInv'
  BY <1>3, HandleAcceptedKeeps, HandleFailedKeeps DEF HandleAccept
<1>4. ASSUME NEW a \in accepts, AcceptSucceeds(a) PROVE IInv'
  <2>1. /\ accepts = {a} /\ started /\ a.st = "waiting"
        /\ a \in [session : Sessions, st : {"waiting", "accepted", "failed"}]
    BY <1>4 DEF AcceptSucceeds, IInv, OneAccept, Types
  <2>2. PICK b : /\ accepts' = {b} /\ b.session = a.session /\ b.st = "accepted"
                 /\ b \in [session : Sessions, st : {"waiting", "accepted", "failed"}]
    <3>1. accepts' = {[a EXCEPT !.st = "accepted"]}
      BY <1>4, <2>1 DEF AcceptSucceeds, Ends
    <3>2. [a EXCEPT !.st = "accepted"].session = a.session /\ [a EXCEPT !.st = "accepted"].st = "accepted"
      BY <2>1
    <3>3. [a EXCEPT !.st = "accepted"] \in [session : Sessions, st : {"waiting", "accepted", "failed"}]
      BY <2>1
    <3> QED BY <3>1, <3>2, <3>3
  <2>3. Answered(accepts) = 0 /\ Answered(accepts') = 1
    BY <2>1, <2>2, AnsweredIs
  <2>4. Types'
    BY <1>4, <2>2 DEF IInv, Types, AcceptSucceeds
  <2>5. OneAccept'
    BY <1>4, <2>1, <2>2 DEF OneAccept, AcceptSucceeds
  <2>6. Exact'
    BY <1>4, <2>2 DEF IInv, Exact, Registered, AcceptSucceeds
  <2>7. Counted'
    BY <1>4, <2>3 DEF IInv, Types, Counted, AcceptSucceeds
  <2> QED BY <2>4, <2>5, <2>6, <2>7 DEF IInv
<1>5. ASSUME NEW a \in accepts, AcceptFails(a) PROVE IInv'
  <2>1. /\ accepts = {a} /\ started /\ a.st = "waiting"
        /\ a \in [session : Sessions, st : {"waiting", "accepted", "failed"}]
    BY <1>5 DEF AcceptFails, IInv, OneAccept, Types
  <2>2. PICK b : /\ accepts' = {b} /\ b.session = a.session /\ b.st = "failed"
                 /\ b \in [session : Sessions, st : {"waiting", "accepted", "failed"}]
    <3>1. accepts' = {[a EXCEPT !.st = "failed"]}
      BY <1>5, <2>1 DEF AcceptFails, Ends
    <3>2. [a EXCEPT !.st = "failed"].session = a.session /\ [a EXCEPT !.st = "failed"].st = "failed"
      BY <2>1
    <3>3. [a EXCEPT !.st = "failed"] \in [session : Sessions, st : {"waiting", "accepted", "failed"}]
      BY <2>1
    <3> QED BY <3>1, <3>2, <3>3
  <2>3. Answered(accepts) = 0 /\ Answered(accepts') = 0
    BY <2>1, <2>2, AnsweredIs
  <2>4. failures' \in 0..MaxFailures
    BY <1>5, ServerAssumption DEF AcceptFails, IInv, Types
  <2>5. Types'
    BY <1>5, <2>2, <2>4 DEF IInv, Types, AcceptFails
  <2>6. OneAccept'
    BY <1>5, <2>1, <2>2 DEF OneAccept, AcceptFails
  <2>7. Exact'
    BY <1>5, <2>2 DEF IInv, Exact, Registered, AcceptFails
  <2>8. Counted'
    BY <1>5, <2>3 DEF IInv, Types, Counted, AcceptFails
  <2> QED BY <2>5, <2>6, <2>7, <2>8 DEF IInv
<1>6. ASSUME NEW s \in Sessions, HandleReceiveMessage(s) PROVE IInv'
  <2>1. /\ s \in DOMAIN working /\ Dispatch([id |-> "ReceiveMessageEvent", session |-> s])
        /\ UNCHANGED <<started, accepts, currentSessionId, sessionMap, working, backlog,
                       arrived, failures>>
    BY <1>6 DEF HandleReceiveMessage, ReceiveMessageEvent
  <2>2. Types'
    BY <2>1, DispatchKeeps DEF IInv, Types
  <2>3. Registered' = Registered
    BY <2>1 DEF Registered
  <2>4. \A n \in 1..Len(events') : events'[n].session \in Registered'
    BY <2>1, <2>3, DispatchKeeps
  <2>5. Exact'
    BY <2>1, <2>3, <2>4 DEF IInv, Exact
  <2> QED BY <2>1, <2>2, <2>5 DEF IInv, OneAccept, Counted
<1>7. ASSUME NEW s \in Sessions, HandleConnectionClose(s) PROVE IInv'
  <2>1. /\ s \in DOMAIN working /\ Dispatch([id |-> "ConnectionCloseEvent", session |-> s])
        /\ UNCHANGED <<started, accepts, currentSessionId, sessionMap, backlog,
                       arrived, failures>>
    BY <1>7 DEF HandleConnectionClose, ConnectionCloseEvent
  <2>2. PICK d \in working[s] : working' = [working EXCEPT ![s] = @ \ {d}]
    BY <1>7 DEF HandleConnectionClose
  <2>3. /\ DOMAIN working' = DOMAIN working
        /\ working' = [t \in DOMAIN working' |-> working'[t]]
        /\ \A t \in DOMAIN working' : working'[t] \subseteq {"read", "write"}
    BY <2>1, <2>2 DEF IInv, Types
  <2>4. Types'
    BY <2>1, <2>3, DispatchKeeps DEF IInv, Types
  <2>5. Registered' = Registered
    BY <2>1 DEF Registered
  <2>6. \A n \in 1..Len(events') : events'[n].session \in Registered'
    BY <2>1, <2>5, DispatchKeeps
  <2>7. Exact'
    BY <2>1, <2>3, <2>5, <2>6 DEF IInv, Exact
  <2> QED BY <2>1, <2>4, <2>7 DEF IInv, OneAccept, Counted
<1>8. CASE UNCHANGED vars
  <2>1. Types' /\ OneAccept'
    BY <1>8 DEF vars, IInv, Types, OneAccept
  <2>2. Exact' /\ Counted'
    BY <1>8 DEF vars, IInv, Exact, Counted, Registered
  <2> QED BY <2>1, <2>2 DEF IInv
<1> QED BY <1>1, <1>2, <1>3, <1>4, <1>5, <1>6, <1>7, <1>8 DEF Next, Loop

\* The inductive invariant of the accept loop and the registry: types, one
\* outstanding accept, and every connection counted once.
THEOREM Invariance == Spec => []IInv
<1> QED BY InitIInv, StepIInv, PTL DEF Spec

\* The invariant bounds what TypeOK bounds.
LEMMA IInvTypeOK == IInv => TypeOK
<1> SUFFICES ASSUME IInv PROVE TypeOK
  OBVIOUS
<1>1. Cardinality(accepts) <= 1
  <2>1. CASE accepts = {}
    BY <2>1, FS_EmptySet
  <2>2. CASE \E a : accepts = {a}
    <3>1. PICK a : accepts = {a}
      BY <2>2
    <3>2. Cardinality({a}) = 1
      BY FS_Singleton
    <3> QED BY <3>1, <3>2
  <2> QED BY <2>1, <2>2 DEF IInv, OneAccept
<1>2. Answered(accepts) \in Nat
  BY AnsweredNat DEF IInv
<1>3. currentSessionId \in Ids /\ backlog \in 0..MaxConnections
  BY <1>2, ServerAssumption DEF IInv, Types, Counted, Ids
<1>4. DOMAIN sessionMap \subseteq Ids /\ Registered \subseteq Sessions
  BY <1>3 DEF IInv, Types, Ids, Registered
<1> QED BY <1>1, <1>3, <1>4 DEF IInv, Types, TypeOK

\* Types, and at most one outstanding accept: no connection is taken for a
\* session that another connection was given (Server::accept).
THEOREM TypeCorrect == Spec => []TypeOK
<1> QED BY Invariance, IInvTypeOK, PTL

\* The registry finds exactly the started sessions, ids have no gaps, and no
\* connection is lost between the backlog and the registry, however accepts
\* fail (Server::handleAccept).
THEOREM RegistryIsExact == Spec => []RegistryExact
<1>1. IInv => RegistryExact
  BY DEF IInv, Types, Exact, Counted, Answered, RegistryExact
<1> QED BY <1>1, Invariance, PTL
=============================================================================
