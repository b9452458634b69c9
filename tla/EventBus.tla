------------------------------ MODULE EventBus ------------------------------
(***************************************************************************)
(* Processing::EventBus: threads that register listeners and dispatch      *)
(* events, the instance that the first of them makes, and the mutex that   *)
(* dispatchEvent holds while it notifies the listeners.                    *)
(***************************************************************************)
EXTENDS Naturals, Sequences

CONSTANTS
  Threads,
  Ids,        \* the ids of the events
  Listeners,
  Reentrant,  \* the listeners that use the bus from within notify()
  MaxCalls    \* bound: calls of the threads

ASSUME EventBusAssumption ==
  /\ Reentrant \subseteq Listeners /\ MaxCalls \in Nat
  /\ "nobody" \notin Threads

VARIABLES
  pc,         \* where each thread is
  call,       \* its call: a listener to register, or "dispatch", and the id
  notified,   \* the listeners its dispatch has notified
  known,      \* those whose registration had returned when it began
  instances,  \* instances made so far
  listeners,  \* listeners_ of the instance
  returned,   \* the registrations that have returned
  makerMutex, \* the thread that holds instanceMutex_
  mutex,      \* the thread that holds mutex_
  calls       \* calls so far

vars == <<pc, call, notified, known, instances, listeners, returned,
          makerMutex, mutex, calls>>

Calls == [what : Listeners \cup {"dispatch"}, id : Ids]

Init ==
  /\ pc = [t \in Threads |-> "idle"]
  /\ call \in [Threads -> {c \in Calls : c.what = "dispatch"}]
  /\ notified = [t \in Threads |-> <<>>] /\ known = [t \in Threads |-> {}]
  /\ instances = 0
  /\ listeners = [id \in Ids |-> <<>>] /\ returned = [id \in Ids |-> {}]
  /\ makerMutex = "nobody" /\ mutex = "nobody" /\ calls = 0

Goes(t, place) == pc' = [pc EXCEPT ![t] = place]

Call(t) ==
  /\ pc[t] = "idle" /\ calls < MaxCalls
  /\ \E c \in Calls :
       /\ call' = [call EXCEPT ![t] = c]
       /\ known' = [known EXCEPT ![t] = returned[c.id]]
  /\ notified' = [notified EXCEPT ![t] = <<>>]
  /\ Goes(t, "test")
  /\ calls' = calls + 1
  /\ UNCHANGED <<instances, listeners, returned, makerMutex, mutex>>

-----------------------------------------------------------------------------
(* EventBus::instance.                                                     *)

Test(t) ==
  /\ pc[t] = "test"
  /\ Goes(t, IF instances = 0 THEN "lock instance" ELSE "lock")
  /\ UNCHANGED <<call, notified, known, instances, listeners, returned,
                 makerMutex, mutex, calls>>

LockInstance(t) ==
  /\ pc[t] = "lock instance" /\ makerMutex = "nobody"
  /\ makerMutex' = t
  /\ Goes(t, "make")
  /\ UNCHANGED <<call, notified, known, instances, listeners, returned, mutex, calls>>

\* Faulty variant: the second test is missing.
AlwaysMissing == TRUE

\* The second test, with the lock held.
Missing == instances = 0

\* The new instance has no listeners; the lock goes with the guard's scope.
MakeInstance(t) ==
  /\ pc[t] = "make"
  /\ IF Missing
     THEN instances' = instances + 1 /\ listeners' = [id \in Ids |-> <<>>]
     ELSE UNCHANGED <<instances, listeners>>
  /\ makerMutex' = "nobody"
  /\ Goes(t, "lock")
  /\ UNCHANGED <<call, notified, known, returned, mutex, calls>>

-----------------------------------------------------------------------------
(* EventBus::registerListener.                                             *)

Registers(t) == call[t].what # "dispatch"

\* Faulty variant: the lock is not taken.
RegisterUnlocked(t) ==
  /\ pc[t] = "lock" /\ Registers(t)
  /\ listeners' = [listeners EXCEPT ![call[t].id] = Append(@, call[t].what)]
  /\ Goes(t, "registered")
  /\ UNCHANGED <<call, notified, known, instances, returned, makerMutex, mutex, calls>>

\* The whole body is under the lock, which is free again when the call returns.
RegisterListener(t) ==
  /\ pc[t] = "lock" /\ Registers(t) /\ mutex = "nobody"
  /\ listeners' = [listeners EXCEPT ![call[t].id] = Append(@, call[t].what)]
  /\ Goes(t, "registered")
  /\ UNCHANGED <<call, notified, known, instances, returned, makerMutex, mutex, calls>>

Registered(t) ==
  /\ pc[t] = "registered"
  /\ returned' = [returned EXCEPT ![call[t].id] = @ \cup {call[t].what}]
  /\ Goes(t, "idle")
  /\ UNCHANGED <<call, notified, known, instances, listeners, makerMutex, mutex, calls>>

-----------------------------------------------------------------------------
(* EventBus::dispatchEvent.                                                *)

Audience(t) == listeners[call[t].id]

LockDispatch(t) ==
  /\ pc[t] = "lock" /\ ~Registers(t) /\ mutex = "nobody"
  /\ mutex' = t
  /\ Goes(t, "notify")
  /\ UNCHANGED <<call, notified, known, instances, listeners, returned, makerMutex, calls>>

\* A listener that uses the bus waits for the mutex its own thread holds: no
\* step leads on from there.
Notify(t) ==
  /\ pc[t] = "notify" /\ Len(notified[t]) < Len(Audience(t))
  /\ LET listener == Audience(t)[Len(notified[t]) + 1]
     IN  /\ notified' = [notified EXCEPT ![t] = Append(@, listener)]
         /\ Goes(t, IF listener \in Reentrant THEN "lock again" ELSE "notify")
  /\ UNCHANGED <<call, known, instances, listeners, returned, makerMutex, mutex, calls>>

\* Faulty variant: the return for want of listeners leaves the mutex locked.
UnlockAfterLoop(t) == IF Audience(t) = <<>> THEN mutex' = mutex ELSE mutex' = "nobody"

Unlock(t) == mutex' = "nobody"

\* No listener is left, or there never was one.
EndDispatch(t) ==
  /\ pc[t] = "notify" /\ Len(notified[t]) >= Len(Audience(t))
  /\ Unlock(t)
  /\ Goes(t, "idle")
  /\ UNCHANGED <<call, notified, known, instances, listeners, returned, makerMutex, calls>>

-----------------------------------------------------------------------------
Bus(t) ==
  \/ Test(t) \/ LockInstance(t) \/ MakeInstance(t)
  \/ RegisterListener(t) \/ Registered(t)
  \/ LockDispatch(t) \/ Notify(t) \/ EndDispatch(t)

Next == \E t \in Threads : Call(t) \/ Bus(t)

Spec == Init /\ [][Next]_vars

\* Every thread runs on, also past a mutex for which only finitely many calls
\* compete.
FairSpec == Spec /\ \A t \in Threads : WF_vars(Bus(t))

-----------------------------------------------------------------------------
(* Properties.                                                             *)

\* The types of the state.  However the threads meet in instance(), there is
\* never a second instance.
TypeOK ==
  /\ pc \in [Threads -> {"idle", "test", "lock instance", "make", "lock",
                         "registered", "notify", "lock again"}]
  /\ call \in [Threads -> Calls]
  /\ notified \in [Threads -> Seq(Listeners)]
  /\ known \in [Threads -> SUBSET Listeners]
  /\ instances \in 0..1
  /\ listeners \in [Ids -> Seq(Listeners)]
  /\ returned \in [Ids -> SUBSET Listeners]
  /\ {makerMutex, mutex} \subseteq Threads \cup {"nobody"}
  /\ calls \in 0..MaxCalls

Notifying(t) == pc[t] \in {"notify", "lock again"}

\* The list of listeners is not changed while dispatchEvent walks over it.
ListStandsStill ==
  [][\A t \in Threads : Notifying(t) => UNCHANGED listeners]_vars

\* A dispatch ends when it has called every listener of its event in the order
\* of registration, among them each one whose registration had returned, in
\* whichever thread and also while the instance was being made.
DispatchIsHeard ==
  [][\A t \in Threads : pc[t] = "notify" /\ pc'[t] = "idle" =>
       /\ notified[t] = Audience(t)
       /\ \A l \in known[t] : \E i \in 1..Len(notified[t]) : notified[t][i] = l]_vars

\* Every call of the bus returns, unless a listener has used the bus from
\* within notify(): no other pattern of calls makes a thread wait for ever.
CallsReturn ==
  \A t \in Threads :
    pc[t] # "idle" ~> pc[t] = "idle" \/ \E u \in Threads : pc[u] = "lock again"

=============================================================================
