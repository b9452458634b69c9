--------------------------- MODULE EventBusProofs ---------------------------
(***************************************************************************)
(* The locks of EventBus do what they are for, for any number of threads,  *)
(* events, listeners and calls.                                            *)
(***************************************************************************)
EXTENDS EventBus, SequenceTheorems, TLAPS

In(l, s) == \E i \in 1..Len(s) : s[i] = l

Beginning(w, s) == Len(w) <= Len(s) /\ \A i \in 1..Len(w) : w[i] = s[i]

Types ==
  /\ pc \in [Threads -> {"idle", "test", "lock instance", "make", "lock",
                         "registered", "notify", "lock again"}]
  /\ call \in [Threads -> Calls]
  /\ notified \in [Threads -> Seq(Listeners)]
  /\ known \in [Threads -> SUBSET Listeners]
  /\ instances \in {0, 1}
  /\ listeners \in [Ids -> Seq(Listeners)]
  /\ returned \in [Ids -> SUBSET Listeners]
  /\ makerMutex \in Threads \cup {"nobody"} /\ mutex \in Threads \cup {"nobody"}
  /\ calls \in 0..MaxCalls

\* A mutex is held by the thread that is inside, and by no other.
Locks ==
  \A t \in Threads :
    /\ pc[t] = "make" <=> makerMutex = t
    /\ Notifying(t) <=> mutex = t

\* Nobody gets past instance() before there is one, and it starts empty.
MadeFirst ==
  /\ \A t \in Threads :
       pc[t] \in {"lock", "registered", "notify", "lock again"} => instances = 1
  /\ instances = 0 => listeners = [id \in Ids |-> <<>>]

\* A registration is in the list before it returns, and stays there.
Listed ==
  /\ \A t \in Threads : pc[t] = "registered" =>
       call[t].what \in Listeners /\ In(call[t].what, listeners[call[t].id])
  /\ \A id \in Ids : \A l \in returned[id] : In(l, listeners[id])
  /\ \A t \in Threads : \A l \in known[t] : In(l, listeners[call[t].id])

\* What a dispatch has notified is a beginning of the list.
Walked ==
  \A t \in Threads :
    /\ pc[t] \in {"test", "lock instance", "make", "lock"} => notified[t] = <<>>
    /\ Notifying(t) => Beginning(notified[t], Audience(t))

IInv == Types /\ Locks /\ MadeFirst /\ Listed /\ Walked

\* What a step has to show for each action property.
Still == \A t \in Threads : Notifying(t) => UNCHANGED listeners
Heard ==
  \A t \in Threads : pc[t] = "notify" /\ pc'[t] = "idle" =>
    /\ notified[t] = Audience(t)
    /\ \A l \in known[t] : \E i \in 1..Len(notified[t]) : notified[t][i] = l

Good == IInv' /\ Still /\ Heard

-----------------------------------------------------------------------------
(* The initial state, and steps that change no list.                       *)

LEMMA InitIInv == Init => IInv
<1> SUFFICES ASSUME Init PROVE IInv
  OBVIOUS
<1> USE DEF Init
<1>1. Types
  <2>1. <<>> \in Seq(Listeners)
    OBVIOUS
  <2> QED BY <2>1, EventBusAssumption DEF Types
<1>2. Locks
  BY EventBusAssumption DEF Locks, Notifying
<1>3. MadeFirst
  BY DEF MadeFirst
<1>4. Listed
  BY DEF Listed, Calls
<1>5. Walked
  BY DEF Walked, Notifying
<1> QED BY <1>1, <1>2, <1>3, <1>4, <1>5 DEF IInv

\* A listener that is added leaves those that were there.
LEMMA AppendKeeps ==
  ASSUME NEW s \in Seq(Listeners), NEW l \in Listeners
  PROVE  /\ Append(s, l) \in Seq(Listeners)
         /\ In(l, Append(s, l))
         /\ \A k : In(k, s) => In(k, Append(s, l))
<1>1. /\ Append(s, l) \in Seq(Listeners) /\ Len(Append(s, l)) = Len(s) + 1
      /\ Len(s) \in Nat
      /\ \A i \in 1..Len(s) : Append(s, l)[i] = s[i]
      /\ Append(s, l)[Len(s) + 1] = l
  BY AppendProperties, LenProperties
<1>2. In(l, Append(s, l))
  BY <1>1 DEF In
<1>3. ASSUME NEW k, In(k, s) PROVE In(k, Append(s, l))
  BY <1>1, <1>3 DEF In
<1> QED BY <1>1, <1>2, <1>3

\* A step by which t goes on from one place outside the dispatch loop to
\* another, and changes no list.
LEMMA Moves ==
  ASSUME IInv, NEW t \in Threads,
         NEW place \in {"idle", "test", "lock instance", "make", "lock", "registered"},
         Goes(t, place), UNCHANGED listeners
  PROVE  /\ pc'[t] = place /\ \A u \in Threads \ {t} : pc'[u] = pc[u]
         /\ pc' \in [Threads -> {"idle", "test", "lock instance", "make", "lock",
                                 "registered", "notify", "lock again"}]
         /\ Still
         /\ pc[t] # "notify" => Heard
<1>1. pc'[t] = place /\ \A u \in Threads \ {t} : pc'[u] = pc[u]
  BY DEF IInv, Types, Goes
<1>2. pc' \in [Threads -> {"idle", "test", "lock instance", "make", "lock",
                           "registered", "notify", "lock again"}]
  BY DEF IInv, Types, Goes
<1>3. pc[t] # "notify" => Heard
  BY <1>1 DEF Heard
<1> QED BY <1>1, <1>2, <1>3 DEF Still

LEMMA CallGood ==
  ASSUME IInv, NEW t \in Threads, Call(t)
  PROVE  Good
<1>1. PICK c \in Calls : /\ call' = [call EXCEPT ![t] = c]
                         /\ known' = [known EXCEPT ![t] = returned[c.id]]
  BY DEF Call
<1>2. /\ pc[t] = "idle" /\ Goes(t, "test")
      /\ notified' = [notified EXCEPT ![t] = <<>>]
      /\ calls < MaxCalls /\ calls' = calls + 1
      /\ UNCHANGED <<instances, listeners, returned, makerMutex, mutex>>
  BY DEF Call
<1>3. c.id \in Ids
  BY DEF Calls
<1>4. /\ pc'[t] = "test" /\ \A u \in Threads \ {t} : pc'[u] = pc[u]
      /\ pc' \in [Threads -> {"idle", "test", "lock instance", "make", "lock",
                              "registered", "notify", "lock again"}]
      /\ Still /\ Heard
  BY <1>2, Moves
<1>5. /\ call'[t] = c /\ known'[t] = returned[c.id] /\ notified'[t] = <<>>
      /\ \A u \in Threads \ {t} :
           call'[u] = call[u] /\ known'[u] = known[u] /\ notified'[u] = notified[u]
  BY <1>1, <1>2 DEF IInv, Types
<1>6. Types'
  <2>1. <<>> \in Seq(Listeners)
    OBVIOUS
  <2>2. calls' \in 0..MaxCalls
    <3>1. calls \in 0..MaxCalls /\ MaxCalls \in Nat
      BY EventBusAssumption DEF IInv, Types
    <3>2. calls < MaxCalls /\ calls' = calls + 1
      BY <1>2
    <3> QED BY <3>1, <3>2
  <2>3. known' \in [Threads -> SUBSET Listeners]
    BY <1>1, <1>3 DEF IInv, Types
  <2> QED BY <1>1, <1>2, <1>4, <2>1, <2>2, <2>3 DEF IInv, Types
<1>7. Locks'
  BY <1>2, <1>4 DEF IInv, Locks, Notifying
<1>8. MadeFirst'
  BY <1>2, <1>4 DEF IInv, MadeFirst
<1>9. Listed'
  BY <1>2, <1>3, <1>4, <1>5 DEF IInv, Listed
<1>10. Walked'
  <2>1. \A u \in Threads \ {t} : Audience(u)' = Audience(u) /\ Notifying(u)' = Notifying(u)
    BY <1>2, <1>4, <1>5 DEF Audience, Notifying
  <2>2. notified'[t] = <<>> /\ ~Notifying(t)'
    BY <1>4, <1>5 DEF Notifying
  <2>3. ASSUME NEW u \in Threads
        PROVE  /\ pc'[u] \in {"test", "lock instance", "make", "lock"} => notified'[u] = <<>>
               /\ Notifying(u)' => Beginning(notified'[u], Audience(u)')
    <3>1. CASE u = t
      BY <2>2, <3>1
    <3>2. CASE u # t
      <4>1. /\ pc'[u] = pc[u] /\ notified'[u] = notified[u]
            /\ Audience(u)' = Audience(u) /\ Notifying(u)' = Notifying(u)
        BY <1>4, <1>5, <2>1, <3>2
      <4>2. /\ pc[u] \in {"test", "lock instance", "make", "lock"} => notified[u] = <<>>
            /\ Notifying(u) => Beginning(notified[u], Audience(u))
        BY DEF IInv, Walked
      <4> QED BY <4>1, <4>2
    <3> QED BY <3>1, <3>2
  <2> QED BY <2>3 DEF Walked
<1> QED BY <1>4, <1>6, <1>7, <1>8, <1>9, <1>10 DEF Good, IInv

\* instance(): the second test is made with the lock held, and a second
\* instance never.
LEMMA InstanceGood ==
  ASSUME IInv, NEW t \in Threads, Test(t) \/ LockInstance(t) \/ MakeInstance(t)
  PROVE  Good
<1>1. /\ pc[t] \in {"test", "lock instance", "make"}
      /\ UNCHANGED <<call, notified, known, returned, mutex, calls>>
  BY DEF Test, LockInstance, MakeInstance
<1>2. UNCHANGED listeners
  BY DEF Test, LockInstance, MakeInstance, Missing, IInv, MadeFirst
<1>3. instances' \in {0, 1} /\ (instances = 1 => instances' = 1)
  <2>1. instances' = instances \/ (instances = 0 /\ instances' = instances + 1)
    BY DEF Test, LockInstance, MakeInstance, Missing
  <2>2. instances \in {0, 1}
    BY DEF IInv, Types
  <2> QED BY <2>1, <2>2
<1>4. PICK place \in {"lock instance", "make", "lock"} : Goes(t, place)
  BY DEF Test, LockInstance, MakeInstance
<1>5. /\ pc'[t] = place /\ \A u \in Threads \ {t} : pc'[u] = pc[u]
      /\ pc' \in [Threads -> {"idle", "test", "lock instance", "make", "lock",
                              "registered", "notify", "lock again"}]
      /\ Still /\ Heard
  BY <1>1, <1>2, <1>4, Moves
<1>6. place = "lock" => instances' = 1
  <2>1. instances \in {0, 1}
    BY DEF IInv, Types
  <2>2. CASE Test(t)
    BY <1>5, <2>1, <2>2 DEF Test, IInv, Types, Goes
  <2>3. CASE LockInstance(t)
    BY <1>5, <2>3 DEF LockInstance, IInv, Types, Goes
  <2>4. CASE MakeInstance(t)
    BY <2>1, <2>4 DEF MakeInstance, Missing
  <2> QED BY <2>2, <2>3, <2>4
<1>7. \A u \in Threads : pc'[u] = "make" <=> makerMutex' = u
  <2>1. CASE Test(t)
    BY <1>5, <2>1 DEF Test, IInv, Locks, Types, Goes
  <2>2. CASE LockInstance(t)
    BY <2>2, EventBusAssumption DEF LockInstance, IInv, Locks, Types, Goes
  <2>3. CASE MakeInstance(t)
    BY <2>3, EventBusAssumption DEF MakeInstance, IInv, Locks, Types, Goes
  <2> QED BY <2>1, <2>2, <2>3
<1>8. makerMutex' \in Threads \cup {"nobody"}
  BY DEF Test, LockInstance, MakeInstance, IInv, Types
<1>9. Types'
  BY <1>1, <1>2, <1>3, <1>5, <1>8 DEF IInv, Types
<1>10. Locks'
  BY <1>1, <1>5, <1>7 DEF IInv, Locks, Notifying
<1>11. MadeFirst'
  <2>1. instances' = 0 => instances = 0
    BY <1>3 DEF IInv, Types
  <2>2. ASSUME NEW u \in Threads,
               pc'[u] \in {"lock", "registered", "notify", "lock again"}
        PROVE  instances' = 1
    BY <1>3, <1>5, <1>6, <2>2 DEF IInv, MadeFirst
  <2> QED BY <1>2, <2>1, <2>2 DEF IInv, MadeFirst
<1>12. Listed'
  BY <1>1, <1>2, <1>5 DEF IInv, Listed
<1>13. Walked'
  BY <1>1, <1>2, <1>5 DEF IInv, Walked, Notifying, Audience
<1> QED BY <1>5, <1>9, <1>10, <1>11, <1>12, <1>13 DEF Good, IInv

\* registerListener() changes a list, which nobody walks over meanwhile.
LEMMA RegisterListenerGood ==
  ASSUME IInv, NEW t \in Threads, RegisterListener(t)
  PROVE  Good
<1> DEFINE id == call[t].id
           l == call[t].what
<1>1. /\ pc[t] = "lock" /\ mutex = "nobody"
      /\ listeners' = [listeners EXCEPT ![id] = Append(@, l)]
      /\ Goes(t, "registered")
      /\ UNCHANGED <<call, notified, known, instances, returned, makerMutex, mutex, calls>>
  BY DEF RegisterListener
<1>2. id \in Ids /\ l \in Listeners /\ listeners[id] \in Seq(Listeners)
  BY DEF RegisterListener, Registers, IInv, Types, Calls
<1>3. \A u \in Threads : ~Notifying(u)
  BY <1>1, EventBusAssumption DEF IInv, Locks
<1>4. /\ pc'[t] = "registered" /\ \A u \in Threads \ {t} : pc'[u] = pc[u]
      /\ pc' \in [Threads -> {"idle", "test", "lock instance", "make", "lock",
                              "registered", "notify", "lock again"}]
  BY <1>1 DEF IInv, Types, Goes
<1>5. /\ listeners'[id] = Append(listeners[id], l)
      /\ \A j \in Ids \ {id} : listeners'[j] = listeners[j]
  BY <1>1, <1>2 DEF IInv, Types
<1>6. /\ In(l, listeners'[id]) /\ listeners' \in [Ids -> Seq(Listeners)]
      /\ \A j \in Ids : \A k : In(k, listeners[j]) => In(k, listeners'[j])
  <2>1. /\ Append(listeners[id], l) \in Seq(Listeners)
        /\ In(l, Append(listeners[id], l))
        /\ \A k : In(k, listeners[id]) => In(k, Append(listeners[id], l))
    BY <1>2, AppendKeeps
  <2>2. listeners' \in [Ids -> Seq(Listeners)]
    BY <1>1, <2>1 DEF IInv, Types
  <2> QED BY <1>5, <2>1, <2>2
<1>7. \A u \in Threads : ~Notifying(u)'
  BY <1>3, <1>4 DEF Notifying
<1>8. Types'
  BY <1>1, <1>4, <1>6 DEF IInv, Types
<1>9. Locks'
  BY <1>1, <1>4 DEF IInv, Locks, Notifying
<1>10. MadeFirst'
  <2>1. instances' = 1
    BY <1>1 DEF IInv, MadeFirst
  <2> QED BY <2>1 DEF MadeFirst
<1>11. Listed'
  <2>1. \A u \in Threads : call[u].id \in Ids
    BY DEF IInv, Types, Calls
  <2>2. \A u \in Threads : pc'[u] = "registered" =>
          call'[u].what \in Listeners /\ In(call'[u].what, listeners'[call'[u].id])
    BY <1>1, <1>2, <1>4, <1>6, <2>1 DEF IInv, Listed
  <2>3. \A j \in Ids : \A k \in returned'[j] : In(k, listeners'[j])
    BY <1>1, <1>6 DEF IInv, Listed
  <2>4. \A u \in Threads : \A k \in known'[u] : In(k, listeners'[call'[u].id])
    BY <1>1, <1>6, <2>1 DEF IInv, Listed
  <2> QED BY <2>2, <2>3, <2>4 DEF Listed
<1>12. Walked'
  BY <1>1, <1>4, <1>7 DEF IInv, Walked
<1>13. Still /\ Heard
  BY <1>3 DEF Still, Heard, Notifying
<1> QED BY <1>8, <1>9, <1>10, <1>11, <1>12, <1>13 DEF Good, IInv

\* registerListener() returns.
LEMMA RegisteredGood ==
  ASSUME IInv, NEW t \in Threads, Registered(t)
  PROVE  Good
<1> DEFINE id == call[t].id
           l == call[t].what
<1>1. /\ pc[t] = "registered"
      /\ returned' = [returned EXCEPT ![id] = @ \cup {l}]
      /\ Goes(t, "idle")
      /\ UNCHANGED <<call, notified, known, instances, listeners, makerMutex, mutex, calls>>
  BY DEF Registered
<1>2. id \in Ids /\ l \in Listeners /\ In(l, listeners[id])
  BY <1>1 DEF IInv, Types, Calls, Listed
<1>3. /\ pc'[t] = "idle" /\ \A u \in Threads \ {t} : pc'[u] = pc[u]
      /\ pc' \in [Threads -> {"idle", "test", "lock instance", "make", "lock",
                              "registered", "notify", "lock again"}]
      /\ Still /\ Heard
  BY <1>1, Moves
<1>4. Types'
  BY <1>1, <1>2, <1>3 DEF IInv, Types
<1>5. Locks'
  BY <1>1, <1>3 DEF IInv, Locks, Notifying
<1>6. MadeFirst'
  BY <1>1, <1>3 DEF IInv, MadeFirst
<1>7. Listed'
  BY <1>1, <1>2, <1>3 DEF IInv, Listed, Types
<1>8. Walked'
  BY <1>1, <1>3 DEF IInv, Walked, Notifying, Audience
<1> QED BY <1>3, <1>4, <1>5, <1>6, <1>7, <1>8 DEF Good, IInv

-----------------------------------------------------------------------------
(* dispatchEvent().                                                        *)

LEMMA LockDispatchGood ==
  ASSUME IInv, NEW t \in Threads, LockDispatch(t)
  PROVE  Good
<1>1. /\ pc[t] = "lock" /\ mutex = "nobody" /\ mutex' = t
      /\ Goes(t, "notify")
      /\ UNCHANGED <<call, notified, known, instances, listeners, returned, makerMutex, calls>>
  BY DEF LockDispatch
<1>2. /\ pc'[t] = "notify" /\ \A u \in Threads \ {t} : pc'[u] = pc[u]
      /\ pc' \in [Threads -> {"idle", "test", "lock instance", "make", "lock",
                              "registered", "notify", "lock again"}]
  BY <1>1 DEF IInv, Types, Goes
<1>3. \A u \in Threads : ~Notifying(u)
  BY <1>1, EventBusAssumption DEF IInv, Locks
<1>4. Types'
  BY <1>1, <1>2 DEF IInv, Types
<1>5. Locks'
  BY <1>1, <1>2, <1>3 DEF IInv, Locks, Notifying
<1>6. MadeFirst'
  BY <1>1, <1>2 DEF IInv, MadeFirst
<1>7. Listed'
  BY <1>1, <1>2 DEF IInv, Listed
<1>8. Walked'
  <2>1. notified'[t] = <<>> /\ Audience(t)' \in Seq(Listeners)
    BY <1>1 DEF IInv, Walked, Types, Audience, Calls
  <2>2. Len(notified'[t]) = 0 /\ Len(Audience(t)') \in Nat
    BY <2>1, LenProperties
  <2>3. Beginning(notified'[t], Audience(t)')
    BY <2>2 DEF Beginning
  <2>4. \A u \in Threads \ {t} : Audience(u)' = Audience(u) /\ Notifying(u)' = Notifying(u)
    BY <1>1, <1>2 DEF Audience, Notifying
  <2>5. ASSUME NEW u \in Threads
        PROVE  /\ pc'[u] \in {"test", "lock instance", "make", "lock"} => notified'[u] = <<>>
               /\ Notifying(u)' => Beginning(notified'[u], Audience(u)')
    <3>1. CASE u = t
      BY <2>1, <2>3, <3>1
    <3>2. CASE u # t
      <4>1. /\ pc'[u] = pc[u] /\ notified'[u] = notified[u]
            /\ Audience(u)' = Audience(u) /\ Notifying(u)' = Notifying(u)
        BY <1>1, <1>2, <2>4, <3>2
      <4>2. /\ pc[u] \in {"test", "lock instance", "make", "lock"} => notified[u] = <<>>
            /\ Notifying(u) => Beginning(notified[u], Audience(u))
        BY DEF IInv, Walked
      <4> QED BY <4>1, <4>2
    <3> QED BY <3>1, <3>2
  <2> QED BY <2>5 DEF Walked
<1>9. Still /\ Heard
  BY <1>3 DEF Still, Heard, Notifying
<1> QED BY <1>4, <1>5, <1>6, <1>7, <1>8, <1>9 DEF Good, IInv

\* One more listener of the list keeps what is notified a beginning of it.
LEMMA WalkOn ==
  ASSUME NEW s \in Seq(Listeners), NEW w \in Seq(Listeners),
         Len(w) < Len(s), Beginning(w, s),
         NEW v, v = Append(w, s[Len(w) + 1])
  PROVE  v \in Seq(Listeners) /\ Beginning(v, s)
<1>1. Len(s) \in Nat /\ Len(w) \in Nat
  BY LenProperties
<1>2. s[Len(w) + 1] \in Listeners
  <2>1. Len(w) + 1 \in 1..Len(s)
    BY <1>1
  <2> QED BY <2>1, ElementOfSeq
<1>3. /\ v \in Seq(Listeners) /\ Len(v) = Len(w) + 1
      /\ \A i \in 1..Len(w) : v[i] = w[i]
      /\ v[Len(w) + 1] = s[Len(w) + 1]
  BY <1>2, AppendProperties
<1>4. ASSUME NEW i \in 1..Len(v) PROVE v[i] = s[i]
  <2>1. i \in 1..Len(w) \/ i = Len(w) + 1
    BY <1>1, <1>3
  <2> QED BY <1>3, <2>1 DEF Beginning
<1>5. Len(v) <= Len(s)
  BY <1>1, <1>3
<1> QED BY <1>3, <1>4, <1>5 DEF Beginning

LEMMA NotifyGood ==
  ASSUME IInv, NEW t \in Threads, Notify(t)
  PROVE  Good
<1> DEFINE n == Len(notified[t])
           listener == Audience(t)[n + 1]
<1>1. /\ pc[t] = "notify" /\ n < Len(Audience(t))
      /\ notified' = [notified EXCEPT ![t] = Append(@, listener)]
      /\ UNCHANGED <<call, known, instances, listeners, returned, makerMutex, mutex, calls>>
  BY DEF Notify
<1>2. PICK place \in {"notify", "lock again"} : Goes(t, place)
  BY DEF Notify
<1>3. /\ pc'[t] = place /\ \A u \in Threads \ {t} : pc'[u] = pc[u]
      /\ pc' \in [Threads -> {"idle", "test", "lock instance", "make", "lock",
                              "registered", "notify", "lock again"}]
  BY <1>2 DEF IInv, Types, Goes
<1>4. /\ notified[t] \in Seq(Listeners) /\ Audience(t) \in Seq(Listeners)
      /\ Audience(t)' = Audience(t)
  BY <1>1 DEF IInv, Types, Audience, Calls
<1>5. Beginning(notified[t], Audience(t))
  BY <1>1 DEF IInv, Walked, Notifying
<1>6. /\ notified'[t] = Append(notified[t], listener)
      /\ \A u \in Threads \ {t} : notified'[u] = notified[u]
  BY <1>1 DEF IInv, Types
<1>7. notified'[t] \in Seq(Listeners) /\ Beginning(notified'[t], Audience(t))
  <2>1. Len(notified[t]) < Len(Audience(t))
    BY <1>1
  <2> HIDE DEF n, listener
  <2>2. notified'[t] = Append(notified[t], Audience(t)[Len(notified[t]) + 1])
    BY <1>6 DEF n, listener
  <2> QED BY <1>4, <1>5, <2>1, <2>2, WalkOn
<1>8. Types'
  <2>1. notified' \in [Threads -> Seq(Listeners)]
    BY <1>1, <1>6, <1>7 DEF IInv, Types
  <2> QED BY <1>1, <1>3, <2>1 DEF IInv, Types
<1>9. Locks'
  BY <1>1, <1>3 DEF IInv, Locks, Notifying
<1>10. MadeFirst'
  BY <1>1, <1>3 DEF IInv, MadeFirst
<1>11. Listed'
  BY <1>1, <1>3 DEF IInv, Listed
<1>12. Walked'
  <2>1. pc'[t] \notin {"test", "lock instance", "make", "lock"}
    BY <1>3
  <2>2. \A u \in Threads \ {t} : Audience(u)' = Audience(u) /\ Notifying(u)' = Notifying(u)
    BY <1>1, <1>3 DEF Audience, Notifying
  <2>3. ASSUME NEW u \in Threads
        PROVE  /\ pc'[u] \in {"test", "lock instance", "make", "lock"} => notified'[u] = <<>>
               /\ Notifying(u)' => Beginning(notified'[u], Audience(u)')
    <3>1. CASE u = t
      BY <1>4, <1>7, <2>1, <3>1
    <3>2. CASE u # t
      <4>1. /\ pc'[u] = pc[u] /\ notified'[u] = notified[u]
            /\ Audience(u)' = Audience(u) /\ Notifying(u)' = Notifying(u)
        BY <1>3, <1>6, <2>2, <3>2
      <4>2. /\ pc[u] \in {"test", "lock instance", "make", "lock"} => notified[u] = <<>>
            /\ Notifying(u) => Beginning(notified[u], Audience(u))
        BY DEF IInv, Walked
      <4> QED BY <4>1, <4>2
    <3> QED BY <3>1, <3>2
  <2> QED BY <2>3 DEF Walked
<1>13. Still /\ Heard
  BY <1>1, <1>3 DEF Still, Heard
<1> QED BY <1>8, <1>9, <1>10, <1>11, <1>12, <1>13 DEF Good, IInv

LEMMA EndDispatchGood ==
  ASSUME IInv, NEW t \in Threads, EndDispatch(t)
  PROVE  Good
<1>1. /\ pc[t] = "notify" /\ Len(notified[t]) >= Len(Audience(t))
      /\ mutex' = "nobody" /\ Goes(t, "idle")
      /\ UNCHANGED <<call, notified, known, instances, listeners, returned, makerMutex, calls>>
  BY DEF EndDispatch, Unlock
<1>2. /\ pc'[t] = "idle" /\ \A u \in Threads \ {t} : pc'[u] = pc[u]
      /\ pc' \in [Threads -> {"idle", "test", "lock instance", "make", "lock",
                              "registered", "notify", "lock again"}]
      /\ Still
  BY <1>1, Moves
<1>3. \A u \in Threads \ {t} : ~Notifying(u)
  BY <1>1 DEF IInv, Locks, Notifying
<1>4. Types'
  BY <1>1, <1>2 DEF IInv, Types
<1>5. Locks'
  BY <1>1, <1>2, <1>3, EventBusAssumption DEF IInv, Locks, Notifying
<1>6. MadeFirst'
  BY <1>1, <1>2 DEF IInv, MadeFirst
<1>7. Listed'
  BY <1>1, <1>2 DEF IInv, Listed
<1>8. Walked'
  BY <1>1, <1>2, <1>3 DEF IInv, Walked, Notifying
<1>9. notified[t] = Audience(t)
  <2>1. /\ notified[t] \in Seq(Listeners) /\ Len(notified[t]) \in Nat
        /\ Audience(t) \in Seq(Listeners) /\ Len(Audience(t)) \in Nat
    BY LenProperties DEF IInv, Types, Audience, Calls
  <2>2. /\ Len(notified[t]) <= Len(Audience(t))
        /\ \A i \in 1..Len(notified[t]) : notified[t][i] = Audience(t)[i]
    BY <1>1 DEF IInv, Walked, Notifying, Beginning
  <2>3. Len(notified[t]) = Len(Audience(t))
    BY <1>1, <2>1, <2>2
  <2> QED BY <2>1, <2>2, <2>3, SeqEqual
<1>10. Heard
  <2>1. \A l \in known[t] : In(l, notified[t])
    BY <1>9 DEF IInv, Listed, Audience
  <2> QED BY <1>2, <1>9, <2>1 DEF Heard, In
<1> QED BY <1>2, <1>4, <1>5, <1>6, <1>7, <1>8, <1>10 DEF Good, IInv

-----------------------------------------------------------------------------
(* What follows for every behaviour.                                       *)

LEMMA StepGood ==
  ASSUME IInv, [Next]_vars
  PROVE  IInv' /\ [Still]_vars /\ [Heard]_vars
<1>1. CASE Next
  <2>1. PICK t \in Threads : Call(t) \/ Bus(t)
    BY <1>1 DEF Next
  <2>2. Good
    BY <2>1, CallGood, InstanceGood, RegisterListenerGood, RegisteredGood,
       LockDispatchGood, NotifyGood, EndDispatchGood DEF Bus
  <2> QED BY <2>2 DEF Good
<1>2. CASE UNCHANGED vars
  <2>1. Types' /\ Locks' /\ MadeFirst'
    BY <1>2 DEF vars, IInv, Types, Locks, Notifying, MadeFirst
  <2>2. Listed' /\ Walked'
    BY <1>2 DEF vars, IInv, Listed, Walked, Notifying, Audience
  <2> QED BY <1>2, <2>1, <2>2 DEF IInv
<1> QED BY <1>1, <1>2

\* The inductive invariant of the bus: who holds the locks, that the instance
\* comes first, and what is in the lists.
THEOREM Invariance == Spec => []IInv
<1>1. IInv /\ [Next]_vars => IInv'
  BY StepGood
<1> QED BY <1>1, InitIInv, PTL DEF Spec

\* The types, and never a second instance, in whatever order the threads meet
\* in EventBus::instance.
THEOREM TypeCorrect == Spec => []TypeOK
<1>1. IInv => TypeOK
  <2> SUFFICES ASSUME IInv PROVE TypeOK
    OBVIOUS
  <2>1. instances \in {0, 1}
    BY DEF IInv, Types
  <2>2. instances \in 0..1
    BY <2>1
  <2> QED BY <2>2 DEF IInv, Types, TypeOK
<1> QED BY <1>1, Invariance, PTL

\* No list changes while EventBus::dispatchEvent walks over it.
THEOREM ListStands == Spec => ListStandsStill
<1>1. IInv /\ [Next]_vars => [Still]_vars
  BY StepGood
<1> QED BY <1>1, Invariance, PTL DEF Spec, ListStandsStill, Still

\* A dispatch that ends has called every listener of its event once, in the
\* order of registration, each one included whose registration had returned.
THEOREM EveryDispatchIsHeard == Spec => DispatchIsHeard
<1>1. IInv /\ [Next]_vars => [Heard]_vars
  BY StepGood
<1> QED BY <1>1, Invariance, PTL DEF Spec, DispatchIsHeard, Heard
=============================================================================
