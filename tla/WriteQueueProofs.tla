-------------------------- MODULE WriteQueueProofs --------------------------
(***************************************************************************)
(* Lemmas about the operators of WriteQueue, for the proofs about its two  *)
(* users.                                                                  *)
(***************************************************************************)
EXTENDS WriteQueue, SequenceTheorems, TLAPS

-----------------------------------------------------------------------------
(* The operators of the write side.                                        *)

\* A write side as SingleWrite wants it.
Orderly(s) ==
  /\ s.queue \in Seq(Items) /\ s.ops \in Seq(Ops)
  /\ Len(s.ops) <= 1
  /\ s.ops # <<>> => s.queue # <<>> /\ s.ops[1].item = Head(s.queue)

\* Nobody is writing a queue that is not empty.
Idle(s) == s.queue # <<>> /\ s.ops = <<>>

\* n calls of write() add n numbered items.
LEMMA NewItemsSeq ==
  ASSUME NEW k \in Nat, NEW n \in Nat, NEW by \in {"app", "heartbeat"}
  PROVE  /\ NewItems(k, n, by) \in Seq(Items)
         /\ Len(NewItems(k, n, by)) = n
         /\ \A i \in 1..n : NewItems(k, n, by)[i].id = k + i
         /\ (n = 0) <=> (NewItems(k, n, by) = <<>>)
<1>1. NewItems(k, n, by) \in [1..n -> Items]
  BY DEF NewItems, Items
<1>2. NewItems(k, n, by) \in Seq(Items) /\ Len(NewItems(k, n, by)) = n
  BY <1>1
<1>3. \A i \in 1..n : NewItems(k, n, by)[i].id = k + i
  BY DEF NewItems
<1> QED
  BY <1>2, <1>3, EmptySeq

\* Calls of write() append to the queue, keep a write in flight, start one
\* only for the first item of an empty queue, and strand nothing.
LEMMA WriteOrderly ==
  ASSUME NEW s \in [queue : Seq(Items), ops : Seq(Ops)], Orderly(s),
         NEW items \in Seq(Items)
  PROVE  /\ Orderly(Write(s, items))
         /\ Write(s, items) \in [queue : Seq(Items), ops : Seq(Ops)]
         /\ Write(s, items).queue = s.queue \o items
         /\ s.queue # <<>> \/ items = <<>> => Write(s, items).ops = s.ops
         /\ s.queue = <<>> /\ items # <<>> =>
              Write(s, items).ops = <<AsyncWrite(Head(items))>>
         /\ Idle(Write(s, items)) <=> Idle(s)
<1> DEFINE queue == s.queue \o items
<1>1. /\ queue \in Seq(Items)
      /\ Len(queue) = Len(s.queue) + Len(items)
      /\ s.queue # <<>> => Head(queue) = Head(s.queue) /\ queue # <<>>
      /\ s.queue = <<>> => queue = items
      /\ items = <<>> => queue = s.queue
  BY ConcatProperties, EmptySeq, ConcatEmptySeq
<1>2. CASE s.queue # <<>> \/ items = <<>>
  <2>1. Write(s, items) = [queue |-> queue, ops |-> s.ops]
    BY <1>2 DEF Write
  <2> QED
    BY <2>1, <1>1, <1>2 DEF Orderly, Idle
<1>3. CASE s.queue = <<>> /\ items # <<>>
  <2>1. s.ops = <<>>
    BY <1>3 DEF Orderly
  <2>2. Write(s, items) = [queue |-> items, ops |-> <<AsyncWrite(Head(items))>>]
    BY <1>1, <1>3, <2>1 DEF Write
  <2>3. Head(items) \in Items
    BY <1>3
  <2>4. AsyncWrite(Head(items)) \in Ops /\ AsyncWrite(Head(items)).item = Head(items)
    BY <2>3 DEF AsyncWrite, Ops
  <2> QED
    BY <2>1, <2>2, <2>4, <1>1, <1>3 DEF Orderly, Idle
<1> QED
  BY <1>2, <1>3

\* A queue whose front alone is being written.
LEMMA OneOp ==
  ASSUME NEW q \in Seq(Items), q # <<>>,
         NEW s, s = [queue |-> q, ops |-> <<AsyncWrite(Head(q))>>]
  PROVE  /\ Orderly(s) /\ ~Idle(s)
         /\ s.queue = q
         /\ \A i \in 1..Len(s.ops) : s.ops[i].st = "sending"
<1>1. Head(q) \in Items
  OBVIOUS
<1>2. ASSUME NEW o \in Ops
      PROVE  <<o>> \in Seq(Ops) /\ Len(<<o>>) = 1 /\ <<o>> # <<>> /\ <<o>>[1] = o
  OBVIOUS
<1>3. /\ AsyncWrite(Head(q)) \in Ops /\ AsyncWrite(Head(q)).item = Head(q)
      /\ AsyncWrite(Head(q)).st = "sending"
  BY <1>1 DEF AsyncWrite, Ops
<1>4. /\ s.ops \in Seq(Ops) /\ Len(s.ops) = 1 /\ s.ops # <<>>
      /\ s.ops[1] = AsyncWrite(Head(q)) /\ s.queue = q
  BY <1>2, <1>3
<1> QED
  BY <1>3, <1>4 DEF Orderly, Idle

\* After a successful write the front has left, the queue and the calls of
\* the callback remain, and nothing is stranded.
LEMMA CompletedOrderly ==
  ASSUME NEW s \in [queue : Seq(Items), ops : Seq(Ops)],
         s.queue # <<>>, s.ops = <<>>,
         NEW items \in Seq(Items)
  PROVE  /\ Orderly(Completed(s, items))
         /\ Completed(s, items).queue = Tail(s.queue \o items)
         /\ ~Idle(Completed(s, items))
         /\ \A i \in 1..Len(Completed(s, items).ops) :
              Completed(s, items).ops[i].st = "sending"
<1> DEFINE queue == s.queue \o items
           rest == Tail(queue)
<1>1. queue \in Seq(Items) /\ queue # <<>>
  BY ConcatProperties, EmptySeq
<1>2. Write(s, items) = [queue |-> queue, ops |-> <<>>]
  BY DEF Write
<1>3. rest \in Seq(Items)
  BY <1>1, HeadTailProperties
<1>6. Completed(s, items) = PopFront([queue |-> queue, ops |-> <<>>])
  BY <1>2 DEF Completed
<1>4. CASE rest = <<>>
  <2>1. Completed(s, items) = [queue |-> rest, ops |-> <<>>]
    BY <1>6, <1>4 DEF PopFront
  <2> QED
    BY <2>1, <1>4, <1>3 DEF Orderly, Idle
<1>5. CASE rest # <<>>
  <2>1. Completed(s, items) = [queue |-> rest, ops |-> <<AsyncWrite(Head(rest))>>]
    <3> DEFINE w == [queue |-> queue, ops |-> <<>>]
    <3>1. w.queue = queue /\ w.ops = <<>>
      OBVIOUS
    <3>2. PopFront(w) = [queue |-> rest, ops |-> Append(<<>>, AsyncWrite(Head(rest)))]
      BY <3>1, <1>5 DEF PopFront
    <3>3. Append(<<>>, AsyncWrite(Head(rest))) = <<AsyncWrite(Head(rest))>>
      OBVIOUS
    <3> QED
      BY <1>6, <3>2, <3>3
  <2> QED
    BY <2>1, <1>5, <1>3, OneOp, ZenonT(60)
<1> QED
  BY <1>4, <1>5

\* With one write in flight, its handler finds the socket idle.
LEMMA RemoveOnly ==
  ASSUME NEW ops \in Seq(Ops), Len(ops) <= 1, NEW i \in DOMAIN ops
  PROVE  i = 1 /\ Len(ops) = 1 /\ Remove(ops, i) = <<>>
<1>1. DOMAIN ops = 1..Len(ops)
  BY LenProperties
<1>2. i = 1 /\ Len(ops) = 1
  BY <1>1, LenProperties
<1>3. SubSeq(ops, 1, 0) = <<>> /\ SubSeq(ops, 2, 1) = <<>>
  BY SubSeqEmpty
<1> QED
  BY <1>2, <1>3, ConcatEmptySeq DEF Remove

\* The only element of a sequence is replaced.
LEMMA ReplaceOnly ==
  ASSUME NEW w \in Seq(Ops), Len(w) = 1, NEW o \in Ops
  PROVE  /\ [w EXCEPT ![1] = o] \in Seq(Ops) /\ Len([w EXCEPT ![1] = o]) = 1
         /\ [w EXCEPT ![1] = o][1] = o
BY Z3

\* An operation in flight ends.
LEMMA OpEnds ==
  ASSUME NEW w \in Seq(Ops), Len(w) = 1, NEW st \in {"sent", "failed"},
         NEW v, v = [w EXCEPT ![1].st = st]
  PROVE  /\ w[1].item \in Items
         /\ v \in Seq(Ops) /\ Len(v) = 1 /\ v # <<>>
         /\ v[1].item = w[1].item /\ v[1].st = st
<1>1. 1 \in 1..Len(w)
  OBVIOUS
<1>2. w[1] \in Ops
  BY <1>1, ElementOfSeq
<1> DEFINE op == [w[1] EXCEPT !.st = st]
<1>3. op \in Ops /\ op.item = w[1].item /\ op.st = st /\ w[1].item \in Items
  BY <1>2 DEF Ops
<1>4. v = [w EXCEPT ![1] = op]
  OBVIOUS
<1>5. v \in Seq(Ops) /\ Len(v) = 1 /\ v[1] = op
  BY <1>3, <1>4, ReplaceOnly
<1> QED
  BY <1>3, <1>5

-----------------------------------------------------------------------------
(* Numbered logs.                                                          *)

\* ConcatAssociative for messages, as its users need it.
LEMMA Regroup ==
  ASSUME NEW c \in Seq(Items), NEW q \in Seq(Items), NEW r \in Seq(Items)
  PROVE  (c \o q) \o r = c \o (q \o r)
BY Z3

\* Appending the next numbers keeps a log numbered, and extends it.
LEMMA NumberedConcat ==
  ASSUME NEW log \in Seq(Items), Numbered(log),
         NEW items \in Seq(Items),
         \A i \in 1..Len(items) : items[i].id = Len(log) + i
  PROVE  /\ Numbered(log \o items)
         /\ Len(log \o items) = Len(log) + Len(items)
         /\ log \o items \in Seq(Items)
         /\ \A i \in 1..Len(log) : (log \o items)[i] = log[i]
<1>1. /\ log \o items \in Seq(Items)
      /\ Len(log \o items) = Len(log) + Len(items)
      /\ \A i \in 1..Len(log) + Len(items) :
           (log \o items)[i] = IF i <= Len(log) THEN log[i] ELSE items[i - Len(log)]
  BY ConcatProperties
<1>2. Len(log) \in Nat /\ Len(items) \in Nat
  BY LenProperties
<1>3. ASSUME NEW i \in 1..Len(log) + Len(items)
      PROVE  (log \o items)[i].id = i
  <2>1. CASE i <= Len(log)
    BY <1>1, <1>2, <2>1 DEF Numbered
  <2>2. CASE ~(i <= Len(log))
    <3>1. i - Len(log) \in 1..Len(items)
      BY <1>2, <2>2
    <3>2. (log \o items)[i] = items[i - Len(log)]
      BY <1>1, <2>2
    <3>3. items[i - Len(log)].id = Len(log) + (i - Len(log))
      BY <3>1
    <3> QED
      BY <1>2, <3>2, <3>3
  <2> QED
    BY <2>1, <2>2
<1> QED
  BY <1>1, <1>2, <1>3 DEF Numbered

\* Moving the front of the queue to the end of what was called leaves the
\* log as it is.
LEMMA MoveFront ==
  ASSUME NEW c \in Seq(Items), NEW q \in Seq(Items), q # <<>>
  PROVE  Append(c, Head(q)) \o Tail(q) = c \o q
<1>1. /\ Head(q) \in Items /\ Tail(q) \in Seq(Items)
      /\ Len(Tail(q)) = Len(q) - 1
      /\ \A i \in 1..Len(Tail(q)) : Tail(q)[i] = q[i + 1]
      /\ Len(q) \in Nat \ {0}
  BY HeadTailProperties, EmptySeq
<1>2. /\ Append(c, Head(q)) \in Seq(Items)
      /\ Len(Append(c, Head(q))) = Len(c) + 1
      /\ \A i \in 1..Len(c) : Append(c, Head(q))[i] = c[i]
      /\ Append(c, Head(q))[Len(c) + 1] = q[1]
  BY <1>1, AppendProperties
<1>3. Len(c) \in Nat
  BY LenProperties
<1> DEFINE l == Append(c, Head(q)) \o Tail(q)
           r == c \o q
<1>4. /\ l \in Seq(Items) /\ Len(l) = Len(c) + 1 + Len(Tail(q))
      /\ \A i \in 1..Len(c) + 1 + Len(Tail(q)) :
           l[i] = IF i <= Len(c) + 1 THEN Append(c, Head(q))[i] ELSE Tail(q)[i - (Len(c) + 1)]
  BY <1>1, <1>2, ConcatProperties
<1>5. /\ r \in Seq(Items) /\ Len(r) = Len(c) + Len(q)
      /\ \A i \in 1..Len(c) + Len(q) : r[i] = IF i <= Len(c) THEN c[i] ELSE q[i - Len(c)]
  BY ConcatProperties
<1>6. ASSUME NEW i \in 1..Len(l) PROVE l[i] = r[i]
  <2>1. CASE i <= Len(c)
    BY <1>1, <1>2, <1>3, <1>4, <1>5, <2>1
  <2>2. CASE i = Len(c) + 1
    BY <1>1, <1>2, <1>3, <1>4, <1>5, <2>2
  <2>3. CASE i > Len(c) + 1
    <3>1. /\ l[i] = Tail(q)[i - (Len(c) + 1)]
          /\ r[i] = q[i - Len(c)]
          /\ i - (Len(c) + 1) \in 1..Len(Tail(q))
      BY <1>1, <1>3, <1>4, <1>5, <2>3
    <3> QED
      BY <1>1, <1>3, <3>1
  <2> QED
    BY <1>3, <1>4, <2>1, <2>2, <2>3
<1>7. Len(l) = Len(r)
  BY <1>1, <1>3, <1>4, <1>5
<1> QED
  BY <1>4, <1>5, <1>6, <1>7, SeqEqual

=============================================================================
