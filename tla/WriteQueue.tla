----------------------------- MODULE WriteQueue -----------------------------
(***************************************************************************)
(* The discipline by which Session and Client write to their sockets, in   *)
(* the same words in both: a queue of messages with their callbacks, of    *)
(* which the front one is being written.                                   *)
(*                                                                         *)
(* A write side is a record of the queue and of the async_write operations *)
(* whose handler has not run, ops; operators map one to the next.          *)
(***************************************************************************)
EXTENDS Integers, Sequences

Items == [id : Nat, by : {"app", "heartbeat"}]
Ops   == [item : Items, st : {"sending", "sent", "failed"}]

AsyncWrite(item) == [item |-> item, st |-> "sending"]

\* n calls of write() after the first k: they take the next n numbers.
NewItems(k, n, by) == [i \in 1..n |-> [id |-> k + i, by |-> by]]

\* Faulty variants of Write: the queue is tested after push_back; the item is
\* pushed at the front.
WriteAfterPush(s, items) == [s EXCEPT !.queue = @ \o items]
WriteAtFront(s, items) ==
  LET queue == items \o s.queue
  IN  [queue |-> queue,
       ops   |-> IF s.queue = <<>> /\ items # <<>>
                 THEN Append(s.ops, AsyncWrite(Head(queue)))
                 ELSE s.ops]

\* Those calls on the write side s.  Only the first can find the queue
\* empty, and then its item is the front and is written at once.
Write(s, items) ==
  LET queue == s.queue \o items
  IN  [queue |-> queue,
       ops   |-> IF s.queue = <<>> /\ items # <<>>
                 THEN Append(s.ops, AsyncWrite(Head(queue)))
                 ELSE s.ops]

\* Faulty variants: the next item is not started; the item leaves the queue
\* before the callback runs, and whatever is then in front is started.
PopFrontOnly(s) == [s EXCEPT !.queue = Tail(@)]
CompletedAfterPop(s, items) ==
  LET w == Write(PopFrontOnly(s), items)
  IN  IF w.queue = <<>> THEN w
      ELSE [w EXCEPT !.ops = Append(@, AsyncWrite(Head(w.queue)))]

PopFront(s) ==
  LET rest == Tail(s.queue)
  IN  [queue |-> rest,
       ops   |-> IF rest # <<>> THEN Append(s.ops, AsyncWrite(Head(rest)))
                 ELSE s.ops]

\* The callback runs, and may write, before its item leaves the queue.
Completed(s, items) == PopFront(Write(s, items))

\* The operations without the i-th, whose handler runs.
Remove(ops, i) == SubSeq(ops, 1, i - 1) \o SubSeq(ops, i + 1, Len(ops))

\* The numbers of the calls, in the order of the calls.
Numbered(log) == \A i \in 1..Len(log) : log[i].id = i

=============================================================================
