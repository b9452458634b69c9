---------------------------- MODULE SessionProofs ----------------------------
(***************************************************************************)
(* Proofs about Session, for every value of its constants.                 *)
(***************************************************************************)
EXTENDS Session, WriteQueueProofs

-----------------------------------------------------------------------------
(* The inductive invariant.                                                *)

\* TypeOK with any number of closes; that there are at most two follows from
\* CloseCount.
Typing ==
  /\ readOp \in {"unstarted", "header", "body", "stopped"}
  /\ messageItemQueue \in Seq(Items) /\ writing \in Seq(Ops)
  /\ timer \in [pending : Nat, expired : Nat]
  /\ closes \in Nat /\ accepted \in Nat /\ beats \in Nat
  /\ called \in Seq(Items) /\ tx \in Seq(Items)
  /\ rx \in Seq(Kinds) /\ rcvd \in 0..Len(rx) /\ delivered \in Seq(Nat)
  /\ peer \in {"open", "fin", "reset"}

\* The one message on the wire whose handler has not run.
InHandler == IF writing # <<>> /\ writing[1].st = "sent" THEN 1 ELSE 0

WriteInv ==
  /\ Orderly(WriteSide)
  /\ \A i \in 1..Len(writing) : writing[i].st = "failed" => peer = "reset"
  /\ NoLostWakeup
  /\ Conservation
  /\ Len(tx) = Len(called) + InHandler

EndInv ==
  /\ OneWait /\ HeartbeatAlive /\ CloseCount
  /\ readOp = "unstarted" => timer.pending = 0 /\ timer.expired = 0

DeliveryInv ==
  /\ DeliveredOnce
  /\ readOp = "unstarted" => rcvd = 0
  /\ readOp = "body" => rcvd > 0 /\ DecodeHeader(rx[rcvd])

IInv == Typing /\ WriteInv /\ EndInv /\ DeliveryInv

Log == called \o messageItemQueue

\* The queue's front is the next number after the calls made so far.
LEMMA WriteSideTyped ==
  ASSUME Typing, WriteInv
  PROVE  /\ WriteSide \in [queue : Seq(Items), ops : Seq(Ops)]
         /\ WriteSide.queue = messageItemQueue /\ WriteSide.ops = writing
         /\ Log \in Seq(Items) /\ Len(Log) = accepted /\ Numbered(Log)
         /\ Len(Log) = Len(called) + Len(messageItemQueue)
         /\ Idle(WriteSide) <=> Stuck
         /\ Len(writing) <= 1
         /\ writing # <<>> => messageItemQueue # <<>> /\ writing[1].item = Head(messageItemQueue)
         /\ messageItemQueue # <<>> => Head(messageItemQueue).id = Len(called) + 1
<1>1. /\ WriteSide \in [queue : Seq(Items), ops : Seq(Ops)]
      /\ WriteSide.queue = messageItemQueue /\ WriteSide.ops = writing
  BY DEF WriteSide, Typing
<1>2. Log \in Seq(Items) /\ Len(Log) = Len(called) + Len(messageItemQueue)
  BY ConcatProperties DEF Log, Typing
<1>3. Len(Log) = accepted /\ Numbered(Log)
  BY DEF WriteInv, Conservation, Numbered, Log
<1>4. Idle(WriteSide) <=> Stuck
  BY <1>1 DEF Idle, Stuck
<1>5. /\ Len(writing) <= 1
      /\ writing # <<>> => messageItemQueue # <<>> /\ writing[1].item = Head(messageItemQueue)
  BY <1>1 DEF WriteInv, Orderly
<1>6. ASSUME messageItemQueue # <<>>
      PROVE  Head(messageItemQueue).id = Len(called) + 1
  <2>1. Len(messageItemQueue) \in Nat \ {0} /\ Len(called) \in Nat
    BY <1>6, EmptySeq, LenProperties DEF Typing
  <2>2. Log[Len(called) + 1] = messageItemQueue[Len(called) + 1 - Len(called)]
    BY <2>1, ConcatProperties DEF Log, Typing
  <2>3. Log[Len(called) + 1] = Head(messageItemQueue)
    BY <2>1, <2>2, <1>6
  <2>4. Len(called) + 1 \in 1..Len(Log)
    BY <2>1, <1>2
  <2> QED
    BY <2>3, <2>4, <1>3 DEF Numbered
<1> QED
  BY <1>1, <1>2, <1>3, <1>4, <1>5, <1>6

\* n calls of write() outside a write handler.
LEMMA WritesPreserve ==
  ASSUME Typing, WriteInv, NEW n \in Nat, NEW by \in {"app", "heartbeat"},
         SetWriteSide(Write(WriteSide, NewItems(accepted, n, by)), n),
         UNCHANGED <<called, tx, peer>>
  PROVE  /\ messageItemQueue' \in Seq(Items) /\ writing' \in Seq(Ops)
         /\ accepted' \in Nat
         /\ WriteInv' /\ Stuck' = Stuck
         /\ Writer!Accept
<1> DEFINE items == NewItems(accepted, n, by)
           s == Write(WriteSide, items)
<1>1. /\ items \in Seq(Items) /\ Len(items) = n
      /\ \A i \in 1..n : items[i].id = accepted + i
  BY NewItemsSeq, ZenonT(60) DEF Typing
<1>2. /\ WriteSide \in [queue : Seq(Items), ops : Seq(Ops)]
      /\ WriteSide.queue = messageItemQueue /\ WriteSide.ops = writing
      /\ Log \in Seq(Items) /\ Len(Log) = accepted /\ Numbered(Log)
      /\ Idle(WriteSide) <=> Stuck
      /\ Len(writing) <= 1
      /\ writing # <<>> => messageItemQueue # <<>>
  BY WriteSideTyped
<1>3. /\ Orderly(s) /\ s \in [queue : Seq(Items), ops : Seq(Ops)]
      /\ s.queue = messageItemQueue \o items
      /\ messageItemQueue # <<>> \/ items = <<>> => s.ops = writing
      /\ messageItemQueue = <<>> /\ items # <<>> => s.ops = <<AsyncWrite(Head(items))>>
      /\ Idle(s) <=> Stuck
  BY <1>1, <1>2, WriteOrderly DEF WriteInv
<1>4. /\ messageItemQueue' = s.queue /\ writing' = s.ops
      /\ accepted' = accepted + n
      /\ called' = called /\ tx' = tx /\ peer' = peer
  BY DEF SetWriteSide
<1>5. WriteSide' = [queue |-> s.queue, ops |-> s.ops]
  BY <1>4 DEF WriteSide
<1>6. Orderly(WriteSide') /\ (Idle(WriteSide') <=> Stuck)
  BY <1>3, <1>5 DEF Orderly, Idle
<1>7. Stuck' = Stuck
  BY <1>3, <1>4 DEF Stuck, Idle
<1>8. Log' = Log \o items
  <2>1. Log' = called \o (messageItemQueue \o items)
    BY <1>3, <1>4 DEF Log
  <2>2. called \in Seq(Items) /\ messageItemQueue \in Seq(Items)
    BY DEF Typing
  <2>3. (called \o messageItemQueue) \o items = called \o (messageItemQueue \o items)
    BY <1>1, <2>2, Regroup, ZenonT(60)
  <2> QED
    BY <2>1, <2>3 DEF Log
<1>9. /\ Numbered(Log') /\ Len(Log') = accepted' /\ Writer!Extends(Log', Log)
  <2>4. \A j \in 1..Len(items) : items[j].id = Len(Log) + j
    BY <1>1, <1>2
  <2>5. items \in Seq(Items) /\ Log \in Seq(Items) /\ Numbered(Log)
    BY <1>1, <1>2
  <2>1. /\ Numbered(Log \o items) /\ Len(Log \o items) = Len(Log) + Len(items)
        /\ Log \o items \in Seq(Items)
        /\ \A j \in 1..Len(Log) : (Log \o items)[j] = Log[j]
    BY <2>4, <2>5, NumberedConcat
  <2>2. Len(Log) \in Nat /\ Len(items) \in Nat
    BY <1>1, <1>2, <1>4 DEF Typing
  <2>3. Len(Log \o items) >= Len(Log)
    BY <2>1, <2>2
  <2> QED
    BY <1>1, <1>2, <1>4, <1>8, <2>1, <2>3 DEF Writer!Extends
<1>10. writing' = writing \/ (writing = <<>> /\ \E item : writing' = <<AsyncWrite(item)>>)
  BY <1>2, <1>3, <1>4
<1>11. InHandler' = InHandler
  BY <1>10 DEF InHandler, AsyncWrite
<1>12. \A i \in 1..Len(writing') : writing'[i].st = "failed" => peer' = "reset"
  <2>1. CASE writing' = writing
    BY <1>4, <2>1 DEF WriteInv
  <2>2. CASE writing = <<>> /\ \E item : writing' = <<AsyncWrite(item)>>
    <3>1. PICK item : writing' = <<AsyncWrite(item)>>
      BY <2>2
    <3>2. Len(writing') = 1 /\ writing'[1].st = "sending"
      BY <3>1 DEF AsyncWrite
    <3> QED
      BY <3>2
  <2> QED
    BY <1>10, <2>1, <2>2
<1>13. NoLostWakeup'
  BY <1>4, <1>7 DEF WriteInv, NoLostWakeup
<1>14. Conservation'
  BY <1>4, <1>9 DEF WriteInv, Conservation, Numbered, Log
<1>15. WriteInv'
  BY <1>4, <1>6, <1>11, <1>12, <1>13, <1>14 DEF WriteInv
<1>16. Writer!Accept
  BY <1>4, <1>9 DEF Writer!Accept, Log
<1> QED
  BY <1>1, <1>3, <1>4, <1>7, <1>15, <1>16 DEF Typing

\* Steps that leave the write side alone; the peer may end the connection.
LEMMA IdlePreserves ==
  ASSUME Typing, WriteInv, UNCHANGED <<writeVars, called, tx>>,
         peer = "reset" => peer' = "reset"
  PROVE  WriteInv' /\ Stuck' = Stuck /\ UNCHANGED Writer!vars
<1>1. /\ messageItemQueue' = messageItemQueue /\ writing' = writing
      /\ accepted' = accepted /\ called' = called /\ tx' = tx
  BY DEF writeVars
<1>2. /\ WriteSide' = WriteSide /\ Stuck' = Stuck /\ InHandler' = InHandler
  BY <1>1 DEF WriteSide, Stuck, InHandler
<1>3. Orderly(WriteSide')
  BY <1>2 DEF WriteInv
<1>4. Conservation' /\ NoLostWakeup'
  BY <1>1, <1>2 DEF WriteInv, Conservation, Numbered, NoLostWakeup
<1>5. WriteInv'
  BY <1>1, <1>2, <1>3, <1>4 DEF WriteInv
<1>6. UNCHANGED Writer!vars
  BY <1>1 DEF Writer!vars
<1> QED
  BY <1>2, <1>5, <1>6

\* The reply to a callback is a number of write() calls.
LEMMA ReplyNat ==
  /\ \A n \in Replies : n \in Nat
  /\ \A item : \A n \in CallbackWrites(item) : n \in Nat
BY SessionAssumption DEF Replies, CallbackWrites

\* A successful handler acknowledges the item on the wire, moves on to the
\* next one, and leaves no queue without a write.
LEMMA SuccessPreserves ==
  ASSUME Typing, WriteInv, NEW i \in DOMAIN writing, WriteSucceeded(i),
         UNCHANGED <<tx, peer>>
  PROVE  /\ messageItemQueue' \in Seq(Items) /\ writing' \in Seq(Ops)
         /\ accepted' \in Nat /\ called' \in Seq(Items)
         /\ WriteInv' /\ Stuck' = Stuck
         /\ Writer!Acknowledge
<1>1. /\ WriteSide.queue = messageItemQueue /\ WriteSide.ops = writing
      /\ Log \in Seq(Items) /\ Len(Log) = accepted /\ Numbered(Log)
      /\ Len(writing) <= 1
      /\ writing # <<>> => messageItemQueue # <<>> /\ writing[1].item = Head(messageItemQueue)
  BY WriteSideTyped
<1>2. i = 1 /\ Len(writing) = 1 /\ Remove(writing, i) = <<>>
  BY <1>1, RemoveOnly DEF Typing
<1>3. /\ writing # <<>> /\ writing[1].st = "sent" /\ messageItemQueue # <<>>
      /\ writing[i].item = Head(messageItemQueue)
  <2>1. writing # <<>>
    BY <1>2
  <2>2. writing[i].st = "sent"
    BY DEF WriteSucceeded, Finished
  <2> QED
    BY <1>1, <1>2, <2>1, <2>2
<1>4. PICK n \in CallbackWrites(writing[i].item) :
        SetWriteSide(Completed(AtHandler(i), NewItems(accepted, n, "app")), n)
  BY DEF WriteSucceeded
<1> DEFINE items == NewItems(accepted, n, "app")
           s == Completed(AtHandler(i), items)
           front == Head(messageItemQueue)
<1>5. /\ items \in Seq(Items) /\ Len(items) = n
      /\ \A j \in 1..n : items[j].id = accepted + j
      /\ n \in Nat
  BY NewItemsSeq, ReplyNat DEF Typing
<1>6. /\ AtHandler(i) \in [queue : Seq(Items), ops : Seq(Ops)]
      /\ AtHandler(i).queue = messageItemQueue /\ AtHandler(i).ops = <<>>
  BY <1>2, EmptySeq DEF AtHandler, Typing
<1>7. /\ Orderly(s) /\ s.queue = Tail(messageItemQueue \o items) /\ ~Idle(s)
      /\ \A j \in 1..Len(s.ops) : s.ops[j].st = "sending"
  BY <1>3, <1>5, <1>6, CompletedOrderly
<1>8. /\ messageItemQueue' = s.queue /\ writing' = s.ops
      /\ accepted' = accepted + n /\ called' = Append(called, front)
      /\ tx' = tx /\ peer' = peer
  BY <1>3, <1>4 DEF SetWriteSide, WriteSucceeded
<1>9. WriteSide' = [queue |-> s.queue, ops |-> s.ops]
  BY <1>8 DEF WriteSide
<1>10. Orderly(WriteSide') /\ ~Idle(WriteSide')
  BY <1>7, <1>9 DEF Orderly, Idle
<1>11. Stuck' = Stuck /\ ~Stuck'
  BY <1>3, <1>7, <1>8 DEF Stuck, Idle
<1>12. /\ front \in Items /\ messageItemQueue \o items \in Seq(Items)
       /\ messageItemQueue \o items # <<>>
       /\ Head(messageItemQueue \o items) = front
       /\ called \in Seq(Items) /\ messageItemQueue \in Seq(Items)
  BY <1>3, <1>5, HeadTailProperties, ConcatProperties, EmptySeq DEF Typing
<1>13. Log' = Log \o items
  <2>1. Log' = Append(called, front) \o Tail(messageItemQueue \o items)
    BY <1>7, <1>8 DEF Log
  <2>2. Log' = called \o (messageItemQueue \o items)
    BY <2>1, <1>12, MoveFront
  <2>3. (called \o messageItemQueue) \o items = called \o (messageItemQueue \o items)
    BY <1>5, <1>12, Regroup, ZenonT(60)
  <2> QED
    BY <2>2, <2>3 DEF Log
<1>14. /\ Numbered(Log') /\ Len(Log') = accepted' /\ Writer!Extends(Log', Log)
  <2>1. /\ Numbered(Log \o items) /\ Len(Log \o items) = Len(Log) + Len(items)
        /\ Log \o items \in Seq(Items)
        /\ \A j \in 1..Len(Log) : (Log \o items)[j] = Log[j]
    BY <1>1, <1>5, <1>8, NumberedConcat, ZenonT(60)
  <2>2. Len(Log) \in Nat /\ Len(items) \in Nat
    BY <1>1, <1>5, <1>8 DEF Typing
  <2>3. Len(Log \o items) >= Len(Log)
    BY <2>1, <2>2
  <2> QED
    BY <1>1, <1>5, <1>8, <1>13, <2>1, <2>3 DEF Writer!Extends
<1>15. InHandler = 1 /\ InHandler' = 0
  <2>1. InHandler = 1
    BY <1>3 DEF InHandler
  <2>2. CASE writing' = <<>>
    BY <2>1, <2>2 DEF InHandler
  <2>3. CASE writing' # <<>>
    <3>1. Len(writing') \in Nat \ {0}
      BY <2>3, <1>7, <1>8, EmptySeq DEF Orderly
    <3> QED
      BY <2>1, <3>1, <1>7, <1>8 DEF InHandler
  <2> QED
    BY <2>1, <2>2, <2>3
<1>16. Len(called') = Len(called) + 1 /\ called' \in Seq(Items) /\ Len(called) \in Nat
  BY <1>8, <1>12, AppendProperties, LenProperties
<1>17. Len(tx) = Len(called) + 1
  BY <1>15 DEF WriteInv
<1>18. \A j \in 1..Len(writing') : writing'[j].st = "failed" => peer' = "reset"
  BY <1>7, <1>8
<1>19. NoLostWakeup'
  BY <1>11 DEF NoLostWakeup
<1>20. Conservation'
  BY <1>8, <1>14 DEF WriteInv, Conservation, Numbered, Log
<1>21. WriteInv'
  <2>1. Len(tx') = Len(called') + InHandler'
    BY <1>8, <1>15, <1>16, <1>17
  <2> QED
    BY <2>1, <1>10, <1>18, <1>19, <1>20 DEF WriteInv
<1>22. Writer!Acknowledge
  BY <1>8, <1>14, <1>16, <1>17 DEF Writer!Acknowledge, Log
<1>23. s.queue \in Seq(Items) /\ s.ops \in Seq(Ops)
  BY <1>7 DEF Orderly
<1> QED
  BY <1>5, <1>8, <1>11, <1>16, <1>21, <1>22, <1>23 DEF Typing

\* A failed handler leaves its item in front of a queue nobody writes.
LEMMA FailurePreserves ==
  ASSUME Typing, WriteInv, NEW i \in DOMAIN writing, WriteFailed(i),
         UNCHANGED <<tx, peer>>
  PROVE  /\ messageItemQueue' \in Seq(Items) /\ writing' \in Seq(Ops)
         /\ accepted' \in Nat
         /\ WriteInv' /\ Stuck' /\ ~Stuck
         /\ Writer!Accept
<1>1. /\ Log \in Seq(Items) /\ Len(Log) = accepted /\ Numbered(Log)
      /\ Len(writing) <= 1
      /\ writing # <<>> => messageItemQueue # <<>>
  BY WriteSideTyped
<1>2. i = 1 /\ Len(writing) = 1 /\ Remove(writing, i) = <<>>
  BY <1>1, RemoveOnly DEF Typing
<1>3. /\ writing # <<>> /\ writing[1].st = "failed" /\ messageItemQueue # <<>>
  <2>1. writing # <<>>
    BY <1>2
  <2>2. writing[i].st = "failed"
    BY DEF WriteFailed, Finished
  <2> QED
    BY <1>1, <1>2, <2>1, <2>2
<1>4. PICK n \in Replies : HandleError(AtHandler(i), n)
  BY DEF WriteFailed
<1> DEFINE items == NewItems(accepted, n, "app")
           s == Write(AtHandler(i), items)
<1>5. /\ items \in Seq(Items) /\ Len(items) = n
      /\ \A j \in 1..n : items[j].id = accepted + j
      /\ n \in Nat
  BY NewItemsSeq, ReplyNat DEF Typing
<1>6. /\ AtHandler(i) \in [queue : Seq(Items), ops : Seq(Ops)]
      /\ AtHandler(i).queue = messageItemQueue /\ AtHandler(i).ops = <<>>
  BY <1>2, EmptySeq DEF AtHandler, Typing
<1>7. Orderly(AtHandler(i)) /\ Idle(AtHandler(i))
  BY <1>3, <1>6, EmptySeq DEF Orderly, Idle
<1>8. /\ Orderly(s) /\ s.queue = messageItemQueue \o items /\ s.ops = <<>> /\ Idle(s)
  BY <1>3, <1>5, <1>6, <1>7, WriteOrderly
<1>9. /\ messageItemQueue' = s.queue /\ writing' = <<>>
      /\ accepted' = accepted + n /\ called' = called
      /\ tx' = tx /\ peer' = peer
  BY <1>4, <1>8 DEF SetWriteSide, HandleError, WriteFailed
<1>10. WriteSide' = [queue |-> s.queue, ops |-> s.ops]
  BY <1>8, <1>9 DEF WriteSide
<1>11. Orderly(WriteSide')
  BY <1>8, <1>10 DEF Orderly
<1>12. Stuck' /\ ~Stuck
  BY <1>3, <1>8, <1>9 DEF Stuck, Idle
<1>13. Log' = Log \o items
  <2>1. Log' = called \o (messageItemQueue \o items)
    BY <1>8, <1>9 DEF Log
  <2>2. called \in Seq(Items) /\ messageItemQueue \in Seq(Items)
    BY DEF Typing
  <2>3. (called \o messageItemQueue) \o items = called \o (messageItemQueue \o items)
    BY <1>5, <2>2, Regroup, ZenonT(60)
  <2> QED
    BY <2>1, <2>3 DEF Log
<1>14. /\ Numbered(Log') /\ Len(Log') = accepted' /\ Writer!Extends(Log', Log)
  <2>1. /\ Numbered(Log \o items) /\ Len(Log \o items) = Len(Log) + Len(items)
        /\ Log \o items \in Seq(Items)
        /\ \A j \in 1..Len(Log) : (Log \o items)[j] = Log[j]
    BY <1>1, <1>5, <1>9, NumberedConcat, ZenonT(60)
  <2>2. Len(Log) \in Nat /\ Len(items) \in Nat
    BY <1>1, <1>5, <1>9 DEF Typing
  <2>3. Len(Log \o items) >= Len(Log)
    BY <2>1, <2>2
  <2> QED
    BY <1>1, <1>5, <1>9, <1>13, <2>1, <2>3 DEF Writer!Extends
<1>15. peer' = "reset"
  BY <1>2, <1>3, <1>9 DEF WriteInv
<1>16. InHandler = 0 /\ InHandler' = 0
  BY <1>3, <1>9 DEF InHandler
<1>17. Conservation'
  BY <1>9, <1>14 DEF WriteInv, Conservation, Numbered, Log
<1>18. WriteInv'
  BY <1>9, <1>11, <1>15, <1>16, <1>17 DEF WriteInv, NoLostWakeup
<1>19. Writer!Accept
  BY <1>9, <1>14 DEF Writer!Accept, Log
<1> QED
  BY <1>5, <1>8, <1>9, <1>12, <1>18, <1>19, EmptySeq, SMTT(90) DEF Typing, Orderly

\* The kernel takes the bytes of the one write there is.
LEMMA SendCompletesPreserves ==
  ASSUME Typing, WriteInv, SendCompletes
  PROVE  /\ writing' \in Seq(Ops) /\ tx' \in Seq(Items)
         /\ WriteInv' /\ Stuck' = Stuck
         /\ Writer!Transmit
<1>1. /\ WriteSide.queue = messageItemQueue /\ WriteSide.ops = writing
      /\ Log \in Seq(Items) /\ Len(Log) = accepted /\ Numbered(Log)
      /\ Len(Log) = Len(called) + Len(messageItemQueue)
      /\ Len(writing) <= 1
      /\ writing # <<>> => messageItemQueue # <<>> /\ writing[1].item = Head(messageItemQueue)
      /\ messageItemQueue # <<>> => Head(messageItemQueue).id = Len(called) + 1
  BY WriteSideTyped
<1>2. PICK i \in DOMAIN writing :
        /\ writing[i].st = "sending"
        /\ writing' = [writing EXCEPT ![i].st = "sent"]
        /\ tx' = Append(tx, writing[i].item)
  BY DEF SendCompletes
<1>3. i = 1 /\ Len(writing) = 1
  BY <1>1, RemoveOnly DEF Typing
<1>4. writing # <<>>
  BY <1>3
<1>5. writing' = [writing EXCEPT ![1].st = "sent"]
  BY <1>2, <1>3
<1>6. /\ writing[1].item \in Items
      /\ writing' \in Seq(Ops) /\ Len(writing') = 1 /\ writing' # <<>>
      /\ writing'[1].item = writing[1].item /\ writing'[1].st = "sent"
  BY <1>3, <1>5, OpEnds DEF Typing
<1>7. /\ messageItemQueue' = messageItemQueue /\ accepted' = accepted
      /\ called' = called /\ peer' = peer /\ peer # "reset"
  BY DEF SendCompletes, peerVars
<1>8. WriteSide' = [queue |-> messageItemQueue, ops |-> writing']
  BY <1>7 DEF WriteSide
<1>9. Orderly(WriteSide')
  <2>1. /\ WriteSide'.queue = messageItemQueue /\ WriteSide'.ops = writing'
        /\ messageItemQueue \in Seq(Items)
    BY <1>8 DEF Typing
  <2> QED
    BY <2>1, <1>1, <1>4, <1>6 DEF Orderly
<1>10. Stuck' = Stuck /\ ~Stuck'
  BY <1>4, <1>6, <1>7 DEF Stuck
<1>11. InHandler = 0 /\ InHandler' = 1
  BY <1>2, <1>3, <1>4, <1>6 DEF InHandler
<1>12. Len(tx) = Len(called) /\ Len(called) \in Nat
  BY <1>11, LenProperties DEF WriteInv, Typing
<1>13. /\ tx' \in Seq(Items) /\ Len(tx') = Len(tx) + 1
       /\ \A j \in 1..Len(tx) : tx'[j] = tx[j]
       /\ tx'[Len(tx) + 1] = writing[1].item
  BY <1>2, <1>3, <1>6, AppendProperties DEF Typing
<1>14. \A j \in 1..Len(tx') : tx'[j].id = j
  <2> SUFFICES ASSUME NEW j \in 1..Len(tx') PROVE tx'[j].id = j
    OBVIOUS
  <2>1. CASE j \in 1..Len(tx)
    BY <1>13, <2>1 DEF WriteInv, Conservation, Numbered
  <2>2. CASE j = Len(tx) + 1
    BY <1>1, <1>4, <1>12, <1>13, <2>2
  <2> QED
    BY <1>12, <1>13, <2>1, <2>2
<1>15. Conservation'
  BY <1>7, <1>14 DEF WriteInv, Conservation, Numbered
<1>16. WriteInv'
  <2>1. Len(tx') = Len(called') + InHandler'
    BY <1>7, <1>11, <1>12, <1>13
  <2> QED
    BY <2>1, <1>6, <1>9, <1>10, <1>15 DEF WriteInv, NoLostWakeup
<1>17. Writer!Transmit
  <2>1. Len(tx) < Len(Log)
    BY <1>1, <1>4, <1>12, EmptySeq DEF Typing
  <2> QED
    BY <2>1, <1>7, <1>12, <1>13 DEF Writer!Transmit, Log
<1> QED
  BY <1>6, <1>10, <1>13, <1>16, <1>17

\* The one write there is fails, and only after a reset.
LEMMA SendFailsPreserves ==
  ASSUME Typing, WriteInv, SendFails
  PROVE  /\ writing' \in Seq(Ops)
         /\ WriteInv' /\ Stuck' = Stuck
         /\ UNCHANGED Writer!vars
<1>1. /\ WriteSide.queue = messageItemQueue /\ WriteSide.ops = writing
      /\ Len(writing) <= 1
      /\ writing # <<>> => messageItemQueue # <<>> /\ writing[1].item = Head(messageItemQueue)
  BY WriteSideTyped
<1>2. PICK i \in DOMAIN writing :
        /\ writing[i].st = "sending"
        /\ writing' = [writing EXCEPT ![i].st = "failed"]
  BY DEF SendFails
<1>3. i = 1 /\ Len(writing) = 1
  BY <1>1, RemoveOnly DEF Typing
<1>4. writing # <<>>
  BY <1>3
<1>5. writing' = [writing EXCEPT ![1].st = "failed"]
  BY <1>2, <1>3
<1>6. /\ writing[1].item \in Items
      /\ writing' \in Seq(Ops) /\ Len(writing') = 1 /\ writing' # <<>>
      /\ writing'[1].item = writing[1].item /\ writing'[1].st = "failed"
  BY <1>3, <1>5, OpEnds DEF Typing
<1>7. /\ messageItemQueue' = messageItemQueue /\ accepted' = accepted
      /\ called' = called /\ tx' = tx /\ peer' = peer /\ peer = "reset"
  BY DEF SendFails, peerVars
<1>8. WriteSide' = [queue |-> messageItemQueue, ops |-> writing']
  BY <1>7 DEF WriteSide
<1>9. Orderly(WriteSide')
  <2>1. /\ WriteSide'.queue = messageItemQueue /\ WriteSide'.ops = writing'
        /\ messageItemQueue \in Seq(Items)
    BY <1>8 DEF Typing
  <2> QED
    BY <2>1, <1>1, <1>4, <1>6 DEF Orderly
<1>10. Stuck' = Stuck /\ ~Stuck'
  BY <1>4, <1>6, <1>7 DEF Stuck
<1>11. InHandler = 0 /\ InHandler' = 0
  BY <1>2, <1>3, <1>4, <1>6 DEF InHandler
<1>12. Conservation'
  BY <1>7 DEF WriteInv, Conservation, Numbered
<1>13. WriteInv'
  BY <1>7, <1>9, <1>10, <1>11, <1>12 DEF WriteInv, NoLostWakeup
<1> QED
  BY <1>6, <1>7, <1>10, <1>13 DEF Writer!vars

-----------------------------------------------------------------------------
(* Delivery.                                                               *)

\* Steps that read nothing.
LEMMA DeliveryKept ==
  ASSUME DeliveryInv, UNCHANGED <<readOp, rx, rcvd, delivered>>
  PROVE  DeliveryInv'
BY DEF DeliveryInv, DeliveredOnce

\* Frames of the peer join the end of rx.
LEMMA DeliverySend ==
  ASSUME Typing, DeliveryInv, NEW kind \in Kinds, rx' = Append(rx, kind),
         UNCHANGED <<readOp, rcvd, delivered>>
  PROVE  rx' \in Seq(Kinds) /\ rcvd' \in 0..Len(rx') /\ DeliveryInv'
<1>1. /\ rx' \in Seq(Kinds) /\ Len(rx') = Len(rx) + 1 /\ Len(rx) \in Nat
      /\ \A i \in 1..Len(rx) : rx'[i] = rx[i]
  BY AppendProperties, LenProperties DEF Typing
<1>2. rcvd' \in 0..Len(rx')
  BY <1>1 DEF Typing
<1>3. \A i \in 1..rcvd : rx'[i] = rx[i]
  BY <1>1 DEF Typing
<1>4. \A i \in 1..(rcvd - 1) : rx'[i] = rx[i]
  BY <1>1 DEF Typing
<1> QED
  BY <1>1, <1>2, <1>3, <1>4 DEF DeliveryInv, DeliveredOnce, DecodeHeader

\* Reading goes on to a body, or ends, without a new delivery.
LEMMA DeliverySkips ==
  ASSUME Typing, DeliveryInv, UNCHANGED <<rx, delivered>>,
         \/ Reading /\ readOp' = "stopped" /\ rcvd' = rcvd
         \/ /\ readOp = "header" /\ HeaderArrived
            /\ readOp' \in {"body", "stopped"} /\ rcvd' = rcvd + 1
            /\ readOp' = "body" => DecodeHeader(rx[rcvd + 1])
  PROVE  rcvd' \in 0..Len(rx') /\ DeliveryInv'
<1>1. rcvd \in Nat /\ Len(rx) \in Nat /\ rcvd <= Len(rx)
  BY LenProperties DEF Typing
<1>2. rcvd' \in 0..Len(rx')
  BY <1>1 DEF HeaderArrived
<1>3. \A j \in 1..Len(delivered) : delivered[j] \in 1..rcvd
  BY <1>1 DEF DeliveryInv, DeliveredOnce
<1>4. CASE Reading /\ readOp' = "stopped" /\ rcvd' = rcvd
  <2>1. \A j \in 1..Len(delivered) : delivered[j] \in 1..rcvd /\ rx[delivered[j]] \in {"data", "short"}
    BY <1>3 DEF DeliveryInv, DeliveredOnce
  <2>2. \A k \in 1..(rcvd - 1) : rx[k] = "data" => \E j \in 1..Len(delivered) : delivered[j] = k
    BY <1>1, <1>4 DEF DeliveryInv, DeliveredOnce
  <2> QED
    BY <1>2, <1>4, <2>1, <2>2 DEF DeliveryInv, DeliveredOnce
<1>5. CASE /\ readOp = "header" /\ HeaderArrived
           /\ readOp' \in {"body", "stopped"} /\ rcvd' = rcvd + 1
           /\ readOp' = "body" => DecodeHeader(rx[rcvd + 1])
  <2>1. (rcvd + 1) - 1 = rcvd /\ 1..rcvd \subseteq 1..(rcvd + 1)
    BY <1>1
  <2> QED
    BY <1>1, <1>2, <1>5, <2>1 DEF DeliveryInv, DeliveredOnce, DecodeHeader
<1> QED
  BY <1>2, <1>4, <1>5

\* A complete body is handed over, or was a heartbeat.
LEMMA DeliveryBody ==
  ASSUME Typing, DeliveryInv, UNCHANGED <<rx, rcvd>>,
         readOp = "body", readOp' = "header",
         \/ rx[rcvd] # "data" /\ delivered' = delivered
         \/ rx[rcvd] \in {"data", "short"} /\ delivered' = Append(delivered, rcvd)
  PROVE  delivered' \in Seq(Nat) /\ DeliveryInv'
<1>1. rcvd \in Nat /\ rcvd > 0 /\ delivered \in Seq(Nat) /\ Len(delivered) \in Nat
  BY LenProperties DEF Typing, DeliveryInv
<1>2. /\ \A j \in 1..Len(delivered) :
           delivered[j] \in 1..(rcvd - 1) /\ rx[delivered[j]] \in {"data", "short"}
      /\ \A i, j \in 1..Len(delivered) : i < j => delivered[i] < delivered[j]
      /\ \A i \in 1..(rcvd - 1) :
           rx[i] = "data" => \E j \in 1..Len(delivered) : delivered[j] = i
  BY DEF DeliveryInv, DeliveredOnce
<1>3. CASE rx[rcvd] # "data" /\ delivered' = delivered
  <2>1. \A i \in 1..rcvd : rx[i] = "data" => i \in 1..(rcvd - 1)
    BY <1>1, <1>3
  <2>2. 1..(rcvd - 1) \subseteq 1..rcvd
    BY <1>1
  <2> QED
    BY <1>1, <1>2, <1>3, <2>1, <2>2 DEF DeliveryInv, DeliveredOnce
<1>4. CASE rx[rcvd] \in {"data", "short"} /\ delivered' = Append(delivered, rcvd)
  <2>1. /\ delivered' \in Seq(Nat) /\ Len(delivered') = Len(delivered) + 1
        /\ \A j \in 1..Len(delivered) : delivered'[j] = delivered[j]
        /\ delivered'[Len(delivered) + 1] = rcvd
    BY <1>1, <1>4, AppendProperties
  <2>2. \A j \in 1..Len(delivered') : j \in 1..Len(delivered) \/ j = Len(delivered) + 1
    BY <1>1, <2>1
  <2>3. \A j \in 1..Len(delivered') :
          delivered'[j] \in 1..rcvd /\ rx[delivered'[j]] \in {"data", "short"}
    BY <1>1, <1>2, <1>4, <2>1, <2>2
  <2>4. ASSUME NEW i \in 1..Len(delivered'), NEW j \in 1..Len(delivered'), i < j
        PROVE  delivered'[i] < delivered'[j]
    <3>1. i \in 1..Len(delivered)
      BY <1>1, <2>1, <2>4
    <3>2. CASE j \in 1..Len(delivered)
      BY <1>2, <2>1, <2>4, <3>1, <3>2
    <3>3. CASE j = Len(delivered) + 1
      BY <1>1, <1>2, <2>1, <3>1, <3>3
    <3> QED
      BY <2>2, <3>2, <3>3
  <2>5. ASSUME NEW i \in 1..rcvd, rx[i] = "data"
        PROVE  \E j \in 1..Len(delivered') : delivered'[j] = i
    <3>1. CASE i = rcvd
      <4>1. Len(delivered) + 1 \in 1..Len(delivered')
        BY <1>1, <2>1
      <4> QED
        BY <2>1, <3>1, <4>1
    <3>2. CASE i \in 1..(rcvd - 1)
      <4>1. PICK j \in 1..Len(delivered) : delivered[j] = i
        BY <1>2, <2>5, <3>2
      <4>2. j \in 1..Len(delivered') /\ delivered'[j] = i
        BY <1>1, <2>1, <4>1
      <4> QED
        BY <4>2
    <3> QED
      BY <1>1, <3>1, <3>2
  <2> QED
    BY <2>1, <2>3, <2>4, <2>5 DEF DeliveryInv, DeliveredOnce
<1> QED
  BY <1>1, <1>3, <1>4

-----------------------------------------------------------------------------
(* The steps.                                                              *)

Timers == [pending : Nat, expired : Nat]

\* What the timer operations do to the counts.
LEMMA TimerOperations ==
  ASSUME NEW t \in Timers
  PROVE  /\ ResetHeartbeatTimer(t) = [pending |-> 1, expired |-> t.expired]
         /\ RearmHeartbeat(t) = [pending |-> 1, expired |-> t.expired]
         /\ TimerOnError(t) = [pending |-> 0, expired |-> t.expired]
         /\ AsyncWait(t) = [pending |-> t.pending + 1, expired |-> t.expired]
<1>1. ASSUME NEW u \in Timers
      PROVE  AsyncWait(u) = [pending |-> u.pending + 1, expired |-> u.expired]
  BY DEF Timers, AsyncWait
<1>2. Cancel(t) = [pending |-> 0, expired |-> t.expired] /\ Cancel(t) \in Timers
  BY DEF Timers, Cancel
<1>3. Cancel(Cancel(t)) = Cancel(t) /\ Cancel(Cancel(Cancel(t))) = Cancel(t)
  BY <1>2 DEF Timers, Cancel
<1>4. AsyncWait(Cancel(t)) = [pending |-> 1, expired |-> t.expired]
  BY <1>1, <1>2
<1> QED
  BY <1>1, <1>2, <1>3, <1>4
     DEF ResetHeartbeatTimer, RearmHeartbeat, TimerOnError, ExpiresFromNow

\* From the end of reading on the timer gets no further wait.
Quiet ==
  readOp' = "stopped" =>
    Waits(timer') <= IF readOp = "stopped" THEN Waits(timer) ELSE timer.expired

\* What a step has to show.
Good == IInv' /\ [Writer!Next]_Writer!vars /\ Quiet

\* The parts of the invariant that a step leaving the read side alone needs.
LEMMA Frame ==
  ASSUME IInv, UNCHANGED <<readOp, rx, rcvd, delivered, beats, peer>>,
         messageItemQueue' \in Seq(Items), writing' \in Seq(Ops),
         accepted' \in Nat, called' \in Seq(Items), tx' \in Seq(Items),
         timer' \in Timers, closes' \in Nat
  PROVE  Typing' /\ DeliveryInv'
<1>1. DeliveryInv'
  BY DeliveryKept DEF IInv
<1>2. Typing'
  BY DEF IInv, Typing, Timers
<1> QED
  BY <1>1, <1>2

\* The end of reading.
LEMMA ReadStopsGood ==
  ASSUME IInv, ReadStops,
         \/ Reading /\ rcvd' = rcvd
         \/ readOp = "header" /\ HeaderArrived /\ rcvd' = rcvd + 1
  PROVE  Good
<1>1. PICK n \in Replies : HandleError(WriteSide, n)
  BY DEF ReadStops
<1>2. n \in Nat
  BY ReplyNat
<1>3. /\ readOp' = "stopped" /\ closes' = closes + 1 /\ timer' = TimerOnError(timer)
      /\ SetWriteSide(Write(WriteSide, NewItems(accepted, n, "app")), n)
      /\ UNCHANGED <<called, delivered, tx, rx, peer, beats>>
  BY <1>1 DEF ReadStops, HandleError, peerVars
<1>4. Typing /\ WriteInv /\ EndInv /\ DeliveryInv /\ timer \in Timers
  BY DEF IInv, Typing, Timers
<1>5. /\ messageItemQueue' \in Seq(Items) /\ writing' \in Seq(Ops)
      /\ accepted' \in Nat
      /\ WriteInv' /\ Stuck' = Stuck
      /\ Writer!Accept
  BY <1>2, <1>3, <1>4, WritesPreserve
<1>6. timer' = [pending |-> 0, expired |-> timer.expired]
  BY <1>3, <1>4, TimerOperations
<1>7. rcvd' \in 0..Len(rx') /\ DeliveryInv'
  BY <1>3, <1>4, DeliverySkips
<1>8. Typing'
  BY <1>3, <1>4, <1>5, <1>6, <1>7 DEF Typing, Timers
<1>9. readOp # "stopped"
  BY DEF Reading
<1>10. EndInv'
  BY <1>3, <1>4, <1>5, <1>6, <1>9
     DEF EndInv, OneWait, HeartbeatAlive, Reading, CloseCount, Typing
<1>11. Quiet
  BY <1>4, <1>6 DEF Quiet, Waits, Timers
<1> QED
  BY <1>4, <1>5, <1>7, <1>8, <1>10, <1>11 DEF Good, IInv, Writer!Next

\* Starting a session.
LEMMA StartGood ==
  ASSUME IInv, Start
  PROVE  Good
<1>1. /\ readOp = "unstarted" /\ readOp' = "header" /\ timer' = AsyncWait(timer)
      /\ UNCHANGED <<messageItemQueue, writing, accepted, closes, called,
                     delivered, rcvd, tx, rx, peer, beats>>
  BY DEF Start, writeVars, peerVars
<1>2. Typing /\ WriteInv /\ EndInv /\ DeliveryInv /\ timer \in Timers
  BY DEF IInv, Typing, Timers
<1>3. timer' = [pending |-> 1, expired |-> timer.expired]
  BY <1>1, <1>2, TimerOperations DEF EndInv
<1>4. WriteInv' /\ Stuck' = Stuck /\ UNCHANGED Writer!vars
  BY <1>1, <1>2, IdlePreserves DEF writeVars
<1>5. Typing'
  BY <1>1, <1>2, <1>3 DEF Typing, Timers
<1>6. EndInv'
  BY <1>1, <1>2, <1>3, <1>4
     DEF EndInv, OneWait, HeartbeatAlive, Reading, CloseCount, Typing, Timers
<1>7. rcvd = 0
  BY <1>1, <1>2 DEF DeliveryInv
<1>8. DeliveryInv'
  BY <1>1, <1>2, <1>7 DEF DeliveryInv, DeliveredOnce
<1>9. Quiet
  BY <1>1 DEF Quiet
<1> QED
  BY <1>4, <1>5, <1>6, <1>8, <1>9 DEF Good, IInv

\* A header that decodes resets the timer and goes on to the body.
LEMMA ReadMessageHeaderGood ==
  ASSUME IInv, ReadMessageHeader
  PROVE  Good
<1>1. /\ readOp = "header" /\ HeaderArrived /\ rcvd' = rcvd + 1
      /\ DecodeHeader(rx[rcvd + 1])
      /\ readOp' = "body" /\ timer' = ResetHeartbeatTimer(timer)
      /\ UNCHANGED <<messageItemQueue, writing, accepted, closes, called,
                     delivered, tx, rx, peer, beats>>
  BY DEF ReadMessageHeader, writeVars, peerVars
<1>2. Typing /\ WriteInv /\ EndInv /\ DeliveryInv /\ timer \in Timers
  BY DEF IInv, Typing, Timers
<1>3. timer' = [pending |-> 1, expired |-> timer.expired]
  BY <1>1, <1>2, TimerOperations
<1>4. WriteInv' /\ Stuck' = Stuck /\ UNCHANGED Writer!vars
  BY <1>1, <1>2, IdlePreserves DEF writeVars
<1>5. rcvd' \in 0..Len(rx') /\ DeliveryInv'
  BY <1>1, <1>2, DeliverySkips
<1>6. Typing'
  BY <1>1, <1>2, <1>3, <1>5 DEF Typing, Timers
<1>7. EndInv'
  BY <1>1, <1>2, <1>3, <1>4
     DEF EndInv, OneWait, HeartbeatAlive, Reading, CloseCount, Typing, Timers
<1>8. Quiet
  BY <1>1 DEF Quiet
<1> QED
  BY <1>4, <1>5, <1>6, <1>7, <1>8 DEF Good, IInv

\* A complete body is a heartbeat, or goes to the application, which may write.
LEMMA ReadMessageBodyGood ==
  ASSUME IInv, ReadMessageBody
  PROVE  Good
<1>1. /\ readOp = "body" /\ readOp' = "header"
      /\ UNCHANGED <<timer, closes, called, rcvd, tx, rx, peer, beats>>
  BY DEF ReadMessageBody, peerVars
<1>2. Typing /\ WriteInv /\ EndInv /\ DeliveryInv /\ timer \in Timers
  BY DEF IInv, Typing, Timers
<1>3. PICK heartbeat \in IsHeartbeat(rx[rcvd]) :
        \/ heartbeat /\ UNCHANGED <<writeVars, delivered>>
        \/ /\ ~heartbeat
           /\ delivered' = Append(delivered, rcvd)
           /\ \E n \in Replies : SetWriteSide(Write(WriteSide, NewItems(accepted, n, "app")), n)
  BY DEF ReadMessageBody
<1>4. rx[rcvd] \in {"data", "ping", "short"}
  <2>1. rcvd \in 1..Len(rx)
    BY <1>1, <1>2 DEF Typing, DeliveryInv
  <2>2. rx[rcvd] \in Kinds
    BY <2>1, <1>2, ElementOfSeq DEF Typing
  <2> QED
    BY <1>1, <1>2, <2>2 DEF Kinds, ReadMessageBody, BodyArrived, DeliveryInv, DecodeHeader
<1>5. CASE heartbeat /\ UNCHANGED <<writeVars, delivered>>
  <2>1. rx[rcvd] # "data"
    BY <1>3, <1>5 DEF IsHeartbeat
  <2>2. WriteInv' /\ Stuck' = Stuck /\ UNCHANGED Writer!vars
    BY <1>1, <1>2, <1>5, IdlePreserves
  <2>3. delivered' \in Seq(Nat) /\ DeliveryInv'
    BY <1>1, <1>2, <1>5, <2>1, DeliveryBody
  <2>4. Typing'
    BY <1>1, <1>2, <1>5, <2>3 DEF Typing, writeVars
  <2>5. EndInv'
    BY <1>1, <1>2, <2>2 DEF EndInv, OneWait, HeartbeatAlive, Reading, CloseCount
  <2>6. Quiet
    BY <1>1 DEF Quiet
  <2> QED
    BY <2>2, <2>3, <2>4, <2>5, <2>6 DEF Good, IInv
<1>6. CASE /\ ~heartbeat
           /\ delivered' = Append(delivered, rcvd)
           /\ \E n \in Replies : SetWriteSide(Write(WriteSide, NewItems(accepted, n, "app")), n)
  <2>1. rx[rcvd] \in {"data", "short"}
    BY <1>3, <1>4, <1>6 DEF IsHeartbeat
  <2>2. PICK n \in Replies : SetWriteSide(Write(WriteSide, NewItems(accepted, n, "app")), n)
    BY <1>6
  <2>3. /\ messageItemQueue' \in Seq(Items) /\ writing' \in Seq(Ops)
        /\ accepted' \in Nat
        /\ WriteInv' /\ Stuck' = Stuck
        /\ Writer!Accept
    BY <1>1, <1>2, <2>2, ReplyNat, WritesPreserve
  <2>4. delivered' \in Seq(Nat) /\ DeliveryInv'
    BY <1>1, <1>2, <1>6, <2>1, DeliveryBody
  <2>5. Typing'
    BY <1>1, <1>2, <2>3, <2>4 DEF Typing
  <2>6. EndInv'
    BY <1>1, <1>2, <2>3 DEF EndInv, OneWait, HeartbeatAlive, Reading, CloseCount
  <2>7. Quiet
    BY <1>1 DEF Quiet
  <2> QED
    BY <2>3, <2>4, <2>5, <2>6, <2>7 DEF Good, IInv, Writer!Next
<1> QED
  BY <1>3, <1>5, <1>6

\* The handler of a write, whichever way it ended.
LEMMA HandleWriteGood ==
  ASSUME IInv, HandleWrite
  PROVE  Good
<1>1. PICK i \in DOMAIN writing : WriteSucceeded(i) \/ WriteFailed(i)
  BY DEF HandleWrite
<1>2. UNCHANGED <<readOp, delivered, rcvd, tx, rx, peer, beats>>
  BY DEF HandleWrite, peerVars
<1>3. Typing /\ WriteInv /\ EndInv /\ DeliveryInv /\ timer \in Timers
  BY DEF IInv, Typing, Timers
<1>4. tx' \in Seq(Items) /\ closes \in Nat /\ called \in Seq(Items)
  BY <1>2, <1>3 DEF Typing
<1>5. CASE WriteSucceeded(i)
  <2>1. closes' = closes /\ timer' = timer
    BY <1>5 DEF WriteSucceeded
  <2>2. /\ messageItemQueue' \in Seq(Items) /\ writing' \in Seq(Ops)
        /\ accepted' \in Nat /\ called' \in Seq(Items)
        /\ WriteInv' /\ Stuck' = Stuck
        /\ Writer!Acknowledge
    BY <1>2, <1>3, <1>5, SuccessPreserves
  <2>3. Typing' /\ DeliveryInv'
    BY <1>2, <1>3, <1>4, <2>1, <2>2, Frame
  <2>4. EndInv'
    BY <1>2, <1>3, <2>1, <2>2 DEF EndInv, OneWait, HeartbeatAlive, Reading, CloseCount
  <2>5. Quiet
    BY <1>2, <1>3, <2>1 DEF Quiet, Waits, Timers
  <2> QED
    BY <2>2, <2>3, <2>4, <2>5 DEF Good, IInv, Writer!Next
<1>6. CASE WriteFailed(i)
  <2>1. closes' = closes + 1 /\ timer' = TimerOnError(timer) /\ called' = called
    BY <1>6 DEF WriteFailed, HandleError
  <2>2. /\ messageItemQueue' \in Seq(Items) /\ writing' \in Seq(Ops)
        /\ accepted' \in Nat
        /\ WriteInv' /\ Stuck' /\ ~Stuck
        /\ Writer!Accept
    BY <1>2, <1>3, <1>6, FailurePreserves
  <2>3. timer' = [pending |-> 0, expired |-> timer.expired] /\ timer' \in Timers
    BY <1>3, <2>1, TimerOperations DEF Timers
  <2>4. Typing' /\ DeliveryInv'
    BY <1>2, <1>3, <1>4, <2>1, <2>2, <2>3, Frame
  <2>5. EndInv'
    BY <1>2, <1>3, <1>4, <2>1, <2>2, <2>3
       DEF EndInv, OneWait, HeartbeatAlive, Reading, CloseCount
  <2>6. Quiet
    BY <1>3, <2>3 DEF Quiet, Waits, Timers
  <2> QED
    BY <2>2, <2>4, <2>5, <2>6 DEF Good, IInv, Writer!Next
<1> QED
  BY <1>1, <1>5, <1>6

\* A queued expiry writes a heartbeat and arms the timer again.
LEMMA HeartbeatHandleGood ==
  ASSUME IInv, HeartbeatHandle
  PROVE  Good
<1> DEFINE taken == [timer EXCEPT !.expired = @ - 1]
<1>1. /\ timer.expired > 0 /\ timer' = RearmHeartbeat(taken)
      /\ SetWriteSide(Write(WriteSide, NewItems(accepted, 1, "heartbeat")), 1)
      /\ UNCHANGED <<readOp, closes, called, delivered, rcvd, tx, rx, peer, beats>>
  BY DEF HeartbeatHandle, peerVars
<1>2. Typing /\ WriteInv /\ EndInv /\ DeliveryInv /\ timer \in Timers
  BY DEF IInv, Typing, Timers
<1>3. taken = [pending |-> timer.pending, expired |-> timer.expired - 1] /\ taken \in Timers
  BY <1>1, <1>2 DEF Timers
<1>4. timer' = [pending |-> 1, expired |-> timer.expired - 1] /\ timer' \in Timers
  BY <1>1, <1>3, TimerOperations DEF Timers
<1>5. /\ messageItemQueue' \in Seq(Items) /\ writing' \in Seq(Ops)
      /\ accepted' \in Nat
      /\ WriteInv' /\ Stuck' = Stuck
      /\ Writer!Accept
  BY <1>1, <1>2, WritesPreserve
<1>6. called' \in Seq(Items) /\ tx' \in Seq(Items) /\ closes' \in Nat
  BY <1>1, <1>2 DEF Typing
<1>7. Typing' /\ DeliveryInv'
  BY <1>1, <1>4, <1>5, <1>6, Frame
<1>8. EndInv'
  <2>1. timer'.pending = 1 /\ timer'.expired \in Nat
    BY <1>4 DEF Timers
  <2> QED
    BY <1>1, <1>2, <1>5, <2>1
       DEF EndInv, OneWait, HeartbeatAlive, Reading, CloseCount, Timers
<1>9. Quiet
  BY <1>2, <1>4 DEF Quiet, Waits, Timers
<1> QED
  BY <1>5, <1>7, <1>8, <1>9 DEF Good, IInv, Writer!Next

\* The application writes of its own accord.
LEMMA AppWriteGood ==
  ASSUME IInv, AppWrite
  PROVE  Good
<1>1. /\ SetWriteSide(Write(WriteSide, NewItems(accepted, 1, "app")), 1)
      /\ UNCHANGED <<readOp, timer, closes, called, delivered, rcvd, tx, rx, peer, beats>>
  BY DEF AppWrite, peerVars
<1>2. Typing /\ WriteInv /\ EndInv /\ DeliveryInv /\ timer \in Timers
  BY DEF IInv, Typing, Timers
<1>3. /\ messageItemQueue' \in Seq(Items) /\ writing' \in Seq(Ops)
      /\ accepted' \in Nat
      /\ WriteInv' /\ Stuck' = Stuck
      /\ Writer!Accept
  BY <1>1, <1>2, WritesPreserve
<1>4. called' \in Seq(Items) /\ tx' \in Seq(Items) /\ closes' \in Nat
  BY <1>1, <1>2 DEF Typing
<1>5. Typing' /\ DeliveryInv'
  BY <1>1, <1>2, <1>3, <1>4, Frame
<1>6. EndInv'
  BY <1>1, <1>2, <1>3 DEF EndInv, OneWait, HeartbeatAlive, Reading, CloseCount
<1>7. Quiet
  BY <1>1, <1>2 DEF Quiet, Waits, Timers
<1> QED
  BY <1>3, <1>5, <1>6, <1>7 DEF Good, IInv, Writer!Next

\* The pending wait expires.
LEMMA TimerExpiresGood ==
  ASSUME IInv, TimerExpires
  PROVE  Good
<1>1. /\ timer' = [pending |-> 0, expired |-> timer.expired + timer.pending]
      /\ beats' = beats + 1
      /\ UNCHANGED <<readOp, messageItemQueue, writing, accepted, closes, called,
                     delivered, rcvd, tx, rx, peer>>
  BY DEF TimerExpires, writeVars, peerVars
<1>2. Typing /\ WriteInv /\ EndInv /\ DeliveryInv /\ timer \in Timers
  BY DEF IInv, Typing, Timers
<1>3. WriteInv' /\ Stuck' = Stuck /\ UNCHANGED Writer!vars
  BY <1>1, <1>2, IdlePreserves DEF writeVars
<1>4. Typing'
  BY <1>1, <1>2 DEF Typing, Timers
<1>5. DeliveryInv'
  BY <1>1, <1>2, DeliveryKept
<1>6. EndInv'
  BY <1>1, <1>2, <1>3
     DEF EndInv, OneWait, HeartbeatAlive, Reading, CloseCount, Timers
<1>7. Quiet
  BY <1>1, <1>2 DEF Quiet, Waits, Timers
<1> QED
  BY <1>3, <1>4, <1>5, <1>6, <1>7 DEF Good, IInv

\* The kernel finishes or fails a write.
LEMMA SendGood ==
  ASSUME IInv, SendCompletes \/ SendFails
  PROVE  Good
<1>1. UNCHANGED <<readOp, messageItemQueue, accepted, timer, closes, called,
                  delivered, rcvd, rx, peer, beats>>
  BY DEF SendCompletes, SendFails, peerVars
<1>2. Typing /\ WriteInv /\ EndInv /\ DeliveryInv /\ timer \in Timers
  BY DEF IInv, Typing, Timers
<1>3. /\ writing' \in Seq(Ops) /\ tx' \in Seq(Items)
      /\ WriteInv' /\ Stuck' = Stuck
      /\ [Writer!Next]_Writer!vars
  <2>1. CASE SendCompletes
    BY <1>2, <2>1, SendCompletesPreserves DEF Writer!Next
  <2>2. CASE SendFails
    BY <1>2, <2>2, SendFailsPreserves DEF SendFails, Typing
  <2> QED
    BY <2>1, <2>2
<1>4. /\ messageItemQueue' \in Seq(Items) /\ accepted' \in Nat
      /\ called' \in Seq(Items) /\ closes' \in Nat /\ timer' \in Timers
  BY <1>1, <1>2 DEF Typing
<1>5. Typing' /\ DeliveryInv'
  BY <1>1, <1>3, <1>4, Frame
<1>6. EndInv'
  BY <1>1, <1>2, <1>3 DEF EndInv, OneWait, HeartbeatAlive, Reading, CloseCount
<1>7. Quiet
  BY <1>1, <1>2 DEF Quiet, Waits, Timers
<1> QED
  BY <1>3, <1>5, <1>6, <1>7 DEF Good, IInv

\* The peer sends, or the connection ends.
LEMMA PeerGood ==
  ASSUME IInv, (\E kind \in InKinds : PeerSend(kind)) \/ PeerFin \/ PeerReset
  PROVE  Good
<1>1. UNCHANGED <<readOp, messageItemQueue, writing, accepted, timer, closes,
                  called, delivered, rcvd, tx, beats>>
  BY DEF PeerSend, PeerFin, PeerReset, writeVars
<1>2. Typing /\ WriteInv /\ EndInv /\ DeliveryInv /\ timer \in Timers
  BY DEF IInv, Typing, Timers
<1>3. peer' \in {"open", "fin", "reset"} /\ (peer = "reset" => peer' = "reset")
  BY <1>2 DEF PeerSend, PeerFin, PeerReset, Typing
<1>4. WriteInv' /\ Stuck' = Stuck /\ UNCHANGED Writer!vars
  BY <1>1, <1>2, <1>3, IdlePreserves DEF writeVars
<1>5. rx' \in Seq(Kinds) /\ rcvd' \in 0..Len(rx') /\ DeliveryInv'
  <2>1. CASE \E kind \in InKinds : PeerSend(kind)
    <3>1. PICK kind \in InKinds : PeerSend(kind)
      BY <2>1
    <3>2. kind \in Kinds /\ rx' = Append(rx, kind)
      BY <3>1, SessionAssumption DEF PeerSend
    <3> QED
      BY <1>1, <1>2, <3>2, DeliverySend
  <2>2. CASE PeerFin \/ PeerReset
    <3>1. rx' = rx
      BY <2>2 DEF PeerFin, PeerReset
    <3> QED
      BY <1>1, <1>2, <3>1, DeliveryKept DEF Typing
  <2> QED
    BY <2>1, <2>2
<1>6. Typing'
  BY <1>1, <1>2, <1>3, <1>5 DEF Typing
<1>7. EndInv'
  BY <1>1, <1>2, <1>4 DEF EndInv, OneWait, HeartbeatAlive, Reading, CloseCount
<1>8. Quiet
  BY <1>1, <1>2 DEF Quiet, Waits, Timers
<1> QED
  BY <1>4, <1>5, <1>6, <1>7, <1>8 DEF Good, IInv

\* Nothing happens.
LEMMA StutterGood ==
  ASSUME IInv, UNCHANGED vars
  PROVE  Good
<1>1. UNCHANGED <<readOp, messageItemQueue, writing, accepted, timer, closes,
                  called, delivered, rcvd, tx, rx, peer, beats>>
  BY DEF vars
<1>2. Typing /\ WriteInv /\ EndInv /\ DeliveryInv /\ timer \in Timers
  BY DEF IInv, Typing, Timers
<1>3. WriteInv' /\ Stuck' = Stuck /\ UNCHANGED Writer!vars
  BY <1>1, <1>2, IdlePreserves DEF writeVars
<1>4. Typing' /\ DeliveryInv'
  BY <1>1, <1>2, DeliveryKept DEF Typing
<1>5. EndInv'
  BY <1>1, <1>2, <1>3 DEF EndInv, OneWait, HeartbeatAlive, Reading, CloseCount
<1>6. Quiet
  BY <1>1, <1>2 DEF Quiet, Waits, Timers
<1> QED
  BY <1>3, <1>4, <1>5, <1>6 DEF Good, IInv

\* Every step keeps the inductive invariant, is a step or a stutter of the
\* ordered writer, and adds no wait of the timer once reading has ended.
THEOREM StepGood ==
  ASSUME IInv, [Next]_vars
  PROVE  Good
<1>1. CASE Start
  BY <1>1, StartGood
<1>2. CASE HandleReadMessageHeader
  <2>1. CASE ReadMessageHeader
    BY <2>1, ReadMessageHeaderGood
  <2>2. CASE RejectMessageHeader
    BY <2>2, ReadStopsGood DEF RejectMessageHeader
  <2>3. CASE FailMessageHeader
    BY <2>3, ReadStopsGood DEF FailMessageHeader, Reading
  <2> QED
    BY <1>2, <2>1, <2>2, <2>3 DEF HandleReadMessageHeader
<1>3. CASE HandleReadMessageBody
  <2>1. CASE ReadMessageBody
    BY <2>1, ReadMessageBodyGood
  <2>2. CASE FailMessageBody
    BY <2>2, ReadStopsGood DEF FailMessageBody, Reading
  <2> QED
    BY <1>3, <2>1, <2>2 DEF HandleReadMessageBody
<1>4. CASE HandleWrite
  BY <1>4, HandleWriteGood
<1>5. CASE HeartbeatHandle
  BY <1>5, HeartbeatHandleGood
<1>6. CASE AppWrite
  BY <1>6, AppWriteGood
<1>7. CASE TimerExpires
  BY <1>7, TimerExpiresGood
<1>8. CASE SendCompletes \/ SendFails
  BY <1>8, SendGood
<1>9. CASE (\E kind \in InKinds : PeerSend(kind)) \/ PeerFin \/ PeerReset
  BY <1>9, PeerGood
<1>10. CASE UNCHANGED vars
  BY <1>10, StutterGood
<1> QED
  BY <1>1, <1>2, <1>3, <1>4, <1>5, <1>6, <1>7, <1>8, <1>9, <1>10 DEF Next

\* The initial state satisfies the invariant, and is the writer's.
THEOREM InitGood == Init => IInv /\ Writer!Init
<1> SUFFICES ASSUME Init PROVE IInv /\ Writer!Init
  OBVIOUS
<1>1. /\ <<>> \in Seq(Items) /\ <<>> \in Seq(Ops) /\ <<>> \in Seq(Kinds) /\ <<>> \in Seq(Nat)
      /\ Len(<<>>) = 0
  BY EmptySeq
<1>2. Typing
  BY <1>1 DEF Init, Typing
<1>3. called \o messageItemQueue = <<>>
  BY <1>1, ConcatEmptySeq DEF Init
<1>4. WriteInv
  BY <1>1, <1>3 DEF Init, WriteInv, WriteSide, Orderly, NoLostWakeup, Stuck,
       Conservation, Numbered, InHandler
<1>5. EndInv
  BY DEF Init, EndInv, OneWait, HeartbeatAlive, Reading, CloseCount, Stuck
<1>6. DeliveryInv
  BY <1>1 DEF Init, DeliveryInv, DeliveredOnce
<1>7. Writer!Init
  BY <1>1, <1>3 DEF Init, Writer!Init
<1> QED
  BY <1>2, <1>4, <1>5, <1>6, <1>7 DEF IInv

-----------------------------------------------------------------------------
(* What follows for every behaviour.                                       *)

\* What the kernel has taken is the beginning of the log, message by message.
OnWire == Len(tx) <= Len(Log) /\ \A i \in 1..Len(tx) : tx[i] = Log[i]

\* The log and the wire only grow, and OnWire stays.
Grown ==
  /\ Log \in Seq(Items) /\ Log' \in Seq(Items) /\ tx \in Seq(Items) /\ tx' \in Seq(Items)
  /\ Len(Log) <= Len(Log') /\ \A i \in 1..Len(Log) : Log'[i] = Log[i]
  /\ Len(tx) <= Len(tx') /\ \A i \in 1..Len(tx) : tx'[i] = tx[i]

LEMMA WireGood ==
  ASSUME IInv, OnWire, [Next]_vars
  PROVE  OnWire' /\ Grown
<1>1. IInv' /\ [Writer!Next]_Writer!vars
  BY StepGood DEF Good
<1>2. /\ Log \in Seq(Items) /\ Log' \in Seq(Items) /\ tx \in Seq(Items) /\ tx' \in Seq(Items)
      /\ Len(Log) \in Nat /\ Len(Log') \in Nat /\ Len(tx) \in Nat /\ Len(tx') \in Nat
  <2>1. Log \in Seq(Items) /\ tx \in Seq(Items)
    BY ConcatProperties DEF Log, IInv, Typing
  <2>2. Log' \in Seq(Items) /\ tx' \in Seq(Items)
    BY <1>1, ConcatProperties DEF Log, IInv, Typing
  <2> QED
    BY <2>1, <2>2, LenProperties
<1>3. Len(Log) <= Len(Log') /\ \A i \in 1..Len(Log) : Log'[i] = Log[i]
  <2>1. Log' = Log \/ Writer!Extends(Log', Log)
    BY <1>1 DEF Writer!Next, Writer!vars, Writer!Accept, Writer!Transmit, Writer!Acknowledge, Log
  <2> QED
    BY <1>2, <2>1 DEF Writer!Extends
<1>4. CASE tx' = tx
  BY <1>2, <1>3, <1>4 DEF OnWire, Grown
<1>5. CASE tx' # tx
  <2>1. SendCompletes
    BY <1>5 DEF Next, vars, Start, HandleReadMessageHeader, ReadMessageHeader,
      RejectMessageHeader, FailMessageHeader, HandleReadMessageBody, ReadMessageBody,
      FailMessageBody, ReadStops, HandleWrite, HeartbeatHandle, AppWrite, TimerExpires,
      SendFails, PeerSend, PeerFin, PeerReset
  <2>2. PICK i \in DOMAIN writing : writing[i].st = "sending" /\ tx' = Append(tx, writing[i].item)
    BY <2>1 DEF SendCompletes
  <2>3. Log' = Log
    BY <2>1 DEF SendCompletes, Log
  <2>4. Len(writing) <= 1 /\ messageItemQueue \in Seq(Items) /\ called \in Seq(Items)
        /\ writing \in Seq(Ops)
        /\ (writing # <<>> => messageItemQueue # <<>> /\ writing[1].item = Head(messageItemQueue))
        /\ Len(Log) = Len(called) + Len(messageItemQueue)
        /\ Len(tx) = Len(called) + InHandler
    BY WriteSideTyped DEF IInv, Typing, WriteInv
  <2>5. i = 1 /\ writing # <<>>
    BY <2>4, RemoveOnly
  <2>6. Len(tx) = Len(called)
    <3>1. InHandler = 0
      BY <2>2, <2>5 DEF InHandler
    <3> QED
      BY <1>2, <2>4, <3>1, LenProperties
  <2>7. /\ Len(messageItemQueue) \in Nat \ {0} /\ Len(called) \in Nat
        /\ Head(messageItemQueue) = messageItemQueue[1] /\ Head(messageItemQueue) \in Items
    BY <2>4, <2>5, EmptySeq, LenProperties, HeadTailProperties
  <2>8. Log[Len(called) + 1] = Head(messageItemQueue)
    <3>1. Log[Len(called) + 1] = messageItemQueue[Len(called) + 1 - Len(called)]
      BY <2>4, <2>7, ConcatProperties DEF Log
    <3> QED
      BY <2>7, <3>1
  <2>9. /\ Len(tx') = Len(tx) + 1 /\ \A j \in 1..Len(tx) : tx'[j] = tx[j]
        /\ tx'[Len(tx) + 1] = Head(messageItemQueue)
    BY <1>2, <2>2, <2>4, <2>5, <2>7, AppendProperties
  <2>10. Len(tx') <= Len(Log)
    BY <2>4, <2>6, <2>7, <2>9
  <2>11. \A j \in 1..Len(tx') : tx'[j] = Log[j]
    BY <1>2, <2>6, <2>8, <2>9 DEF OnWire
  <2> QED
    BY <1>2, <1>3, <2>3, <2>9, <2>10, <2>11 DEF OnWire, Grown
<1> QED
  BY <1>4, <1>5

\* The invariant every other theorem rests on.
THEOREM Invariance == Spec => []IInv
<1>1. Init => IInv
  BY InitGood
<1>2. IInv /\ [Next]_vars => IInv'
  BY StepGood DEF Good
<1> QED
  BY <1>1, <1>2, PTL DEF Spec

\* The state keeps its types, and closeCallback_ is called at most twice.
THEOREM TypeCorrect == Spec => []TypeOK
<1>1. IInv => TypeOK
  BY DEF IInv, Typing, TypeOK, EndInv, CloseCount
<1> QED
  BY <1>1, Invariance, PTL

\* write() and handleWrite never have two async_write operations in flight.
THEOREM SingleWriteHolds == Spec => []SingleWrite
<1>1. IInv => SingleWrite
  BY WriteSideTyped DEF IInv, SingleWrite
<1> QED
  BY <1>1, Invariance, PTL

\* No queue is left without a write unless the connection was reset.
THEOREM NoLostWakeupHolds == Spec => []NoLostWakeup
<1>1. IInv => NoLostWakeup
  BY DEF IInv, WriteInv
<1> QED
  BY <1>1, Invariance, PTL

\* No message given to write() is lost, repeated or overtaken.
THEOREM ConservationHolds == Spec => []Conservation
<1>1. IInv => Conservation
  BY DEF IInv, WriteInv
<1> QED
  BY <1>1, Invariance, PTL

\* Complete application messages are delivered once and in order.
THEOREM DeliveredOnceHolds == Spec => []DeliveredOnce
<1>1. IInv => DeliveredOnce
  BY DEF IInv, DeliveryInv
<1> QED
  BY <1>1, Invariance, PTL

\* One wait of the timer at most, and a heartbeat always scheduled while the
\* session reads and writes.
THEOREM HeartbeatsGoOn == Spec => [](OneWait /\ HeartbeatAlive)
<1>1. IInv => OneWait /\ HeartbeatAlive
  BY DEF IInv, EndInv
<1> QED
  BY <1>1, Invariance, PTL

\* closeCallback_ is called once for each direction that failed.
THEOREM ClosesCounted == Spec => []CloseCount
<1>1. IInv => CloseCount
  BY DEF IInv, EndInv
<1> QED
  BY <1>1, Invariance, PTL

\* From the end of reading on the timer gets no wait that it did not have:
\* handleError cancels the pending one, and each handler that was queued by then
\* is one chain of waits and handlers at most.
THEOREM NoWaitsAdded == Spec => NoNewWaits
<1>1. IInv /\ [Next]_vars => [Quiet]_vars
  BY StepGood DEF Good
<1> QED
  BY <1>1, Invariance, PTL DEF Spec, NoNewWaits, Quiet

\* The write side of a session implements the ordered writer.
THEOREM ImplementsWriter == Spec => WriterSpec
<1>1. Init => Writer!Init
  BY InitGood
<1>2. IInv /\ [Next]_vars => [Writer!Next]_Writer!vars
  BY StepGood DEF Good
<1> QED
  BY <1>1, <1>2, Invariance, PTL DEF Spec, WriterSpec, Writer!Spec

=============================================================================
