---------------------------- MODULE ClientProofs ----------------------------
(***************************************************************************)
(* Proofs about Client, for every value of its constants.  What the write  *)
(* side shares with Session is in WriteQueueProofs; here connection        *)
(* attempts may fail under a write, a failed write is reported once, and   *)
(* every frame that is read is answered once.                              *)
(***************************************************************************)
EXTENDS Client, WriteQueueProofs, FiniteSetTheorems

-----------------------------------------------------------------------------
(* The inductive invariant.                                                *)

\* The one message on the wire whose handler has not run.
InHandler == IF writing # <<>> /\ writing[1].st = "sent" THEN 1 ELSE 0

WriteInv ==
  /\ messageItemQueue \in Seq(Items) /\ writing \in Seq(Ops) /\ accepted \in Nat
  /\ called \in Seq(Items) /\ tx \in Seq(Items)
  /\ Orderly(WriteSide)
  /\ FailureReportedOnce
  /\ Len(tx) = Len(called) + InHandler

ReadInv ==
  /\ readOp \in {"unstarted", "connect", "header", "body", "stopped"}
  /\ errors = IF readOp = "stopped" THEN 1 ELSE 0
  /\ rx \in Seq(Kinds) /\ rcvd \in 0..Len(rx) /\ delivered \in Seq(Nat)
  /\ conn \in {"closed", "trying", "refused", "open", "fin", "reset"}
  /\ untried \in 0..Endpoints

\* Every frame but one whose body is still awaited is answered, and what is
\* awaited is no bad header.
AnswerInv ==
  /\ FramesAnswered
  /\ readOp = "body" => rx[rcvd] # "bad"
  /\ \A j \in 1..Len(delivered) : delivered[j] \in 1..rcvd

IInv == WriteInv /\ ReadInv /\ AnswerInv

Log == called \o messageItemQueue

\* What a step has to show of the write side.
WritesGood == WriteInv' /\ [Writer!Next]_Writer!vars

\* The same of a step that writes no heartbeat back.
QuietGood == WritesGood /\ Echoes' = Echoes

\* The write side and its parts.
LEMMA WriteSideTyped ==
  ASSUME WriteInv
  PROVE  /\ WriteSide \in [queue : Seq(Items), ops : Seq(Ops)]
         /\ WriteSide.queue = messageItemQueue /\ WriteSide.ops = writing
         /\ Log \in Seq(Items) /\ Len(Log) = Len(called) + Len(messageItemQueue)
         /\ Idle(WriteSide) <=> Stuck
         /\ Len(writing) <= 1
         /\ writing # <<>> => messageItemQueue # <<>> /\ writing[1].item = Head(messageItemQueue)
<1>1. /\ WriteSide \in [queue : Seq(Items), ops : Seq(Ops)]
      /\ WriteSide.queue = messageItemQueue /\ WriteSide.ops = writing
  BY DEF WriteSide, WriteInv
<1>2. Log \in Seq(Items) /\ Len(Log) = Len(called) + Len(messageItemQueue)
  BY ConcatProperties DEF Log, WriteInv
<1>3. Idle(WriteSide) <=> Stuck
  BY <1>1 DEF Idle, Stuck
<1>4. /\ Len(writing) <= 1
      /\ writing # <<>> => messageItemQueue # <<>> /\ writing[1].item = Head(messageItemQueue)
  BY <1>1 DEF WriteInv, Orderly
<1> QED
  BY <1>1, <1>2, <1>3, <1>4

\* Messages that join the end of the queue extend the writer's log.
LEMMA LogExtends ==
  ASSUME WriteInv, NEW items \in Seq(Items)
  PROVE  /\ called \o (messageItemQueue \o items) = Log \o items
         /\ Writer!Extends(Log \o items, Log)
<1>1. called \o (messageItemQueue \o items) = Log \o items
  BY Regroup, ZenonT(60) DEF Log, WriteInv
<1>2. Log \in Seq(Items)
  BY WriteSideTyped
<1>3. /\ Log \o items \in Seq(Items)
      /\ Len(Log \o items) = Len(Log) + Len(items)
      /\ \A i \in 1..Len(Log) + Len(items) :
           (Log \o items)[i] = IF i <= Len(Log) THEN Log[i] ELSE items[i - Len(Log)]
  BY <1>2, ConcatProperties, ZenonT(60)
<1>4. Len(Log) \in Nat /\ Len(items) \in Nat
  BY <1>2, LenProperties
<1>5. Len(Log \o items) >= Len(Log)
  BY <1>3, <1>4
<1>6. ASSUME NEW i \in 1..Len(Log) PROVE (Log \o items)[i] = Log[i]
  BY <1>3, <1>4
<1> QED
  BY <1>1, <1>3, <1>5, <1>6 DEF Writer!Extends

\* Echoes counts the heartbeats in the log.  The writes of the application
\* leave their number alone; one echo adds one.
LEMMA EchoCount ==
  ASSUME WriteInv, NEW n \in Nat, NEW by \in {"app", "heartbeat"},
         Log' = Log \o NewItems(accepted, n, by)
  PROVE  /\ Echoes \in Nat
         /\ by = "app" => Echoes' = Echoes
         /\ by = "heartbeat" /\ n = 1 => Echoes' = Echoes + 1
<1> DEFINE items == NewItems(accepted, n, by)
<1>1. /\ items \in Seq(Items) /\ Len(items) = n
      /\ \A i \in 1..n : items[i].by = by
  BY NewItemsSeq, ZenonT(60) DEF WriteInv, NewItems
<1>2. Log \in Seq(Items) /\ Len(Log) \in Nat
  BY WriteSideTyped, LenProperties
<1>3. /\ Len(Log \o items) = Len(Log) + n
      /\ \A i \in 1..Len(Log) + n :
           (Log \o items)[i] = IF i <= Len(Log) THEN Log[i] ELSE items[i - Len(Log)]
  BY <1>1, <1>2, ConcatProperties
<1>4. IsFiniteSet(Heartbeats(Log))
  <2>1. IsFiniteSet(1..Len(Log))
    BY <1>2, FS_Interval
  <2> QED
    BY <2>1, FS_Subset DEF Heartbeats
<1>5. Echoes = Cardinality(Heartbeats(Log)) /\ Echoes' = Cardinality(Heartbeats(Log \o items))
  BY DEF Echoes, Log
<1>6. Echoes \in Nat
  BY <1>4, <1>5, FS_CardinalityType
<1>7. CASE by = "app"
  <2>1. ASSUME NEW i \in 1..Len(Log) + n
        PROVE  (Log \o items)[i].by = "heartbeat" <=> i <= Len(Log) /\ Log[i].by = "heartbeat"
    BY <1>1, <1>2, <1>3, <1>7
  <2>2. Heartbeats(Log \o items) = Heartbeats(Log)
    BY <1>2, <1>3, <2>1 DEF Heartbeats
  <2> QED
    BY <1>5, <1>6, <1>7, <2>2
<1>8. CASE by = "heartbeat" /\ n = 1
  <2>1. ASSUME NEW i \in 1..Len(Log) + 1
        PROVE  (Log \o items)[i].by = "heartbeat" <=>
                 i = Len(Log) + 1 \/ (i <= Len(Log) /\ Log[i].by = "heartbeat")
    BY <1>1, <1>2, <1>3, <1>8
  <2>2. Heartbeats(Log \o items) = Heartbeats(Log) \cup {Len(Log) + 1}
    BY <1>2, <1>3, <1>8, <2>1 DEF Heartbeats
  <2>3. Len(Log) + 1 \notin Heartbeats(Log)
    BY <1>2 DEF Heartbeats
  <2>4. Cardinality(Heartbeats(Log) \cup {Len(Log) + 1}) = Cardinality(Heartbeats(Log)) + 1
    BY <1>4, <2>3, FS_AddElement
  <2> QED
    BY <1>5, <1>6, <1>8, <2>2, <2>4
<1>9. CASE by = "heartbeat" /\ n # 1
  BY <1>6, <1>9
<1> QED
  BY <1>7, <1>8, <1>9

\* The reply to a callback is a number of write() calls.
LEMMA ReplyNat ==
  /\ \A n \in Replies : n \in Nat
  /\ \A item : \A n \in CallbackWrites(item) : n \in Nat
BY ClientAssumption DEF Replies, CallbackWrites

-----------------------------------------------------------------------------
(* The steps of the write side.                                            *)

\* n calls of write() outside a write handler.
LEMMA WritesPreserve ==
  ASSUME WriteInv, NEW n \in Nat, NEW by \in {"app", "heartbeat"},
         WritesOf(n, by), UNCHANGED <<called, tx, failures>>
  PROVE  WritesGood /\ Log' = Log \o NewItems(accepted, n, by)
<1> DEFINE items == NewItems(accepted, n, by)
           s == Write(WriteSide, items)
<1>1. items \in Seq(Items)
  BY NewItemsSeq, ZenonT(60) DEF WriteInv
<1>2. /\ WriteSide \in [queue : Seq(Items), ops : Seq(Ops)]
      /\ WriteSide.queue = messageItemQueue /\ WriteSide.ops = writing
      /\ Idle(WriteSide) <=> Stuck
      /\ writing # <<>> => messageItemQueue # <<>>
  BY WriteSideTyped
<1>3. /\ Orderly(s) /\ s \in [queue : Seq(Items), ops : Seq(Ops)]
      /\ s.queue = messageItemQueue \o items
      /\ messageItemQueue # <<>> \/ items = <<>> => s.ops = writing
      /\ messageItemQueue = <<>> /\ items # <<>> => s.ops = <<AsyncWrite(Head(items))>>
      /\ Idle(s) <=> Stuck
  BY <1>1, <1>2, WriteOrderly DEF WriteInv
<1>4. /\ messageItemQueue' = s.queue /\ writing' = s.ops
      /\ accepted' = accepted + n
      /\ called' = called /\ tx' = tx /\ failures' = failures
  BY DEF WritesOf, SetWriteSide
<1>5. WriteSide' = [queue |-> s.queue, ops |-> s.ops]
  BY <1>4 DEF WriteSide
<1>6. Orderly(WriteSide')
  BY <1>3, <1>5 DEF Orderly
<1>7. Stuck' = Stuck
  BY <1>3, <1>4 DEF Stuck, Idle
<1>8. writing' = writing \/ (writing = <<>> /\ \E item : writing' = <<AsyncWrite(item)>>)
  BY <1>2, <1>3, <1>4
<1>9. InHandler' = InHandler
  BY <1>8 DEF InHandler, AsyncWrite
<1>10. FailureReportedOnce'
  BY <1>4, <1>7 DEF WriteInv, FailureReportedOnce
<1>11. accepted' \in Nat /\ messageItemQueue' \in Seq(Items) /\ writing' \in Seq(Ops)
  <2>1. s.queue \in Seq(Items) /\ s.ops \in Seq(Ops)
    BY <1>3 DEF Orderly
  <2> QED
    BY <1>4, <2>1 DEF WriteInv
<1>12. WriteInv'
  BY <1>4, <1>6, <1>9, <1>10, <1>11 DEF WriteInv
<1>13. Log' = Log \o items /\ Writer!Extends(Log \o items, Log)
  BY <1>1, <1>3, <1>4, LogExtends DEF Log
<1>14. Writer!Accept
  BY <1>4, <1>13 DEF Writer!Accept, Log
<1> QED
  BY <1>12, <1>13, <1>14 DEF WritesGood, Writer!Next

\* Steps that leave the write side alone.
LEMMA IdlePreserves ==
  ASSUME WriteInv, UNCHANGED <<messageItemQueue, writing, accepted, called, tx, failures>>
  PROVE  QuietGood
<1>1. WriteSide' = WriteSide /\ Stuck' = Stuck /\ InHandler' = InHandler
  BY DEF WriteSide, Stuck, InHandler
<1>2. Orderly(WriteSide')
  BY <1>1 DEF WriteInv
<1>3. FailureReportedOnce'
  BY <1>1 DEF WriteInv, FailureReportedOnce
<1>4. WriteInv'
  BY <1>1, <1>2, <1>3 DEF WriteInv
<1>5. UNCHANGED Writer!vars
  BY DEF Writer!vars
<1>6. Echoes' = Echoes
  BY DEF Echoes
<1> QED
  BY <1>4, <1>5, <1>6 DEF WritesGood, QuietGood

\* A successful handler acknowledges the item on the wire and moves on.
LEMMA SuccessPreserves ==
  ASSUME WriteInv, NEW i \in DOMAIN writing, WriteSucceeded(i), UNCHANGED tx
  PROVE  QuietGood
<1>1. /\ Log \in Seq(Items) /\ Len(writing) <= 1
      /\ writing # <<>> => messageItemQueue # <<>> /\ writing[1].item = Head(messageItemQueue)
  BY WriteSideTyped
<1>2. i = 1 /\ Len(writing) = 1 /\ Remove(writing, i) = <<>>
  BY <1>1, RemoveOnly DEF WriteInv
<1>3. /\ writing # <<>> /\ writing[1].st = "sent" /\ messageItemQueue # <<>>
      /\ writing[i].item = Head(messageItemQueue)
  <2>1. writing # <<>>
    BY <1>2
  <2>2. writing[i].st = "sent"
    BY DEF WriteSucceeded, Finished
  <2> QED
    BY <1>1, <1>2, <2>1, <2>2
<1>4. PICK n \in CallbackWrites(writing[i].item) :
        SetWriteSide(Completed(AtHandler(i), NewItems(accepted, n, "app")), n)
  BY DEF WriteSucceeded
<1> DEFINE items == NewItems(accepted, n, "app")
           s == Completed(AtHandler(i), items)
           front == Head(messageItemQueue)
<1>5. items \in Seq(Items) /\ n \in Nat
  BY NewItemsSeq, ReplyNat DEF WriteInv
<1>6. /\ AtHandler(i) \in [queue : Seq(Items), ops : Seq(Ops)]
      /\ AtHandler(i).queue = messageItemQueue /\ AtHandler(i).ops = <<>>
  BY <1>2, EmptySeq DEF AtHandler, WriteInv
<1>7. /\ Orderly(s) /\ s.queue = Tail(messageItemQueue \o items) /\ ~Idle(s)
      /\ \A j \in 1..Len(s.ops) : s.ops[j].st = "sending"
  BY <1>3, <1>5, <1>6, CompletedOrderly
<1>8. /\ messageItemQueue' = s.queue /\ writing' = s.ops
      /\ accepted' = accepted + n /\ called' = Append(called, front)
      /\ tx' = tx /\ failures' = failures
  BY <1>3, <1>4 DEF SetWriteSide, WriteSucceeded
<1>9. WriteSide' = [queue |-> s.queue, ops |-> s.ops]
  BY <1>8 DEF WriteSide
<1>10. Orderly(WriteSide')
  BY <1>7, <1>9 DEF Orderly
<1>11. ~Stuck /\ ~Stuck'
  BY <1>3, <1>7, <1>8 DEF Stuck, Idle
<1>12. /\ front \in Items /\ messageItemQueue \o items \in Seq(Items)
       /\ messageItemQueue \o items # <<>>
       /\ Head(messageItemQueue \o items) = front
       /\ called \in Seq(Items)
  BY <1>3, <1>5, HeadTailProperties, ConcatProperties, EmptySeq DEF WriteInv
<1>13. Log' = Log \o items /\ Writer!Extends(Log \o items, Log)
  <2>1. Log' = Append(called, front) \o Tail(messageItemQueue \o items)
    BY <1>7, <1>8 DEF Log
  <2>2. Log' = called \o (messageItemQueue \o items)
    BY <2>1, <1>12, MoveFront
  <2> QED
    BY <2>2, <1>5, LogExtends
<1>14. InHandler = 1 /\ InHandler' = 0
  <2>1. InHandler = 1
    BY <1>3 DEF InHandler
  <2>2. CASE writing' = <<>>
    BY <2>1, <2>2 DEF InHandler
  <2>3. CASE writing' # <<>>
    <3>1. Len(writing') \in Nat \ {0}
      BY <2>3, <1>7, <1>8, EmptySeq DEF Orderly
    <3> QED
      BY <2>1, <3>1, <1>7, <1>8 DEF InHandler
  <2> QED
    BY <2>1, <2>2, <2>3
<1>15. Len(called') = Len(called) + 1 /\ called' \in Seq(Items) /\ Len(called) \in Nat
  BY <1>8, <1>12, AppendProperties, LenProperties
<1>16. Len(tx) = Len(called) + 1
  BY <1>14 DEF WriteInv
<1>17. FailureReportedOnce'
  BY <1>8, <1>11 DEF WriteInv, FailureReportedOnce
<1>18. messageItemQueue' \in Seq(Items) /\ writing' \in Seq(Ops) /\ accepted' \in Nat
  BY <1>5, <1>7, <1>8 DEF Orderly, WriteInv
<1>19. Len(tx') = Len(called') + InHandler' /\ tx' \in Seq(Items)
  BY <1>8, <1>14, <1>15, <1>16 DEF WriteInv
<1>20. WriteInv'
  BY <1>10, <1>15, <1>17, <1>18, <1>19 DEF WriteInv
<1>21. Writer!Acknowledge
  <2>1. Len(called) < Len(tx) /\ tx' = tx
    BY <1>8, <1>15, <1>16
  <2> QED
    BY <1>13, <1>15, <2>1 DEF Writer!Acknowledge, Log
<1>22. Echoes' = Echoes
  BY <1>5, <1>13, EchoCount
<1> QED
  BY <1>20, <1>21, <1>22 DEF WritesGood, QuietGood, Writer!Next

\* A failed handler tells the item's callback and leaves the item in front of
\* a queue nobody writes.
LEMMA FailurePreserves ==
  ASSUME WriteInv, NEW i \in DOMAIN writing, WriteFailed(i), UNCHANGED tx
  PROVE  QuietGood
<1>1. Len(writing) <= 1 /\ (writing # <<>> => messageItemQueue # <<>>)
  BY WriteSideTyped
<1>2. i = 1 /\ Len(writing) = 1 /\ Remove(writing, i) = <<>>
  BY <1>1, RemoveOnly DEF WriteInv
<1>3. writing # <<>> /\ writing[1].st = "failed" /\ messageItemQueue # <<>>
  <2>1. writing # <<>>
    BY <1>2
  <2>2. writing[i].st = "failed"
    BY DEF WriteFailed, Finished
  <2> QED
    BY <1>1, <1>2, <2>1, <2>2
<1>4. PICK n \in CallbackWrites(writing[i].item) :
        SetWriteSide(AfterError(AtHandler(i), NewItems(accepted, n, "app")), n)
  BY DEF WriteFailed
<1> DEFINE items == NewItems(accepted, n, "app")
           s == Write(AtHandler(i), items)
<1>5. items \in Seq(Items) /\ n \in Nat
  BY NewItemsSeq, ReplyNat DEF WriteInv
<1>6. /\ AtHandler(i) \in [queue : Seq(Items), ops : Seq(Ops)]
      /\ AtHandler(i).queue = messageItemQueue /\ AtHandler(i).ops = <<>>
  BY <1>2, EmptySeq DEF AtHandler, WriteInv
<1>7. Orderly(AtHandler(i)) /\ Idle(AtHandler(i))
  BY <1>3, <1>6, EmptySeq DEF Orderly, Idle
<1>8. Orderly(s) /\ s.queue = messageItemQueue \o items /\ s.ops = <<>> /\ Idle(s)
  BY <1>3, <1>5, <1>6, <1>7, WriteOrderly
<1>9. /\ messageItemQueue' = s.queue /\ writing' = <<>>
      /\ accepted' = accepted + n /\ called' = called
      /\ tx' = tx /\ failures' = failures + 1
  BY <1>4, <1>8 DEF SetWriteSide, AfterError, WriteFailed
<1>10. WriteSide' = [queue |-> s.queue, ops |-> s.ops]
  BY <1>8, <1>9 DEF WriteSide
<1>11. Orderly(WriteSide')
  BY <1>8, <1>10 DEF Orderly
<1>12. Stuck' /\ ~Stuck
  BY <1>3, <1>8, <1>9 DEF Stuck, Idle
<1>13. FailureReportedOnce'
  BY <1>9, <1>12 DEF WriteInv, FailureReportedOnce
<1>14. InHandler = 0 /\ InHandler' = 0
  BY <1>3, <1>9 DEF InHandler
<1>15. messageItemQueue' \in Seq(Items) /\ writing' \in Seq(Ops) /\ accepted' \in Nat
  BY <1>5, <1>8, <1>9, EmptySeq DEF Orderly, WriteInv
<1>16. WriteInv'
  BY <1>9, <1>11, <1>13, <1>14, <1>15 DEF WriteInv
<1>17. Log' = Log \o items /\ Writer!Extends(Log \o items, Log)
  BY <1>5, <1>8, <1>9, LogExtends DEF Log
<1>18. Writer!Accept
  BY <1>9, <1>17 DEF Writer!Accept, Log
<1>19. Echoes' = Echoes
  BY <1>5, <1>17, EchoCount
<1> QED
  BY <1>16, <1>18, <1>19 DEF WritesGood, QuietGood, Writer!Next

\* The one operation there is ends, and tx is given what it has sent.
LEMMA OpEndsPreserves ==
  ASSUME WriteInv, writing # <<>>, writing[1].st = "sending",
         NEW st \in {"sent", "failed"}, writing' = [writing EXCEPT ![1].st = st],
         tx' = IF st = "sent" THEN Append(tx, writing[1].item) ELSE tx,
         UNCHANGED <<messageItemQueue, accepted, called, failures>>
  PROVE  QuietGood
<1>1. /\ Len(Log) = Len(called) + Len(messageItemQueue)
      /\ Len(writing) <= 1
      /\ messageItemQueue # <<>> /\ writing[1].item = Head(messageItemQueue)
  BY WriteSideTyped
<1>2. Len(writing) = 1
  <2>1. Len(writing) \in Nat /\ Len(writing) # 0
    BY EmptySeq, LenProperties DEF WriteInv
  <2>2. Len(writing) <= 1
    BY <1>1
  <2>3. \A k \in Nat : k # 0 /\ k <= 1 => k = 1
    OBVIOUS
  <2> QED
    BY <2>1, <2>2, <2>3, Zenon
<1>3. /\ writing[1].item \in Items
      /\ writing' \in Seq(Ops) /\ Len(writing') = 1 /\ writing' # <<>>
      /\ writing'[1].item = writing[1].item /\ writing'[1].st = st
  BY <1>2, OpEnds DEF WriteInv
<1>4. WriteSide' = [queue |-> messageItemQueue, ops |-> writing']
  BY DEF WriteSide
<1>5. Orderly(WriteSide')
  <2>1. /\ WriteSide'.queue = messageItemQueue /\ WriteSide'.ops = writing'
        /\ messageItemQueue \in Seq(Items)
    BY <1>4 DEF WriteInv
  <2> QED
    BY <2>1, <1>1, <1>3 DEF Orderly
<1>6. FailureReportedOnce'
  BY <1>3 DEF WriteInv, FailureReportedOnce, Stuck
<1>7. InHandler = 0 /\ InHandler' = IF st = "sent" THEN 1 ELSE 0
  BY <1>3 DEF InHandler
<1>8. Len(tx) = Len(called) /\ Len(called) \in Nat
  BY <1>7, LenProperties DEF WriteInv
<1>9. tx' \in Seq(Items) /\ Len(tx') = Len(called) + InHandler'
  <2>1. CASE st = "sent"
    BY <1>3, <1>7, <1>8, <2>1, AppendProperties DEF WriteInv
  <2>2. CASE st = "failed"
    BY <1>7, <1>8, <2>2 DEF WriteInv
  <2> QED
    BY <2>1, <2>2
<1>10. WriteInv'
  BY <1>3, <1>5, <1>6, <1>9 DEF WriteInv
<1>13. Echoes' = Echoes
  BY DEF Echoes
<1>11. CASE st = "sent"
  <2>1. Len(called) < Len(Log)
    BY <1>1, <1>8, EmptySeq DEF WriteInv
  <2>2. Len(tx') = Len(tx) + 1
    BY <1>7, <1>8, <1>9, <1>11
  <2>3. Writer!Transmit
    BY <1>8, <2>1, <2>2 DEF Writer!Transmit, Log
  <2> QED
    BY <1>10, <1>13, <2>3 DEF WritesGood, QuietGood, Writer!Next
<1>12. CASE st = "failed"
  BY <1>10, <1>12, <1>13 DEF WritesGood, QuietGood, Writer!vars
<1> QED
  BY <1>11, <1>12

\* The only operation, if any, is the first.
LEMMA FirstOp ==
  ASSUME WriteInv, NEW i \in DOMAIN writing
  PROVE  i = 1 /\ writing # <<>> /\ Len(writing) = 1
<1>1. Len(writing) <= 1
  BY WriteSideTyped
<1>2. i = 1 /\ Len(writing) = 1
  BY <1>1, RemoveOnly DEF WriteInv
<1> QED
  BY <1>2

\* The kernel takes the bytes of a write, or fails it.
LEMMA SendPreserves ==
  ASSUME WriteInv, SendCompletes \/ SendFails
  PROVE  QuietGood
<1>1. CASE SendCompletes
  <2>1. PICK i \in DOMAIN writing :
          /\ writing[i].st = "sending"
          /\ writing' = [writing EXCEPT ![i].st = "sent"]
          /\ tx' = Append(tx, writing[i].item)
    BY <1>1 DEF SendCompletes
  <2>2. i = 1 /\ writing # <<>>
    BY FirstOp
  <2>3. UNCHANGED <<messageItemQueue, accepted, called, failures>>
    BY <1>1 DEF SendCompletes
  <2> QED
    BY <2>1, <2>2, <2>3, OpEndsPreserves
<1>2. CASE SendFails
  <2>1. PICK i \in DOMAIN writing :
          writing[i].st = "sending" /\ writing' = [writing EXCEPT ![i].st = "failed"]
    BY <1>2 DEF SendFails
  <2>2. i = 1 /\ writing # <<>>
    BY FirstOp
  <2>3. UNCHANGED <<messageItemQueue, accepted, called, failures, tx>>
    BY <1>2 DEF SendFails
  <2> QED
    BY <2>1, <2>2, <2>3, OpEndsPreserves
<1> QED
  BY <1>1, <1>2

\* A failed connection attempt takes the write that waits behind it with it.
LEMMA AbortPreserves ==
  ASSUME WriteInv, writing' = Aborted,
         UNCHANGED <<messageItemQueue, accepted, called, tx, failures>>
  PROVE  QuietGood
<1>1. Len(writing) <= 1 /\ writing \in Seq(Ops) /\ DOMAIN writing = 1..Len(writing)
  BY WriteSideTyped, LenProperties DEF WriteInv
<1>2. CASE \A i \in DOMAIN writing : writing[i].st # "sending"
  <2>1. Aborted = [i \in DOMAIN writing |-> writing[i]]
    BY <1>2 DEF Aborted
  <2>2. Aborted = writing
    BY <1>1, <2>1
  <2> QED
    BY <2>2, IdlePreserves
<1>3. CASE \E i \in DOMAIN writing : writing[i].st = "sending"
  <2>1. PICK i \in DOMAIN writing : writing[i].st = "sending"
    BY <1>3
  <2>2. i = 1 /\ writing # <<>> /\ Len(writing) = 1
    BY FirstOp
  <2>3. DOMAIN writing = {1}
    BY <1>1, <2>2
  <2>4. Aborted = [writing EXCEPT ![1].st = "failed"]
    BY <1>1, <2>1, <2>2, <2>3 DEF Aborted
  <2> QED
    BY <2>1, <2>2, <2>4, OpEndsPreserves
<1> QED
  BY <1>2, <1>3

-----------------------------------------------------------------------------
(* The steps.                                                              *)

\* What a step has to show.
Good == IInv' /\ [Writer!Next]_Writer!vars

\* Steps that neither deliver nor echo: the reader stays where it is, goes on
\* to a body, or stops with at most one frame unanswered.
LEMMA AnswerKept ==
  ASSUME IInv, Echoes' = Echoes, delivered' = delivered,
         rx' = rx \/ \E kind \in Kinds : rx' = Append(rx, kind),
         \/ readOp' = readOp /\ rcvd' = rcvd
         \/ rcvd' = rcvd /\ {readOp, readOp'} \cap {"body", "stopped"} = {}
         \/ /\ readOp \notin {"body", "stopped"} /\ readOp' = "body"
            /\ rcvd' = rcvd + 1 /\ rx' = rx /\ rx[rcvd + 1] # "bad"
         \/ /\ readOp # "stopped" /\ readOp' = "stopped"
            /\ rcvd' = rcvd \/ (rcvd' = rcvd + 1 /\ readOp # "body")
  PROVE  AnswerInv'
<1>1. /\ rcvd \in Nat /\ Len(rx) \in Nat /\ rcvd <= Len(rx) /\ rx \in Seq(Kinds)
      /\ Len(delivered) \in Nat
  BY LenProperties DEF IInv, ReadInv
<1>2. Echoes \in Nat
  <2>1. IsFiniteSet(Heartbeats(Log)) /\ Echoes = Cardinality(Heartbeats(Log))
    <3>1. IsFiniteSet(1..Len(Log))
      BY WriteSideTyped, LenProperties, FS_Interval DEF IInv
    <3> QED
      BY <3>1, FS_Subset DEF Heartbeats, Echoes, Log
  <2> QED
    BY <2>1, FS_CardinalityType
<1>3. rcvd' \in Nat /\ rcvd' >= rcvd
  BY <1>1
<1>4. \A i \in 1..Len(rx) : rx'[i] = rx[i]
  BY <1>1, AppendProperties
<1>5. \A j \in 1..Len(delivered) : delivered[j] \in 1..rcvd
  BY DEF IInv, AnswerInv
<1>6. \A j \in 1..Len(delivered') : delivered'[j] \in 1..rcvd'
  BY <1>1, <1>3, <1>5
<1>7. PICK n \in Complete : Answered(n)
  BY DEF IInv, AnswerInv, FramesAnswered
<1>8. n \in Nat /\ n <= rcvd
  <2>1. n = Len(delivered) + Echoes
    BY <1>7 DEF Answered
  <2>2. n <= rcvd
    BY <1>1, <1>7 DEF Complete
  <2> QED
    BY <1>1, <1>2, <2>1, <2>2
<1>9. Answered(n)'
  <2>1. \A j \in 1..Len(delivered) :
          /\ delivered[j] \in 1..n /\ rx[delivered[j]] \in {"data", "short"}
          /\ rx'[delivered[j]] = rx[delivered[j]]
    BY <1>1, <1>4, <1>7, <1>8 DEF Answered
  <2>2. \A i \in 1..n : rx'[i] = "data" => \E j \in 1..Len(delivered) : delivered[j] = i
    BY <1>1, <1>4, <1>7, <1>8 DEF Answered
  <2> QED
    BY <1>7, <2>1, <2>2 DEF Answered
<1>10. n \in Complete'
  <2>2. CASE readOp' = readOp /\ rcvd' = rcvd
    BY <1>7, <2>2 DEF Complete
  <2>3. CASE rcvd' = rcvd /\ {readOp, readOp'} \cap {"body", "stopped"} = {}
    BY <1>7, <2>3 DEF Complete
  <2>4. CASE readOp \notin {"body", "stopped"} /\ readOp' = "body" /\ rcvd' = rcvd + 1
    BY <1>1, <1>7, <2>4 DEF Complete
  <2>5. CASE readOp # "stopped" /\ readOp' = "stopped" /\ rcvd' = rcvd
    BY <1>7, <2>5 DEF Complete
  <2>6. CASE /\ readOp \notin {"body", "stopped"} /\ readOp' = "stopped"
             /\ rcvd' = rcvd + 1
    BY <1>1, <1>7, <2>6 DEF Complete
  <2> QED
    BY <2>2, <2>3, <2>4, <2>5, <2>6
<1>11. readOp' = "body" => rx'[rcvd'] # "bad"
  <2>1. CASE readOp = "body" /\ readOp' = "body"
    <3>1. n = rcvd - 1
      BY <1>7, <2>1 DEF Complete
    <3>2. rcvd \in 1..Len(rx) /\ rcvd' = rcvd
      BY <1>1, <1>8, <2>1, <3>1
    <3> QED
      BY <1>4, <2>1, <3>2 DEF IInv, AnswerInv
  <2> QED
    BY <2>1
<1> QED
  BY <1>6, <1>9, <1>10, <1>11 DEF AnswerInv, FramesAnswered

\* The end of reading: one error, and the calls of write() of its callback.
LEMMA ReadStopsGood ==
  ASSUME IInv, ReadStops, readOp # "stopped",
         rcvd' = rcvd \/ (rcvd' = rcvd + 1 /\ rcvd < Len(rx) /\ readOp # "body")
  PROVE  Good
<1>1. PICK n \in Replies : WritesOf(n, "app")
  BY DEF ReadStops
<1>2. /\ readOp' = "stopped" /\ errors' = errors + 1
      /\ UNCHANGED <<failures, called, delivered, rx, tx, conn, untried>>
  BY DEF ReadStops, connVars
<1>3. WritesGood /\ Echoes' = Echoes
  BY <1>1, <1>2, ReplyNat, WritesPreserve, EchoCount DEF IInv
<1>4. errors' = 1
  BY <1>2 DEF IInv, ReadInv
<1>5. rcvd' \in 0..Len(rx')
  BY <1>2, LenProperties DEF IInv, ReadInv
<1>6. ReadInv'
  BY <1>2, <1>4, <1>5 DEF IInv, ReadInv
<1>7. AnswerInv'
  BY <1>2, <1>3, AnswerKept
<1> QED
  BY <1>3, <1>6, <1>7 DEF Good, IInv, WritesGood

\* Starting the client, and the end of its connection attempts.
LEMMA ConnectGood ==
  ASSUME IInv, Start \/ HandleConnect
  PROVE  Good
<1>1. CASE Start
  <2>1. QuietGood
    BY <1>1, IdlePreserves DEF IInv, Start, writeVars
  <2>2. untried' \in 0..Endpoints /\ conn' \in {conn, "trying"}
    BY <1>1, ClientAssumption DEF IInv, ReadInv, Start, connVars
  <2>3. ReadInv'
    BY <1>1, <2>2 DEF IInv, ReadInv, Start
  <2>4. /\ Echoes' = Echoes /\ UNCHANGED <<delivered, rx, rcvd>>
        /\ {readOp, readOp'} \cap {"body", "stopped"} = {}
    BY <1>1, <2>1 DEF QuietGood, Start
  <2>5. AnswerInv'
    BY <2>4, AnswerKept
  <2> QED
    BY <2>1, <2>3, <2>5 DEF Good, IInv, WritesGood, QuietGood
<1>2. CASE HandleConnect /\ ReadStops
  BY <1>2, ReadStopsGood DEF HandleConnect
<1>3. CASE HandleConnect /\ ~ReadStops
  <2>1. /\ readOp = "connect" /\ readOp' = "header" /\ rcvd' = rcvd
        /\ UNCHANGED <<writeVars, errors, failures, called, delivered, rx, tx, connVars>>
    BY <1>3 DEF HandleConnect
  <2>2. QuietGood
    BY <2>1, IdlePreserves DEF IInv, writeVars
  <2>3. ReadInv'
    BY <2>1 DEF IInv, ReadInv, connVars
  <2>4. /\ Echoes' = Echoes /\ UNCHANGED <<delivered, rx, rcvd>>
        /\ {readOp, readOp'} \cap {"body", "stopped"} = {}
    BY <2>1, <2>2 DEF QuietGood
  <2>5. AnswerInv'
    BY <2>4, AnswerKept
  <2> QED
    BY <2>2, <2>3, <2>5 DEF Good, IInv, WritesGood, QuietGood
<1> QED
  BY <1>1, <1>2, <1>3

\* A header, or the end of reading instead of one.
LEMMA HeaderGood ==
  ASSUME IInv, HandleReadMessageHeader
  PROVE  Good
<1>1. rcvd \in Nat /\ Len(rx) \in Nat /\ readOp = "header"
  BY LenProperties DEF IInv, ReadInv, HandleReadMessageHeader
<1>2. CASE ReadStops
  <2>1. rcvd' = rcvd \/ (rcvd' = rcvd + 1 /\ rcvd < Len(rx) /\ readOp # "body")
    BY <1>1 DEF HandleReadMessageHeader, HeaderArrived
  <2> QED
    BY <1>1, <1>2, <2>1, ReadStopsGood
<1>3. CASE ~ReadStops
  <2>1. /\ rcvd < Len(rx) /\ rcvd' = rcvd + 1 /\ readOp' = "body"
        /\ rx[rcvd + 1] # "bad"
        /\ UNCHANGED <<writeVars, errors, failures, called, delivered, rx, tx, connVars>>
    BY <1>3 DEF HandleReadMessageHeader, HeaderArrived, DecodeHeader
  <2>2. QuietGood
    BY <2>1, IdlePreserves DEF IInv, writeVars
  <2>3. ReadInv'
    BY <1>1, <2>1 DEF IInv, ReadInv, connVars
  <2>4. AnswerInv'
    BY <1>1, <2>1, <2>2, AnswerKept DEF QuietGood
  <2> QED
    BY <2>2, <2>3, <2>4 DEF Good, IInv, WritesGood, QuietGood
<1> QED
  BY <1>2, <1>3

\* A body is written back or delivered, or reading ends.
LEMMA BodyGood ==
  ASSUME IInv, HandleReadMessageBody
  PROVE  Good
<1>1. readOp = "body" /\ rcvd' = rcvd
  BY DEF HandleReadMessageBody
<1>2. CASE ReadStops
  BY <1>1, <1>2, ReadStopsGood
<1>3. CASE ~ReadStops
  <2>1. /\ BodyArrived
        /\ \E heartbeat \in IsHeartbeat(rx[rcvd]) :
             (heartbeat /\ Echo) \/ (~heartbeat /\ Deliver)
        /\ readOp' = "header"
        /\ UNCHANGED <<errors, failures, called, rx, tx, connVars>>
    BY <1>3 DEF HandleReadMessageBody
  <2>2. /\ rcvd \in Nat /\ delivered \in Seq(Nat) /\ Len(delivered) \in Nat
        /\ rx \in Seq(Kinds) /\ rcvd <= Len(rx)
    BY LenProperties DEF IInv, ReadInv
  <2>3. Answered(rcvd - 1)
    BY <1>1 DEF IInv, AnswerInv, FramesAnswered, Complete
  <2>6. /\ Len(delivered) + Echoes = rcvd - 1
        /\ \A j \in 1..Len(delivered) : delivered[j] \in 1..rcvd - 1
    BY <2>3 DEF Answered
  <2>7. Complete' = {rcvd}
    BY <1>1, <2>1 DEF Complete
  <2>8. PICK heartbeat \in IsHeartbeat(rx[rcvd]) :
          (heartbeat /\ Echo) \/ (~heartbeat /\ Deliver)
    BY <2>1, Zenon
  <2>4. CASE heartbeat /\ Echo
    <3>1. WritesOf(1, "heartbeat") /\ delivered' = delivered
      BY <2>4 DEF Echo
    <3>2. WritesGood /\ Echoes' = Echoes + 1 /\ Echoes \in Nat
      BY <2>1, <3>1, WritesPreserve, EchoCount DEF IInv
    <3>3. ReadInv'
      BY <1>1, <2>1, <3>1 DEF IInv, ReadInv, connVars
    <3>4. rx[rcvd] # "data"
      <4>1. rx[rcvd] = "data" => IsHeartbeat(rx[rcvd]) = {FALSE}
        BY Zenon DEF IsHeartbeat
      <4> QED
        BY <2>4, <2>8, <4>1, Zenon
    <3>5. Len(delivered') + Echoes' = rcvd'
      BY <1>1, <2>2, <2>6, <3>1, <3>2
    <3>6. \A i \in 1..rcvd : i # rcvd => i \in 1..rcvd - 1
      BY <2>2
    <3>7. Answered(rcvd)'
      <4>1. \A j \in 1..Len(delivered) : delivered[j] \in 1..rcvd
        BY <2>2, <2>6
      <4>2. \A i \in 1..rcvd : rx[i] = "data" => \E j \in 1..Len(delivered) : delivered[j] = i
        BY <2>3, <3>4, <3>6 DEF Answered
      <4> QED
        BY <1>1, <2>1, <2>3, <3>1, <3>5, <4>1, <4>2 DEF Answered
    <3>8. AnswerInv'
      BY <1>1, <2>1, <2>7, <3>7 DEF AnswerInv, FramesAnswered, Answered
    <3> QED
      BY <3>2, <3>3, <3>8 DEF Good, IInv, WritesGood
  <2>5. CASE ~heartbeat /\ Deliver
    <3>1. PICK n \in Replies : WritesOf(n, "app") /\ delivered' = Append(delivered, rcvd)
      BY <2>5 DEF Deliver
    <3>2. WritesGood /\ Echoes' = Echoes /\ Echoes \in Nat
      BY <2>1, <3>1, ReplyNat, WritesPreserve, EchoCount DEF IInv
    <3>3. /\ delivered' \in Seq(Nat) /\ Len(delivered') = Len(delivered) + 1
          /\ \A j \in 1..Len(delivered) : delivered'[j] = delivered[j]
          /\ delivered'[Len(delivered) + 1] = rcvd
      BY <2>2, <3>1, AppendProperties
    <3>4. ReadInv'
      BY <1>1, <2>1, <3>3 DEF IInv, ReadInv, connVars
    <3>5. rcvd \in 1..Len(rx) /\ rx[rcvd] \in Kinds
      BY <2>2, <2>6, <3>2, ElementOfSeq
    <3>6. rx[rcvd] \in {"data", "short"}
      <4>1. rx[rcvd] = "ping" => IsHeartbeat(rx[rcvd]) = {TRUE}
        BY Zenon DEF IsHeartbeat
      <4>2. rx[rcvd] # "ping"
        <5>1. SUFFICES ASSUME rx[rcvd] = "ping" PROVE FALSE
          OBVIOUS
        <5>2. heartbeat \in {TRUE}
          BY <2>8, <4>1, <5>1, Zenon
        <5>3. heartbeat = TRUE
          BY <5>2, Zenon
        <5> QED
          BY <2>5, <5>3, Zenon
      <4>3. rx[rcvd] # "bad" /\ rx[rcvd] # "cut"
        BY <1>1, <2>1 DEF BodyArrived, IInv, AnswerInv
      <4> QED
        BY <3>5, <4>2, <4>3 DEF Kinds
    <3>7. Len(delivered') + Echoes' = rcvd'
      BY <1>1, <2>2, <2>6, <3>2, <3>3
    <3>8. \A j \in 1..Len(delivered') :
            delivered'[j] \in 1..rcvd /\ rx[delivered'[j]] \in {"data", "short"}
      <4>1. SUFFICES ASSUME NEW j \in 1..Len(delivered')
                     PROVE  delivered'[j] \in 1..rcvd /\ rx[delivered'[j]] \in {"data", "short"}
        OBVIOUS
      <4>2. CASE j = Len(delivered) + 1
        BY <2>2, <3>3, <3>5, <3>6, <4>2
      <4>3. CASE j # Len(delivered) + 1
        <5>1. j \in 1..Len(delivered) /\ delivered'[j] = delivered[j]
          BY <2>2, <3>3, <4>3
        <5> QED
          BY <2>2, <2>3, <2>6, <5>1 DEF Answered
      <4> QED
        BY <4>2, <4>3
    <3>9. ASSUME NEW i \in 1..Len(delivered'), NEW j \in 1..Len(delivered'), i < j
          PROVE  delivered'[i] < delivered'[j]
      <4>1. i \in 1..Len(delivered) /\ delivered'[i] = delivered[i]
        BY <2>2, <3>3, <3>9
      <4>2. CASE j = Len(delivered) + 1
        BY <2>2, <2>6, <3>3, <4>1, <4>2
      <4>3. CASE j # Len(delivered) + 1
        <5>1. j \in 1..Len(delivered) /\ delivered'[j] = delivered[j]
          BY <2>2, <3>3, <4>3
        <5> QED
          BY <2>3, <3>9, <4>1, <5>1 DEF Answered
      <4> QED
        BY <4>2, <4>3
    <3>10. ASSUME NEW i \in 1..rcvd, rx[i] = "data"
           PROVE  \E j \in 1..Len(delivered') : delivered'[j] = i
      <4>1. CASE i = rcvd
        <5>1. Len(delivered) + 1 \in 1..Len(delivered')
          BY <2>2, <3>3
        <5> QED
          BY <3>3, <4>1, <5>1
      <4>2. CASE i # rcvd
        <5>1. i \in 1..rcvd - 1
          BY <2>2, <4>2
        <5>2. PICK j \in 1..Len(delivered) : delivered[j] = i
          BY <2>3, <3>10, <5>1 DEF Answered
        <5>3. j \in 1..Len(delivered')
          BY <2>2, <3>3
        <5> QED
          BY <3>3, <5>2, <5>3
      <4> QED
        BY <4>1, <4>2
    <3>11. Answered(rcvd)'
      BY <1>1, <2>1, <3>7, <3>8, <3>9, <3>10 DEF Answered
    <3>12. AnswerInv'
      BY <1>1, <2>1, <2>7, <3>8, <3>11 DEF AnswerInv, FramesAnswered
    <3> QED
      BY <3>2, <3>4, <3>12 DEF Good, IInv, WritesGood
  <2> QED
    BY <2>4, <2>5, <2>8
<1> QED
  BY <1>2, <1>3

\* Steps that leave the read side alone.
LEMMA WriteStepGood ==
  ASSUME IInv, AppWrite \/ HandleWrite \/ SendCompletes \/ SendFails
  PROVE  Good
<1>1. UNCHANGED <<readOp, errors, delivered, rx, rcvd, conn, untried>>
  BY DEF AppWrite, HandleWrite, SendCompletes, SendFails, connVars
<1>2. WriteInv /\ ReadInv'
  BY <1>1 DEF IInv, ReadInv
<1>6. Echoes' = Echoes => AnswerInv'
  BY <1>1, AnswerKept
<1>3. CASE AppWrite
  <2>1. WritesOf(1, "app") /\ UNCHANGED <<called, tx, failures>>
    BY <1>3 DEF AppWrite
  <2>2. WritesGood /\ Echoes' = Echoes
    BY <1>2, <2>1, WritesPreserve, EchoCount
  <2> QED
    BY <1>2, <1>6, <2>2 DEF Good, IInv, WritesGood
<1>4. CASE HandleWrite
  <2>1. PICK i \in DOMAIN writing : WriteSucceeded(i) \/ WriteFailed(i)
    BY <1>4 DEF HandleWrite
  <2>2. tx' = tx
    BY <1>4 DEF HandleWrite
  <2>3. QuietGood
    BY <1>2, <2>1, <2>2, SuccessPreserves, FailurePreserves
  <2> QED
    BY <1>2, <1>6, <2>3 DEF Good, IInv, WritesGood, QuietGood
<1>5. CASE SendCompletes \/ SendFails
  BY <1>2, <1>5, <1>6, SendPreserves DEF Good, IInv, WritesGood, QuietGood
<1> QED
  BY <1>3, <1>4, <1>5

\* The connection attempts, seen from below.
LEMMA AttemptGood ==
  ASSUME IInv, AttemptFails \/ NextEndpoint \/ Connected
  PROVE  Good
<1>1. UNCHANGED <<readOp, errors, delivered, rx, rcvd, messageItemQueue, accepted,
                  called, tx, failures>>
  BY DEF AttemptFails, NextEndpoint, Connected, writeVars
<1>2. conn' \in {"refused", "trying", "open"} /\ untried' \in 0..Endpoints
  BY ClientAssumption DEF AttemptFails, NextEndpoint, Connected, IInv, ReadInv
<1>3. ReadInv'
  BY <1>1, <1>2 DEF IInv, ReadInv
<1>4. writing' = Aborted \/ writing' = writing
  BY DEF AttemptFails, NextEndpoint, Connected, writeVars
<1>5. QuietGood
  BY <1>1, <1>4, AbortPreserves, IdlePreserves DEF IInv
<1>6. AnswerInv'
  BY <1>1, <1>5, AnswerKept DEF QuietGood
<1> QED
  BY <1>3, <1>5, <1>6 DEF Good, IInv, WritesGood, QuietGood

\* The peer, and nothing at all.
LEMMA PeerGood ==
  ASSUME IInv, (\E kind \in InKinds : PeerSend(kind)) \/ PeerFin \/ PeerReset \/ UNCHANGED vars
  PROVE  Good
<1>1. UNCHANGED <<readOp, errors, delivered, rcvd, messageItemQueue, writing, accepted,
                  called, tx, failures, untried>>
  BY DEF PeerSend, PeerFin, PeerReset, vars, writeVars, connVars
<1>2. conn' \in {conn, "fin", "reset"}
  BY DEF PeerSend, PeerFin, PeerReset, vars, connVars
<1>3. rx' \in Seq(Kinds) /\ rcvd \in 0..Len(rx')
  <2>1. rx \in Seq(Kinds) /\ Len(rx) \in Nat /\ rcvd \in 0..Len(rx)
    BY LenProperties DEF IInv, ReadInv
  <2>2. CASE \E kind \in InKinds : PeerSend(kind)
    <3>1. PICK kind \in Kinds : rx' = Append(rx, kind)
      BY <2>2, ClientAssumption DEF PeerSend
    <3>2. rx' \in Seq(Kinds) /\ Len(rx') = Len(rx) + 1
      BY <2>1, <3>1, AppendProperties
    <3> QED
      BY <2>1, <3>2
  <2>3. CASE PeerFin \/ PeerReset \/ UNCHANGED vars
    BY <2>1, <2>3 DEF PeerFin, PeerReset, vars
  <2> QED
    BY <2>2, <2>3
<1>4. ReadInv'
  BY <1>1, <1>2, <1>3 DEF IInv, ReadInv
<1>5. QuietGood
  BY <1>1, IdlePreserves DEF IInv
<1>6. rx' = rx \/ \E kind \in Kinds : rx' = Append(rx, kind)
  BY ClientAssumption DEF PeerSend, PeerFin, PeerReset, vars
<1>7. AnswerInv'
  BY <1>1, <1>5, <1>6, AnswerKept DEF QuietGood
<1> QED
  BY <1>4, <1>5, <1>7 DEF Good, IInv, WritesGood, QuietGood

\* Every step keeps the inductive invariant, and is a step or a stutter of the
\* ordered writer.
THEOREM StepGood ==
  ASSUME IInv, [Next]_vars
  PROVE  Good
<1>1. CASE Start \/ HandleConnect
  BY <1>1, ConnectGood
<1>2. CASE HandleReadMessageHeader
  BY <1>2, HeaderGood
<1>3. CASE HandleReadMessageBody
  BY <1>3, BodyGood
<1>4. CASE AppWrite \/ HandleWrite \/ SendCompletes \/ SendFails
  BY <1>4, WriteStepGood
<1>5. CASE AttemptFails \/ NextEndpoint \/ Connected
  BY <1>5, AttemptGood
<1>6. CASE (\E kind \in InKinds : PeerSend(kind)) \/ PeerFin \/ PeerReset \/ UNCHANGED vars
  BY <1>6, PeerGood
<1> QED
  BY <1>1, <1>2, <1>3, <1>4, <1>5, <1>6 DEF Next

\* The initial states satisfy the invariant, and are the writer's.
THEOREM InitGood == Init => IInv /\ Writer!Init
<1> SUFFICES ASSUME Init PROVE IInv /\ Writer!Init
  OBVIOUS
<1>1. /\ <<>> \in Seq(Items) /\ <<>> \in Seq(Ops) /\ <<>> \in Seq(Kinds) /\ <<>> \in Seq(Nat)
      /\ Len(<<>>) = 0
  BY EmptySeq
<1>2. called \o messageItemQueue = <<>>
  BY <1>1, ConcatEmptySeq DEF Init
<1>3. WriteInv
  BY <1>1 DEF Init, WriteInv, WriteSide, Orderly, FailureReportedOnce, Stuck, InHandler
<1>4. ReadInv
  BY <1>1 DEF Init, ReadInv
<1>6. AnswerInv
  <2>1. Heartbeats(<<>>) = {}
    BY <1>1 DEF Heartbeats
  <2>2. Echoes = 0
    BY <1>2, <2>1, FS_EmptySet DEF Echoes
  <2> QED
    BY <1>1, <2>2 DEF Init, AnswerInv, FramesAnswered, Answered, Complete
<1>5. Writer!Init
  BY <1>1, <1>2 DEF Init, Writer!Init
<1> QED
  BY <1>3, <1>4, <1>5, <1>6 DEF IInv

-----------------------------------------------------------------------------
(* What follows for every behaviour.                                       *)

\* What the kernel has taken is the beginning of the log, message by message.
OnWire == Len(tx) <= Len(Log) /\ \A i \in 1..Len(tx) : tx[i] = Log[i]

\* The log and the wire only grow, and OnWire stays.
Grown ==
  /\ Log \in Seq(Items) /\ Log' \in Seq(Items) /\ tx \in Seq(Items) /\ tx' \in Seq(Items)
  /\ Len(Log) <= Len(Log') /\ \A i \in 1..Len(Log) : Log'[i] = Log[i]
  /\ Len(tx) <= Len(tx') /\ \A i \in 1..Len(tx) : tx'[i] = tx[i]

LEMMA WireGood ==
  ASSUME IInv, OnWire, [Next]_vars
  PROVE  OnWire' /\ Grown
<1>1. IInv' /\ [Writer!Next]_Writer!vars
  BY StepGood DEF Good
<1>2. /\ Log \in Seq(Items) /\ Log' \in Seq(Items) /\ tx \in Seq(Items) /\ tx' \in Seq(Items)
      /\ Len(Log) \in Nat /\ Len(Log') \in Nat /\ Len(tx) \in Nat /\ Len(tx') \in Nat
  <2>1. Log \in Seq(Items) /\ tx \in Seq(Items)
    BY ConcatProperties DEF Log, IInv, WriteInv
  <2>2. Log' \in Seq(Items) /\ tx' \in Seq(Items)
    BY <1>1, ConcatProperties DEF Log, IInv, WriteInv
  <2> QED
    BY <2>1, <2>2, LenProperties
<1>3. Len(Log) <= Len(Log') /\ \A i \in 1..Len(Log) : Log'[i] = Log[i]
  <2>1. Log' = Log \/ Writer!Extends(Log', Log)
    BY <1>1 DEF Writer!Next, Writer!vars, Writer!Accept, Writer!Transmit, Writer!Acknowledge, Log
  <2> QED
    BY <1>2, <2>1 DEF Writer!Extends
<1>4. CASE tx' = tx
  BY <1>2, <1>3, <1>4 DEF OnWire, Grown
<1>5. CASE tx' # tx
  <2>1. SendCompletes
    BY <1>5 DEF Next, vars, Start, HandleConnect, HandleReadMessageHeader,
      HandleReadMessageBody, ReadStops, HandleWrite, AppWrite, AttemptFails, NextEndpoint,
      Connected, SendFails, PeerSend, PeerFin, PeerReset
  <2>2. PICK i \in DOMAIN writing : writing[i].st = "sending" /\ tx' = Append(tx, writing[i].item)
    BY <2>1 DEF SendCompletes
  <2>3. Log' = Log
    BY <2>1 DEF SendCompletes, Log
  <2>4. Len(writing) <= 1 /\ messageItemQueue \in Seq(Items) /\ called \in Seq(Items)
        /\ writing \in Seq(Ops)
        /\ (writing # <<>> => messageItemQueue # <<>> /\ writing[1].item = Head(messageItemQueue))
        /\ Len(Log) = Len(called) + Len(messageItemQueue)
        /\ Len(tx) = Len(called) + InHandler
    BY WriteSideTyped DEF IInv, WriteInv
  <2>5. i = 1 /\ writing # <<>>
    BY <2>4, RemoveOnly
  <2>6. Len(tx) = Len(called)
    <3>1. InHandler = 0
      BY <2>2, <2>5 DEF InHandler
    <3> QED
      BY <1>2, <2>4, <3>1, LenProperties
  <2>7. /\ Len(messageItemQueue) \in Nat \ {0} /\ Len(called) \in Nat
        /\ Head(messageItemQueue) = messageItemQueue[1] /\ Head(messageItemQueue) \in Items
    BY <2>4, <2>5, EmptySeq, LenProperties, HeadTailProperties
  <2>8. Log[Len(called) + 1] = Head(messageItemQueue)
    <3>1. Log[Len(called) + 1] = messageItemQueue[Len(called) + 1 - Len(called)]
      BY <2>4, <2>7, ConcatProperties DEF Log
    <3> QED
      BY <2>7, <3>1
  <2>9. /\ Len(tx') = Len(tx) + 1 /\ \A j \in 1..Len(tx) : tx'[j] = tx[j]
        /\ tx'[Len(tx) + 1] = Head(messageItemQueue)
    BY <1>2, <2>2, <2>4, <2>5, <2>7, AppendProperties
  <2>10. Len(tx') <= Len(Log)
    BY <2>4, <2>6, <2>7, <2>9
  <2>11. \A j \in 1..Len(tx') : tx'[j] = Log[j]
    BY <1>2, <2>6, <2>8, <2>9 DEF OnWire
  <2> QED
    BY <1>2, <1>3, <2>3, <2>9, <2>10, <2>11 DEF OnWire, Grown
<1> QED
  BY <1>4, <1>5

\* The inductive invariant of the client: an orderly write side, one reported
\* failure for a queue nobody writes, one error for the end of reading, and an
\* answer to every frame but the one being read.
THEOREM Invariance == Spec => []IInv
<1>1. Init => IInv
  BY InitGood
<1>2. IInv /\ [Next]_vars => IInv'
  BY StepGood DEF Good
<1> QED
  BY <1>1, <1>2, PTL DEF Spec

\* The state keeps its types; readCallback_ gets at most one error, and one
\* write callback at most.
THEOREM TypeCorrect == Spec => []TypeOK
<1>1. IInv => TypeOK
  <2> SUFFICES ASSUME IInv PROVE TypeOK
    OBVIOUS
  <2>1. errors \in 0..1 /\ failures \in 0..1
    BY DEF IInv, WriteInv, ReadInv, FailureReportedOnce
  <2> QED
    BY <2>1 DEF IInv, WriteInv, ReadInv, TypeOK
<1> QED
  BY <1>1, Invariance, PTL

\* The client stops writing exactly when one write has failed and its callback
\* has been told (Client::handleWrite), whatever the order of failed attempts,
\* errors of reading and calls of write() from inside callbacks.
THEOREM FailureReported == Spec => []FailureReportedOnce
<1>1. IInv => FailureReportedOnce
  BY DEF IInv, WriteInv
<1> QED
  BY <1>1, Invariance, PTL

\* handleReadMessageBody hands every complete application message to
\* readCallback_, once and in the order of arrival, and accepts one echo for
\* every heartbeat and for nothing else, whatever the application's own writes
\* do to the queue the echoes share.
THEOREM EveryFrameAnswered == Spec => []FramesAnswered
<1>1. IInv => FramesAnswered
  BY DEF IInv, AnswerInv
<1> QED
  BY <1>1, Invariance, PTL

\* The write side of a client implements the ordered writer.
THEOREM ImplementsWriter == Spec => WriterSpec
<1>1. Init => Writer!Init
  BY InitGood
<1>2. IInv /\ [Next]_vars => [Writer!Next]_Writer!vars
  BY StepGood DEF Good
<1> QED
  BY <1>1, <1>2, Invariance, PTL DEF Spec, WriterSpec, Writer!Spec

=============================================================================
