---------------------------- MODULE OrderedWriter ----------------------------
(***************************************************************************)
(* What one direction of a connection promises to whoever calls write():   *)
(* the messages get their numbers in the order of the calls, are put on    *)
(* the wire one at a time in that order, and are acknowledged, again in    *)
(* that order, only after they are on the wire and before the next one is. *)
(* A connection may stop at any point; what is acknowledged stays so.      *)
(***************************************************************************)
EXTENDS Integers, Sequences

CONSTANT Messages  \* what write() may be given

VARIABLES
  log,   \* every message write() was called with, in the order of the calls
  sent,  \* how many of them the kernel has taken
  acked  \* how many of the callbacks have been called

vars == <<log, sent, acked>>

Init == log = <<>> /\ sent = 0 /\ acked = 0

Extends(new, old) ==
  /\ new \in Seq(Messages) /\ Len(new) >= Len(old)
  /\ \A i \in 1..Len(old) : new[i] = old[i]

\* write() outside a write callback
Accept ==
  /\ Extends(log', log)
  /\ UNCHANGED <<sent, acked>>

\* The kernel takes the next message.  Nothing is on the wire and unacknowledged.
Transmit ==
  /\ sent = acked /\ sent < Len(log)
  /\ sent' = sent + 1
  /\ UNCHANGED <<log, acked>>

\* The callback of the message on the wire; it may call write().
Acknowledge ==
  /\ acked < sent
  /\ acked' = acked + 1
  /\ Extends(log', log)
  /\ UNCHANGED sent

Next == Accept \/ Transmit \/ Acknowledge

Spec == Init /\ [][Next]_vars
=============================================================================
