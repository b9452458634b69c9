------------------------------- MODULE Channel -------------------------------
(***************************************************************************)
(* What a connection promises to the two applications, in one direction:   *)
(* the messages one of them writes reach the other's read callback, each   *)
(* once and in the order of the calls, until the connection is lost.       *)
(***************************************************************************)
EXTENDS Naturals, SequencesExt

CONSTANT Messages

VARIABLES
  written,  \* the application's calls of write()
  received  \* the calls of the read callback at the other end

Init == written = <<>> /\ received = <<>>

\* One handler may call write() several times.
Write ==
  /\ written' \in Seq(Messages)
  /\ IsStrictPrefix(written, written')
  /\ UNCHANGED received

Receive ==
  /\ Len(received) < Len(written)
  /\ received' = Append(received, written[Len(received) + 1])
  /\ UNCHANGED written

Spec == Init /\ [][Write \/ Receive]_<<written, received>>
=============================================================================
