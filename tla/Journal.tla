------------------------------- MODULE Journal -------------------------------
(***************************************************************************)
(* What the log promises to whoever reads its files: they are one journal  *)
(* that only grows at its end, and the messages of one source stand in it  *)
(* in the order in which the source logged them, across restarts, too.     *)
(***************************************************************************)
EXTENDS Naturals, Sequences

CONSTANTS Sources, Messages

VARIABLE journal  \* the messages in all files, in the order of the files

Init == journal = <<>>

\* The order of the messages of one source.
Before(a, b) == a.run < b.run \/ (a.run = b.run /\ a.n < b.n)

Add(message) ==
  /\ \A i \in 1..Len(journal) :
       journal[i].by = message.by => Before(journal[i], message)
  /\ journal' = Append(journal, message)

Next == \E message \in Messages : Add(message)

Spec == Init /\ [][Next]_journal
=============================================================================
