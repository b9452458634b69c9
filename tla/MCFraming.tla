----------------------------- MODULE MCFraming -----------------------------
(* Framing with a header of three binary digits.                           *)
EXTENDS Framing
P == -5
I == -6
X == -7
MCLetters == {P, I, X}
MCPing    == <<P, I>>
\* The texts of at most two characters of a few kinds, one like a header with
\* its body, and the longest ones.
MCTexts ==
  UNION {[1..n -> {P, I, Nul, Space, 1}] : n \in 0..2}
    \cup {<<Space, Space, 1, 1>>, <<P, I, Nul, X>>, [i \in 1..7 |-> X], [i \in 1..6 |-> 1]}
=============================================================================
