------------------------------ MODULE MCClient ------------------------------
(* Client with small bounds.                                               *)
EXTENDS Client
AllKinds  == Kinds
=============================================================================
