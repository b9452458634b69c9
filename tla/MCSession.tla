------------------------------ MODULE MCSession ------------------------------
(* Session with small bounds.                                              *)
EXTENDS Session
AllKinds == Kinds
SomeKinds == {"data", "cut"}
=============================================================================
