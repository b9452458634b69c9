------------------------------ MODULE MCServer ------------------------------
(* Server with descriptors for two connections of three.                   *)
EXTENDS Server
FourSessions == 1..4
=============================================================================
