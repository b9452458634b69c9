-------------------------------- MODULE Frame --------------------------------
(***************************************************************************)
(* What arrives on a connection, abstracted to what its reader does with   *)
(* it.  A frame is one of the following kinds.                             *)
(*   "data"   an application message                                       *)
(*   "ping"   a body that begins with PING, the text of a heartbeat        *)
(*   "short"  a body that is a proper prefix of PING, the empty one        *)
(*            included: isHeartbeat compares bytes nobody wrote            *)
(*   "bad"    a header whose number is outside 0..MAX_BODY_SIZE            *)
(*   "cut"    a header whose body does not arrive before the connection    *)
(*            ends                                                         *)
(***************************************************************************)

Kinds == {"data", "ping", "short", "bad", "cut"}

\* A number above the limit, which a negative one becomes, is refused.
DecodeHeader(frame) == frame # "bad"

\* Faulty variant: a heartbeat is never recognised.
NeverHeartbeat(frame) == {FALSE}

\* The outcomes of isHeartbeat on a complete body.
IsHeartbeat(frame) ==
  CASE frame = "ping"  -> {TRUE}
    [] frame = "short" -> BOOLEAN
    [] OTHER           -> {FALSE}

=============================================================================
