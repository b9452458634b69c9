----------------------------- MODULE MCEventBus -----------------------------
(* EventBus with two threads and two listeners, one of which is reentrant. *)
EXTENDS EventBus
CONSTANTS t1, t2, e1, e2, plain, again
TwoThreads   == {t1, t2}
TwoIds       == {e1, e2}
TwoListeners == {plain, again}
OneReentrant == {again}
=============================================================================
