SPECIFICATION Spec
INVARIANT AcceptedIsComplete
CHECK_DEADLOCK FALSE
