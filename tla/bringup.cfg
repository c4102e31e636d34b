SPECIFICATION Spec
CONSTANT AddrLen = 300
INVARIANTS TypeOK HandlesAlive LeftAtReturn ExitTellsFailure
CHECK_DEADLOCK FALSE
