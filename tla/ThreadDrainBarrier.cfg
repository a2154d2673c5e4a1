\* Five listener threads.  The system really stops when the wakeup is lost.
CONSTANT Threads = {t1, t2, t3, t4, t5}
SPECIFICATION Spec
INVARIANTS TypeOK LastThreadNotifies
PROPERTIES ImplementsGateSafety ParkedInTimeReturns
CHECK_DEADLOCK FALSE
