CONSTANT Threads = {t1, t2}
SPECIFICATION Spec
PROPERTY SignalledBarrierReleases
CHECK_DEADLOCK FALSE
