\* One thread, one connection.
CONSTANTS
    Threads = {t1}
    Conns = {c1}
    MaxReads = 2
    HasCors = TRUE
SPECIFICATION Spec
INVARIANT EveryResponseWritten
