\* Two threads, two connections, bytes arriving twice.
CONSTANTS
    Threads = {t1, t2}
    Conns = {c1, c2}
    MaxReads = 2
    HasCors = TRUE
SPECIFICATION Spec
INVARIANTS TypeOK NoStrandedRequest OnlyDeferredAnswersLost
PROPERTIES ImplementsGateSafety ThreadsDrain
