\* Two or three pipelined requests, one middleware.
CONSTANTS
    Streams <- MCStreams
    Middlewares = 1
    MaxReader = 2
    MaxBody = 4
    Numeral <- MCNumeral
    MayAbandon = TRUE
SPECIFICATION Spec
INVARIANTS TypeOK OneAnswerEach CloseIsLast NothingHeldBack AtBoundary
PROPERTIES Answered LeavingEndsTask
