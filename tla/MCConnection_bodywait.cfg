\* One GET and one POST in a pipeline.
CONSTANTS
    Streams <- GetThenPost
    Middlewares = 1
    MaxReader = 2
    MaxBody = 4
    Numeral <- MCNumeral
    MayAbandon = FALSE
SPECIFICATION Spec
INVARIANT EarlierAnswersFlushed
