\* Two restart attempts; a request can be queued while one is in progress.
CONSTANTS
    Children = {c1, c2}
    Pids = {p1, p2}
    NoPid = NoPid
    MaxQueue = 1
SPECIFICATION Spec
INVARIANTS TypeOK OneAttempt SignalLeavesNoChild
PROPERTIES OnlyAForcedHandoverCutsOff KillGoesAstrayOnlyOnceReaped SigTermObeyed AttemptEnds
