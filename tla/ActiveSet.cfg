\* Three requests that come and go, two waiters (the control plane and a listener thread).
CONSTANTS
    Ids = {i1, i2, i3}
    Waiters = {w1, w2}
    MaxClones = 2
SPECIFICATION Spec
INVARIANTS TypeOK CountIsGuards MapMirrorsGuards NoLostWakeup
PROPERTIES ImplementsGateSafety ImplementsGate
