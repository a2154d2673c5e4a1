\* One attempt is enough to lose a SIGINT.
CONSTANTS
    Children = {c1}
    Pids = {p1}
    NoPid = NoPid
    MaxQueue = 1
SPECIFICATION Spec
PROPERTY SigIntObeyed
