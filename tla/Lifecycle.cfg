\* Mounts one after the other, by the command or by a context, that are cleaned,
\* unmounted and killed at any time.
CONSTANTS
    a = a  b = b  c = c
    Artifacts = {a, b, c}
    Prefetched = {a, b}
    MaxAttempts = 3
    MaxPolls = 4
SPECIFICATION Spec
INVARIANTS TypeOK LeftClean ServedByHealthyGraph
PROPERTIES LossIsAsked EnterEnds ThreadEnds
