\* A channel, two encryption keys.
CONSTANTS
    Projects = {p1, p2}
    MaxRows = 3
    None = None
    Callers = {c1, c2}
    MaxVersion = 3
    Ttl = 2
    MaxQuery = 1
    CacheMax = 2
    LastTime = 4
    Window = 3
    MaxRequests = 1
    HostMax = 2
    Lag = 1
    MaxAsked = 5
    LastTick = 5
    Monitors = {m1, m2}
    Http = {m1}
    Failures = 2
    PerFailure = 2
    MaxChecks = 4
    Clients = {u1, u2, u3}
    MaxCopies = 2
    CipherKeys = {k1, k2}
    NoKey = NoKey
    OtlpChunk = 2
    MaxItems = 3
    MaxSends = 2
    Collectors = {x1, x2}
    MaxBytes = 2
    MaxRestarts = 1
    MaxTime = 2
    Interval = 1
    Never = Never
    SpanIds = {n1, n2, n3}
    NoSpan = NoSpan
    MaxStored = 4
    MaxQuick = 120
    MaxOthers = 3
SPECIFICATION Spec
SYMMETRY Symmetry
INVARIANT AlertUsesSaved
CHECK_DEADLOCK FALSE
