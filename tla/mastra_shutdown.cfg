\* A span arrives while a flush is in flight, then shutdown is called.
CONSTANTS
    MaxSpans = 3
    BatchSize = 2
    MaxRetries = 1
SPECIFICATION Spec
INVARIANT ShutdownFlushes
