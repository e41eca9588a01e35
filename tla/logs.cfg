\* Two containers and three lines behind one insert slot; four frames at two
\* lines a second; two sockets and a stream on one channel;
\* two tables whose rows grow old without end, up to three waiting, deleted by twos;
\* two redirects.
CONSTANTS
    Containers = {k1, k2}
    Lines = 3
    Chunk = 2
    BatchMax = 2
    BufferMax = 1
    MaxInserts = 1
    Payloads = {0, 3}
    Frames = 4
    Chunks = {1, 10, 21}
    Rate = 2
    Second = 3
    Horizon = 3
    Sockets = {w1, w2}
    Streams = {s1}
    Channels = {ch1}
    MaxHandlers = 2
    MaxClients = 1
    MaxLookups = 1
    Nobody = Nobody
    CleanedTables = 2
    BatchSize = 2
    MaxExpired = 3
    Cycles = {y1, y2}
    MaxRedirects = 2
SPECIFICATION Spec
INVARIANTS TypeOK SlotsHeld NoLineLost StreamIntact HearsItsChannel OnlyLateLeftovers NoStraySocket
PROPERTIES LinesSettle BackpressureLifts StreamsCleanUp ExpiredRowsGo ChecksEnd
\* The process ends, a socket closes for good.
CHECK_DEADLOCK FALSE
