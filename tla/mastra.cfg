\* Batches of two, one retry; four log lines, of which three are there when the page
\* opens and two pairs have one time, on pages of one, three requests.
CONSTANTS
    MaxSpans = 5
    BatchSize = 2
    MaxRetries = 1
    MaxLines = 4
    Earlier = 3
    Matching = {1, 3}
    Together = {2, 4}
    PageSize = 1
    MaxShown = 3
    MaxPages = 3
SPECIFICATION ClientSpec
INVARIANTS NothingForgotten StoredOnce LogsInTurn
PROPERTIES DeliversInOrder DeliveredWhenReachable
\* The page's requests run out.
CHECK_DEADLOCK FALSE
