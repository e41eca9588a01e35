----------------------------- MODULE RateLimits -----------------------------
\* The two limits kept in Redis: the sliding window of the rate limiter
\* (checkLimit, a sorted set of request times) and the fixed window of the agent
\* ingestion (checkHostLimit, a counter that expires), with the fallback of the
\* latter to a window in memory.  A behaviour watches one key of one, `limiter`.
\*
\* A request is stamped in the process and reaches Redis in order, at most Lag
\* ticks later.  Time stops at LastTick; the set and the counter hold what fits
\* in it.  Redis may fail any command; it may lose an expiry it was not asked for.
EXTENDS Naturals, Sequences, FiniteSets

CONSTANTS Window, MaxRequests, HostMax, Lag, MaxAsked, LastTick

ASSUME LimitsAssumption ==
    /\ Window \in Nat \ {0} /\ MaxRequests \in Nat \ {0} /\ HostMax \in Nat \ {0}
    /\ Lag \in Nat /\ Lag < Window /\ MaxAsked \in Nat /\ LastTick \in Nat

VARIABLES
    limiter,    \* "sliding" or "host"
    time,
    asked,      \* the stamps of the requests on their way to Redis
    hits,       \* the sorted set of the sliding window: stamps, in order
    hitsUntil,  \* when its key expires
    admitted,   \* the stamps of the requests let through
    count,      \* the counter of the host, 0 when its key does not exist
    until,      \* when it expires
    counting,   \* when an INCR answered 1 whose PEXPIRE is to come, if one did
    memory,     \* the times in the memory bucket of the host
    knocks,     \* the times of the requests, at most MaxAsked
    unbounded,  \* the counter has no expiry, as the PEXPIRE failed
    refused     \* who refused the host's last request

slidingVars == <<asked, hits, hitsUntil, admitted>>
hostVars == <<count, until, counting, memory, unbounded, refused>>
limitsVars == <<limiter, time, knocks, slidingVars, hostVars>>

Nobody == "nobody"

\* Stamps in order, without those before `start`.
Since(s, start) ==
    LET older == CHOOSE n \in 0..Len(s) : \A i \in DOMAIN s : i <= n <=> s[i] < start
    IN  SubSeq(s, older + 1, Len(s))

Came == Len(knocks) < MaxAsked /\ knocks' = Append(knocks, time)

LimitsInit ==
    /\ limiter \in {"sliding", "host"}
    /\ time = 0 /\ asked = <<>> /\ hits = <<>> /\ hitsUntil = 0 /\ admitted = <<>>
    /\ count = 0 /\ until = 0 /\ counting = <<>> /\ memory = <<>> /\ knocks = <<>>
    /\ unbounded = FALSE /\ refused = Nobody
-----------------------------------------------------------------------------
\* The sliding window.
Knock ==
    /\ limiter = "sliding" /\ Came
    /\ asked' = Append(asked, time)
    /\ UNCHANGED <<limiter, time, hits, hitsUntil, admitted, hostVars>>

\* The set, unless its key expired.
Kept == IF time >= hitsUntil THEN <<>> ELSE hits

\* What a request stamped `now` leaves of it.
InWindow(now) == IF now < Window THEN Kept ELSE Since(Kept, now - Window + 1)

\* Defect: the set is counted before the request is added to it.
CheckLimitEarly ==
    LET now == Head(asked)
        before == InWindow(now)
    IN
    /\ asked # <<>>
    /\ asked' = Tail(asked)
    /\ hits' = Append(before, now) /\ hitsUntil' = time + Window
    /\ admitted' = IF Len(before) <= MaxRequests THEN Append(admitted, now) ELSE admitted
    /\ UNCHANGED <<limiter, time, knocks, hostVars>>

\* One MULTI: drop what is older than the window, add the request whether or not
\* it will be let through, count, and set the key to expire a window from now.
CheckLimit ==
    LET now == Head(asked)
        set == Append(InWindow(now), now)
    IN
    /\ asked # <<>>
    /\ asked' = Tail(asked)
    /\ hits' = set /\ hitsUntil' = time + Window
    /\ admitted' = IF Len(set) <= MaxRequests THEN Append(admitted, now) ELSE admitted
    /\ UNCHANGED <<limiter, time, knocks, hostVars>>

\* Redis fails: the request is let through by no limit.
CheckLimitFails ==
    /\ asked # <<>>
    /\ asked' = Tail(asked)
    /\ UNCHANGED <<limiter, time, knocks, hits, hitsUntil, admitted, hostVars>>
-----------------------------------------------------------------------------
\* The host's fixed window.
Counted == IF unbounded \/ counting # <<>> \/ time < until THEN count ELSE 0

\* The fallback: it refuses at the limit and does not record what it refuses.
Memory == IF time < Window THEN memory ELSE Since(memory, time - Window)
CheckHostLimitMemory ==
    IF Len(Memory) >= HostMax
    THEN memory' = Memory /\ refused' = "memory"
    ELSE memory' = Append(Memory, time) /\ refused' = Nobody

\* INCR, and the answer unless it was the first of its window.
Incr ==
    /\ limiter = "host" /\ Came
    /\ count' = Counted + 1
    /\ counting' = IF count' = 1 THEN <<time>> ELSE counting
    /\ refused' = IF count' > HostMax THEN "redis" ELSE Nobody
    /\ UNCHANGED <<limiter, time, until, unbounded, memory, slidingVars>>

Pexpire ==
    /\ counting # <<>>
    /\ counting' = <<>> /\ until' = time + Window
    /\ UNCHANGED <<limiter, time, count, memory, knocks, unbounded, refused, slidingVars>>

\* Redis fails the INCR, or the PEXPIRE after it: the memory decides.  The
\* counter that was just created stays without an expiry.
IncrFails ==
    /\ limiter = "host" /\ Came /\ CheckHostLimitMemory
    /\ UNCHANGED <<limiter, time, count, until, counting, unbounded, slidingVars>>

PexpireFails ==
    /\ counting # <<>> /\ CheckHostLimitMemory
    /\ counting' = <<>> /\ unbounded' = TRUE
    /\ UNCHANGED <<limiter, time, count, until, knocks, slidingVars>>

Passes ==
    /\ time < LastTick
    /\ \A i \in DOMAIN asked : time < asked[i] + Lag
    /\ counting # <<>> => time < counting[1] + Lag
    /\ time' = time + 1
    /\ refused' = Nobody
    /\ UNCHANGED <<limiter, slidingVars, count, until, counting, memory, knocks, unbounded>>

LimitsNext ==
    \/ Knock \/ CheckLimit \/ CheckLimitFails
    \/ Incr \/ Pexpire \/ IncrFails \/ PexpireFails
    \/ Passes

LimitsSpec == LimitsInit /\ [][LimitsNext]_limitsVars
-----------------------------------------------------------------------------
LimitsTypeOK ==
    /\ \A s \in {asked, hits, admitted, memory, knocks} :
         \A i, j \in DOMAIN s : i <= j => s[i] <= s[j] /\ s[j] <= time
    /\ limiter \in {"sliding", "host"} /\ hitsUntil <= time + Window /\ until <= time + Window
    /\ Len(memory) <= HostMax /\ Len(counting) <= 1 /\ unbounded \in BOOLEAN
    /\ refused \in {Nobody, "redis", "memory"}

Within(s, last, span) == Cardinality({i \in DOMAIN s : s[i] <= last /\ s[i] + span > last})

\* However requests come and however late they reach Redis, no window, short of
\* the time they may be late, holds more requests let through than the limit: the
\* expiry of the key, which counts from the arrival, never forgets one too early.
NeverOverLimit ==
    \A i \in DOMAIN admitted : Within(admitted, admitted[i], Window - Lag) <= MaxRequests

\* A host is refused only if more requests than its limit came in a window: of
\* the counter, which ends a window after its expiry was set, or of the memory; or
\* the counter lost its expiry, and then counts for good.
RefusedForCause ==
    refused # Nobody => unbounded \/ Within(knocks, time, Window + Lag + 1) > HostMax

\* The two limits: the sliding one of a project never lets too many through, the
\* one of a host never refuses without a cause.
LimitsKept == NeverOverLimit /\ RefusedForCause
=============================================================================
