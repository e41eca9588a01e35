--------------------------- MODULE ProjectCaches ---------------------------
\* The three caches a request passes before its handler: API keys and the projects
\* of tenants (lookupProject and lookupProjectByTenantId in lib/auth.ts) and the
\* rate limit of a project (getProjectRateLimit in middleware/rate-limiter.ts),
\* while an operator rotates the key, provisions the tenant or edits the limit.
\* Each maps a name to what the database held, "nothing" included for tenants and
\* limits, for 60 s, in a Map whose order is that of use; a lookup that misses
\* reads the row and fills the cache after an await.  A behaviour watches one of
\* the three, `watched`.
\*
\* What the database holds is a version number: the key of the project, the
\* tenant's project or the limit, which are 1, then 2, ... up to MaxVersion.  A lookup takes at most
\* MaxQuery ticks; time stops at LastTime.
EXTENDS Naturals, Sequences, SequencesExt

CONSTANTS Callers, MaxVersion, Ttl, MaxQuery, CacheMax, LastTime

ASSUME CachesAssumption ==
    /\ MaxVersion \in Nat \ {0} /\ Ttl \in Nat /\ MaxQuery \in Nat
    /\ CacheMax \in Nat \ {0} /\ LastTime \in Nat

VARIABLES
    watched,  \* "key", "tenant" or "limit"
    now,
    stored,   \* the version in the database
    ended,    \* when each earlier version was replaced
    cache,    \* the entries, the one used longest ago first
    lookup,   \* what each caller's lookup is doing
    busting,  \* an update is written, its cache entry not yet deleted
    used      \* the version the last step let a request go by, and where from

cachesVars == <<watched, now, stored, ended, cache, lookup, busting, used>>

Versions == 1..MaxVersion
Stale(v) == v < stored
Idle == [step |-> "idle", name |-> 0, version |-> 0, since |-> 0]
Unused == [from |-> "none", version |-> 0, late |-> FALSE]

\* An API key is its own name; there is one tenant and one limited project, named 0.
Names == IF watched = "key" THEN Versions ELSE {0}

CachesInit ==
    /\ watched \in {"key", "tenant", "limit"} /\ now = 0 /\ stored = 1
    /\ ended = [v \in Versions |-> 0]
    /\ cache = <<>> /\ lookup = [c \in Callers |-> Idle]
    /\ busting = FALSE /\ used = Unused
-----------------------------------------------------------------------------
Entries(c, n) == {i \in DOMAIN c : c[i].name = n}
Without(c, n) ==
    IF Entries(c, n) = {} THEN c ELSE RemoveAt(c, CHOOSE i \in Entries(c, n) : TRUE)

\* Defect: reading an entry gives it a new 60 seconds.
CacheGetSliding(c, n) ==
    Append(Without(c, n), [c[CHOOSE i \in Entries(c, n) : TRUE] EXCEPT !.expires = now + Ttl])

\* Defect: the Map grows by one entry too many.
CacheSetBeyond(c, entry) ==
    IF Entries(c, entry.name) = {} THEN Append(IF Len(c) > CacheMax THEN Tail(c) ELSE c, entry)
    ELSE [i \in DOMAIN c |-> IF c[i].name = entry.name THEN entry ELSE c[i]]

\* The Map: an entry read before it expires moves to the end, an expired one is
\* deleted; a full Map drops its first entry, even for a name it holds.
CacheGet(c, n) ==
    LET e == c[CHOOSE i \in Entries(c, n) : TRUE]
    IN IF now > e.expires THEN Without(c, n) ELSE Append(Without(c, n), e)

CacheSet(c, entry) ==
    LET d == IF Len(c) >= CacheMax THEN Tail(c) ELSE c
    IN IF Entries(d, entry.name) = {} THEN Append(d, entry)
       ELSE [i \in DOMAIN d |-> IF d[i].name = entry.name THEN entry ELSE d[i]]

TenantCacheGet(c, n) == CacheGet(c, n)
TenantCacheSet(c, entry) == CacheSet(c, entry)
ProjectLimitCacheGet(c, n) == CacheGet(c, n)
ProjectLimitCacheSet(c, entry) == CacheSet(c, entry)

Get(c, n) ==
    IF Entries(c, n) = {} THEN c
    ELSE CASE watched = "key" -> CacheGet(c, n)
           [] watched = "tenant" -> TenantCacheGet(c, n)
           [] watched = "limit" -> ProjectLimitCacheGet(c, n)

Set(c, entry) ==
    CASE watched = "key" -> CacheSet(c, entry)
      [] watched = "tenant" -> TenantCacheSet(c, entry)
      [] watched = "limit" -> ProjectLimitCacheSet(c, entry)

\* A request asks: the cache answers at once, or a lookup begins.
Ask(c) == \E n \in Names :
    LET kept == Get(cache, n)
        e == kept[Len(kept)]
    IN
    /\ lookup[c] = Idle
    /\ cache' = kept
    /\ IF Entries(kept, n) # {}
       THEN /\ used' = [from |-> "cache", version |-> e.version, late |-> e.late]
            /\ UNCHANGED lookup
       ELSE /\ used' = Unused
            /\ lookup' = [lookup EXCEPT ![c] =
                 [step |-> "asked", name |-> n, version |-> 0, since |-> now]]
    /\ UNCHANGED <<watched, now, stored, ended, busting>>

LookupProject(c) == watched = "key" /\ Ask(c)
LookupProjectByTenantId(c) == watched = "tenant" /\ Ask(c)
GetProjectRateLimit(c) == watched = "limit" /\ Ask(c)

\* The row is read.  A key that is not the project's is refused and not cached.
ReadRow(c) ==
    /\ lookup[c].step = "asked"
    /\ lookup' = [lookup EXCEPT ![c] =
         IF watched = "key" /\ @.name # stored THEN Idle
         ELSE [@ EXCEPT !.step = "read", !.version = stored]]
    /\ used' = Unused
    /\ UNCHANGED <<watched, now, stored, ended, cache, busting>>

\* A query that fails is not cached: it is taken for "no override" or "no project",
\* and one of a key fails the request.
ReadFails(c) ==
    /\ lookup[c].step = "asked"
    /\ lookup' = [lookup EXCEPT ![c] = Idle]
    /\ used' = Unused
    /\ UNCHANGED <<watched, now, stored, ended, cache, busting>>

\* The hash is verified, or the query answered: the entry is written as of now.
Fill(c) ==
    LET l == lookup[c]
        entry == [name |-> l.name, version |-> l.version, expires |-> now + Ttl,
                  late |-> Stale(l.version)]
    IN
    /\ l.step = "read"
    /\ cache' = Set(cache, entry)
    /\ lookup' = [lookup EXCEPT ![c] = Idle]
    /\ used' = [from |-> "lookup", version |-> l.version, late |-> entry.late]
    /\ UNCHANGED <<watched, now, stored, ended, busting>>
-----------------------------------------------------------------------------
Replace ==
    /\ stored < MaxVersion /\ ~busting
    /\ stored' = stored + 1
    /\ ended' = [ended EXCEPT ![stored] = now]
    /\ used' = Unused
    /\ UNCHANGED <<watched, now, cache, lookup>>

\* The old key is not taken out of the cache.
RotateKey == watched = "key" /\ Replace /\ UNCHANGED busting

\* Nor the answer that the tenant has no project, or another.
ProvisionTenantProject == watched = "tenant" /\ Replace /\ UNCHANGED busting

\* PUT of a limit: the update, and after an await the entry's deletion.
PutRateLimit == watched = "limit" /\ Replace /\ busting' = TRUE

InvalidateProjectRateLimitCache ==
    /\ busting
    /\ cache' = Without(cache, 0)
    /\ busting' = FALSE /\ used' = Unused
    /\ UNCHANGED <<watched, now, stored, ended, lookup>>

Tick ==
    /\ now < LastTime
    /\ \A c \in Callers : lookup[c] # Idle => now < lookup[c].since + MaxQuery
    /\ now' = now + 1 /\ used' = Unused
    /\ UNCHANGED <<watched, stored, ended, cache, lookup, busting>>

CachesNext ==
    \/ \E c \in Callers : \/ LookupProject(c) \/ LookupProjectByTenantId(c) \/ GetProjectRateLimit(c)
                          \/ ReadRow(c) \/ ReadFails(c) \/ Fill(c)
    \/ RotateKey \/ ProvisionTenantProject \/ PutRateLimit \/ InvalidateProjectRateLimitCache
    \/ Tick
-----------------------------------------------------------------------------
CachesSpec == CachesInit /\ [][CachesNext]_cachesVars

CachesTypeOK ==
    /\ watched \in {"key", "tenant", "limit"} /\ now \in 0..LastTime
    /\ stored \in Versions /\ ended \in [Versions -> 0..LastTime]
    /\ Len(cache) <= CacheMax
    /\ \A i, j \in DOMAIN cache : cache[i].name = cache[j].name => i = j
    /\ \A i \in DOMAIN cache :
         cache[i].version \in Versions /\ cache[i].expires \in 0..(LastTime + Ttl)
    /\ \A c \in Callers : lookup[c].since <= now /\ lookup[c].version \in 0..stored
    /\ busting \in BOOLEAN /\ used.version \in 0..stored

\* A key that was rotated away, a limit that was edited and the project a tenant no
\* longer has decide no request later than a lookup and a stay in the cache after
\* the change: neither reading an entry nor refilling it lengthens its life.
StaleAnswersDie ==
    Stale(used.version) /\ used.version # 0 => now - ended[used.version] <= Ttl + MaxQuery

\* Once the handler of an edit is past the invalidation, the cache gives the old
\* limit only if a lookup that had read it before the edit filled the cache after.
LimitSettles ==
    (watched = "limit" /\ used.from = "cache" /\ Stale(used.version) /\ ~busting) => used.late

\* A change of a project settles: what the caches kept of the time before it dies
\* with its entry, and an invalidation misses it only by a lookup in flight.
CachesSettle == StaleAnswersDie /\ LimitSettles
=============================================================================
