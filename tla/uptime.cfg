\* One monitor, two checks of it in flight at once, everything may fail.
CONSTANTS
    Monitors = {m1}
    Rules = {r1}
    Slots = {s1, s2}
    Interval <- EveryOtherTick
    DownAfter = 3
    Cooldown = 2
    Faulty = TRUE
SPECIFICATION FairSpec
INVARIANT DownIsEarned
PROPERTIES KeepsBeingProbed HealthyMonitorIsCleared
