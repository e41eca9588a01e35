\* Two monitors share the only rule.
CONSTANTS
    Monitors = {m1, m2}
    Rules = {r1}
    Slots = {s1, s2}
    Interval <- EveryTick
    DownAfter = 3
    Cooldown = 2
    Faulty = FALSE
SPECIFICATION QuietSpec
PROPERTY RecoveryAnnounced
