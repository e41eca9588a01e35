\* Two projects with a rule each, failures anywhere.
CONSTANTS
    r1 = r1
    r2 = r2
    p1 = p1
    p2 = p2
    Projects = {p1, p2}
    Rules = {r1, r2}
    ProjectOf <- Spread
    ResourceRules = {r2}
    Channels = {ch1}
    Cycles = {c1}
    None = None
    Faulty = TRUE
SPECIFICATION FairSpec
PROPERTIES CyclesGoOn PersistentAlertRepeats
