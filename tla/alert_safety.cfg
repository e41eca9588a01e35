\* One project with two rules, one of them on host statistics.
CONSTANTS
    r1 = r1
    r2 = r2
    p1 = p1
    p2 = p2
    Projects = {p1}
    Rules = {r1, r2}
    ProjectOf <- Together
    ResourceRules = {r2}
    Channels = {ch1}
    Cycles = {c1, c2}
    None = None
    Faulty = TRUE
SPECIFICATION Spec
INVARIANTS OneCycle NotifiedForCause
PROPERTY CooldownKept
SYMMETRY Symmetric
