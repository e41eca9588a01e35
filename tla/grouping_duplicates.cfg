\* Four events of two errors, no merges, no failures.
CONSTANTS
    i1 = i1  i2 = i2  i3 = i3
    r1 = r1  r2 = r2  r3 = r3  r4 = r4
    f = f  g = g
    Requests = {r1, r2, r3, r4}
    Fingerprints = {f, g}
    FpOf <- TwoErrors
    Ids = {i1, i2, i3}
    None = None
    Merging = FALSE
    Faulty = FALSE
SPECIFICATION Spec
SYMMETRY Symmetric
CHECK_DEADLOCK FALSE
INVARIANTS
    OneIssuePerFingerprint
