SPECIFICATION Spec
CONSTANTS
    a1 = a1  a2 = a2  a3 = a3  r1 = r1  r2 = r2  m1 = m1  m2 = m2  d1 = d1  d2 = d2
    e1 = e1  t1 = t1  t2 = t2  t3 = t3
    Asset = {a1, a2, a3}
    Report = {r1}
    Moderator = {m1}
    Deleter = {}
    Editor = {e1}
    Token = {t1}
    Ready = {a1, a3}
    Inputs <- LinkInputs
    Size <- Sizes
    MaxFiles = 1
    MaxTotalSize = 2
    Faults = {"crash", "d1"}
    StalledDeleters = FALSE
INVARIANTS LinkLimits
CHECK_DEADLOCK FALSE
