SPECIFICATION Spec
CONSTANTS
    a1 = a1  a2 = a2  a3 = a3  r1 = r1  r2 = r2  m1 = m1  m2 = m2  d1 = d1  d2 = d2
    e1 = e1  t1 = t1  t2 = t2  t3 = t3
    Asset = {a1}
    Report = {r1}
    Moderator = {m1}
    Deleter = {d1}
    Editor = {}
    Token = {t1}
    Ready = {a1}
    Inputs <- HoldInputs
    Size <- Sizes
    MaxFiles = 5
    MaxTotalSize = 20
    Faults = {}
    StalledDeleters = FALSE
PROPERTIES DeletedIsFinal
CHECK_DEADLOCK FALSE
