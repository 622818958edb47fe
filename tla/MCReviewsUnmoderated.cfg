SPECIFICATION Spec
CONSTANTS
    a1 = a1  a2 = a2  m1 = m1  m2 = m2  s1 = s1  p1 = p1
    e1 = e1  e2 = e2  c1 = c1  c2 = c2  d1 = d1  d2 = d2
    Report = {1, 2, 3}
    Asset = {a1, a2}
    Held = {}
    Editor = {e1, e2}
    Member = {m1, m2}
    Client = {c1, c2}
    MaxRevision = 3
    Case = {s1, p1}
    Appeal = {p1}
    Slot = {1, 2}
    Frozen = {}
    Desk = {d1, d2}
    Comment = {1, 2}
    Scenarios <- OneAuthor
SYMMETRY Symmetry
INVARIANT PublicTextWasApproved
CHECK_DEADLOCK FALSE
