SPECIFICATION Spec
CONSTANTS
    Account = {a1, a2}
    Session = {s1, s2}
    Link = {t1}
    Client = {c1, c2}
    Discord = {d1, d2}
    Email = {e1, e2}
    BootDiscord = d1
    BootEmail = e1
    MaxRequests = 3
SYMMETRY Symmetry
INVARIANTS NothingIsOrphaned LinksAreUsedOnce
PROPERTIES AdminRemains RevokedStaysRevoked
CHECK_DEADLOCK FALSE
