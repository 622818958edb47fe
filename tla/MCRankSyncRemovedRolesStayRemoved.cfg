SPECIFICATION Spec
CONSTANTS
    Subject = {s1}
    Worker = {w1, w2}
    TopLevel = 1
    MaxChanges = 2
    MaxFaults = 0
INVARIANTS RemovedRolesStayRemoved
CHECK_DEADLOCK FALSE
