CONSTANTS
    r1 = r1
    r2 = r2
    Requests = {r1, r2}
    k1 = k1
    Keys = {k1}
    p1 = p1
    Providers = {p1}
    u1 = u1
    u2 = u2
    Workers = {u1, u2}
    None = None
    MsgCap = 2
SPECIFICATION Spec
PROPERTY
    FinishedQueryIsCurrent
CHECK_DEADLOCK FALSE
