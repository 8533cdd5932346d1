\* A person logs in, and comes back.
SPECIFICATION Spec
CONSTANTS
    p1 = p1
    p2 = p2
    s1 = s1
    r1 = r1
    r2 = r2
    None = None
    Local = Local
    Providers = {p1, p2}
    People = {s1}
    Requests = {r1, r2}
CHECK_DEADLOCK FALSE
PROPERTY ReturningUserLogsIn
