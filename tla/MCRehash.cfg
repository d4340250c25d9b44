SPECIFICATION Spec
CONSTANTS
    s1 = s1
    s2 = s2
    s3 = s3
    r1 = r1
    r2 = r2
    p1 = p1
    p2 = p2
    Sessions = {s1, s2}
    Requests = {r1, r2}
    Passwords = {p1, p2}
CHECK_DEADLOCK FALSE
PROPERTIES
    RehashKeepsPassword
