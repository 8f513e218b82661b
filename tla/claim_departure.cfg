CONSTANTS
    u1 = u1
    u2 = u2
    s1 = s1
    s2 = s2
    s3 = s3
    Null = Null
    TTL = 2
    Users <- OneUser
    Sockets <- MCSockets
    Faulty <- NoUser
SPECIFICATION Spec
INVARIANT
    DepartureAnnounced
