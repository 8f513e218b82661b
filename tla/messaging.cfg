CONSTANTS
    u1 = u1
    u2 = u2
    s1 = s1
    s2 = s2
    s3 = s3
    Null = Null
    TTL = 2
    Users <- MCUsers
    Sockets <- MCSockets
    Faulty <- MCFaulty
    AuditLog = AuditLog
    c1 = c1
    c2 = c2
    Callers = {c1, c2}
    Executions = {e1, e2}
    MaxStalled = 1
    Attempts <- MCAttempts
SPECIFICATION MCSpec
CHECK_DEADLOCK FALSE
INVARIANTS
    Types
    ConnectedIsOnline
    KeysExpire
    RepeatsBounded
    PublishedIsQueued
PROPERTIES
    GhostsFade
    ToldOrGivenUp
