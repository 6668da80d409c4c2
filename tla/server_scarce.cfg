\* One descriptor for two connections: an accept fails, over and over, while
\* the other connection is open.
SPECIFICATION ServerLiveSpec
CONSTANTS
    c1 = c1
    c2 = c2
    s1 = s1
    s2 = s2
    s3 = s3
    t1 = t1
    t2 = t2
    Clients = {c1, c2}
    Sleepers = {}
    Sessions = {s1, s2, s3}
    Threads = {t1, t2}
    MaxDescriptors = 1
    NoClient = NoClient
    NoSession = NoSession
INVARIANTS
    ServerTypeOK
    OneAccept
PROPERTIES
    AcceptsResume
CHECK_DEADLOCK FALSE
