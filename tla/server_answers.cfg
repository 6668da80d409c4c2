\* Two threads, one of which the sleep handler may hold up for good, and a
\* descriptor for every connection and every file.
SPECIFICATION ServerLiveSpec
CONSTANTS
    c1 = c1
    c2 = c2
    s1 = s1
    s2 = s2
    s3 = s3
    t1 = t1
    t2 = t2
    Clients = {c1, c2}
    Sleepers = {c2}
    Sessions = {s1, s2, s3}
    Threads = {t1, t2}
    MaxDescriptors = 4
    NoClient = NoClient
    NoSession = NoSession
INVARIANTS
    SessionsOutliveHandlers
PROPERTIES
    RequestsServed
CHECK_DEADLOCK FALSE
