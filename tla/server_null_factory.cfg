\* Two descriptors for two connections and the files their handlers open, and
\* three threads: accepts fail, and sessions are made without routes.
SPECIFICATION ServerSpec
CONSTANTS
    c1 = c1
    c2 = c2
    s1 = s1
    s2 = s2
    s3 = s3
    t1 = t1
    t2 = t2
    t3 = t3
    Clients = {c1, c2}
    Sleepers = {}
    Sessions = {s1, s2, s3}
    Threads = {t1, t2, t3}
    MaxDescriptors = 2
    NoClient = NoClient
    NoSession = NoSession
INVARIANTS
    NoPathGetsErrorHandler
CHECK_DEADLOCK FALSE
