CONSTANTS
    t1 = t1  t2 = t2  t3 = t3
    h1 = h1  h2 = h2
    Threads = {t1, t2, t3}
    Handlers = {h1, h2}
    WorkQueue = WorkQueue
    None = None
    Size = 1
    SizeIO = 2
    SizeMax = 3
    Serialize = TRUE
    ThreadIdle = TRUE
    ServerIdle = TRUE
    ThreadsCanFail = TRUE
    MaxItems = 3
    MaxCalls = 2
SPECIFICATION Spec
INVARIANTS PoolExact 
PROPERTY ThreadsImmutable
SYMMETRY Symmetry
\* A destroyed pool ends.
CHECK_DEADLOCK FALSE
