CONSTANTS
    callA = callA  callC = callC
    k1 = k1  k2 = k2
    t1 = t1  t2 = t2  h1 = h1  h2 = h2
    WorkQueue = WorkQueue
    None = None
    Callers = {callA, callC}
    Sync = {callA}
    Connectors = {k1, k2}
    Endpoints <- EndpointsAC
SPECIFICATION PoolsSpec
INVARIANTS FactoryExact FactoryHonest
PROPERTIES PoolServes FactoryAnswers
\* A destroyed pool ends, and so does a destroyed factory.
CHECK_DEADLOCK FALSE
