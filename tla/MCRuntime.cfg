CONSTANTS
    c1 = c1  c2 = c2
    Calls = {c1, c2, c3}
    Async = {c2, c3}
    MaxId = 4
    Window = 3
    Requests = {req1, req2, req3, req4}
    Flushes = {flush1}
    Big = {req1}
    MaxBatch = 2
    obj = obj  adapter1 = adapter1
    Adapters = {adapter1}
    Objects = {obj}
    Endpoints = {e1, e2}
    Clients = {c1, c2}
    Target <- OneEach
    Blocking = {c2}
    Lone = {c1}
    Ttl = "finite"
    MaxFaults = 1
    MaxRequests = 3
    Count = 2
    Depth = 1
    MaxAttempts = 2
    Callbacks = {1, 2}
    Identities = {1, 2}
    Category <- OneInEach
    Categories = {0, 1}
    Facets = {f1, f2}
    Servants = {s1, s2}
    Instances = {1, 2, 3}
    Locals = {l1, l2}
    Users = {user}
    Destroys = TRUE
    Few = {1, 2}
    None = None  Null = Null  Failed = Failed
SPECIFICATION RuntimeSpec
INVARIANTS UniqueIds RepliesReachCaller BatchExact   HintsValid CollectorExact
\* All calls may have been made.
CHECK_DEADLOCK FALSE
