\* An asynchronous and a synchronous request and two batch requests, of which one fits;
\* three proxies in a router with room for two.
CONSTANTS
    Async = {a1}  Sync = {s1}  Batch = {b1, b2}  AutoFlush = FALSE  MaxBatch = 1
    Proxies = {p1, p2, p3}  Users = {u1, u2}  Capacity = 2  MaxRouterLoss = 1
SPECIFICATION Spec
INVARIANTS HandlerExact RouterExact SessionExact
PROPERTIES HandlerAnswers RouterHeals SessionEnds
\* All calls may be answered and the session ended.
CHECK_DEADLOCK FALSE
