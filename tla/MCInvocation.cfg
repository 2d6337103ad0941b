\* A synchronous and an asynchronous invocation; two threads that call the adapter, which
\* has a connection.
CONSTANTS
    Sync = {s1}
    Async = {a1}
    RetryIntervals <- OneDelayedRetry
    MaxFailures = 1
    Threads = {t1, t2}
    Connections = {k1}
    None = None
SPECIFICATION Spec
INVARIANTS InvocationOnce AdapterExact
PROPERTIES  AdapterWaits
\* The communicator and the adapter may be destroyed.
CHECK_DEADLOCK FALSE
