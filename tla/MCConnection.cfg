CONSTANTS
    callA = callA
    callB = callB
    callC = callC
    Requests = {callA, callB, callC}
    Caller <- CallerABC
    Twoway = {callA, callC}
    Async = {callB, callC}
    SentCallback = {callB}
    Timeouts = FALSE
    CombinedEvents = FALSE
SPECIFICATION Spec
INVARIANTS RepliesMatch EndExact NoneForgotten
PROPERTY KeepsPromise
\* Both ends may be closed for good.
CHECK_DEADLOCK FALSE
