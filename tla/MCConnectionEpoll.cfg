CONSTANTS
    callA = callA
    callB = callB
    callC = callC
    Requests = {callA, callB}
    Caller <- CallerAB
    Twoway = {callA}
    Async = {callA}
    SentCallback = {callA}
    Timeouts = FALSE
    CombinedEvents = TRUE
SPECIFICATION Spec
INVARIANT AtMostOnce
\* Both ends may be closed for good.
CHECK_DEADLOCK FALSE
