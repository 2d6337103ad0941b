CONSTANTS
    callA = callA
    callB = callB
    callC = callC
    Requests = {callA, callB}
    Caller <- CallerAB
    Twoway = {callA}
    Async = {callA}
    SentCallback = {callA}
    Timeouts = TRUE
    CombinedEvents = FALSE
SPECIFICATION Spec
INVARIANTS TimeoutsScheduledOnce
\* Both ends may be closed for good.
CHECK_DEADLOCK FALSE
