CONSTANTS
    callA = callA
    callB = callB
    callC = callC
    Requests = {callA}
    Caller <- CallerA
    Twoway = {callA}
    Async = {callA}
    SentCallback = {callA}
    Timeouts = TRUE
    CombinedEvents = FALSE
SPECIFICATION FairSpec
INVARIANT WritesAreTimed
PROPERTIES ConnectionServes
CHECK_DEADLOCK FALSE
