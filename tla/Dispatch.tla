------------------------------ MODULE Dispatch ------------------------------
(***************************************************************************)
(* The server side of an invocation: ConnectionI::invokeAll() with         *)
(* Incoming::invoke() (cpp/src/Ice/Incoming.cpp), dispatch interceptors    *)
(* (DispatchInterceptor.cpp, Object::ice_dispatch()), servants that answer *)
(* asynchronously (IncomingAsync.cpp and the code that slice2cpp generates *)
(* for them), and servant locators.                                        *)
(*                                                                         *)
(* One thread dispatches the requests of a message one after the other.    *)
(* What is needed to answer a request (the connection, and the locator     *)
(* with the servant and its cookie) belongs to the Incoming on that        *)
(* thread's stack or to the IncomingAsync that a servant got: __adopt()    *)
(* moves it.  An IncomingAsync is completed by any thread, also while an   *)
(* interceptor dispatches the request again, which takes it back.          *)
(***************************************************************************)
EXTENDS Naturals, FiniteSets, FiniteSetsExt

CONSTANTS
    Count,        \* invokeNum, the number of requests in the message
    Depth,        \* the number of interceptors before the servant
    MaxAttempts,  \* how often an interceptor calls ice_dispatch()
    Callbacks     \* IncomingAsync objects, numbered from 1

VARIABLES
    thread,       \* the dispatching thread
    inc,          \* the Incoming of the current request
    amd,          \* amd[c]: an IncomingAsync
    attempts,     \* attempts[l]: calls of ice_dispatch() by interceptor l
    dispatchCount,\* _dispatchCount of the connection
    log,          \* log[r]: what happened to request r (history)
    crashed       \* a null connection was dereferenced

vars == <<thread, inc, amd, attempts, dispatchCount, log, crashed>>

Positions == 1 .. Count
Levels == 1 .. Depth
Incoming == 0      \* the holder that is not a callback
NoCallback == 0

ThreadRecord ==
    [req : 1 .. Count + 1,
     at : {"read", "find", "locate", "none", "interceptor", "servant", "amd", "asking",
           "sending", "invoked", "again", "done"},
     depth : {0, Depth},      \* interceptors before this servant
     level : 0 .. Depth + 1,  \* who runs: an interceptor or the servant
     status : {"none", "ok", "async", "throw", "sent"}]
IncomingRecord ==
    [conn : BOOLEAN,             \* _connection is set
     loc : BOOLEAN,              \* _locator and _servant are set
     cb : Callbacks \cup {NoCallback},  \* _cb
     retriable : BOOLEAN,        \* _inParamPos is set
     queue : SUBSET Levels,      \* _interceptorAsyncCallbackQueue
     consumed : BOOLEAN]         \* the parameters were read or skipped
AsyncRecord ==
    [req : 0 .. Count, conn : BOOLEAN, loc : BOOLEAN, active : BOOLEAN, retriable : BOOLEAN,
     queue : SUBSET Levels, user : {"unused", "open", "asking", "sending", "vetoed", "done"}]
LogRecord ==
    [answers : Nat, located : Nat, finished : Nat, refinished : BOOLEAN, early : BOOLEAN,
     late : BOOLEAN, inStep : BOOLEAN]

TypeOK ==
    /\ thread \in ThreadRecord /\ inc \in IncomingRecord
    /\ amd \in [Callbacks -> AsyncRecord]
    /\ attempts \in [Levels -> 0 .. MaxAttempts]
    /\ dispatchCount \in 0 .. Count
    /\ log \in [Positions -> LogRecord]
    /\ crashed \in BOOLEAN

\* The constructor of Incoming
NewIncoming == [conn |-> TRUE, loc |-> FALSE, cb |-> NoCallback, retriable |-> FALSE,
                queue |-> {}, consumed |-> FALSE]

Init ==
    /\ thread = [req |-> 1, at |-> "read", depth |-> 0, level |-> 0, status |-> "none"]
    /\ inc = NewIncoming
    /\ amd = [c \in Callbacks |-> [req |-> 0, conn |-> FALSE, loc |-> FALSE, active |-> FALSE,
                                   retriable |-> FALSE, queue |-> {}, user |-> "unused"]]
    /\ attempts = [l \in Levels |-> 0]
    /\ dispatchCount = Count
    /\ log = [r \in Positions |-> [answers |-> 0, located |-> 0, finished |-> 0,
                                  refinished |-> FALSE, early |-> FALSE, late |-> FALSE,
                                  inStep |-> TRUE]]
    /\ crashed = FALSE

-----------------------------------------------------------------------------
(* Answers *)

r0 == thread.req
At(place) == thread.at = place
Goes(place) == thread' = [thread EXCEPT !.at = place]

\* sendResponse() or sendNoResponse(); the holder gives up the connection.
Counted(l, r, n) == [l EXCEPT ![r].answers = @ + n,
                              ![r].early = @ \/ l[r].finished < l[r].located]
Finished(l, r) == [l EXCEPT ![r].finished = @ + 1]

\* The next request of the message is read where this one was left.
NextRequest ==
    /\ thread' = [req |-> r0 + 1, at |-> IF r0 = Count THEN "done" ELSE "read", depth |-> 0,
                  level |-> 0, status |-> "none"]
    /\ attempts' = [l \in Levels |-> 0]
    /\ inc' = NewIncoming

Stepped(l, consumed) ==
    IF r0 < Count THEN [l EXCEPT ![r0 + 1].inStep = consumed] ELSE l

\* __handleException(), or the response: by the Incoming, which needs its connection.
Answer(l, consumed) ==
    /\ crashed' = (crashed \/ ~inc.conn)
    /\ dispatchCount' = dispatchCount - 1
    /\ log' = Stepped(Counted(l, r0, 1), consumed)
    /\ NextRequest

\* An exception that leaves invoke() is fatal for the rest of the message: invokeAll()
\* calls invokeException().
Fatal(l) ==
    /\ thread' = [thread EXCEPT !.at = "done", !.req = Count + 1]
    /\ dispatchCount' = dispatchCount - (Count - r0 + 1)
    /\ log' = [r \in Positions |-> IF r >= r0 THEN Counted(l, r, 1)[r] ELSE l[r]]
    /\ UNCHANGED <<inc, attempts, crashed>>

-----------------------------------------------------------------------------
(* Incoming::invoke() *)

ReadRequest ==
    /\ At("read")
    /\ Goes("find")
    /\ UNCHANGED <<inc, amd, attempts, dispatchCount, log, crashed>>

ReadFails ==
    /\ At("read")
    /\ Fatal(log)
    /\ UNCHANGED amd

\* Entering __dispatch() of interceptor l, or of the servant after depth of them.
Enter(l, depth) ==
    thread' = [thread EXCEPT !.at = IF l <= depth THEN "interceptor" ELSE "servant",
                             !.depth = depth, !.level = l, !.status = "none"]

FindServant ==
    /\ At("find")
    /\ \/ \E depth \in {0, Depth} : Enter(1, depth)
       \/ Goes("locate")
       \/ Goes("none")
    /\ UNCHANGED <<inc, amd, attempts, dispatchCount, log, crashed>>

\* ServantLocator::locate() gives a servant, null, or an exception, which is answered
\* after the parameters were skipped.
Locate ==
    /\ At("locate")
    /\ \/ /\ inc' = [inc EXCEPT !.loc = TRUE]
          /\ log' = [log EXCEPT ![r0].located = @ + 1]
          /\ \E depth \in {0, Depth} : Enter(1, depth)
          /\ UNCHANGED <<attempts, dispatchCount, crashed>>
       \/ Goes("none") /\ UNCHANGED <<inc, attempts, dispatchCount, log, crashed>>
       \/ Answer(log, TRUE)
    /\ UNCHANGED amd

\* ObjectNotExistException or FacetNotExistException
NoServant ==
    /\ At("none")
    /\ Answer(log, TRUE)
    /\ UNCHANGED amd

-----------------------------------------------------------------------------
(* Interceptors *)

\* killAsync(): the Incoming takes back what the callback adopted, unless the callback has
\* begun to answer (ResponseSentException).
Sent == inc.cb # NoCallback /\ ~amd[inc.cb].active
KilledIncoming ==
    IF inc.cb = NoCallback THEN inc
    ELSE [inc EXCEPT !.conn = amd[inc.cb].conn, !.loc = amd[inc.cb].loc, !.cb = NoCallback]
KilledCallbacks ==
    IF inc.cb = NoCallback THEN amd
    ELSE [amd EXCEPT ![inc.cb].active = FALSE, ![inc.cb].conn = FALSE, ![inc.cb].loc = FALSE]

\* ice_dispatch(), with a callback or without: startOver(), then __dispatch() of the next.
IceDispatch ==
    LET l == thread.level IN
    /\ At("interceptor") /\ attempts[l] < MaxAttempts
    /\ attempts' = [k \in Levels |-> IF k = l THEN attempts[l] + 1
                                     ELSE IF k > l THEN 0 ELSE attempts[k]]
    /\ IF ~inc.retriable
       THEN \E cb \in BOOLEAN :
               /\ inc' = [inc EXCEPT !.retriable = TRUE,
                                     !.queue = IF cb THEN @ \cup {l} ELSE @]
               /\ Enter(l + 1, thread.depth) /\ UNCHANGED amd
       ELSE IF Sent
       THEN thread' = [thread EXCEPT !.status = "sent"] /\ UNCHANGED <<inc, amd>>
       ELSE \E cb \in BOOLEAN :
               /\ inc' = [KilledIncoming EXCEPT !.consumed = FALSE,
                                                !.queue = IF cb THEN @ \cup {l} ELSE @]
               /\ amd' = KilledCallbacks
               /\ Enter(l + 1, thread.depth)
    /\ UNCHANGED <<dispatchCount, log, crashed>>

\* __dispatch() of interceptor or servant l ends; PushCb pops the callback.
Returns(l, i, status) ==
    /\ thread' = [thread EXCEPT !.at = IF l = 1 THEN "invoked" ELSE "interceptor",
                                !.level = l - 1, !.status = status]
    /\ inc' = [i EXCEPT !.queue = @ \ {l - 1}]

\* DispatchInterceptor::__dispatch(): dispatch() returns what ice_dispatch() returned, or
\* throws; the Incoming must then own the connection.
InterceptorReturns ==
    LET l == thread.level
        ends == IF thread.status \in {"ok", "async"} THEN {thread.status, "throw"}
                ELSE {"throw"} \cup ({thread.status} \ {"none"})
    IN
    /\ At("interceptor")
    /\ \E e \in ends :
           IF e = "async" \/ e = "sent" \/ Sent
           THEN Returns(l, inc, "async") /\ UNCHANGED amd
           ELSE Returns(l, KilledIncoming, e) /\ amd' = KilledCallbacks
    /\ UNCHANGED <<attempts, dispatchCount, log, crashed>>

-----------------------------------------------------------------------------
(* The servant *)

\* It answers, or throws; an unknown operation and a wrong mode are noticed before the
\* parameters are read.
ServantSync ==
    /\ At("servant")
    /\ \/ Returns(thread.level, [inc EXCEPT !.consumed = TRUE], "ok")
       \/ \E read \in BOOLEAN : Returns(thread.level, [inc EXCEPT !.consumed = read], "throw")
    /\ UNCHANGED <<amd, attempts, dispatchCount, log, crashed>>

Unused == {c \in Callbacks : amd[c].user = "unused"}
Latest == Max({c \in Callbacks : amd[c].req = r0})

\* The constructor of IncomingAsync adopts the Incoming.
ServantAsync ==
    /\ At("servant")
    /\ Unused # {}
    /\ LET c == Min(Unused) IN
           /\ amd' = [amd EXCEPT ![c] = [req |-> r0, conn |-> inc.conn, loc |-> inc.loc,
                                         active |-> TRUE, retriable |-> inc.retriable,
                                         queue |-> inc.queue, user |-> "open"]]
           /\ inc' = [inc EXCEPT !.conn = FALSE, !.loc = FALSE, !.consumed = TRUE,
                                 !.cb = IF inc.retriable THEN c ELSE NoCallback]
    /\ Goes("amd")
    /\ UNCHANGED <<attempts, dispatchCount, log, crashed>>

AsyncReturns ==
    /\ At("amd")
    /\ Returns(thread.level, inc, "async")
    /\ UNCHANGED <<amd, attempts, dispatchCount, log, crashed>>

\* op_async() throws after it handed the callback on: the generated code completes the
\* callback.  Without an interceptor nothing but _connection tells whether it was
\* completed before, so the callback must be complete or never be.  For an exception of
\* the throws clause the generated ice_exception() does not look at _connection.
AsyncThrows ==
    LET c == Latest IN
    /\ At("amd")
    /\ IF amd[c].retriable
       THEN Goes("asking") /\ UNCHANGED <<inc, amd, log, crashed>>
       ELSE \/ /\ amd[c].user = "open"
               /\ amd' = [amd EXCEPT ![c].user = "done"]
               /\ Goes("sending") /\ UNCHANGED <<inc, log, crashed>>
            \/ /\ amd[c].user = "done" /\ ~amd[c].conn
               /\ Returns(thread.level, inc, "async")
               /\ UNCHANGED <<amd, log, crashed>>
            \/ /\ amd[c].user = "done" /\ ~amd[c].conn
               /\ log' = [log EXCEPT ![r0].late = TRUE]
               /\ crashed' = TRUE
               /\ Goes("done")
               /\ UNCHANGED <<inc, amd>>
    /\ UNCHANGED <<attempts, dispatchCount>>

-----------------------------------------------------------------------------
(* Completion of a callback: ice_response() and ice_exception() *)

\* The interceptors' callbacks are asked; one of them may say no, or throw.  Then
\* __validateResponse() makes sure that nobody else answers.
Validated(c) == amd[c].active

\* __response() or __exception(): the locator is told first.  If that throws a user
\* exception that cannot be marshalled, invokeException() ends the request.
Send(c) ==
    LET r == amd[c].req
        told == IF amd[c].loc THEN Finished(log, r) ELSE log
    IN
    /\ crashed' = (crashed \/ ~amd[c].conn)
    /\ dispatchCount' = dispatchCount - 1
    /\ log' = Counted(told, r, 1)

UserCompletes(c) ==
    /\ amd[c].user = "open"
    /\ amd' = [amd EXCEPT ![c].user = IF amd[c].retriable THEN "asking" ELSE "sending"]
    /\ UNCHANGED <<thread, inc, attempts, dispatchCount, log, crashed>>

\* Mutant of UserAsks: _active is not taken when the answer begins.
UserAsksAgain(c) ==
    /\ amd[c].user = "asking"
    /\ \/ amd[c].queue # {} /\ amd' = [amd EXCEPT ![c].user = "vetoed"]
       \/ Validated(c) /\ amd' = [amd EXCEPT ![c].user = "sending"]
       \/ ~Validated(c) /\ amd' = [amd EXCEPT ![c].user = "done"]
    /\ UNCHANGED <<thread, inc, attempts, dispatchCount, log, crashed>>

UserAsks(c) ==
    /\ amd[c].user = "asking"
    /\ \/ amd[c].queue # {} /\ amd' = [amd EXCEPT ![c].user = "vetoed"]
       \/ Validated(c) /\ amd' = [amd EXCEPT ![c].user = "sending", ![c].active = FALSE]
       \/ ~Validated(c) /\ amd' = [amd EXCEPT ![c].user = "done"]
    /\ UNCHANGED <<thread, inc, attempts, dispatchCount, log, crashed>>

UserSends(c) ==
    /\ amd[c].user = "sending"
    /\ Send(c)
    /\ amd' = [amd EXCEPT ![c].user = "done", ![c].conn = FALSE]
    /\ UNCHANGED <<thread, inc, attempts>>

\* The same by the dispatching thread, in the generated code.
ThreadAsks ==
    LET c == Latest IN
    /\ At("asking")
    /\ \/ amd[c].queue # {} /\ Returns(thread.level, inc, "async") /\ UNCHANGED amd
       \/ Validated(c) /\ amd' = [amd EXCEPT ![c].active = FALSE] /\ Goes("sending")
          /\ UNCHANGED inc
       \/ ~Validated(c) /\ Returns(thread.level, inc, "async") /\ UNCHANGED amd
    /\ UNCHANGED <<attempts, dispatchCount, log, crashed>>

ThreadSends ==
    LET c == Latest IN
    /\ At("sending")
    /\ Send(c)
    /\ amd' = [amd EXCEPT ![c].conn = FALSE]
    /\ Returns(thread.level, inc, "async")
    /\ UNCHANGED attempts

-----------------------------------------------------------------------------
(* The end of invoke() *)

\* The request is answered asynchronously.
InvokedAsync ==
    /\ At("invoked") /\ thread.status = "async"
    /\ NextRequest
    /\ log' = Stepped(log, inc.consumed)
    /\ UNCHANGED <<amd, dispatchCount, crashed>>

\* __servantLocatorFinished(), then the response or the exception; finished() may throw,
\* which is answered instead.  If that cannot be marshalled, the exception is caught and
\* finished() is called once more, or leaves invoke() if that was done already.
Invoked ==
    /\ \/ At("invoked") /\ thread.status # "async"
       \/ At("again")
    /\ \/ Answer(IF inc.loc THEN Finished(log, r0) ELSE log, inc.consumed)
       \/ (At("again") \/ thread.status = "throw") /\ inc.loc /\ Fatal(Finished(log, r0))
       \/ /\ At("invoked") /\ inc.loc /\ thread.status = "ok"
          /\ log' = [Finished(log, r0) EXCEPT ![r0].refinished = TRUE]
          /\ Goes("again")
          /\ UNCHANGED <<inc, attempts, dispatchCount, crashed>>
    /\ UNCHANGED amd

-----------------------------------------------------------------------------
Next ==
    \/ ReadRequest \/ ReadFails \/ FindServant \/ Locate \/ NoServant
    \/ IceDispatch \/ InterceptorReturns
    \/ ServantSync \/ ServantAsync \/ AsyncReturns \/ AsyncThrows
    \/ ThreadAsks \/ ThreadSends
    \/ \E c \in Callbacks : UserCompletes(c) \/ UserAsks(c) \/ UserSends(c)
    \/ InvokedAsync \/ Invoked

Spec == Init /\ [][Next]_vars

-----------------------------------------------------------------------------
(* Properties *)

\* Every request is answered at most once, by somebody who owns the connection, however
\* an interceptor's new attempt and late completions interleave: the assertions
\* assert(_connection).  The exception is a user exception that op_async() throws after
\* it has answered.
OneAnswer ==
    /\ \A r \in Positions : log[r].answers <= 1
    /\ dispatchCount = Cardinality({r \in Positions : log[r].answers = 0})
    /\ crashed => \E r \in Positions : log[r].late

\* When everything ended, every request was answered, except one that an interceptor's
\* callback kept from being answered.
NoneUnanswered ==
    (At("done") /\ ~crashed /\ \A c \in Callbacks : amd[c].user \in {"unused", "vetoed", "done"})
        => \A r \in Positions :
               log[r].answers = 1 \/ \E c \in Callbacks : amd[c].req = r /\ amd[c].conn

\* A servant that locate() returned is given back to the locator exactly once, before
\* the answer is sent; the exception is marshalling that fails after finished().
LocatorPaired ==
    \A r \in Positions :
        /\ log[r].finished <= log[r].located \/ log[r].refinished
        /\ ~log[r].early

\* Incoming.cpp: "Skip the input parameters, this is required for reading the next batch
\* request if dispatching batch requests."
NextRequestInStep == \A r \in Positions : log[r].inStep
=============================================================================
