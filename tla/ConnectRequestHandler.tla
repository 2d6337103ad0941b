----------------------- MODULE ConnectRequestHandler -----------------------
(***************************************************************************)
(* IceInternal::ConnectRequestHandler (cpp/src/Ice/                        *)
(* ConnectRequestHandler.cpp): the request handler of a proxy whose        *)
(* connection is being established.  It queues asynchronous requests and   *)
(* batch requests, lets synchronous callers wait, sends the queue when the *)
(* connection is there, and then has the proxy use the connection.         *)
(*                                                                         *)
(* The thread that learns of the connection (est) runs setConnection(),    *)
(* addedProxy() and flushRequests(); the thread that creates the handler   *)
(* (main) runs connect().  An action is one critical section of the        *)
(* handler's monitor or one step made without it.  wait() puts a thread    *)
(* into the state "wait", notifyAll() takes all of them out of it.         *)
(* The connection accepts what it is given, in order, until it fails.      *)
(***************************************************************************)
EXTENDS Naturals, Sequences, SequencesExt

CONSTANTS
    Async,       \* calls of sendAsyncRequest() and flushAsyncBatchRequests()
    Sync,        \* calls of sendRequest()
    Batch,       \* batch requests: prepareBatchRequest(), then finish or abort
    AutoFlush,   \* _batchAutoFlush
    MaxBatch     \* the number of batch requests that fit into messageSizeMax

VARIABLES
    h,           \* the members of the handler
    main,        \* where the call of connect() is
    est,         \* where the establishing thread is
    caller,      \* caller[c]: where the call c is
    lent,        \* lent[c]: the batch stream that was lent to c
    replaced,    \* the proxy uses a ConnectionRequestHandler
    failItem,    \* a FlushRequestsWithException is in the thread pool
    up,          \* the connection works
    accepted,    \* what the connection accepted, in order (history)
    entered,     \* the calls in the order in which the handler took them (history)
    told         \* told[c]: what c was told (history)

threads == <<main, est, caller>>
world == <<replaced, failItem, up>>
history == <<accepted, entered, told>>
vars == <<h, threads, lent, world, history>>

Calls == Async \cup Sync \cup Batch

Handler ==
    [requests : Seq(Seq(Calls)),  \* _requests: an asynchronous call, or the batch requests
                                  \*   of one stream
     initialized : BOOLEAN,       \* _initialized
     flushing : BOOLEAN,          \* _flushing
     exception : {"none", "local", "wrapper"},  \* _exception
     batchInProgress : BOOLEAN,   \* _batchRequestInProgress
     batchStream : Seq(Batch),    \* _batchStream
     batchSize : Nat,             \* _batchRequestsSize, in requests
     updateHandler : BOOLEAN]     \* _updateRequestHandler

TypeOK ==
    /\ h \in Handler
    /\ main \in {"try", "wait", "this", "connection", "threw"}
    /\ est \in {"connecting", "routing", "flush", "wait", "send", "install", "end", "done"}
    /\ caller \in [Calls -> {"idle", "try", "wait", "direct", "marshal", "done"}]
    /\ lent \in [Batch -> Seq(Batch)]
    /\ replaced \in BOOLEAN /\ failItem \in BOOLEAN /\ up \in BOOLEAN
    /\ accepted \in Seq(Calls)
    /\ entered \in Seq([call : Calls, queued : BOOLEAN])
    /\ told \in [Calls -> {"nothing", "queued", "accepted", "failed", "thrown"}]

\* The constructor; connect() has asked the reference for a connection.
Init ==
    /\ h = [requests |-> <<>>, initialized |-> FALSE, flushing |-> FALSE,
            exception |-> "none", batchInProgress |-> FALSE, batchStream |-> <<>>,
            batchSize |-> 0, updateHandler |-> FALSE]
    /\ main = "try" /\ est = "connecting" /\ caller = [c \in Calls |-> "idle"]
    /\ lent = [c \in Batch |-> <<>>]
    /\ replaced = FALSE /\ failItem = FALSE /\ up = TRUE
    /\ accepted = <<>> /\ entered = <<>> /\ told = [c \in Calls |-> "nothing"]

-----------------------------------------------------------------------------
(* initialized(): it waits while the queue is being sent, throws if the    *)
(* establishment failed, and otherwise tells whether the queue was sent.   *)

InitializedWaits == ~h.initialized /\ h.flushing /\ h.exception = "none"
InitializedThrows == ~h.initialized /\ h.exception # "none"
NotInitialized == ~h.initialized /\ ~h.flushing /\ h.exception = "none"

\* notifyAll()
Awake(place) == [c \in Calls |-> IF place[c] = "wait" THEN "try" ELSE place[c]]
AwakeMain == main' = IF main = "wait" THEN "try" ELSE main

Goes(c, place) == caller' = [caller EXCEPT ![c] = place] /\ UNCHANGED <<main, est>>
IsTold(c, what) == told' = [told EXCEPT ![c] = what]
Enters(calls, queued) ==
    entered' = entered \o [i \in DOMAIN calls |-> [call |-> calls[i], queued |-> queued]]

\* c waits in the monitor; ends with the exception; goes on with the connection.
Waits(c) == Goes(c, "wait") /\ UNCHANGED <<h, lent, world, history>>
Throws(c) == Goes(c, "done") /\ IsTold(c, "thrown")
             /\ UNCHANGED <<h, lent, world, accepted, entered>>
GoesDirect(c) == Goes(c, "direct") /\ Enters(<<c>>, FALSE)
                 /\ UNCHANGED <<h, lent, world, accepted, told>>

-----------------------------------------------------------------------------
(* connect(), with the proxy's mutex locked. *)

Connect ==
    /\ main = "try"
    /\ \/ InitializedWaits /\ main' = "wait"
       \/ InitializedThrows /\ main' = "threw"
       \/ h.initialized /\ main' = "connection"
       \/ NotInitialized /\ main' = "this"
    /\ h' = [h EXCEPT !.updateHandler = @ \/ NotInitialized]
    /\ UNCHANGED <<est, caller, lent, world, history>>

(* A call takes the handler that the proxy has when the call begins. *)
Begin(c) ==
    /\ caller[c] = "idle"
    /\ \/ main = "this" /\ ~replaced /\ Goes(c, "try") /\ UNCHANGED <<h, lent, world, history>>
       \/ (main = "connection" \/ replaced) /\ GoesDirect(c)

Queue(c) ==
    /\ h' = [h EXCEPT !.requests = Append(@, <<c>>)]
    /\ Goes(c, "done") /\ Enters(<<c>>, TRUE) /\ IsTold(c, "queued")
    /\ UNCHANGED <<lent, world, accepted>>

\* sendAsyncRequest(), flushAsyncBatchRequests()
SendAsyncRequest(c) ==
    /\ c \in Async /\ caller[c] = "try"
    /\ \/ InitializedWaits /\ Waits(c)
       \/ InitializedThrows /\ Throws(c)
       \/ h.initialized /\ GoesDirect(c)
       \/ NotInitialized /\ Queue(c)

\* sendRequest(), flushBatchRequests(): getConnection(true)
SendRequest(c) ==
    /\ c \in Sync /\ caller[c] = "try"
    /\ \/ ~h.initialized /\ h.exception = "none" /\ Waits(c)
       \/ h.exception # "none" /\ Throws(c)
       \/ h.initialized /\ h.exception = "none" /\ GoesDirect(c)

\* Without a connection the batch stream is lent to the caller.
Lend(c) ==
    /\ h' = [h EXCEPT !.batchInProgress = TRUE, !.batchStream = <<>>]
    /\ lent' = [lent EXCEPT ![c] = h.batchStream]
    /\ Goes(c, "marshal")
    /\ UNCHANGED <<world, history>>

PrepareBatchRequest(c) ==
    /\ c \in Batch /\ caller[c] = "try"
    /\ IF h.batchInProgress
       THEN Waits(c)
       ELSE \/ InitializedWaits /\ Waits(c)
            \/ InitializedThrows /\ Throws(c)
            \/ h.initialized /\ GoesDirect(c)
            \/ NotInitialized /\ Lend(c)

\* The lent stream comes back, or is replaced: the waiting threads are notified.
StreamReturned(c) ==
    /\ lent' = [lent EXCEPT ![c] = <<>>]
    /\ caller' = [Awake(caller) EXCEPT ![c] = "done"] /\ AwakeMain
    /\ est' = IF est = "wait" THEN "flush" ELSE est

\* finishBatchRequest() swaps the stream back before it looks at the size.
TakeBack(c) ==
    LET stream == Append(lent[c], c)
        returned == [h EXCEPT !.batchInProgress = FALSE, !.batchStream = stream]
    IN  IF AutoFlush \/ Len(stream) + h.batchSize <= MaxBatch
        THEN /\ h' = [returned EXCEPT !.batchStream = <<>>,
                                      !.batchSize = @ + Len(stream),
                                      !.requests = Append(@, stream)]
             /\ Enters(stream, TRUE) /\ IsTold(c, "queued")
        ELSE /\ h' = returned
             /\ IsTold(c, "thrown") /\ UNCHANGED entered

FinishBatchRequest(c) ==
    /\ c \in Batch /\ caller[c] = "marshal"
    /\ \/ InitializedThrows /\ Throws(c)
       \/ NotInitialized /\ TakeBack(c) /\ StreamReturned(c) /\ UNCHANGED <<world, accepted>>

\* abortBatchRequest(), when marshalling failed.
AbortBatchRequest(c) ==
    /\ c \in Batch /\ caller[c] = "marshal"
    /\ \/ InitializedThrows /\ Throws(c)
       \/ /\ NotInitialized
          /\ h' = [h EXCEPT !.batchInProgress = FALSE, !.batchStream = <<>>, !.batchSize = 0]
          /\ StreamReturned(c) /\ IsTold(c, "thrown")
          /\ UNCHANGED <<world, accepted, entered>>

\* The call on the connection, which throws if the connection has failed.
Direct(c) ==
    /\ caller[c] = "direct"
    /\ Goes(c, "done")
    /\ accepted' = IF up THEN Append(accepted, c) ELSE accepted
    /\ IsTold(c, IF up THEN "accepted" ELSE "thrown")
    /\ UNCHANGED <<h, lent, world, entered>>

-----------------------------------------------------------------------------
(* The thread that establishes the connection. *)

\* setConnection(): the router, if there is one, may have to be told first.
SetConnection ==
    /\ est = "connecting"
    /\ est' \in {"routing", "flush"}
    /\ UNCHANGED <<h, main, caller, lent, world, history>>

AddedProxy ==
    /\ est = "routing"
    /\ est' = "flush"
    /\ UNCHANGED <<h, main, caller, lent, world, history>>

\* setException(): there is no connection, or the router did not answer.
SetException ==
    /\ est \in {"connecting", "routing"}
    /\ h' = [h EXCEPT !.exception = "local"]
    /\ failItem' = (h.requests # <<>>)
    /\ est' = "done"
    /\ caller' = Awake(caller) /\ AwakeMain
    /\ UNCHANGED <<lent, replaced, up, history>>

\* Mutant of FlushBegin: the handler is initialized before the queue is sent.
FlushBeginEarly ==
    /\ est = "flush"
    /\ h' = [h EXCEPT !.flushing = ~h.batchInProgress, !.initialized = ~h.batchInProgress]
    /\ est' = IF h.batchInProgress THEN "wait" ELSE "send"
    /\ UNCHANGED <<main, caller, lent, world, history>>

\* flushRequests(): it waits for a batch request in progress, then sends the queue.
FlushBegin ==
    /\ est = "flush"
    /\ h' = [h EXCEPT !.flushing = ~h.batchInProgress]
    /\ est' = IF h.batchInProgress THEN "wait" ELSE "send"
    /\ UNCHANGED <<main, caller, lent, world, history>>

\* The calls in the queue.
InQueue == UNION {ToSet(r) : r \in ToSet(h.requests)}

\* Of a batch nobody is told: its callers returned when it was queued.
Tell(calls, what) ==
    told' = [c \in Calls |-> IF c \in calls \ Batch THEN what ELSE told[c]]

FlushOne ==
    /\ est = "send" /\ h.requests # <<>> /\ up
    /\ accepted' = accepted \o Head(h.requests)
    /\ Tell(ToSet(Head(h.requests)), "accepted")
    /\ h' = [h EXCEPT !.requests = Tail(@)]
    /\ UNCHANGED <<threads, lent, world, entered>>

\* The connection throws; the request stays at the front of the queue.
FlushFails ==
    /\ est = "send" /\ h.requests # <<>> /\ ~up
    /\ \E e \in {"local", "wrapper"} : h' = [h EXCEPT !.exception = e]
    /\ failItem' = TRUE
    /\ est' = "install"
    /\ UNCHANGED <<main, caller, lent, replaced, up, history>>

FlushAll ==
    /\ est = "send" /\ h.requests = <<>>
    /\ est' = "install"
    /\ UNCHANGED <<h, main, caller, lent, world, history>>

\* __setRequestHandler() of the proxy, without the handler's lock.
Install ==
    /\ est = "install"
    /\ replaced' = (h.updateHandler /\ h.exception = "none")
    /\ est' = "end"
    /\ UNCHANGED <<h, main, caller, lent, failItem, up, history>>

\* Mutant of FlushEnd: nobody is notified.
FlushEndSilent ==
    /\ est = "end"
    /\ h' = IF h.exception = "none"
            THEN [h EXCEPT !.initialized = TRUE, !.flushing = FALSE] ELSE h
    /\ est' = "done"
    /\ UNCHANGED <<main, caller, lent, world, history>>

FlushEnd ==
    /\ est = "end"
    /\ h' = IF h.exception = "none"
            THEN [h EXCEPT !.initialized = TRUE, !.flushing = FALSE] ELSE h
    /\ est' = "done"
    /\ caller' = Awake(caller) /\ AwakeMain
    /\ UNCHANGED <<lent, world, history>>

\* flushRequestsWithException(), run by a thread of the client thread pool.
FlushRequestsWithException ==
    /\ failItem
    /\ failItem' = FALSE
    /\ Tell(InQueue, "failed")
    /\ h' = [h EXCEPT !.requests = <<>>]
    /\ UNCHANGED <<threads, lent, replaced, up, accepted, entered>>

\* The connection fails or is closed.
ConnectionFails ==
    /\ up /\ est # "connecting"
    /\ up' = FALSE
    /\ UNCHANGED <<h, threads, lent, replaced, failItem, history>>

-----------------------------------------------------------------------------
CallerStep(c) ==
    \/ SendAsyncRequest(c) \/ SendRequest(c) \/ PrepareBatchRequest(c)
    \/ FinishBatchRequest(c) \/ AbortBatchRequest(c) \/ Direct(c)

EstStep ==
    \/ SetConnection \/ AddedProxy \/ SetException \/ FlushBegin \/ FlushOne \/ FlushFails
    \/ FlushAll \/ Install \/ FlushEnd

Next ==
    \/ Connect
    \/ \E c \in Calls : Begin(c) \/ CallerStep(c)
    \/ EstStep
    \/ FlushRequestsWithException
    \/ ConnectionFails

Spec == Init /\ [][Next]_vars

\* Threads are scheduled, an attempt to connect and a call of the router end, and
\* callers finish or abort the batch requests that they prepared.  Nobody has to
\* begin a call, and connections need not fail.
Fairness ==
    /\ WF_vars(Connect) /\ WF_vars(EstStep) /\ WF_vars(FlushRequestsWithException)
    /\ \A c \in Calls : WF_vars(CallerStep(c))

FairSpec == Spec /\ Fairness

-----------------------------------------------------------------------------
(* Properties *)

\* The connection gets requests in the order in which the handler took them: a call
\* is accepted only after all that were queued before it, although the queue is sent
\* without the lock while others go to the connection directly.
OrderKept ==
    \A i, j \in DOMAIN entered :
        (i < j /\ entered[i].queued /\ Contains(accepted, entered[j].call)) =>
            \E m, n \in DOMAIN accepted :
                m < n /\ accepted[m] = entered[i].call /\ accepted[n] = entered[j].call

\* A call that was told that it is queued is in the queue exactly once, until it is
\* accepted or told that it failed; nobody is told twice or accepted twice.
QueuedOnce ==
    /\ \A c \in Async : (told[c] = "queued") <=> c \in InQueue
    /\ \A i, j \in DOMAIN h.requests :
           i # j => ToSet(h.requests[i]) \cap ToSet(h.requests[j]) = {}
    /\ \A r \in ToSet(h.requests) : IsInjective(r)
    /\ IsInjective(accepted) /\ InQueue \cap ToSet(accepted) = {}
    /\ \A c \in Calls : Contains(accepted, c) => told[c] \in {"accepted", "queued"}

\* When the queue was sent, the proxy of whoever got this handler from connect() uses
\* the connection itself: _updateRequestHandler, which flushRequests() reads without
\* the lock, is not set too late.
HandlerReplaced ==
    (est = "done" /\ h.exception = "none" /\ main = "this") => replaced

\* The assertions of finishBatchRequest() and abortBatchRequest(), of flushRequests()
\* and setException(): a batch stream is lent once and comes back before the queue is
\* sent; the handler fails at most once.
LentOnce ==
    /\ \A c, d \in Batch : (caller[c] = "marshal" /\ caller[d] = "marshal") => c = d
    /\ (\E c \in Batch : caller[c] = "marshal") => h.batchInProgress /\ ~h.flushing
    /\ h.exception # "none" => ~h.initialized

\* Whoever calls the handler gets an answer, and requests do not stay in the queue.
\* Callers that wait behind a batch request that was in progress when the handler
\* failed are excepted: see BatchCallersReturn.
CallsReturn ==
    \A c \in Calls :
        (caller[c] \notin {"idle", "done"}) ~>
            (caller[c] = "done" \/ (c \in Batch /\ h.exception # "none" /\ h.batchInProgress))
QueueDrains == (h.requests # <<>>) ~> (h.requests = <<>>)

\* The same of all callers of prepareBatchRequest(), as the comment in
\* flushRequests() has it ("Callers might block for a little while").
BatchCallersReturn == \A c \in Batch : (caller[c] = "wait") ~> (caller[c] = "done")
=============================================================================
