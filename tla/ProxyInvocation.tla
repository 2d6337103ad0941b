-------------------------- MODULE ProxyInvocation --------------------------
(***************************************************************************)
(* An invocation on a proxy, from its first attempt to its end             *)
(* (cpp/src/Ice: Outgoing.cpp, OutgoingAsync.cpp, the invocation loop and  *)
(* __handleException*() of Proxy.cpp, checkRetryAfterException() of        *)
(* ProxyFactory.cpp, RetryQueue.cpp), together with Instance::destroy(),   *)
(* which ends the connections, the retry queue and the timer below it.     *)
(*                                                                         *)
(* A synchronous call runs its attempts in the caller's thread.  An        *)
(* asynchronous one is started by the caller, continued by a thread of     *)
(* the client thread pool when an attempt fails, and, if the retry has to  *)
(* wait, by the timer thread.  An attempt is handed to a connection; the   *)
(* connection, the server and the network are external.  A connection may  *)
(* be lost at any time; the server closes it gracefully only when all that *)
(* it executed is answered, and then executes no more of it.  The accessor *)
(* functions of Instance lock its mutex, which destroy() holds while it    *)
(* joins with the timer thread: an action that calls one of them waits.    *)
(***************************************************************************)
EXTENDS Integers, Sequences, FiniteSets

CONSTANTS
    Sync, Async,      \* the invocations
    RetryIntervals,   \* _retryIntervals: 0, or more for a delay
    MaxFailures,      \* bound on what goes wrong outside
    None

VARIABLES
    call,        \* call[c]: where the invocation is and what it knows
    link,        \* link[c]: what became of its request at the connection
    queue,       \* RetryQueue::_requests
    tasks,       \* the retry tasks that are scheduled at the timer
    timer,       \* the retry whose task the timer thread runs, None if none
    phase,       \* how far Instance::destroy() is
    failures,    \* what went wrong outside
    executed     \* executed[c]: how often the server executed c (history)

vars == <<call, link, queue, tasks, timer, phase, failures, executed>>

Calls == Sync \cup Async
Exceptions == {"connect", "close", "lost", "refused", "destroyed", "none"}

TypeOK ==
    /\ call \in [Calls -> [at : {"idle", "send", "pending", "failed", "add", "queued", "async",
                                 "item", "end"},
                           idempotent : BOOLEAN,      \* _mode: idempotent or nonmutating
                           oneway : BOOLEAN,          \* the proxy is oneway
                           thread : {"user", "pool", "timer"},
                           cnt : 0 .. Len(RetryIntervals) + 2,      \* _cnt
                           exc : Exceptions,
                           wrapper : {"no", "retry", "noRetry"},    \* LocalExceptionWrapper
                           result : {"none", "ok", "exception", "thrown"},
                           ends : 0 .. 2,                           \* calls of __completed()
                           late : BOOLEAN]]   \* queued after RetryQueue::destroy() (history)
    /\ link \in [Calls -> {"none", "queued", "sent", "executed", "refused"}]
    /\ queue \subseteq Async /\ tasks \subseteq Async /\ timer \in Async \cup {None}
    /\ phase \in {"active", "inProgress", "finished", "emptied", "locked", "destroyed", "joined"}
    /\ failures \in 0 .. MaxFailures
    /\ executed \in [Calls -> 0 .. Len(RetryIntervals) + 3]

Init ==
    /\ call = [c \in Calls |-> [at |-> "idle", idempotent |-> FALSE, oneway |-> FALSE,
                                thread |-> "user", cnt |-> 0, exc |-> "none",
                                wrapper |-> "no", result |-> "none", ends |-> 0,
                                late |-> FALSE]]
    /\ link = [c \in Calls |-> "none"]
    /\ queue = {} /\ tasks = {} /\ timer = None
    /\ phase = "active" /\ failures = 0 /\ executed = [c \in Calls |-> 0]

\* The mutex of Instance is free: outgoingConnectionFactory(), proxyFactory(),
\* retryQueue(), timer() and clientThreadPool() do not wait.
Accessible == phase # "locked"
Destroyed == phase \in {"destroyed", "joined"}

\* The timer thread is done with the task of c when c is not its business any more.
Released(c) == timer' = IF timer = c THEN None ELSE timer

External == <<link, failures, executed>>

-----------------------------------------------------------------------------
(* Attempts *)

Begin(c) ==
    /\ call[c].at = "idle"
    /\ \E i, o \in BOOLEAN :
           call' = [call EXCEPT ![c].at = "send", ![c].idempotent = i, ![c].oneway = o]
    /\ UNCHANGED <<External, queue, tasks, timer, phase>>

Fails(c, e, w) ==
    call' = [call EXCEPT ![c].at = "failed", ![c].exc = e, ![c].wrapper = w]

\* The handler of the proxy takes the request: sendRequest(), sendAsyncRequest().
Send(c) ==
    /\ call[c].at = "send" /\ phase = "active"
    /\ call' = [call EXCEPT ![c].at = "pending", ![c].exc = "none", ![c].wrapper = "no"]
    /\ link' = [link EXCEPT ![c] = "queued"]
    /\ Released(c)
    /\ UNCHANGED <<queue, tasks, phase, failures, executed>>

\* It cannot connect, or its connection was closed before it took the request and says so
\* with a wrapper that allows a retry.
SendThrows(c) ==
    /\ call[c].at = "send" /\ Accessible
    /\ \/ phase = "active" /\ failures < MaxFailures /\ failures' = failures + 1
          /\ (Fails(c, "connect", "no") \/ Fails(c, "lost", "retry"))
       \/ phase # "active" /\ Fails(c, "destroyed", "no") /\ UNCHANGED failures
    /\ UNCHANGED <<link, queue, tasks, timer, phase, executed>>

\* The caller of the completed invocation is told; a synchronous call returns.  What the
\* attempts knew is gone with them.
Ends(c, result) ==
    call' = [call EXCEPT ![c].at = "end", ![c].result = result, ![c].ends = @ + 1,
                         ![c].oneway = FALSE, ![c].thread = "user", ![c].cnt = 0,
                         ![c].exc = "none", ![c].wrapper = "no"]

\* The request is written: sent() and __sent().  A oneway is done with that.
Sent(c) ==
    /\ link[c] = "queued"
    /\ IF call[c].oneway
       THEN Ends(c, "ok") /\ executed' \in {executed, [executed EXCEPT ![c] = @ + 1]}
            /\ link' = [link EXCEPT ![c] = "none"]
       ELSE link' = [link EXCEPT ![c] = "sent"] /\ UNCHANGED <<call, executed>>
    /\ UNCHANGED <<queue, tasks, timer, phase, failures>>

\* The server executes the request, or answers ObjectNotExistException (external).
Execute(c) ==
    /\ link[c] = "sent"
    /\ \/ /\ executed' = [executed EXCEPT ![c] = @ + 1]
          /\ link' = [link EXCEPT ![c] = "executed"]
       \/ /\ link' = [link EXCEPT ![c] = "refused"]
          /\ UNCHANGED executed
    /\ UNCHANGED <<call, queue, tasks, timer, phase, failures>>

\* finished(is), __finished(): the reply.
Finished(c) ==
    /\ \/ link[c] = "executed" /\ Ends(c, "ok")
       \/ link[c] = "refused" /\ call' = [call EXCEPT ![c].at = "failed", ![c].thread = "pool",
                                             ![c].exc = "refused", ![c].wrapper = "no"]
    /\ link' = [link EXCEPT ![c] = "none"]
    /\ UNCHANGED <<queue, tasks, timer, phase, failures, executed>>

\* Mutant of FailedWith: a request that was sent can be retried.
FailedWithRetry(c, e) ==
    [call[c] EXCEPT !.at = "failed", !.thread = IF c \in Sync THEN "user" ELSE "pool",
                    !.exc = e, !.wrapper = "no"]

\* finished(ex, sent), __finished(ex, sent): what was sent is not repeated, unless the
\* connection was closed gracefully.
FailedWith(c, e) ==
    [call[c] EXCEPT !.at = "failed", !.thread = IF c \in Sync THEN "user" ELSE "pool",
                    !.exc = e,
                    !.wrapper = IF link[c] # "queued" /\ e # "close" THEN "noRetry" ELSE "no"]
OnConnection == {c \in Calls : link[c] # "none"}

\* The connection is lost, runs into a time-out of one of its requests, or is closed by
\* the server: all requests on it fail.
ConnectionEnds(e) ==
    /\ OnConnection # {}
    /\ failures < MaxFailures \/ phase # "active"
    /\ e = "close" => \A c \in Calls : link[c] \notin {"executed", "refused"}
    /\ failures' = IF phase = "active" THEN failures + 1 ELSE failures
    /\ call' = [c \in Calls |-> IF c \in OnConnection THEN FailedWith(c, e) ELSE call[c]]
    /\ link' = [c \in Calls |-> "none"]
    /\ UNCHANGED <<queue, tasks, timer, phase, executed>>

-----------------------------------------------------------------------------
(* Retries *)

\* checkRetryAfterException(): the interval, or -1 for an exception.
CheckRetry(c) ==
    LET b == call[c]  cnt == b.cnt + 1 IN
    CASE Destroyed \/ b.exc = "refused" -> -1
      [] cnt = Len(RetryIntervals) + 1 /\ b.exc = "close" -> 0
      [] cnt > Len(RetryIntervals) -> -1
      [] OTHER -> RetryIntervals[cnt]

\* __handleException(), __handleExceptionWrapper(), __handleExceptionWrapperRelaxed()
Interval(c) ==
    CASE call[c].wrapper = "retry" -> 0
      [] call[c].wrapper = "noRetry" /\ ~call[c].idempotent -> -1
      [] OTHER -> CheckRetry(c)
Counted(c) == call[c].wrapper # "retry" /\ ~(Destroyed \/ call[c].exc = "refused")

\* The call ends with the exception: at once, or (the caller's and the timer's thread must
\* not call the callback) by a work item of the client thread pool.
Gives(c) ==
    IF c \in Async /\ call[c].thread # "pool"
    THEN call' = [call EXCEPT ![c].at = "async"]
    ELSE Ends(c, "exception")

HandleException(c) ==
    /\ call[c].at = "failed" /\ Accessible
    /\ IF Interval(c) = -1
       THEN Gives(c)
       ELSE call' = [call EXCEPT
               ![c].cnt = IF Counted(c) THEN @ + 1 ELSE @,
               ![c].at = IF Interval(c) > 0 /\ c \in Async THEN "add" ELSE "send"]
    /\ UNCHANGED <<External, queue, tasks, timer, phase>>

\* RetryQueue::add()
Add(c) ==
    /\ call[c].at = "add" /\ Accessible
    /\ IF Destroyed
       THEN Gives(c) /\ UNCHANGED <<queue, tasks, timer>>
       ELSE /\ queue' = queue \cup {c} /\ tasks' = tasks \cup {c}
            /\ call' = [call EXCEPT ![c].at = "queued", ![c].late = phase = "emptied"]
            /\ Released(c)
    /\ UNCHANGED <<External, phase>>

\* The timer thread takes a task that is due, and RetryTask::runTimerTask() removes it from
\* the queue, if nobody else did.
TimerFires(c) ==
    /\ c \in tasks /\ timer = None
    /\ tasks' = tasks \ {c}
    /\ timer' = c
    /\ UNCHANGED <<External, call, queue, phase>>

RunTimerTask(c) ==
    /\ timer = c /\ call[c].at \notin {"send", "failed", "add", "async"}
    /\ IF c \in queue
       THEN /\ queue' = queue \ {c}
            /\ call' = [call EXCEPT ![c].at = "send", ![c].thread = "timer"]
            /\ UNCHANGED timer
       ELSE timer' = None /\ UNCHANGED <<queue, call>>
    /\ UNCHANGED <<External, tasks, phase>>

\* __exceptionAsync(): without a thread pool the exception leaves it.
ExceptionAsync(c) ==
    /\ call[c].at = "async" /\ Accessible
    /\ IF Destroyed THEN call' = [call EXCEPT ![c].at = "end", ![c].result = "thrown"]
       ELSE call' = [call EXCEPT ![c].at = "item"]
    /\ Released(c)
    /\ UNCHANGED <<External, queue, tasks, phase>>

\* AsynchronousException, run by the client thread pool.
AsynchronousException(c) ==
    /\ call[c].at = "item"
    /\ Ends(c, "exception")
    /\ UNCHANGED <<External, queue, tasks, timer, phase>>

-----------------------------------------------------------------------------
(* Instance::destroy() *)

Phase(from, to) == phase = from /\ phase' = to

DestroyBegin ==
    /\ Phase("active", "inProgress")
    /\ UNCHANGED <<External, call, queue, tasks, timer>>

\* OutgoingConnectionFactory::waitUntilFinished()
ConnectionsFinished ==
    /\ Phase("inProgress", "finished") /\ OnConnection = {}
    /\ UNCHANGED <<External, call, queue, tasks, timer>>

\* Mutant of RetryQueueDestroy: the tasks are cancelled and nobody is told.
RetryQueueDestroySilent ==
    /\ Phase("finished", "emptied")
    /\ tasks' = tasks \ queue
    /\ queue' = {}
    /\ UNCHANGED <<External, call, timer>>

\* RetryQueue::destroy(), with the queue locked: RetryTask::destroy() of every task.
RetryQueueDestroy ==
    /\ Phase("finished", "emptied")
    /\ call' = [c \in Calls |-> IF c \in queue THEN [call[c] EXCEPT !.at = "item"] ELSE call[c]]
    /\ tasks' = tasks \ queue
    /\ queue' = {}
    /\ UNCHANGED <<External, timer>>

\* The mutex is locked, the thread pools are told to end, and Timer::destroy() drops the
\* tasks and joins with the timer thread.
DestroyTimer ==
    /\ Phase("emptied", "locked")
    /\ tasks' = {}
    /\ UNCHANGED <<External, call, queue, timer>>

JoinTimer ==
    /\ Phase("locked", "destroyed") /\ timer = None
    /\ UNCHANGED <<External, call, queue, tasks, timer>>

\* joinWithAllThreads(): the threads of the pool have no work.
JoinThreads ==
    /\ Phase("destroyed", "joined")
    /\ \A c \in Calls : call[c].at # "item" /\ ~(call[c].at = "failed" /\ call[c].thread = "pool")
    /\ UNCHANGED <<External, call, queue, tasks, timer>>

-----------------------------------------------------------------------------
CallStep(c) ==
    \/ Send(c) \/ SendThrows(c) \/ HandleException(c) \/ Add(c)
    \/ ExceptionAsync(c) \/ AsynchronousException(c)
LinkStep(c) == Sent(c) \/ Execute(c) \/ Finished(c)
TimerStep(c) == TimerFires(c) \/ RunTimerTask(c)
DestroyStep ==
    \/ ConnectionsFinished \/ RetryQueueDestroy \/ DestroyTimer \/ JoinTimer \/ JoinThreads

Next ==
    \/ \E c \in Calls : Begin(c) \/ CallStep(c) \/ LinkStep(c)
    \/ \E c \in Async : TimerStep(c)
    \/ \E e \in {"lost", "close"} : ConnectionEnds(e)
    \/ DestroyBegin \/ DestroyStep

Spec == Init /\ [][Next]_vars

\* Threads run, due tasks are taken by the timer thread, requests are written and
\* answered unless their connection fails, and destroy() goes on once it was called.
Fairness ==
    /\ \A c \in Calls : WF_vars(CallStep(c)) /\ WF_vars(LinkStep(c))
    /\ \A c \in Async : WF_vars(TimerStep(c))
    /\ WF_vars(DestroyStep)

FairSpec == Spec /\ Fairness

-----------------------------------------------------------------------------
(* Properties *)

\* At most once, from the proxy to the server and over all retries: the server executes
\* an operation that is not idempotent at most once, whatever fails in between.
AtMostOnce == \A c \in Calls : executed[c] > 1 => call[c].idempotent

\* The end of an invocation is told once, although the caller, the timer, a thread of the
\* pool and destroy() may all be at work on it; a retry waits in one place.
EndsOnce ==
    /\ \A c \in Calls : call[c].ends <= 1
    /\ \A c \in Calls : link[c] # "none" => call[c].at = "pending"
    /\ \A c \in queue : call[c].at = "queued"

\* destroy() joins with the timer thread while it holds the mutex, and the timer thread,
\* in the middle of a retry, waits for the mutex.
Stuck ==
    /\ phase = "locked" /\ timer # None
    /\ call[timer].at \in {"send", "failed", "add", "async"}

\* Every invocation ends, and so does destroy(), while the communicator lives and while
\* it is destroyed; except that RetryQueue::destroy() does not keep a retry from being
\* added after it, which is then dropped with the timer, and that destroy() can be stuck.
EverythingEnds ==
    /\ \A c \in Calls : (call[c].at = "send") ~> (call[c].at = "end" \/ call[c].late \/ Stuck)
    /\ (phase = "inProgress") ~> (phase = "joined" \/ Stuck)

\* Communicator::destroy() "shuts down this communicator's client functionality"
\* (slice/Ice/Communicator.ice): it comes to its end.
DestroyReturns == (phase = "inProgress") ~> (phase = "joined")
=============================================================================
