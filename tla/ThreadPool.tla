----------------------------- MODULE ThreadPool -----------------------------
(***************************************************************************)
(* IceInternal::ThreadPool and ThreadPoolWorkQueue                         *)
(* (cpp/src/Ice/ThreadPool.cpp): a leader-follower thread pool over a      *)
(* selector (cpp/src/Ice/Selector.cpp, epoll and kqueue).  The leader      *)
(* selects; it and the followers it promotes run message() of the ready    *)
(* handlers, and nobody selects while a thread still performs IO.  Work    *)
(* items go through the work queue, an event handler whose pipe is         *)
(* readable when there is something to do.                                 *)
(*                                                                         *)
(* An action is one critical section of the pool's monitor, or one of the  *)
(* steps made without it: select(), taking a work item, user code.  The    *)
(* pool is a record, and an operator such as Follow gives the set of the   *)
(* pools that the critical section may leave behind, as notify() may wake  *)
(* any waiting thread.  A handler has one operation (read).                *)
(***************************************************************************)
EXTENDS Naturals, FiniteSets, Sequences

CONSTANTS
    Threads,         \* identities for threads, used again after a join
    Handlers,        \* the event handlers: connections, acceptors
    WorkQueue,       \* the pool's own event handler
    None,
    Size, SizeIO, SizeMax,   \* the values that the constructor computed
    Serialize,       \* ThreadPool.Serialize
    ThreadIdle,      \* do idle followers time out?
    ServerIdle,      \* does select() time out?
    ThreadsCanFail,  \* may the creation of a thread fail?
    MaxItems,        \* bound on the length of the work queue
    MaxCalls         \* bound on the synchronous calls made by work items

ASSUME ThreadPoolAssumption ==
    /\ IsFiniteSet(Threads) /\ IsFiniteSet(Handlers)
    /\ WorkQueue \notin Handlers
    /\ None \notin Handlers \cup Threads \cup {WorkQueue}
    /\ Size \in Nat \ {0} /\ SizeIO \in Nat \ {0} /\ SizeMax \in Nat \ {0}
    /\ Size <= SizeMax /\ SizeIO <= SizeMax
    /\ Size <= Cardinality(Threads)
    /\ Serialize \in BOOLEAN /\ ThreadIdle \in BOOLEAN /\ ServerIdle \in BOOLEAN
    /\ ThreadsCanFail \in BOOLEAN
    /\ MaxItems \in Nat /\ MaxCalls \in Nat

Sources == Handlers \cup {WorkQueue}

\* The work items: finished() of a handler, the join of a thread, the shutdown of
\* the object adapters, and user code that makes a synchronous call over a handler.
FinishedWorkItem(h)   == [kind |-> "finished", of |-> h]
JoinThreadWorkItem(t) == [kind |-> "join", of |-> t]
ShutdownWorkItem      == [kind |-> "shutdown", of |-> None]
DispatchWorkItem(h)   == [kind |-> "call", of |-> h]

WorkItem ==
    {FinishedWorkItem(h) : h \in Handlers} \cup {JoinThreadWorkItem(t) : t \in Threads}
    \cup {ShutdownWorkItem} \cup {DispatchWorkItem(h) : h \in Handlers}

ASSUME NoneAssumption == None \notin WorkItem

\* Where a thread is: not created; about to enter the monitor; waiting in
\* followerWait(), or notified; in select(), or with its result; in message()
\* before and after ioCompleted(); gone with the pool, or shrunk and to be joined.
Places == {"none", "idle", "waiting", "awake", "select", "selected", "io", "user",
           "done", "shrunk"}

VARIABLES
    pool,        \* what the pool's monitor protects
    items,       \* _workItems
    pipe,        \* the bytes in the pipe of the work queue
    readable,    \* the handlers whose socket has something to read
    registered,  \* _registered of the handlers
    status,      \* status[h]: new, open, finishing or finished
    selected,    \* selected[t]: the local handlers of run()
    item,        \* item[t]: the work item that t executes
    lock         \* the handler whose finish() holds the monitor, or None

vars == <<pool, items, pipe, readable, registered, status, selected, item, lock>>

PoolRecord ==
    [destroyed : BOOLEAN,
     threads   : SUBSET Threads,
     inUse     : Nat,
     inUseIO   : Nat,
     handlers  : Seq(Sources),           \* _handlers from _nextHandler on
     promote   : BOOLEAN,
     disabled  : SUBSET Sources,
     leader    : SUBSET Threads,         \* those with _leader
     at        : [Threads -> Places],
     handler   : [Threads -> Sources \cup {None}]]

TypeOK ==
    /\ pool \in PoolRecord
    /\ items \in Seq(WorkItem)
    /\ pipe \in Nat
    /\ readable \subseteq Handlers
    /\ registered \subseteq Handlers
    /\ status \in [Handlers -> {"new", "open", "finishing", "finished"}]
    /\ selected \in [Threads -> Seq(Sources)]
    /\ item \in [Threads -> WorkItem \cup {None}]
    /\ lock \in Handlers \cup {None}

\* The constructor creates Size threads.
Init ==
    /\ \E ts \in SUBSET Threads :
        /\ Cardinality(ts) = Size
        /\ pool = [destroyed |-> FALSE, threads |-> ts, inUse |-> 0, inUseIO |-> 0,
                   handlers |-> <<>>, promote |-> TRUE, disabled |-> {}, leader |-> {},
                   at |-> [t \in Threads |-> IF t \in ts THEN "idle" ELSE "none"],
                   handler |-> [t \in Threads |-> None]]
    /\ items = <<>> /\ pipe = 0
    /\ readable = {} /\ registered = {}
    /\ status = [h \in Handlers |-> "new"]
    /\ selected = [t \in Threads |-> <<>>]
    /\ item = [t \in Threads |-> None]
    /\ lock = None

-----------------------------------------------------------------------------
(* Leader and followers.                                                   *)

\* notify(): some waiting thread, if there is one.
Notified(p) ==
    LET waiting == {t \in Threads : p.at[t] = "waiting"} IN
    IF waiting = {} THEN {p} ELSE {[p EXCEPT !.at[t] = "awake"] : t \in waiting}

PromoteFollower(p, t) ==
    LET q == [p EXCEPT !.promote = TRUE, !.leader = @ \ {t}] IN
    IF p.inUseIO < SizeIO /\ (p.handlers # <<>> \/ p.inUseIO = 0)
    THEN Notified(q) ELSE {q}

\* Mutant of CanLead: the promotion is not required.
CanLeadUnpromoted(p) ==
    /\ p.inUseIO # SizeIO
    /\ p.handlers # <<>> \/ p.inUseIO = 0

\* A follower waits to be promoted and for the threads that perform IO.
CanLead(p) ==
    /\ p.promote
    /\ p.inUseIO # SizeIO
    /\ p.handlers # <<>> \/ p.inUseIO = 0

\* The end of run()'s critical section, in the leader: it takes the next ready
\* handler and lets a follower take the one after, or gives up the leadership to
\* whoever performs IO, or goes on to select.
GetNext(p, t) ==
    IF p.handlers # <<>>
    THEN LET q == [p EXCEPT !.handler[t] = Head(p.handlers),
                            !.handlers = Tail(@),
                            !.at[t] = "io",
                            !.inUseIO = IF SizeMax > 1 THEN @ + 1 ELSE @]
         IN  IF SizeMax > 1 /\ q.handlers # <<>> /\ q.inUseIO < SizeIO
             THEN PromoteFollower(q, t) ELSE {q}
    ELSE IF p.inUseIO > 0
    THEN PromoteFollower([p EXCEPT !.handler[t] = None, !.at[t] = "idle"], t)
    ELSE {[p EXCEPT !.handler[t] = None, !.at[t] = "select"]}

\* followerWait(), and the rest of the critical section if it does not wait.
Follow(p, t) ==
    LET q == [p EXCEPT !.handler[t] = None] IN
    IF CanLead(q)
    THEN GetNext([q EXCEPT !.promote = FALSE, !.leader = @ \cup {t}], t)
    ELSE {[q EXCEPT !.at[t] = "waiting"]}

\* The bodies of run()'s critical section for a leader and for another thread.
LeadOrFollow(p, t) == IF t \in p.leader THEN GetNext(p, t) ELSE Follow(p, t)

-----------------------------------------------------------------------------
(* The work queue.                                                         *)

\* queue(): the first item makes the pipe readable.
Queue(i) ==
    /\ items' = Append(items, i)
    /\ pipe' = IF items = <<>> THEN pipe + 1 ELSE pipe

\* The work items with user code that are queued or executed.
Calls ==
    Cardinality({i \in 1 .. Len(items) : items[i].kind = "call"})
    + Cardinality({t \in Threads : item[t] # None /\ item[t].kind = "call"})

\* execute(): user code is queued, unless the pool is destroyed.
Execute(h) ==
    /\ ~pool.destroyed
    /\ status[h] = "open"
    /\ Len(items) < MaxItems /\ Calls < MaxCalls
    /\ Queue(DispatchWorkItem(h))
    /\ UNCHANGED <<pool, readable, registered, status, selected, item, lock>>

-----------------------------------------------------------------------------
(* Handlers.  They are used until they are finished, and the pool is       *)
(* destroyed after that (the assertions of initialize, update and finish). *)

\* initialize() and update(): a handler is registered, or not any more.
Register(h) ==
    /\ lock = None
    /\ ~pool.destroyed
    /\ status[h] \in {"new", "open"}
    /\ status' = [status EXCEPT ![h] = "open"]
    /\ registered' \in {registered \cup {h}, registered \ {h}}
    /\ UNCHANGED <<pool, items, pipe, readable, selected, item, lock>>

\* Something arrives for h.
Arrive(h) ==
    /\ status[h] = "open"
    /\ readable' = readable \cup {h}
    /\ UNCHANGED <<pool, items, pipe, registered, status, selected, item, lock>>

\* Mutant of Finish: the handler stays in the selector.
FinishRegistered(h) ==
    /\ lock = None
    /\ ~pool.destroyed
    /\ status[h] = "open"
    /\ Len(items) < MaxItems
    /\ status' = [status EXCEPT ![h] = "finishing"]
    /\ lock' = h
    /\ UNCHANGED <<pool, items, pipe, readable, registered, selected, item>>

\* finish(): the handler leaves the selector, then finished() is queued.  A
\* select() may return between the two.
Finish(h) ==
    /\ lock = None
    /\ ~pool.destroyed
    /\ status[h] = "open"
    /\ Len(items) < MaxItems
    /\ status' = [status EXCEPT ![h] = "finishing"]
    /\ registered' = registered \ {h}
    /\ lock' = h
    /\ UNCHANGED <<pool, items, pipe, readable, selected, item>>

QueueFinished ==
    /\ lock # None
    /\ Queue(FinishedWorkItem(lock))
    /\ lock' = None
    /\ UNCHANGED <<pool, readable, registered, status, selected, item>>

\* destroy() of the pool and of its work queue.
Destroy ==
    /\ lock = None
    /\ ~pool.destroyed
    /\ \A h \in Handlers : status[h] \in {"new", "finished"}
    /\ pool' = [pool EXCEPT !.destroyed = TRUE]
    /\ pipe' = pipe + 1
    /\ UNCHANGED <<items, readable, registered, status, selected, item, lock>>

-----------------------------------------------------------------------------
(* The threads.                                                            *)

\* A new thread, and one that gave up its leadership, enter the monitor.
Enter(t) ==
    /\ lock = None
    /\ pool.at[t] = "idle"
    /\ pool' \in Follow(pool, t)
    /\ UNCHANGED <<items, pipe, readable, registered, status, selected, item, lock>>

\* A notified thread wakes up in followerWait().
Wake(t) ==
    /\ lock = None
    /\ pool.at[t] = "awake"
    /\ pool' \in Follow(pool, t)
    /\ UNCHANGED <<items, pipe, readable, registered, status, selected, item, lock>>

\* Mutant of MayShrink: a destroyed pool shrinks too.
MayShrinkDestroyed(p) == ~CanLead(p)

\* May a thread that waited in vain leave the pool?
MayShrink(p) == ~p.destroyed /\ ~CanLead(p)

\* The wait of a follower times out: the pool shrinks.
FollowerTimeout(t) ==
    /\ lock = None
    /\ ThreadIdle
    /\ pool.at[t] = "waiting"
    /\ \/ /\ MayShrink(pool)
          /\ pool' = [pool EXCEPT !.at[t] = "shrunk", !.threads = @ \ {t}]
          /\ Queue(JoinThreadWorkItem(t))
       \/ /\ ~MayShrink(pool)
          /\ pool' \in Follow(pool, t)
          /\ UNCHANGED <<items, pipe>>
    /\ UNCHANGED <<readable, registered, status, selected, item, lock>>

\* What a selector reports: all that is registered, not disabled and readable,
\* in any order.
ReadySources ==
    {h \in registered \cap readable : h \notin pool.disabled}
    \cup (IF pipe > 0 /\ WorkQueue \notin pool.disabled THEN {WorkQueue} ELSE {})

Orders(S) ==
    {f \in [1 .. Cardinality(S) -> S] :
        \A i, j \in 1 .. Cardinality(S) : f[i] = f[j] => i = j}

\* select() returns, without the monitor.
Select(t) ==
    /\ pool.at[t] = "select"
    /\ ReadySources # {}
    /\ \E order \in Orders(ReadySources) :
        selected' = [selected EXCEPT ![t] = order]
    /\ pool' = [pool EXCEPT !.at[t] = "selected"]
    /\ UNCHANGED <<items, pipe, readable, registered, status, item, lock>>

\* select() times out: the server is idle if no thread is in use.
SelectTimeout(t) ==
    /\ lock = None
    /\ ServerIdle
    /\ pool.at[t] = "select"
    /\ ReadySources = {}
    /\ ~pool.destroyed /\ pool.inUse = 0
    /\ Len(items) < MaxItems
    /\ Queue(ShutdownWorkItem)
    /\ UNCHANGED <<pool, readable, registered, status, selected, item, lock>>

\* The leader publishes what it selected.
FinishSelect(t) ==
    /\ lock = None
    /\ pool.at[t] = "selected"
    /\ pool' \in GetNext([pool EXCEPT !.handlers = selected[t]], t)
    /\ selected' = [selected EXCEPT ![t] = <<>>]
    /\ UNCHANGED <<items, pipe, readable, registered, status, item, lock>>

\* The threads that the pool starts when all of its threads are in use: one, or
\* None.
NewThreads(p) ==
    LET free == IF ~p.destroyed /\ p.inUse < SizeMax /\ p.inUse = Cardinality(p.threads)
                THEN {t \in Threads : p.at[t] = "none"} ELSE {}
    IN  IF ThreadsCanFail \/ free = {} THEN free \cup {None} ELSE free

Grow(p, t) ==
    IF t = None THEN p
    ELSE [p EXCEPT !.at[t] = "idle", !.threads = @ \cup {t}]

\* Mutant of IoCompleted: a thread that is not the leader tells no follower.
IoCompletedSilent(p, t) ==
    LET q == [p EXCEPT !.at[t] = "user",
                       !.inUseIO = @ - 1,
                       !.disabled = IF Serialize /\ ~p.destroyed
                                    THEN @ \cup {p.handler[t]} ELSE @]
        r == IF t \in q.leader THEN PromoteFollower(q, t) ELSE {q}
    IN  IF SizeMax = 1 THEN {[p EXCEPT !.at[t] = "user"]}
        ELSE {[x EXCEPT !.inUse = @ + 1] : x \in r}

\* ioCompleted(), up to the growth of the pool: the thread is not needed for IO
\* any more and a follower is promoted.
IoCompleted(p, t) ==
    LET q == [p EXCEPT !.at[t] = "user",
                       !.inUseIO = @ - 1,
                       !.disabled = IF Serialize /\ ~p.destroyed
                                    THEN @ \cup {p.handler[t]} ELSE @]
        r == IF t \in q.leader THEN PromoteFollower(q, t)
             ELSE IF q.promote /\ (q.handlers # <<>> \/ q.inUseIO = 0)
             THEN Notified(q) ELSE {q}
    IN  IF SizeMax = 1 THEN {[p EXCEPT !.at[t] = "user"]}
        ELSE {[x EXCEPT !.inUse = @ + 1] : x \in r}

\* message() reads what there is and may call ioCompleted() before it runs user
\* code.  A work item other than a join may, or must, do so too.
CompleteIO(t) ==
    /\ lock = None
    /\ pool.at[t] = "io"
    /\ pool.handler[t] = WorkQueue => item[t] # None /\ item[t].kind # "join"
    /\ \E p \in IoCompleted(pool, t) :
        \E u \in IF SizeMax > 1 THEN NewThreads(p) ELSE {None} : pool' = Grow(p, u)
    /\ readable' = readable \ {pool.handler[t]}
    /\ UNCHANGED <<items, pipe, registered, status, selected, item, lock>>

\* ThreadPoolWorkQueue::message(): an item is taken, with the lock of the queue
\* only, and the pipe is read when it was the last.
TakeItem(t) ==
    /\ pool.at[t] = "io"
    /\ pool.handler[t] = WorkQueue
    /\ item[t] = None
    /\ items # <<>>
    /\ items' = Tail(items)
    /\ pipe' = IF Tail(items) = <<>> THEN pipe - 1 ELSE pipe
    /\ item' = [item EXCEPT ![t] = Head(items)]
    /\ status' = IF Head(items).kind = "finished"
                 THEN [status EXCEPT ![Head(items).of] = "finished"] ELSE status
    /\ UNCHANGED <<pool, readable, registered, selected, lock>>

\* The queue is empty: the pool is destroyed, and so ends the thread.
Exit(t) ==
    /\ lock = None
    /\ pool.at[t] = "io"
    /\ pool.handler[t] = WorkQueue
    /\ item[t] = None
    /\ items = <<>>
    /\ \E p \in IoCompleted(pool, t) : pool' = [p EXCEPT !.at[t] = "done"]
    /\ UNCHANGED <<items, pipe, readable, registered, status, selected, item, lock>>

\* May message() of t return?  A synchronous call waits for its reply, or for
\* its connection to be finished; a join for the thread.
MayReturn(t) ==
    /\ pool.at[t] \in {"io", "user"}
    /\ pool.handler[t] = WorkQueue => item[t] # None
    /\ item[t] # None =>
        CASE item[t].kind = "call" ->
                pool.at[t] = "user" /\ status[item[t].of] # "finishing"
          [] item[t].kind = "shutdown" -> pool.at[t] = "user"
          [] item[t].kind = "join" -> pool.at[item[t].of] = "shrunk"
          [] OTHER -> TRUE

\* run() counts the thread out, and enables its handler.
Returned(p, t) ==
    IF SizeMax = 1 THEN p
    ELSE IF p.at[t] = "io" THEN [p EXCEPT !.inUseIO = @ - 1]
    ELSE [p EXCEPT !.inUse = @ - 1, !.disabled = @ \ {p.handler[t]}]

\* The identity of a joined thread can be used again.
Joined(p, i) ==
    IF i # None /\ i.kind = "join" THEN [p EXCEPT !.at[i.of] = "none"] ELSE p

\* message() returns and the thread enters the monitor.
Return(t) ==
    /\ lock = None
    /\ MayReturn(t)
    /\ pool' \in LeadOrFollow(Joined(Returned(pool, t), item[t]), t)
    /\ item' = [item EXCEPT ![t] = None]
    /\ readable' \in {readable, readable \ {pool.handler[t]}}
    /\ UNCHANGED <<items, pipe, registered, status, selected, lock>>

-----------------------------------------------------------------------------

Step(t) ==
    \/ Enter(t) \/ Wake(t) \/ FollowerTimeout(t)
    \/ Select(t) \/ SelectTimeout(t) \/ FinishSelect(t)
    \/ CompleteIO(t) \/ TakeItem(t) \/ Exit(t) \/ Return(t)

Next ==
    \/ \E h \in Handlers : Execute(h) \/ Register(h) \/ Arrive(h) \/ Finish(h)
    \/ QueueFinished
    \/ Destroy
    \/ \E t \in Threads : Step(t)

\* Threads run, user code returns and a readable socket makes select() return.
\* Idle threads need not time out.
Fairness ==
    /\ WF_vars(QueueFinished)
    /\ \A t \in Threads :
        /\ WF_vars(Enter(t)) /\ WF_vars(Wake(t)) /\ WF_vars(Select(t))
        /\ WF_vars(FinishSelect(t)) /\ WF_vars(TakeItem(t)) /\ WF_vars(Exit(t))
        /\ WF_vars(CompleteIO(t) \/ Return(t))

Spec == Init /\ [][Next]_vars
FairSpec == Spec /\ Fairness

-----------------------------------------------------------------------------

AtPlace(place) == {t \in Threads : pool.at[t] = place}

\* There is exactly one leadership, held by a thread or on offer, so that
\* promoteFollower()'s assertion holds and a promotion is never lost; only the
\* leader selects, and only when no thread performs IO.
OneLeader ==
    /\ Cardinality(pool.leader) + (IF pool.promote THEN 1 ELSE 0) = 1
    /\ \A t \in AtPlace("select") \cup AtPlace("selected") :
        t \in pool.leader /\ pool.inUseIO = 0 /\ pool.handlers = <<>>

\* _inUseIO and _inUse count the threads in message() before and after
\* ioCompleted(), within SizeIO and the size of the pool (the assertions of
\* ioCompleted()), and the pool never has more than SizeMax threads, nor none.
CountsExact ==
    SizeMax > 1 =>
        /\ pool.inUseIO = Cardinality(AtPlace("io"))
        /\ pool.inUse = Cardinality(AtPlace("user")) + Cardinality(AtPlace("done"))
        /\ pool.inUseIO <= SizeIO
        /\ pool.inUse <= Cardinality(pool.threads)
        /\ Cardinality(pool.threads) \in 1 .. SizeMax

\* A handler that select() returned, and that run() keeps as a raw pointer, is
\* not finished (and may not be freed) before a thread has taken it.
HandlersAlive ==
    \A h \in Handlers : status[h] = "finished" =>
        /\ \A i \in 1 .. Len(pool.handlers) : pool.handlers[i] # h
        /\ \A t \in Threads : \A i \in 1 .. Len(selected[t]) : selected[t][i] # h

\* No two threads are in message() of the same handler before ioCompleted(), and
\* with ThreadPool.Serialize not after it either.
HandlersExclusive ==
    \A t, u \in Threads :
        (/\ t # u
         /\ pool.handler[t] = pool.handler[u]
         /\ pool.at[t] = "io"
         /\ pool.at[u] = "io" \/ (Serialize /\ pool.at[u] = "user"))
            => pool.handler[t] = None \/ pool.destroyed

\* The pipe of the work queue has one byte for the items in it and one when it is
\* destroyed, so that message() finds an item unless the pool is destroyed (its
\* assertion).  A thread ends only when every work item was taken: no handler is
\* left without its finished() call and no thread that was shrunk without its join.
WorkQueueExact ==
    /\ pipe = (IF items = <<>> THEN 0 ELSE 1) + (IF pool.destroyed THEN 1 ELSE 0)
    /\ \A t \in Threads :
        (/\ pool.at[t] = "io" /\ pool.handler[t] = WorkQueue
         /\ item[t] = None /\ items = <<>>) => pool.destroyed
    /\ AtPlace("done") # {} => items = <<>>

\* One thread at a time is the leader, the counters that decide about promotion and
\* growth, and the bytes in the work queue's pipe, are exact.
PoolExact == TypeOK /\ OneLeader /\ CountsExact /\ WorkQueueExact

\* A handler that a thread works on is not finished, and handlers that serialize are not
\* run by two threads.
HandlersSafe == HandlersAlive /\ HandlersExclusive

\* "_threads is immutable after destroy() has been called", which is why
\* joinWithAllThreads() needs no lock.
ThreadsImmutable == [][pool.destroyed => pool'.threads = pool.threads]_vars

\* A handler that is finished with the pool gets its finished() call.
FinishedCalled ==
    \A h \in Handlers : (status[h] = "finishing") ~> (status[h] = "finished")

\* Every thread of a destroyed pool ends, as joinWithAllThreads() requires.
DestroyedPoolEnds ==
    pool.destroyed ~> (\A t \in pool.threads : pool.at[t] = "done")

\* A handler that stays registered and readable gets its message() call.
ReadableServed ==
    \A h \in Handlers :
        []<>(h \notin registered \cap readable \/ \E t \in Threads : pool.handler[t] = h)

=============================================================================
