------------------------------- MODULE Timer -------------------------------
(***************************************************************************)
(* IceUtil::Timer (cpp/src/IceUtil/Timer.cpp): a dedicated thread runs     *)
(* one-shot and repeated tasks at their scheduled time.  Every public      *)
(* operation is one critical section of _monitor and is one action; the    *)
(* timer thread's loop is cut where it releases the monitor: in wait() and *)
(* timedWait(), and while a task runs.  Times are natural numbers and the  *)
(* monotonic clock advances by one; MaxTime bounds the clock.              *)
(***************************************************************************)
EXTENDS Naturals, FiniteSets

CONSTANTS
    Tasks,           \* the TimerTask objects
    OneShotDelays,   \* the delays given to schedule()
    RepeatDelays,    \* the delays given to scheduleRepeated()
    MaxTime,         \* bound: the clock stops at MaxTime
    RescheduleRepeated  \* may a cancelled repeated task be scheduled again?

NoTime == 0          \* IceUtil::Time(): "no wake-up time"

ASSUME TimerAssumption ==
    /\ OneShotDelays \subseteq Nat
    /\ RepeatDelays \subseteq Nat \ {0}
    /\ MaxTime \in Nat \ {0}
    /\ RescheduleRepeated \in BOOLEAN

VARIABLES
    now,        \* IceUtil::Time::now(Monotonic), from 1
    tasks,      \* _tasks: the scheduled time of every scheduled task
    tokens,     \* _tokens: [time, delay, task], ordered by (time, task)
    wakeUp,     \* _wakeUpTime
    destroyed,  \* _destroyed
    pc,         \* where the timer thread is
    token,      \* the timer thread's local token, as a set of at most one
    retired     \* repeated tasks that were cancelled

vars == <<now, tasks, tokens, wakeUp, destroyed, pc, token, retired>>

Token == [time : Nat \ {0}, delay : Nat, task : Tasks]

(***************************************************************************)
(* std::set<Token>::insert and erase.  Token::operator< compares the time  *)
(* and the task only, so two tokens that differ in their delay are equal.  *)
(***************************************************************************)
SameToken(a, b) == a.time = b.time /\ a.task = b.task

Insert(toks, tok) ==
    IF \E t \in toks : SameToken(t, tok) THEN toks ELSE toks \cup {tok}

Erase(toks, time, task) ==
    {t \in toks : ~(t.time = time /\ t.task = task)}

First(toks) == {t \in toks : \A u \in toks : t.time <= u.time}

\* map<TimerTaskPtr, Time>: insertion or update, and erasure of one key.
Put(m, t, time) == [u \in DOMAIN m \cup {t} |-> IF u = t THEN time ELSE m[u]]
Drop(m, t)      == [u \in DOMAIN m \ {t} |-> m[u]]

Init ==
    /\ now = 1
    /\ tasks = [t \in {} |-> NoTime]
    /\ tokens = {}
    /\ wakeUp = NoTime
    /\ destroyed = FALSE
    /\ pc = "top"
    /\ token = {}
    /\ retired = {}

\* _monitor.notify(): the timer thread is the only thread that waits.
Notify == pc' = IF pc \in {"idle", "timed"} THEN "woken" ELSE pc

\* Mutant of AddTask: the thread is woken only when it has no wake-up time.
AddTaskNoEarlierWakeUp(t, time, delay) ==
    /\ ~destroyed
    /\ t \notin DOMAIN tasks
    /\ tasks' = Put(tasks, t, time)
    /\ tokens' = Insert(tokens, [time |-> time, delay |-> delay, task |-> t])
    /\ IF wakeUp = NoTime THEN Notify ELSE UNCHANGED pc
    /\ UNCHANGED <<now, wakeUp, destroyed, token, retired>>

\* Mutant of AddTask: the timer thread is never notified.
AddTaskNoNotify(t, time, delay) ==
    /\ ~destroyed
    /\ t \notin DOMAIN tasks
    /\ tasks' = Put(tasks, t, time)
    /\ tokens' = Insert(tokens, [time |-> time, delay |-> delay, task |-> t])
    /\ UNCHANGED <<now, wakeUp, destroyed, pc, token, retired>>

\* The common part of schedule and scheduleRepeated; both throw when the timer
\* is destroyed or when the task is already scheduled.
AddTask(t, time, delay) ==
    /\ ~destroyed
    /\ t \notin DOMAIN tasks
    /\ tasks' = Put(tasks, t, time)
    /\ tokens' = Insert(tokens, [time |-> time, delay |-> delay, task |-> t])
    /\ IF wakeUp = NoTime \/ time < wakeUp THEN Notify ELSE UNCHANGED pc
    /\ UNCHANGED <<now, wakeUp, destroyed, token, retired>>

\* Mutant of Schedule: the token carries the delay instead of the time.
ScheduleRelative(t) ==
    \E d \in OneShotDelays :
        /\ t \in retired => RescheduleRepeated
        /\ AddTask(t, d, 0)

Schedule(t) ==
    \E d \in OneShotDelays :
        /\ t \in retired => RescheduleRepeated
        /\ AddTask(t, now + d, 0)

ScheduleRepeated(t) ==
    \E d \in RepeatDelays :
        /\ t \in retired => RescheduleRepeated
        /\ AddTask(t, now + d, d)

\* Repeated tasks that are queued, or that the thread runs right now.
IsRepeated(t) == \E k \in tokens \cup token : k.task = t /\ k.delay # 0

\* Mutant of Cancel: the token stays in the queue.
CancelKeepsToken(t) ==
    /\ ~destroyed
    /\ t \in DOMAIN tasks
    /\ tasks' = Drop(tasks, t)
    /\ retired' = IF IsRepeated(t) THEN retired \cup {t} ELSE retired
    /\ UNCHANGED <<now, tokens, wakeUp, destroyed, pc, token>>

\* cancel() returns false, and does nothing, in the other cases.
Cancel(t) ==
    /\ ~destroyed
    /\ t \in DOMAIN tasks
    /\ tokens' = Erase(tokens, tasks[t], t)
    /\ tasks' = Drop(tasks, t)
    /\ retired' = IF IsRepeated(t) THEN retired \cup {t} ELSE retired
    /\ UNCHANGED <<now, wakeUp, destroyed, pc, token>>

\* destroy(), up to the join with (or the detachment of) the timer thread.
Destroy ==
    /\ ~destroyed
    /\ destroyed' = TRUE
    /\ tokens' = {}
    /\ tasks' = [t \in {} |-> NoTime]
    /\ Notify
    /\ UNCHANGED <<now, wakeUp, token, retired>>

(***************************************************************************)
(* The inner while loop of run(), from the queue toks and the map tks the  *)
(* thread sees: it takes the first token when it is due, waits for it      *)
(* otherwise, and goes back to the outer loop when there is none.          *)
(***************************************************************************)
TakeToken(toks, tks) ==
    \E k \in First(toks) :
        IF k.time <= now
        THEN /\ token' = {k}
             /\ tokens' = toks \ {k}
             /\ tasks' = IF k.delay = 0 THEN Drop(tks, k.task) ELSE tks
             /\ pc' = "run"
             /\ UNCHANGED wakeUp
        ELSE /\ wakeUp' = k.time
             /\ pc' = "timed"
             /\ token' = {}
             /\ tokens' = toks
             /\ tasks' = tks

\* Which tokens and tasks the repeated task that just ran leaves behind.
Repeats == {k \in token : k.delay # 0 /\ k.task \in DOMAIN tasks}

RescheduledTokens ==
    IF Repeats = {} THEN tokens
    ELSE LET k == CHOOSE x \in Repeats : TRUE
         IN Insert(tokens, [k EXCEPT !.time = now + k.delay])

RescheduledTasks ==
    [t \in DOMAIN tasks |->
        IF \E k \in Repeats : k.task = t
        THEN now + (CHOOSE k \in Repeats : TRUE).delay
        ELSE tasks[t]]

\* The top of the outer loop: reschedule, then wait or look for a due token.
LoopTop ==
    /\ pc = "top"
    /\ UNCHANGED <<now, destroyed, retired>>
    /\ \/ /\ destroyed
          /\ pc' = "exit"
          /\ UNCHANGED <<tasks, tokens, wakeUp, token>>
       \/ /\ ~destroyed
          /\ RescheduledTokens = {}
          /\ wakeUp' = NoTime
          /\ pc' = "idle"
          /\ token' = {}
          /\ UNCHANGED <<tasks, tokens>>
       \/ /\ ~destroyed
          /\ RescheduledTokens # {}
          /\ TakeToken(RescheduledTokens, RescheduledTasks)

\* The thread comes back from wait() or timedWait().
Woken ==
    /\ pc = "woken"
    /\ UNCHANGED <<now, destroyed, retired>>
    /\ \/ /\ destroyed
          /\ pc' = "exit"
          /\ UNCHANGED <<tasks, tokens, wakeUp, token>>
       \/ /\ ~destroyed
          /\ tokens = {}
          /\ pc' = "top"
          /\ UNCHANGED <<tasks, tokens, wakeUp, token>>
       \/ /\ ~destroyed
          /\ tokens # {}
          /\ TakeToken(tokens, tasks)

\* timedWait() times out once the clock reaches the time it waits for.
WaitTimeout ==
    /\ pc = "timed"
    /\ wakeUp <= now
    /\ pc' = "woken"
    /\ UNCHANGED <<now, tasks, tokens, wakeUp, destroyed, token, retired>>

\* A condition variable may wake its waiter without a notification.
SpuriousWakeUp ==
    /\ pc \in {"idle", "timed"}
    /\ pc' = "woken"
    /\ UNCHANGED <<now, tasks, tokens, wakeUp, destroyed, token, retired>>

\* token.task->runTimerTask() returns; it runs outside the monitor.
TaskReturns ==
    /\ pc = "run"
    /\ pc' = "top"
    /\ UNCHANGED <<now, tasks, tokens, wakeUp, destroyed, token, retired>>

Tick ==
    /\ now < MaxTime
    /\ now' = now + 1
    /\ UNCHANGED <<tasks, tokens, wakeUp, destroyed, pc, token, retired>>

Next ==
    \/ \E t \in Tasks : Schedule(t) \/ ScheduleRepeated(t) \/ Cancel(t)
    \/ Destroy
    \/ LoopTop \/ Woken \/ WaitTimeout \/ SpuriousWakeUp \/ TaskReturns
    \/ Tick

\* The thread is scheduled, tasks return, and time passes.
Fairness ==
    /\ WF_vars(LoopTop) /\ WF_vars(Woken) /\ WF_vars(WaitTimeout)
    /\ WF_vars(TaskReturns)
    /\ WF_vars(Tick)

Spec == Init /\ [][Next]_vars /\ Fairness

-----------------------------------------------------------------------------

TypeOK ==
    /\ now \in Nat \ {0}
    /\ DOMAIN tasks \subseteq Tasks
    /\ tokens \subseteq Token
    /\ wakeUp \in Nat
    /\ destroyed \in BOOLEAN
    /\ pc \in {"top", "idle", "timed", "woken", "run", "exit"}
    /\ token \subseteq Token
    /\ retired \subseteq Tasks

\* _tasks and _tokens agree: every queued token is the one that _tasks records
\* for its task, so that cancel() finds it; and every scheduled task has its
\* token in the queue, except a repeated task that is running.
QueuesAgree ==
    /\ \A k \in tokens : k.task \in DOMAIN tasks /\ tasks[k.task] = k.time
    /\ \A t \in DOMAIN tasks :
        \/ \E k \in tokens : k.task = t /\ k.time = tasks[t]
        \/ \E k \in token : k.task = t /\ k.delay # 0

\* No lost wake-up: while the thread sleeps on an earlier deadline it computed
\* (or on none), no token is due before that deadline.
NoOversleep ==
    /\ pc = "idle" => tokens = {}
    /\ pc = "timed" => \A k \in tokens : wakeUp <= k.time

\* A task starts only while it is scheduled and the timer is not destroyed: a
\* task for which cancel() returned true, and a destroyed timer, run nothing.
StartsOnlyScheduled ==
    [][(pc # "run" /\ pc' = "run") =>
        /\ ~destroyed
        /\ \A k \in token' : k.task \in DOMAIN tasks /\ k.time <= now]_vars

\* A task that stays scheduled is run: its token leaves the queue once due, also
\* if other tasks are scheduled without delay again and again.  (At the last time
\* of the clock these would come first forever.)
EventuallyRuns ==
    \A t \in Tasks : \A m \in 1 .. MaxTime - 1 :
        (\E k \in tokens : k.task = t /\ k.time = m)
            ~> ~(\E k \in tokens : k.task = t /\ k.time = m)

\* The timer thread stops after destroy(), which is what lets its join return.
DestroyJoins == destroyed ~> (pc = "exit")

=============================================================================
